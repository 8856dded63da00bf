------------------------------ MODULE FlagLock ------------------------------
(***************************************************************************)
(* What the flag functions of lib/event promise their callers: every bit   *)
(* used as a lock is held by at most one thread, it is taken only when     *)
(* nobody has it, and only its holder gives it back.  No mutex, no         *)
(* condition variable, no waiting: EventFlag implements this.              *)
(***************************************************************************)

CONSTANTS Threads,    \* threads that share the flag word
          LockFlags   \* bits of the word that are used as locks

VARIABLE holders      \* holders[f]: the threads that have bit f locked

Init == holders = [f \in LockFlags |-> {}]

Acquire(t, f) ==
    /\ holders[f] = {}
    /\ holders' = [holders EXCEPT ![f] = {t}]

Release(t, f) ==
    /\ holders[f] = {t}
    /\ holders' = [holders EXCEPT ![f] = {}]

Next == \E t \in Threads, f \in LockFlags : Acquire(t, f) \/ Release(t, f)

Spec == Init /\ [][Next]_holders
=============================================================================
