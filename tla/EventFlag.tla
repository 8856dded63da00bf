----------------------------- MODULE EventFlag ------------------------------
(***************************************************************************)
(* lib/event: a word of flags protected by a shared signal (a mutex with a *)
(* condition variable), and the functions every other component uses on it.*)
(*                                                                         *)
(*   lock_flag    EVENT_signal_lock_flag     wait until unset, then set    *)
(*   unlock_flag  EVENT_signal_unlock_flag   unset                         *)
(*   set_flag     EVENT_signal_set_flag      set, report what was new      *)
(*   unset_flag   EVENT_signal_unset_flag    unset, report what was set    *)
(*   wait_set     EVENT_signal_wait_flag_set     wait for any bit of mask  *)
(*   wait_unset   EVENT_signal_wait_flag_unset   wait for all bits gone    *)
(*   unlock_wait  EVENT_signal_unlock_wait       wait for a set-to-unset   *)
(*                                               change                    *)
(*                                                                         *)
(* Every call is one pass (or several, through the condition variable)     *)
(* over the same stages: acquire the mutex, test, block or update,         *)
(* broadcast, release.  A signal is shared by many words in the library;   *)
(* the broadcasts for the other words are the wakeups of SpuriousWakeup.   *)
(***************************************************************************)
EXTENDS Integers

CONSTANTS Threads,     \* threads that share the word
          LockFlags,   \* bits used as locks (lock_flag / unlock_flag only)
          StateFlags,  \* bits used as state (set, unset, waited for)
          NoThread     \* the mutex is free

ASSUME FlagAssumption == LockFlags \cap StateFlags = {}
ASSUME ThreadAssumption == NoThread \notin Threads

Flags == LockFlags \cup StateFlags
Masks == (SUBSET StateFlags) \ {{}}

LockCalls   == {"lock_flag", "unlock_flag"}
SetCalls    == {"set_flag", "unset_flag"}
WaitCalls   == {"wait_set", "wait_unset", "unlock_wait"}
Calls       == LockCalls \cup SetCalls \cup WaitCalls

\* Where a thread is inside one of the functions.
Stages == {"idle",      \* not in a call
           "acquire",   \* in EVENT_signal_lock
           "test",      \* has the mutex, about to test the word
           "blocked",   \* asleep in pthread_cond_(timed)wait
           "woken",     \* out of the wait, has to get the mutex again
           "update",    \* has the mutex, about to change the word
           "broadcast", \* has the mutex, about to wake the others
           "release"}   \* has the mutex, about to unlock and return

VARIABLES word,     \* *p_flags, as the set of its bits
          mutex,    \* who has the mutex of the signal
          stage,    \* stage[t]
          call,     \* call[t]: the function t is in and its arguments
          expired,  \* expired[t]: the last wait of t ended with ETIMEDOUT
          result,   \* result[t]: return value; {} stands for 0
          holders,  \* history: holders[f], who has lock bit f
          balance   \* history: successful sets minus successful unsets

vars == <<word, mutex, stage, call, expired, result, holders, balance>>

CallRecord == [fn : Calls, mask : SUBSET Flags, timed : BOOLEAN]

NoCall == [fn |-> "unlock_flag", mask |-> {}, timed |-> FALSE]

Init ==
    /\ word = {}
    /\ mutex = NoThread
    /\ stage = [t \in Threads |-> "idle"]
    /\ call = [t \in Threads |-> NoCall]
    /\ expired = [t \in Threads |-> FALSE]
    /\ result = [t \in Threads |-> {}]
    /\ holders = [f \in LockFlags |-> {}]
    /\ balance = [f \in StateFlags |-> 0]

-----------------------------------------------------------------------------
(* Calling.  A thread gives back only a bit it has and does not lock a bit *)
(* it already has, and waits for a state bit only with no lock bit in its  *)
(* hands: that is how the library's callers pair the calls.                *)

Begin(t, fn, mask, timed) ==
    /\ stage[t] = "idle"
    /\ stage' = [stage EXCEPT ![t] = "acquire"]
    /\ call' = [call EXCEPT ![t] = [fn |-> fn, mask |-> mask, timed |-> timed]]
    /\ expired' = [expired EXCEPT ![t] = FALSE]
    /\ result' = [result EXCEPT ![t] = {}]
    /\ UNCHANGED <<word, mutex, holders, balance>>

CallLockFlag(t, f) ==
    /\ t \notin holders[f]
    /\ Begin(t, "lock_flag", {f}, FALSE)

CallUnlockFlag(t, f) ==
    /\ t \in holders[f]
    /\ Begin(t, "unlock_flag", {f}, FALSE)

CallSetFlag(t, fn, mask) ==
    /\ fn \in SetCalls
    /\ Begin(t, fn, mask, FALSE)

CallWait(t, fn, mask, timed) ==
    /\ fn \in WaitCalls
    /\ \A f \in LockFlags : t \notin holders[f]
    /\ Begin(t, fn, mask, timed)

-----------------------------------------------------------------------------
(* The mutex and the condition variable (pthread).                         *)

\* pthread_mutex_lock, first or inside the return from a wait.
AcquireMutex(t) ==
    /\ stage[t] \in {"acquire", "woken"}
    /\ mutex = NoThread
    /\ mutex' = t
    /\ stage' = [stage EXCEPT ![t] = "test"]
    /\ UNCHANGED <<word, call, expired, result, holders, balance>>

\* EVENT_signal_wait: releases the mutex and sleeps in one step.
Sleep(t) ==
    /\ mutex' = NoThread
    /\ stage' = [stage EXCEPT ![t] = "blocked"]
    /\ UNCHANGED <<word, call, expired, result, holders, balance>>

\* Of a deadline whose nanoseconds are no part of a second nothing comes of this:
\* pthread_cond_timedwait returns EINVAL at once, and the caller goes round its
\* loop with the mutex.  Deadlines of that kind are left out.
Timeout(t) ==
    /\ stage[t] = "blocked"
    /\ call[t].timed
    /\ stage' = [stage EXCEPT ![t] = "woken"]
    /\ expired' = [expired EXCEPT ![t] = TRUE]
    /\ UNCHANGED <<word, mutex, call, result, holders, balance>>

SpuriousWakeup(t) ==
    /\ stage[t] = "blocked"
    /\ stage' = [stage EXCEPT ![t] = "woken"]
    /\ UNCHANGED <<word, mutex, call, expired, result, holders, balance>>

Wake(others) == [u \in Threads |->
    IF u \in others /\ stage[u] = "blocked" THEN "woken" ELSE stage[u]]

\* Mutant: unlock_flag without its broadcast.
BroadcastMutant(t) ==
    /\ stage[t] = "broadcast"
    /\ stage' = [stage EXCEPT ![t] = "release"]
    /\ UNCHANGED <<word, mutex, call, expired, result, holders, balance>>

Broadcast(t) ==
    /\ stage[t] = "broadcast"
    /\ stage' = [Wake(Threads) EXCEPT ![t] = "release"]
    /\ UNCHANGED <<word, mutex, call, expired, result, holders, balance>>

ReleaseMutex(t) ==
    /\ stage[t] = "release"
    /\ mutex' = NoThread
    /\ stage' = [stage EXCEPT ![t] = "idle"]
    /\ UNCHANGED <<word, call, expired, result, holders, balance>>

-----------------------------------------------------------------------------
(* The tests of the functions that wait.                                   *)

IsSet(t) == word \cap call[t].mask # {}

\* Mutant: a wait that is not a loop, the flag is tested once only.
TestLockFlagMutant(t) ==
    /\ stage[t] = "test"
    /\ call[t].fn = "lock_flag"
    /\ \/ IsSet(t) /\ ~expired[t] /\ mutex' = NoThread
          /\ stage' = [stage EXCEPT ![t] = "blocked"]
          /\ expired' = [expired EXCEPT ![t] = TRUE]
          /\ UNCHANGED <<word, call, result, holders, balance>>
       \/ /\ ~IsSet(t) \/ expired[t]
          /\ stage' = [stage EXCEPT ![t] = "update"]
          /\ UNCHANGED <<word, mutex, call, expired, result, holders, balance>>

\* while (*p_flags & flag) EVENT_signal_wait(esignal, NULL)
TestLockFlag(t) ==
    /\ stage[t] = "test"
    /\ call[t].fn = "lock_flag"
    /\ \/ IsSet(t) /\ Sleep(t)
       \/ /\ ~IsSet(t)
          /\ stage' = [stage EXCEPT ![t] = "update"]
          /\ UNCHANGED <<word, mutex, call, expired, result, holders, balance>>

\* The functions without a wait go straight to their update.
TestNothing(t) ==
    /\ stage[t] = "test"
    /\ call[t].fn \in {"unlock_flag"} \cup SetCalls
    /\ stage' = [stage EXCEPT ![t] = "update"]
    /\ UNCHANGED <<word, mutex, call, expired, result, holders, balance>>

Condition(t) == IF call[t].fn = "wait_set" THEN IsSet(t) ELSE ~IsSet(t)

\* event_signal_wait_flag_shared: the loop ends when the condition holds or
\* the wait timed out.
WaitFlag(t, success) ==
    /\ stage[t] = "test"
    /\ call[t].fn \in {"wait_set", "wait_unset"}
    /\ \/ ~Condition(t) /\ ~expired[t] /\ Sleep(t)
       \/ /\ Condition(t) \/ expired[t]
          /\ result' = [result EXCEPT ![t] = IF success THEN call[t].mask ELSE {}]
          /\ stage' = [stage EXCEPT ![t] = "release"]
          /\ UNCHANGED <<word, mutex, call, expired, holders, balance>>

\* Mutant: the timed out wait returns 0 without looking at the word again.
TestWaitFlagMutant(t) == WaitFlag(t, ~expired[t])

\* The condition is computed again after every wait, the timed out one too.
TestWaitFlag(t) == WaitFlag(t, Condition(t))

\* EVENT_signal_unlock_wait.  status is always the bit as it is now, so
\* (status==0) || (*p_flags & flag) is true whatever the word is: without an
\* error only a timeout ends the loop.
TestUnlockWait(t) ==
    /\ stage[t] = "test"
    /\ call[t].fn = "unlock_wait"
    /\ LET status == IsSet(t)
           goon == ~status \/ IsSet(t)
       IN \/ ~expired[t] /\ goon /\ Sleep(t)
          \/ /\ expired[t] \/ ~goon
             /\ result' = [result EXCEPT ![t] = IF expired[t] THEN {} ELSE call[t].mask]
             /\ stage' = [stage EXCEPT ![t] = "release"]
             /\ UNCHANGED <<word, mutex, call, expired, holders, balance>>

-----------------------------------------------------------------------------
(* The updates.                                                            *)

Update(t) == stage[t] = "update" /\ stage' = [stage EXCEPT ![t] = "broadcast"]

UpdateLockFlag(t) ==
    /\ Update(t)
    /\ call[t].fn = "lock_flag"
    /\ word' = word \cup call[t].mask
    /\ holders' = [f \in LockFlags |->
                     IF f \in call[t].mask THEN holders[f] \cup {t} ELSE holders[f]]
    /\ UNCHANGED <<mutex, call, expired, result, balance>>

UpdateUnlockFlag(t) ==
    /\ Update(t)
    /\ call[t].fn = "unlock_flag"
    /\ word' = word \ call[t].mask
    /\ holders' = [f \in LockFlags |->
                     IF f \in call[t].mask THEN holders[f] \ {t} ELSE holders[f]]
    /\ UNCHANGED <<mutex, call, expired, result, balance>>

\* The caller is told which bits it changed.
SetFlag(t, told) ==
    /\ Update(t)
    /\ call[t].fn = "set_flag"
    /\ word' = word \cup call[t].mask
    /\ result' = [result EXCEPT ![t] = told]
    /\ balance' = [f \in StateFlags |-> IF f \in told THEN balance[f] + 1 ELSE balance[f]]
    /\ UNCHANGED <<mutex, call, expired, holders>>

UnsetFlag(t, told) ==
    /\ Update(t)
    /\ call[t].fn = "unset_flag"
    /\ word' = word \ call[t].mask
    /\ result' = [result EXCEPT ![t] = told]
    /\ balance' = [f \in StateFlags |-> IF f \in told THEN balance[f] - 1 ELSE balance[f]]
    /\ UNCHANGED <<mutex, call, expired, holders>>

\* Mutant: the result does not look at what was set before.
UpdateSetFlagMutant(t) == SetFlag(t, call[t].mask)

UpdateSetFlag(t) == SetFlag(t, call[t].mask \ word)

\* Mutant: the whole old word is returned, not the part the caller asked about.
UpdateUnsetFlagMutant(t) == UnsetFlag(t, word)

UpdateUnsetFlag(t) == UnsetFlag(t, call[t].mask \cap word)

-----------------------------------------------------------------------------
Enter(t) ==
    \/ \E f \in LockFlags : CallLockFlag(t, f) \/ CallUnlockFlag(t, f)
    \/ \E fn \in SetCalls, mask \in Masks : CallSetFlag(t, fn, mask)
    \/ \E fn \in WaitCalls, mask \in Masks, timed \in BOOLEAN :
          CallWait(t, fn, mask, timed)

\* The steps of a thread inside a call, the asleep ones excluded.
Proceed(t) ==
    \/ TestLockFlag(t) \/ TestNothing(t) \/ TestWaitFlag(t) \/ TestUnlockWait(t)
    \/ UpdateLockFlag(t) \/ UpdateUnlockFlag(t) \/ UpdateSetFlag(t) \/ UpdateUnsetFlag(t)
    \/ Broadcast(t)
    \/ ReleaseMutex(t)

Step(t) == Enter(t) \/ AcquireMutex(t) \/ Proceed(t) \/ Timeout(t) \/ SpuriousWakeup(t)

Next == \E t \in Threads : Step(t)

Spec == Init /\ [][Next]_vars

\* A thread with the mutex goes on, the mutex does not starve a thread, the
\* clock runs, and a thread that has a lock bit gives it back.
Fairness == \A t \in Threads :
    /\ WF_vars(Proceed(t))
    /\ SF_vars(AcquireMutex(t))
    /\ WF_vars(Timeout(t))
    /\ \A f \in LockFlags : SF_vars(CallUnlockFlag(t, f))

FairSpec == Spec /\ Fairness

-----------------------------------------------------------------------------
\* Types of the variables; a function returns bits it was asked about only.
TypeOK ==
    /\ word \subseteq Flags
    /\ mutex \in Threads \cup {NoThread}
    /\ stage \in [Threads -> Stages]
    /\ call \in [Threads -> CallRecord]
    /\ expired \in [Threads -> BOOLEAN]
    /\ result \in [Threads -> SUBSET Flags]
    /\ \A t \in Threads : result[t] \subseteq call[t].mask
    /\ holders \in [LockFlags -> SUBSET Threads]
    /\ balance \in [StateFlags -> Int]

\* Two threads never have the same lock bit, and a bit that somebody has is
\* set in the word (EVENT_signal_lock_flag: the test and the set are made
\* under one hold of the mutex, also after a wait).
MutualExclusion == \A f \in LockFlags :
    /\ \A t, u \in holders[f] : t = u
    /\ holders[f] # {} => f \in word

\* No lost wakeup: a thread asleep in lock_flag, wait_set or wait_unset sleeps
\* on a word that really makes it wait, unless the thread that changed the
\* word is still on its way to the broadcast.
NoLostWakeup ==
    (\A t \in Threads : stage[t] # "broadcast") =>
        \A t \in Threads : stage[t] = "blocked" =>
            /\ call[t].fn \in {"lock_flag", "wait_unset"} => IsSet(t)
            /\ call[t].fn = "wait_set" => ~IsSet(t)

\* A wait that returns 1 returns while the condition holds, one that returns 0
\* has timed out and returns while the condition does not hold
\* (event_signal_wait_flag_shared tests again after ETIMEDOUT).
WaitResultExact == \A t \in Threads :
    (stage[t] = "release" /\ call[t].fn \in {"wait_set", "wait_unset"} /\ call[t].mask # {}) =>
        /\ (result[t] # {}) = Condition(t)
        /\ result[t] = {} => expired[t]

\* Of all the threads that set a bit exactly one is told it was the one that
\* set it, until somebody is told it unset it (EVENT_signal_set_flag's
\* result decides who does a thing once: BEVENTLOOP_stop, move to inactive).
OneWinner == \A f \in StateFlags : balance[f] = IF f \in word THEN 1 ELSE 0

\* The calls promise what FlagLock says.
Abstract == INSTANCE FlagLock
ImplementsFlagLock == Abstract!Spec

\* No wait lasts for ever: a bit that stays set ends every wait for it, and a
\* thread that sleeps on a lock bit is woken when the bit is given back
\* (EVENT_signal_wait_flag_set, EVENT_signal_unlock_flag).
WaitersServed == \A t \in Threads :
    /\ \A f \in StateFlags :
          <>[](f \in word) =>
              [](  (stage[t] # "idle" /\ call[t].fn = "wait_set" /\ f \in call[t].mask)
                => <>(stage[t] = "idle"))
    /\ (stage[t] = "blocked" /\ call[t].fn = "lock_flag") ~> stage[t] # "blocked"
=============================================================================
