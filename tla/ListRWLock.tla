----------------------------- MODULE ListRWLock -----------------------------
(***************************************************************************)
(* lib/list/lock.c: the read/write lock of a list header, kept in the one  *)
(* word h->lockflags:                                                      *)
(*                                                                         *)
(*     4 * (number of readers)  +  2 (a writer is in)                      *)
(*                              +  1 (a writer waits, stop new readers)    *)
(*                                                                         *)
(* Every function runs under the mutex of h->esignal and leaves it only in *)
(* EVENT_signal_wait, so what a thread does between two waits is one step; *)
(* asleep holds the threads in a wait that no broadcast has reached yet.   *)
(***************************************************************************)
EXTENDS Integers, FiniteSets

CONSTANTS Threads,      \* threads that use the lock
          Crews,        \* the roles they may have: [Threads -> SUBSET Roles]
          Width,        \* width of lockflags in bits
          NoThread

Roles == {"read",       \* calls set_read_lock / unset_read_lock
          "write",      \* calls set_write_lock / unset_write_lock
          "upgrade",    \* a reader that also calls upgrade_read_lock
          "timeout",    \* passes a timeout to set_write_lock and upgrade
          "find", "add", "remove"}  \* uses a row of a hash table (HashTable)

ASSUME CrewAssumption == Crews \subseteq [Threads -> SUBSET Roles]
ASSUME LockThreadAssumption == NoThread \notin Threads /\ IsFiniteSet(Threads)

\* The word has room for every thread: adding a reader does not wrap.
ASSUME WidthAssumption ==
    Width \in Nat /\ 2 ^ Width \in Nat /\ 4 * Cardinality(Threads) + 3 < 2 ^ Width

VARIABLES crew,        \* who does what; never changes
          lockflags,   \* h->lockflags
          threadid,    \* h->threadid: owner of the write lock
          pc,          \* pc[t]: which loop of which function t is in
          asleep,      \* threads waiting for a broadcast
          mode         \* mode[t]: the lock the caller t believes to have

vars == <<crew, lockflags, threadid, pc, asleep, mode>>

Loops == {"read",     \* set_read_lock
          "write",    \* set_write_lock, first tests
          "write1",   \*   while (h->lockflags & 1)
          "write2",   \*   while (h->lockflags & 2)
          "write4",   \*   while (h->lockflags / 4)
          "upgrade",  \* upgrade_read_lock, first tests
          "upgrade2", \*   while (h->lockflags & 2)
          "upgrade4"} \*   while ((h->lockflags / 4) > 0)

Pending == lockflags % 2 = 1
Writing == (lockflags \div 2) % 2 = 1
Reading == lockflags \div 4

Init ==
    /\ crew \in Crews
    /\ lockflags = 0
    /\ threadid = NoThread
    /\ pc = [t \in Threads |-> "idle"]
    /\ asleep = {}
    /\ mode = [t \in Threads |-> "none"]

-----------------------------------------------------------------------------
Goto(t, loop) == pc' = [pc EXCEPT ![t] = loop]

\* EVENT_signal_wait in loop; the word may have been changed before it.
Wait(t, loop, flags) ==
    /\ lockflags' = flags
    /\ Goto(t, loop)
    /\ asleep' = asleep \cup {t}
    /\ UNCHANGED <<crew, threadid, mode>>

\* Any change of a word that shares the signal wakes everybody.
Wakeup(t) ==
    /\ t \in asleep
    /\ asleep' = asleep \ {t}
    /\ UNCHANGED <<crew, lockflags, threadid, pc, mode>>

Awake(t, loop) == pc[t] = loop /\ t \notin asleep

Call(t, loop) ==
    /\ pc[t] = "idle"
    /\ Goto(t, loop)
    /\ UNCHANGED <<crew, lockflags, threadid, asleep, mode>>

CallReadLock(t)    == "read" \in crew[t] /\ mode[t] = "none" /\ Call(t, "read")
CallWriteLock(t)   == "write" \in crew[t] /\ mode[t] = "none" /\ Call(t, "write")
CallUpgradeLock(t) == "upgrade" \in crew[t] /\ mode[t] = "read" /\ Call(t, "upgrade")

-----------------------------------------------------------------------------
(* Readers.                                                                *)

\* Mutant: only a writer that is in stops a reader, a waiting one does not.
set_read_lockMutant(t) ==
    /\ Awake(t, "read")
    /\ \/ Writing /\ Wait(t, "read", lockflags)
       \/ /\ ~Writing
          /\ lockflags' = lockflags + 4
          /\ mode' = [mode EXCEPT ![t] = "read"]
          /\ Goto(t, "idle")
          /\ UNCHANGED <<crew, threadid, asleep>>

\* LIST_header_set_read_lock; the timeout of its caller ends no wait.
set_read_lock(t) ==
    /\ Awake(t, "read")
    /\ \/ lockflags % 4 > 0 /\ Wait(t, "read", lockflags)
       \/ /\ lockflags % 4 = 0
          /\ lockflags' = lockflags + 4
          /\ mode' = [mode EXCEPT ![t] = "read"]
          /\ Goto(t, "idle")
          /\ UNCHANGED <<crew, threadid, asleep>>

\* The callers of unset_read_lock do not look at its result.
LeaveRead(t, counted, woken) ==
    /\ pc[t] = "idle" /\ mode[t] = "read"
    /\ mode' = [mode EXCEPT ![t] = "none"]
    /\ \/ counted /\ lockflags' = lockflags - 4 /\ asleep' = asleep \ woken
       \/ ~counted /\ UNCHANGED <<lockflags, asleep>>
    /\ UNCHANGED <<crew, threadid, pc>>

\* Mutant: the last reader tells nobody.
unset_read_lockMutant(t) == LeaveRead(t, lockflags > 3, {})

unset_read_lock(t) == LeaveRead(t, lockflags > 3, asleep)

-----------------------------------------------------------------------------
(* Writers.                                                                *)

SetPending == IF Pending THEN lockflags ELSE lockflags + 1

\* h->lockflags = 2, h->threadid = pthread_self(), broadcast.
TakeWrite(t, owner) ==
    /\ lockflags' = 2
    /\ threadid' = owner
    /\ mode' = [mode EXCEPT ![t] = "write"]
    /\ Goto(t, "idle")
    /\ asleep' = {}
    /\ UNCHANGED crew

set_write_lock(t) ==
    /\ Awake(t, "write")
    /\ \/ Pending /\ Wait(t, "write1", lockflags)
       \/ ~Pending /\ Writing /\ Wait(t, "write2", SetPending)
       \/ ~Pending /\ ~Writing /\ Reading > 0 /\ Wait(t, "write4", SetPending)
       \/ lockflags = 0 /\ TakeWrite(t, t)

set_write_lock1(t) ==
    /\ Awake(t, "write1")
    /\ \/ Pending /\ Wait(t, "write1", lockflags)
       \/ ~Pending /\ Writing /\ Wait(t, "write2", SetPending)
       \/ ~Pending /\ ~Writing /\ TakeWrite(t, t)

\* Mutant: the wait for the other writer is not a loop.
set_write_lock2Mutant(t) ==
    /\ Awake(t, "write2")
    /\ TakeWrite(t, t)

set_write_lock2(t) ==
    /\ Awake(t, "write2")
    /\ \/ Writing /\ Wait(t, "write2", lockflags)
       \/ ~Writing /\ TakeWrite(t, t)

\* Mutant: the wait for the readers is not a loop.
set_write_lock4Mutant(t) ==
    /\ Awake(t, "write4")
    /\ TakeWrite(t, t)

set_write_lock4(t) ==
    /\ Awake(t, "write4")
    /\ \/ Reading > 0 /\ Wait(t, "write4", lockflags)
       \/ Reading = 0 /\ TakeWrite(t, t)

\* ETIMEDOUT: return 0, with lockflags as they are.  An upgrade that failed is
\* a lock its caller has lost (the hashtable locks again from the start).
Timeout(t) ==
    /\ "timeout" \in crew[t]
    /\ pc[t] \in {"write1", "write2", "write4", "upgrade2", "upgrade4"}
    /\ Goto(t, "idle")
    /\ mode' = [mode EXCEPT ![t] = "none"]
    /\ asleep' = asleep \ {t}
    /\ UNCHANGED <<crew, lockflags, threadid>>

\* The callers of unset_write_lock do not look at its result either.
unset_write_lock(t) ==
    /\ pc[t] = "idle" /\ mode[t] = "write"
    /\ mode' = [mode EXCEPT ![t] = "none"]
    /\ \/ /\ threadid = t /\ lockflags % 4 > 0
          /\ lockflags' = 0
          /\ threadid' = NoThread
          /\ asleep' = {}
       \/ /\ ~(threadid = t /\ lockflags % 4 > 0)
          /\ UNCHANGED <<lockflags, threadid, asleep>>
    /\ UNCHANGED <<crew, pc>>

-----------------------------------------------------------------------------
(* Upgrade.  The test lockflags % 3 stands where the write bits are meant, *)
(* and lockflags % 1 is 0 for every value: the retry it guards is never    *)
(* taken.                                                                  *)

Minus4 == IF lockflags >= 4 THEN lockflags - 4 ELSE lockflags - 4 + 2 ^ Width

upgrade_read_lock(t) ==
    /\ Awake(t, "upgrade")
    /\ LET flags == Minus4 + 1 IN
       \/ lockflags % 3 > 0 /\ (flags \div 2) % 2 = 1 /\ Wait(t, "upgrade2", flags)
       \/ lockflags % 3 > 0 /\ (flags \div 2) % 2 = 0 /\ TakeWrite(t, threadid)
       \/ lockflags % 3 = 0 /\ Reading > 0 /\ Wait(t, "upgrade4", (lockflags + 1) % 2 ^ Width)
       \/ lockflags % 3 = 0 /\ Reading = 0 /\ TakeWrite(t, threadid)

upgrade_read_lock2(t) ==
    /\ Awake(t, "upgrade2")
    /\ \/ Writing /\ Wait(t, "upgrade2", lockflags)
       \/ ~Writing /\ TakeWrite(t, threadid)

upgrade_read_lock4(t) ==
    /\ Awake(t, "upgrade4")
    /\ \/ Reading > 0 /\ Wait(t, "upgrade4", lockflags)
       \/ Reading = 0 /\ TakeWrite(t, threadid)

-----------------------------------------------------------------------------
Upgrade(t) == upgrade_read_lock(t) \/ upgrade_read_lock2(t) \/ upgrade_read_lock4(t)

Write(t) == \/ set_write_lock(t) \/ set_write_lock1(t)
            \/ set_write_lock2(t) \/ set_write_lock4(t)

Step(t) ==
    \/ CallReadLock(t) \/ set_read_lock(t) \/ unset_read_lock(t)
    \/ CallWriteLock(t) \/ Write(t) \/ Timeout(t) \/ unset_write_lock(t)
    \/ CallUpgradeLock(t) \/ Upgrade(t)
    \/ Wakeup(t)

Next == \E t \in Threads : Step(t)

Spec == Init /\ [][Next]_vars

\* What a thread does by itself, once it has called: go on when it can, and
\* give back the lock it has.
Proceed(t) == set_read_lock(t) \/ Write(t) \/ Upgrade(t) \/ unset_read_lock(t) \/ unset_write_lock(t)

-----------------------------------------------------------------------------
InMode(m) == {t \in Threads : mode[t] = m}
Waiting == {t \in Threads : pc[t] # "idle"}
Having(role) == {t \in Threads : role \in crew[t]}

\* One writer among the readers, or writers only; and nobody upgrades.
Orderly == /\ Having("upgrade") = {}
           /\ Cardinality(Having("write")) <= 1 \/ Having("read") = {}

\* "now exclusive access" (list/lock.c:140 and 197): with a writer in there is
\* no other writer and no reader.
Exclusive == \A t \in InMode("write") : \A u \in Threads \ {t} : mode[u] = "none"

\* The lock keeps that promise to one writer among any readers, and to
\* writers among themselves, timeouts or not.
OrderlyExclusive == Orderly => Exclusive

\* lockflags counts what is really there: every reader, and the writer; and
\* h->threadid names a thread only while that thread is in and the writer bit is
\* set: an owner left behind could release a later writer's lock.  One thread that
\* upgrades does not break this; two do, the second one wraps the word to 0.
FlagsExact ==
    /\ Orderly => /\ Reading = Cardinality(InMode("read"))
                  /\ Writing <=> InMode("write") # {}
    /\ Cardinality(Having("upgrade")) <= 1 /\ threadid # NoThread =>
          Writing /\ threadid \in InMode("write")

\* When all who wait are asleep, somebody has the lock and will wake them:
\* unset_read_lock and unset_write_lock broadcast, and leave no stale bits.
NoForgottenSleeper ==
    (Orderly /\ Having("timeout") = {} /\ Waiting # {} /\ Waiting \subseteq asleep) =>
        InMode("read") \cup InMode("write") # {}

\* A writer stops new readers, so it gets in when the present ones leave.
WriterServed == \A t \in Threads :
    (pc[t] = "write" /\ Orderly /\ Having("write") = {t} /\ Having("timeout") = {})
        ~> mode[t] = "write"
=============================================================================
