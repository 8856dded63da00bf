-------------------------- MODULE HashTableProofs ---------------------------
(***************************************************************************)
(* Proofs about ListRWLock, and about HashTable, which is built on it: any *)
(* number of threads, any crews, any row.                                  *)
(***************************************************************************)
EXTENDS HashTable, FiniteSetTheorems, TLAPS

\* The types of the lock.
LockTypeOK ==
    /\ crew \in [Threads -> SUBSET Roles]
    /\ lockflags \in Nat
    /\ threadid \in Threads \cup {NoThread}
    /\ pc \in [Threads -> Loops \cup {"idle"}]
    /\ asleep \subseteq Threads
    /\ mode \in [Threads -> {"none", "read", "write"}]

WriteLoops == {"write", "write1", "write2", "write4"}
UpgradeLoops == {"upgrade", "upgrade2", "upgrade4"}

\* Who is in a function has the role for it, and the lock it starts from; who
\* is asleep is in one of the loops with a wait.
PlaceInv == \A t \in Threads :
    /\ pc[t] \in {"read"} \cup WriteLoops => mode[t] = "none"
    /\ pc[t] \in UpgradeLoops => mode[t] = "read" /\ "upgrade" \in crew[t]
    /\ pc[t] = "read" => "read" \in crew[t]
    /\ pc[t] \in WriteLoops => "write" \in crew[t]
    /\ mode[t] = "read" => "read" \in crew[t]
    /\ mode[t] = "write" => pc[t] = "idle" /\ crew[t] \cap {"write", "upgrade"} # {}
    /\ t \in asleep => pc[t] \notin {"idle", "write", "upgrade"}

\* With at most one thread that upgrades, the owner is in, with the writer bit
\* set; and when the word counts more than the writer, which only the wrap of an
\* upgrade brings about, the thread that upgrades is the one that did it.
OneUpgrader == \A t, u \in Having("upgrade") : t = u

OwnerInv == OneUpgrader /\ threadid # NoThread =>
    /\ Writing
    /\ mode[threadid] = "write"
    /\ lockflags > 3 => \A u \in Having("upgrade") : mode[u] = "read" => pc[u] = "upgrade2"

\* Without upgrades, what a sleeper waits for is still so.
SleepInv == Having("upgrade") = {} => \A t \in asleep :
    /\ pc[t] = "read" => lockflags % 4 > 0
    /\ pc[t] = "write1" => Pending
    /\ pc[t] = "write2" => Writing
    /\ pc[t] = "write4" => Reading > 0

\* Without upgrades and timeouts, the bit of a waiting writer has its writer.
PendingInv == Having("upgrade") = {} /\ Having("timeout") = {} /\ Pending =>
    \E t \in Threads : pc[t] \in {"write2", "write4"}

OneWriter == \A t, u \in Having("write") : t = u

\* In an orderly crew the word is exact and the writer the owner; one writer alone
\* never waits for another one, and one that found the bit set finds it set for
\* good; writers alone never wait for readers.
WordInv == Orderly =>
    /\ Reading = Cardinality(InMode("read"))
    /\ Writing <=> InMode("write") # {}
    /\ \A t \in InMode("write") : threadid = t
    /\ Exclusive
    /\ OneWriter /\ Having("read") # {} => \A t \in Threads :
          pc[t] # "write2" /\ (pc[t] = "write1" => Pending)
    /\ Having("read") = {} => \A t \in Threads : pc[t] # "write4"

LockInv == LockTypeOK /\ PlaceInv /\ OwnerInv /\ SleepInv /\ PendingInv /\ WordInv

\* The types of the table.
TableTypeOK ==
    /\ crew \in Crews
    /\ live \in BOOLEAN
    /\ lastid \in Nat
    /\ row \in Seq(Elements)
    /\ id \in [Elements -> Nat \cup {NoId}]
    /\ asked \in [Threads -> Nat \cup {NoId}]
    /\ at \in [Threads -> Elements \cup {NoElement}]
    /\ handed \in [Elements -> Nat]
    /\ crashed \in BOOLEAN

\* Only a finder looks for an id; a user between two calls has no element in hand;
\* a table that is not live is empty and has nobody in a call.
SlotInv ==
    /\ \A t \in Threads : asked[t] # NoId => "find" \in crew[t]
    /\ \A t \in Users : pc[t] = "idle" /\ mode[t] = "none" => at[t] = NoElement
    /\ ~live => row = <<>> /\ \A t \in Users : pc[t] = "idle" /\ mode[t] = "none"

\* HandedOnce, with the row known to have every element once.
In(e) == IF e \in ToSet(row) THEN 1 ELSE 0

CountInv == (Delivering /\ ~crashed) =>
    /\ IsInjective(row)
    /\ \A e \in Elements :
          handed[e] + Cardinality(InHand(e)) + Cardinality(Adding(e)) + In(e)
              = IF id[e] = NoId THEN 0 ELSE 1

TableInv == LockInv /\ TableTypeOK /\ SlotInv /\ CountInv

-----------------------------------------------------------------------------
(* The word.                                                               *)

\* The parts of lockflags, and what the updates of lock.c do to them.
LEMMA WordParts ==
    ASSUME NEW n \in Nat
    PROVE  /\ n \div 4 \in Nat /\ n % 2 \in {0, 1} /\ (n \div 2) % 2 \in {0, 1}
           /\ n = 4 * (n \div 4) + 2 * ((n \div 2) % 2) + (n % 2)
           /\ n % 4 = 2 * ((n \div 2) % 2) + (n % 2)
OBVIOUS

LEMMA WordPlus1 ==
    ASSUME NEW n \in Nat, n % 2 = 0
    PROVE  /\ (n + 1) % 2 = 1 /\ ((n + 1) \div 2) % 2 = (n \div 2) % 2
           /\ (n + 1) \div 4 = n \div 4
OBVIOUS

LEMMA WordPlus4 ==
    ASSUME NEW n \in Nat
    PROVE  /\ (n + 4) % 2 = n % 2 /\ ((n + 4) \div 2) % 2 = (n \div 2) % 2
           /\ (n + 4) \div 4 = n \div 4 + 1
OBVIOUS

LEMMA WordMinus4 ==
    ASSUME NEW n \in Nat, n > 3
    PROVE  /\ n - 4 \in Nat
           /\ (n - 4) % 2 = n % 2 /\ ((n - 4) \div 2) % 2 = (n \div 2) % 2
           /\ (n - 4) \div 4 = n \div 4 - 1
OBVIOUS

LEMMA WordValues ==
    /\ 2 % 2 = 0 /\ (2 \div 2) % 2 = 1 /\ 2 \div 4 = 0
    /\ 0 % 2 = 0 /\ (0 \div 2) % 2 = 0 /\ 0 \div 4 = 0
OBVIOUS

LEMMA SetPendingParts ==
    ASSUME lockflags \in Nat
    PROVE  /\ SetPending \in Nat /\ SetPending % 2 = 1 /\ SetPending % 4 > 0
           /\ (SetPending \div 2) % 2 = (lockflags \div 2) % 2
           /\ SetPending \div 4 = lockflags \div 4
<1>1. CASE Pending
  <2>1. SetPending = lockflags
    BY <1>1 DEF SetPending
  <2> QED
    BY <1>1, <2>1, WordParts DEF Pending
<1>2. CASE ~Pending
  <2>1. SetPending = lockflags + 1 /\ lockflags % 2 = 0
    BY <1>2, WordParts DEF SetPending, Pending
  <2>2. (lockflags + 1) % 4 > 0
    BY <2>1
  <2> QED
    BY <2>1, <2>2, WordPlus1
<1> QED
  BY <1>1, <1>2

\* A set of at most one element, as the quantifiers say it.
LEMMA AtMostOne ==
    ASSUME NEW S, IsFiniteSet(S), Cardinality(S) <= 1
    PROVE  \A x, y \in S : x = y
<1> SUFFICES ASSUME NEW x \in S, NEW y \in S, x # y
             PROVE  FALSE
  OBVIOUS
<1>1. IsFiniteSet(S \ {x}) /\ Cardinality(S \ {x}) = Cardinality(S) - 1
  BY FS_RemoveElement
<1>2. Cardinality(S \ {x}) \in Nat /\ Cardinality(S) \in Nat
  BY <1>1, FS_CardinalityType
<1>3. Cardinality(S \ {x}) = 0
  BY <1>1, <1>2
<1> QED
  BY <1>1, <1>3, FS_EmptySet

-----------------------------------------------------------------------------
(* Steps of the lock.                                                      *)

\* The roles never change.
LEMMA CrewFixed ==
    ASSUME NEW t \in Threads, Step(t)
    PROVE  crew' = crew
BY DEF Step, CallReadLock, CallWriteLock, CallUpgradeLock, Call, set_read_lock, Wait,
       unset_read_lock, LeaveRead, Write, set_write_lock, set_write_lock1, set_write_lock2,
       set_write_lock4, TakeWrite, Timeout, unset_write_lock, Upgrade, upgrade_read_lock,
       upgrade_read_lock2, upgrade_read_lock4, Wakeup

LEMMA LockTypeStep ==
    ASSUME LockTypeOK, NEW t \in Threads, Step(t)
    PROVE  LockTypeOK'
<1> USE DEF LockTypeOK, Loops, Goto
<1> DEFINE Power == 2 ^ Width
<1>0. Power \in Nat /\ Power > 3
  BY WidthAssumption, LockThreadAssumption, FS_CardinalityType
<1>1. CASE CallReadLock(t) \/ CallWriteLock(t) \/ CallUpgradeLock(t)
  BY <1>1 DEF CallReadLock, CallWriteLock, CallUpgradeLock, Call
<1>2. CASE set_read_lock(t)
  BY <1>2 DEF set_read_lock, Wait
<1>3. CASE unset_read_lock(t)
  BY <1>3, WordMinus4 DEF unset_read_lock, LeaveRead
<1>4. CASE Write(t)
  <2>1. SetPending \in Nat
    BY DEF SetPending
  <2> QED
    BY <1>4, <2>1
    DEF Write, set_write_lock, set_write_lock1, set_write_lock2, set_write_lock4, Wait,
        TakeWrite
<1>5. CASE Timeout(t)
  BY <1>5 DEF Timeout
<1>6. CASE unset_write_lock(t)
  BY <1>6 DEF unset_write_lock
<1>7. CASE Upgrade(t)
  <2>1. Minus4 + 1 \in Nat
    BY <1>0 DEF Minus4
  <2>2. (lockflags + 1) % Power \in Nat
    BY <1>0
  <2> QED
    BY <1>7, <2>1, <2>2
    DEF Upgrade, upgrade_read_lock, upgrade_read_lock2, upgrade_read_lock4, Wait, TakeWrite
<1>8. CASE Wakeup(t)
  BY <1>8 DEF Wakeup
<1> QED
  BY <1>1, <1>2, <1>3, <1>4, <1>5, <1>6, <1>7, <1>8 DEF Step

LEMMA PlaceStep ==
    ASSUME LockTypeOK, PlaceInv, NEW t \in Threads, Step(t)
    PROVE  PlaceInv'
<1> USE DEF LockTypeOK, Loops, Goto, PlaceInv, WriteLoops, UpgradeLoops
<1>1. CASE CallReadLock(t) \/ CallWriteLock(t) \/ CallUpgradeLock(t)
  BY <1>1 DEF CallReadLock, CallWriteLock, CallUpgradeLock, Call
<1>2. CASE set_read_lock(t)
  BY <1>2 DEF set_read_lock, Wait, Awake
<1>3. CASE unset_read_lock(t)
  BY <1>3 DEF unset_read_lock, LeaveRead
<1>4. CASE Write(t)
  BY <1>4
  DEF Write, set_write_lock, set_write_lock1, set_write_lock2, set_write_lock4, Wait,
      TakeWrite, Awake
<1>5. CASE Timeout(t)
  BY <1>5 DEF Timeout
<1>6. CASE unset_write_lock(t)
  BY <1>6 DEF unset_write_lock
<1>7. CASE Upgrade(t)
  BY <1>7
  DEF Upgrade, upgrade_read_lock, upgrade_read_lock2, upgrade_read_lock4, Wait, TakeWrite,
      Awake
<1>8. CASE Wakeup(t)
  BY <1>8 DEF Wakeup
<1> QED
  BY <1>1, <1>2, <1>3, <1>4, <1>5, <1>6, <1>7, <1>8 DEF Step

LEMMA OwnerStep ==
    ASSUME LockTypeOK, PlaceInv, OwnerInv, NEW t \in Threads, Step(t)
    PROVE  OwnerInv'
<1> USE DEF LockTypeOK, Loops, Goto
<1>0. OneUpgrader' <=> OneUpgrader
  BY CrewFixed DEF OneUpgrader, Having
<1> SUFFICES ASSUME OneUpgrader, threadid' # NoThread
             PROVE  /\ Writing' /\ mode'[threadid'] = "write"
                    /\ lockflags' > 3 => \A u \in Having("upgrade")' :
                          mode'[u] = "read" => pc'[u] = "upgrade2"
  BY <1>0 DEF OwnerInv
<1> USE DEF OwnerInv, Having
<1>1. CASE CallReadLock(t) \/ CallWriteLock(t) \/ CallUpgradeLock(t)
  BY <1>1 DEF CallReadLock, CallWriteLock, CallUpgradeLock, Call, Writing
<1>2. CASE set_read_lock(t)
  BY <1>2, WordParts DEF set_read_lock, Wait, Awake, PlaceInv, Writing
<1>3. CASE unset_read_lock(t)
  BY <1>3, WordMinus4 DEF unset_read_lock, LeaveRead, Writing
<1>4. CASE Write(t)
  <2>1. ASSUME NEW loop \in Loops, Wait(t, loop, lockflags), pc[t] \in WriteLoops
        PROVE  OwnerInv'
    BY <1>0, <2>1 DEF Wait, Writing, PlaceInv, WriteLoops
  <2>2. ASSUME NEW loop \in Loops, Wait(t, loop, SetPending), pc[t] \in WriteLoops
        PROVE  OwnerInv'
    BY <1>0, <2>2, WordPlus1 DEF Wait, SetPending, Pending, Writing, PlaceInv, WriteLoops
  <2>3. CASE TakeWrite(t, t)
    BY <2>3, WordValues DEF TakeWrite, Writing
  <2> QED
    BY <1>4, <1>0, <2>1, <2>2, <2>3
    DEF Write, set_write_lock, set_write_lock1, set_write_lock2, set_write_lock4, Awake,
        WriteLoops
<1>5. CASE Timeout(t)
  BY <1>5 DEF Timeout, Writing, PlaceInv, WriteLoops, UpgradeLoops
<1>6. CASE unset_write_lock(t)
  BY <1>6, WordParts DEF unset_write_lock, Writing
<1>7. CASE Upgrade(t)
  <2>1. CASE TakeWrite(t, threadid)
    BY <2>1, WordValues DEF TakeWrite, Writing
  <2>2. ASSUME NEW loop \in {"upgrade2", "upgrade4"}, Awake(t, loop), Wait(t, loop, lockflags)
        PROVE  OwnerInv'
    BY <1>0, <2>2 DEF Awake, Wait, Writing
  <2>3. ASSUME upgrade_read_lock(t), threadid # NoThread
        PROVE  lockflags \in {2, 3}
    BY <2>3, WordParts DEF upgrade_read_lock, Awake, PlaceInv, UpgradeLoops, Writing
  <2>4. CASE upgrade_read_lock(t) /\ ~TakeWrite(t, threadid)
    <3>1. Wait(t, "upgrade2", Minus4 + 1) /\ ((Minus4 + 1) \div 2) % 2 = 1
      BY <2>3, <2>4 DEF upgrade_read_lock, Wait, Reading
    <3> QED
      BY <3>1, <2>4, <2>3 DEF Wait, Writing, OneUpgrader, PlaceInv, UpgradeLoops, upgrade_read_lock, Awake
  <2> QED
    BY <1>7, <1>0, <2>1, <2>2, <2>4 DEF Upgrade, upgrade_read_lock2, upgrade_read_lock4
<1>8. CASE Wakeup(t)
  BY <1>8 DEF Wakeup, Writing
<1> QED
  BY <1>1, <1>2, <1>3, <1>4, <1>5, <1>6, <1>7, <1>8 DEF Step

\* Only a thread with the role upgrades.
LEMMA NoUpgradeStep ==
    ASSUME PlaceInv, Having("upgrade") = {}, NEW t \in Threads
    PROVE  ~CallUpgradeLock(t) /\ ~Upgrade(t)
BY DEF PlaceInv, Having, UpgradeLoops, CallUpgradeLock, Upgrade, upgrade_read_lock,
       upgrade_read_lock2, upgrade_read_lock4, Awake

LEMMA SleepStep ==
    ASSUME LockTypeOK, PlaceInv, SleepInv, NEW t \in Threads, Step(t)
    PROVE  SleepInv'
<1> USE DEF LockTypeOK, Loops, Goto
<1>0. Having("upgrade")' = Having("upgrade")
  BY CrewFixed DEF Having
<1> SUFFICES ASSUME Having("upgrade") = {}, NEW u \in asleep'
             PROVE  /\ pc'[u] = "read" => lockflags' % 4 > 0
                    /\ pc'[u] = "write1" => Pending'
                    /\ pc'[u] = "write2" => Writing'
                    /\ pc'[u] = "write4" => Reading' > 0
  BY <1>0 DEF SleepInv
<1> USE DEF SleepInv, Pending, Writing, Reading
<1>1. CASE CallReadLock(t) \/ CallWriteLock(t)
  BY <1>1 DEF CallReadLock, CallWriteLock, Call, PlaceInv
<1>2. CASE set_read_lock(t)
  BY <1>2, WordParts, WordPlus4 DEF set_read_lock, Wait, Awake
<1>3. CASE unset_read_lock(t)
  BY <1>3 DEF unset_read_lock, LeaveRead
<1>4. CASE Write(t)
  <2> QED
    BY <1>4, SetPendingParts
    DEF Write, set_write_lock, set_write_lock1, set_write_lock2, set_write_lock4, Wait,
        TakeWrite
<1>5. CASE Timeout(t)
  BY <1>5 DEF Timeout
<1>6. CASE unset_write_lock(t)
  BY <1>6 DEF unset_write_lock
<1>8. CASE Wakeup(t)
  BY <1>8 DEF Wakeup
<1> QED
  BY <1>1, <1>2, <1>3, <1>4, <1>5, <1>6, <1>8, NoUpgradeStep DEF Step

LEMMA PendingStep ==
    ASSUME LockTypeOK, PlaceInv, PendingInv, NEW t \in Threads, Step(t)
    PROVE  PendingInv'
<1> USE DEF LockTypeOK, Loops, Goto
<1>0. Having("upgrade")' = Having("upgrade") /\ Having("timeout")' = Having("timeout")
  BY CrewFixed DEF Having
<1> SUFFICES ASSUME Having("upgrade") = {}, Having("timeout") = {}, Pending'
             PROVE  \E u \in Threads : pc'[u] \in {"write2", "write4"}
  BY <1>0 DEF PendingInv
<1> USE DEF PendingInv, Pending
<1>1. CASE CallReadLock(t) \/ CallWriteLock(t)
  BY <1>1 DEF CallReadLock, CallWriteLock, Call
<1>2. CASE set_read_lock(t)
  BY <1>2, WordParts, WordPlus4 DEF set_read_lock, Wait, Awake
<1>3. CASE unset_read_lock(t)
  BY <1>3, WordMinus4 DEF unset_read_lock, LeaveRead
<1>4. CASE Write(t)
  <2>1. CASE TakeWrite(t, t)
    BY <2>1, WordValues DEF TakeWrite
  <2>2. CASE Wait(t, "write1", lockflags) /\ pc[t] \in {"write", "write1"}
    BY <2>2 DEF Wait
  <2>3. ASSUME NEW loop \in {"write2", "write4"}, NEW flags, Wait(t, loop, flags)
        PROVE  pc'[t] \in {"write2", "write4"}
    BY <2>3 DEF Wait
  <2> QED
    BY <1>4, <2>1, <2>2, <2>3
    DEF Write, set_write_lock, set_write_lock1, set_write_lock2, set_write_lock4, Awake
<1>5. CASE Timeout(t)
  BY <1>5 DEF Timeout, Having
<1>6. CASE unset_write_lock(t)
  BY <1>6, WordValues DEF unset_write_lock
<1>8. CASE Wakeup(t)
  BY <1>8 DEF Wakeup
<1> QED
  BY <1>1, <1>2, <1>3, <1>4, <1>5, <1>6, <1>8, NoUpgradeStep DEF Step

\* What the crews of an orderly lock are.
LEMMA OrderlyCrew ==
    ASSUME LockTypeOK, PlaceInv, Orderly
    PROVE  /\ Having("upgrade") = {}
           /\ Having("read") # {} => OneWriter
           /\ \A u \in InMode("write") : u \in Having("write")
           /\ InMode("read") \subseteq Having("read")
           /\ \A m : IsFiniteSet(InMode(m)) /\ Cardinality(InMode(m)) \in Nat
<1>1. \A m : IsFiniteSet(InMode(m)) /\ Cardinality(InMode(m)) \in Nat
  <2> TAKE m
  <2>1. InMode(m) \subseteq Threads
    BY DEF InMode
  <2> QED
    BY <2>1, LockThreadAssumption, FS_Subset, FS_CardinalityType
<1>2. IsFiniteSet(Having("write"))
  <2>1. Having("write") \subseteq Threads
    BY DEF Having
  <2> QED
    BY <2>1, LockThreadAssumption, FS_Subset
<1>3. Having("read") # {} => OneWriter
  BY <1>2, AtMostOne DEF Orderly, OneWriter
<1>4. Having("upgrade") = {}
  BY DEF Orderly
<1>5. \A u \in Threads : crew[u] \cap {"write", "upgrade"} # {} => u \in Having("write")
  BY <1>4 DEF Having
<1>6. \A u \in InMode("write") : u \in Having("write")
  BY <1>5 DEF PlaceInv, InMode
<1>7. InMode("read") \subseteq Having("read")
  BY DEF PlaceInv, InMode, Having
<1> QED
  BY <1>1, <1>3, <1>4, <1>6, <1>7

LEMMA WordStep ==
    ASSUME LockTypeOK, PlaceInv, WordInv, NEW t \in Threads, Step(t)
    PROVE  WordInv'
<1> USE DEF LockTypeOK, Loops, Goto
<1>0. \A r : Having(r)' = Having(r)
  BY CrewFixed DEF Having
<1>a. Orderly' = Orderly /\ OneWriter' = OneWriter
  BY <1>0 DEF Orderly, OneWriter
<1> SUFFICES ASSUME Orderly
             PROVE  WordInv'
  BY <1>a DEF WordInv
<1>b. /\ Having("upgrade") = {}
      /\ Having("read") # {} => OneWriter
      /\ \A u \in InMode("write") : u \in Having("write")
      /\ InMode("read") \subseteq Having("read")
      /\ \A m : IsFiniteSet(InMode(m)) /\ Cardinality(InMode(m)) \in Nat
  BY OrderlyCrew
<1>c. /\ Reading = Cardinality(InMode("read"))
      /\ Writing <=> InMode("write") # {}
      /\ \A u \in InMode("write") : threadid = u
      /\ Exclusive
      /\ OneWriter /\ Having("read") # {} => \A u \in Threads :
             pc[u] # "write2" /\ (pc[u] = "write1" => Pending)
      /\ Having("read") = {} => \A u \in Threads : pc[u] # "write4"
  BY DEF WordInv
<1>1. CASE CallReadLock(t) \/ CallWriteLock(t)
  <2>1. mode' = mode /\ lockflags' = lockflags /\ threadid' = threadid
        /\ pc' \in {[pc EXCEPT ![t] = "read"], [pc EXCEPT ![t] = "write"]}
    BY <1>1 DEF CallReadLock, CallWriteLock, Call
  <2> QED
    BY <2>1, <1>c, <1>0, <1>a DEF WordInv, InMode, Exclusive, Reading, Writing, Pending
<1>2. CASE set_read_lock(t)
  <2>1. CASE lockflags % 4 > 0
    <3>1. mode' = mode /\ lockflags' = lockflags /\ threadid' = threadid /\ pc' = pc
      BY <1>2, <2>1 DEF set_read_lock, Wait, Awake
    <3> QED
      BY <3>1, <1>c, <1>0, <1>a DEF WordInv, InMode, Exclusive, Reading, Writing, Pending
  <2>2. CASE lockflags % 4 = 0
    <3>1. /\ lockflags' = lockflags + 4 /\ threadid' = threadid
          /\ mode' = [mode EXCEPT ![t] = "read"] /\ pc' = [pc EXCEPT ![t] = "idle"]
          /\ mode[t] = "none"
      BY <1>2, <2>2 DEF set_read_lock, Awake, PlaceInv
    <3>2. ~Writing /\ ~Pending
      BY <2>2, WordParts DEF Writing, Pending
    <3>3. ~Writing' /\ ~Pending' /\ Reading' = Reading + 1
      BY <3>1, <3>2, WordPlus4 DEF Writing, Pending, Reading
    <3>4. InMode("read")' = InMode("read") \cup {t} /\ t \notin InMode("read")
          /\ InMode("write")' = InMode("write")
      BY <3>1 DEF InMode
    <3>5. Cardinality(InMode("read")') = Cardinality(InMode("read")) + 1
      BY <3>4, <1>b, FS_AddElement
    <3> QED
      BY <3>1, <3>2, <3>3, <3>4, <3>5, <1>c, <1>0, <1>a DEF WordInv, Exclusive
  <2> QED
    BY <2>1, <2>2
<1>3. CASE unset_read_lock(t)
  <2>1. t \in InMode("read")
    BY <1>3 DEF unset_read_lock, LeaveRead, InMode
  <2>a. InMode("write") = {}
    BY <2>1, <1>c DEF Exclusive, InMode
  <2>b. /\ IsFiniteSet(InMode("read") \ {t})
        /\ Cardinality(InMode("read") \ {t}) = Cardinality(InMode("read")) - 1
    BY <2>1, <1>b, FS_RemoveElement
  <2>2. Cardinality(InMode("read") \ {t}) \in Nat
    BY <2>b, FS_CardinalityType
  <2>3. lockflags > 3
    BY <2>2, <2>b, <1>c, <1>b, WordParts DEF Reading
  <2>4. /\ lockflags' = lockflags - 4 /\ threadid' = threadid /\ pc' = pc
        /\ mode' = [mode EXCEPT ![t] = "none"]
    BY <1>3, <2>3 DEF unset_read_lock, LeaveRead
  <2>5. (Writing' <=> Writing) /\ (Pending' <=> Pending) /\ Reading' = Reading - 1
    BY <2>3, <2>4, WordMinus4 DEF Writing, Pending, Reading
  <2>6. InMode("read")' = InMode("read") \ {t} /\ InMode("write")' = InMode("write")
    BY <2>1, <2>4 DEF InMode
  <2> QED
    BY <2>a, <2>b, <2>4, <2>5, <2>6, <1>b, <1>c, <1>0, <1>a DEF WordInv, Exclusive
<1>4. CASE Write(t)
  <2>0. /\ pc[t] \in WriteLoops /\ mode[t] = "none" /\ t \in Having("write")
    BY <1>4
    DEF Write, set_write_lock, set_write_lock1, set_write_lock2, set_write_lock4, Awake,
        WriteLoops, PlaceInv, Having
  <2>1. OneWriter => InMode("write") = {}
    BY <2>0, <1>b DEF OneWriter, InMode
  <2>2. CASE TakeWrite(t, t)
    <3>1. InMode("read") = {} /\ InMode("write") = {}
      <4>1. CASE pc[t] = "write4"
        <5>1. Reading = 0
          BY <1>4, <2>2, <4>1, <2>0
          DEF Write, set_write_lock, set_write_lock1, set_write_lock2, set_write_lock4,
              Awake, Wait, TakeWrite
        <5> QED
          BY <5>1, <4>1, <2>1, <1>b, <1>c, FS_EmptySet
      <4>2. CASE pc[t] = "write"
        <5>1. lockflags = 0
          BY <1>4, <2>2, <4>2, <2>0
          DEF Write, set_write_lock, set_write_lock1, set_write_lock2, set_write_lock4,
              Awake, Wait, TakeWrite
        <5> QED
          BY <5>1, <1>b, <1>c, WordValues, FS_EmptySet DEF Reading, Writing
      <4>3. CASE pc[t] \in {"write1", "write2"}
        <5>1. ~Writing /\ (pc[t] = "write1" => ~Pending)
          BY <1>4, <2>2, <4>3, <2>0
          DEF Write, set_write_lock, set_write_lock1, set_write_lock2, set_write_lock4,
              Awake, Wait, TakeWrite
        <5> QED
          BY <5>1, <4>3, <1>b, <1>c
      <4> QED
        BY <4>1, <4>2, <4>3, <2>0 DEF WriteLoops
    <3>2. /\ lockflags' = 2 /\ threadid' = t
          /\ mode' = [mode EXCEPT ![t] = "write"] /\ pc' = [pc EXCEPT ![t] = "idle"]
      BY <2>2 DEF TakeWrite
    <3>3. Writing' /\ Reading' = 0
      BY <3>2, WordValues DEF Writing, Reading
    <3>4. InMode("read")' = {} /\ InMode("write")' = {t}
      BY <3>1, <3>2 DEF InMode
    <3>5. Exclusive'
      BY <3>1, <3>2, <3>4 DEF Exclusive, InMode
    <3>6. OneWriter => \A u \in Threads : pc'[u] # "write1" /\ pc'[u] # "write2"
      BY <3>2, <2>0 DEF OneWriter, PlaceInv, Having, WriteLoops
    <3> QED
      BY <3>2, <3>3, <3>4, <3>5, <3>6, <1>b, <1>c, <1>0, <1>a, FS_EmptySet DEF WordInv
  <2>3. CASE ~TakeWrite(t, t)
    <3>1. PICK loop \in WriteLoops, flags \in {lockflags, SetPending} :
             /\ Wait(t, loop, flags)
             /\ loop = "write1" => Pending /\ flags = lockflags
             /\ loop = "write2" => Writing
             /\ loop = "write4" => Reading > 0
             /\ loop # "write"
      BY <1>4, <2>3
      DEF Write, set_write_lock, set_write_lock1, set_write_lock2, set_write_lock4, WriteLoops
    <3>2. /\ lockflags' = flags /\ threadid' = threadid /\ mode' = mode
          /\ pc' = [pc EXCEPT ![t] = loop]
      BY <3>1 DEF Wait
    <3>3. Writing' = Writing /\ Reading' = Reading /\ (Pending => Pending')
      BY <3>1, <3>2, SetPendingParts DEF Writing, Reading, Pending
    <3>4. InMode("read")' = InMode("read") /\ InMode("write")' = InMode("write")
      BY <3>2 DEF InMode
    <3>5. Exclusive'
      BY <3>2, <3>4, <1>c DEF Exclusive
    <3>6. loop = "write2" => ~OneWriter
      BY <3>1, <2>1, <1>c
    <3>7. loop = "write4" => Having("read") # {}
      BY <3>1, <1>b, <1>c, FS_EmptySet
    <3> QED
      BY <3>1, <3>2, <3>3, <3>4, <3>5, <3>6, <3>7, <1>b, <1>c, <1>0, <1>a
      DEF WordInv, WriteLoops
  <2> QED
    BY <2>2, <2>3
<1>5. CASE Timeout(t)
  <2>1. mode' = mode /\ lockflags' = lockflags /\ threadid' = threadid
        /\ pc' = [pc EXCEPT ![t] = "idle"]
    BY <1>5, <1>b DEF Timeout, PlaceInv, WriteLoops, UpgradeLoops, Having
  <2> QED
    BY <2>1, <1>c, <1>0, <1>a DEF WordInv, InMode, Exclusive, Reading, Writing, Pending
<1>6. CASE unset_write_lock(t)
  <2>1. t \in InMode("write")
    BY <1>6 DEF unset_write_lock, InMode
  <2>2. threadid = t /\ lockflags % 4 > 0
    BY <2>1, <1>c, WordParts DEF Writing
  <2>3. /\ lockflags' = 0 /\ mode' = [mode EXCEPT ![t] = "none"] /\ pc' = pc
        /\ pc[t] = "idle"
    BY <1>6, <2>2 DEF unset_write_lock
  <2>4. Reading' = 0 /\ ~Writing'
    BY <2>3, WordValues DEF Reading, Writing
  <2>5. InMode("read")' = {} /\ InMode("write")' = {}
    BY <2>1, <2>3, <1>c DEF InMode, Exclusive
  <2>6. OneWriter => \A u \in Threads : pc'[u] # "write1"
    BY <2>1, <2>3, <1>b DEF OneWriter, PlaceInv, Having, WriteLoops
  <2> QED
    BY <2>3, <2>4, <2>5, <2>6, <1>b, <1>c, <1>0, <1>a, FS_EmptySet DEF WordInv, Exclusive
<1>8. CASE Wakeup(t)
  <2>1. mode' = mode /\ lockflags' = lockflags /\ threadid' = threadid /\ pc' = pc
    BY <1>8 DEF Wakeup
  <2> QED
    BY <2>1, <1>c, <1>0, <1>a DEF WordInv, InMode, Exclusive, Reading, Writing, Pending
<1> QED
  BY <1>1, <1>2, <1>3, <1>4, <1>5, <1>6, <1>8, <1>b, NoUpgradeStep DEF Step

-----------------------------------------------------------------------------
(* The lock by itself, and the lock as a row of a table uses it.           *)

LEMMA LockInit == Init => LockInv
<1> SUFFICES ASSUME Init
             PROVE  LockInv
  OBVIOUS
<1>1. LockTypeOK /\ PlaceInv /\ OwnerInv /\ SleepInv
  BY CrewAssumption
  DEF Init, LockTypeOK, PlaceInv, OwnerInv, SleepInv, WriteLoops, UpgradeLoops
<1>2. PendingInv
  BY WordValues DEF Init, PendingInv, Pending
<1>3. InMode("read") = {} /\ InMode("write") = {}
  BY DEF Init, InMode
<1>4. WordInv
  BY <1>3, WordValues, FS_EmptySet DEF Init, WordInv, Reading, Writing, Exclusive
<1> QED
  BY <1>1, <1>2, <1>4 DEF LockInv

LEMMA LockStep ==
    ASSUME LockInv, NEW t \in Threads, Step(t)
    PROVE  LockInv'
BY LockTypeStep, PlaceStep, OwnerStep, SleepStep, PendingStep, WordStep DEF LockInv

LEMMA LockStutter ==
    ASSUME LockInv, UNCHANGED vars
    PROVE  LockInv'
BY DEF LockInv, vars, LockTypeOK, PlaceInv, OwnerInv, OneUpgrader, SleepInv, PendingInv,
       WordInv, Orderly, OneWriter, Exclusive, Having, InMode, Pending, Writing, Reading

\* HASHTABLE_init writes the word anew, at a moment nobody uses the row.
LEMMA LockReset ==
    ASSUME LockInv, HASHTABLE_init
    PROVE  LockInv'
<1> USE DEF LockInv, LockTypeOK
<1>1. /\ lockflags' = 0 /\ UNCHANGED <<crew, threadid, pc, asleep, mode>>
      /\ \A t \in Threads : pc[t] = "idle" /\ mode[t] = "none"
  BY DEF HASHTABLE_init, Quiet
<1>2. asleep = {}
  BY <1>1 DEF PlaceInv
<1>3. InMode("read")' = {} /\ InMode("write")' = {}
  BY <1>1 DEF InMode
<1>4. LockTypeOK' /\ PlaceInv' /\ SleepInv'
  BY <1>1, <1>2 DEF PlaceInv, SleepInv
<1>5. OwnerInv'
  BY <1>1 DEF OwnerInv, OneUpgrader, Having
<1>6. PendingInv'
  BY <1>1, WordValues DEF PendingInv, Pending
<1>7. WordInv'
  BY <1>1, <1>3, WordValues, FS_EmptySet DEF WordInv, Reading, Writing, Exclusive
<1> QED
  BY <1>4, <1>5, <1>6, <1>7

\* To the lock, what the table does is a step of a thread, or nothing, or the
\* initialisation.
LEMMA TableIsLock ==
    ASSUME HNext
    PROVE  (\E t \in Threads : Step(t)) \/ UNCHANGED vars \/ HASHTABLE_init
<1>1. Users \subseteq Threads
  BY DEF Users
<1>2. ASSUME NEW t \in Threads, Use(t)
      PROVE  Step(t) \/ UNCHANGED vars
  BY <1>2
  DEF Use, AddRemove, AddRemoveEnd, FindFirst, FindNext, FindMatch, FindRemove, FindFound,
      FindMissing, Inside, Step
<1>3. ASSUME NEW t \in Threads, NEW e \in Elements, AddCall(t, e) \/ RemoveCall(t, e)
      PROVE  Step(t) \/ UNCHANGED vars
  BY <1>3 DEF AddCall, RemoveCall, Enters, NoHeader, Step
<1>4. ASSUME NEW t \in Threads, NEW i \in Ids, FindCall(t, i)
      PROVE  Step(t)
  BY <1>4 DEF FindCall, Step
<1>5. HASHTABLE_clear \/ NextId => UNCHANGED vars
  BY DEF HASHTABLE_clear, NextId
<1>6. Works => (\E t \in Threads : Step(t)) \/ UNCHANGED vars \/ HASHTABLE_init
  BY <1>1, <1>2, <1>3, <1>4, <1>5 DEF Works, Step
<1> QED
  BY <1>6 DEF HNext, hvars

\* LockInv is inductive, for the threads of ListRWLock by themselves ...
THEOREM LockInvariant == Spec => []LockInv
<1>1. LockInv /\ [Next]_vars => LockInv'
  BY LockStep, LockStutter DEF Next
<1> QED
  BY <1>1, LockInit, PTL DEF Spec

\* ... and for the users of a hash table's row next to them.
THEOREM RowLockInvariant == HSpec => []LockInv
<1>1. HInit => LockInv
  BY LockInit DEF HInit
<1>2. LockInv /\ [HNext]_hvars => LockInv'
  BY LockStep, LockStutter, LockReset, TableIsLock DEF hvars
<1> QED
  BY <1>1, <1>2, PTL DEF HSpec

\* In an orderly crew a writer is alone: set_write_lock keeps out the readers and
\* the other writers, with or without timeouts.
THEOREM ExclusiveHolds == HSpec => []OrderlyExclusive
<1>1. LockInv => OrderlyExclusive
  BY DEF LockInv, WordInv, OrderlyExclusive
<1> QED
  BY <1>1, RowLockInvariant, PTL

\* The word counts the readers and the writer, and the owner is in.
THEOREM FlagsExactHolds == HSpec => []FlagsExact
<1>1. LockInv => FlagsExact
  <2> SUFFICES ASSUME LockInv
               PROVE  FlagsExact
    OBVIOUS
  <2>1. Orderly => /\ Reading = Cardinality(InMode("read"))
                   /\ Writing <=> InMode("write") # {}
    BY DEF LockInv, WordInv
  <2>2. Cardinality(Having("upgrade")) <= 1 => OneUpgrader
    <3>1. Having("upgrade") \subseteq Threads
      BY DEF Having
    <3> QED
      BY <3>1, LockThreadAssumption, FS_Subset, AtMostOne DEF OneUpgrader
  <2>3. OneUpgrader /\ threadid # NoThread => Writing /\ threadid \in InMode("write")
    BY DEF LockInv, OwnerInv, LockTypeOK, InMode
  <2> QED
    BY <2>1, <2>2, <2>3 DEF FlagsExact
<1> QED
  BY <1>1, RowLockInvariant, PTL

\* Nobody sleeps in the lock with nobody there to wake it.
THEOREM SleepersRemembered == HSpec => []NoForgottenSleeper
<1>1. LockInv => NoForgottenSleeper
  <2> SUFFICES ASSUME LockInv, Orderly, Having("timeout") = {},
                      Waiting # {}, Waiting \subseteq asleep,
                      InMode("read") = {}, InMode("write") = {}
               PROVE  FALSE
    BY DEF NoForgottenSleeper
  <2> USE DEF LockInv, LockTypeOK
  <2>1. Having("upgrade") = {} /\ Reading = 0 /\ ~Writing
    BY FS_EmptySet DEF WordInv, Orderly
  <2>2. \A u \in Threads : pc[u] \notin {"write2", "write4"}
    BY <2>1 DEF Waiting, SleepInv
  <2>3. ~Pending
    BY <2>1, <2>2 DEF PendingInv
  <2>4. lockflags % 4 = 0
    BY <2>1, <2>3, WordParts DEF Writing, Pending
  <2>5. PICK t \in Threads : pc[t] # "idle" /\ t \in asleep
    BY DEF Waiting
  <2>6. pc[t] \notin {"read", "write1"}
    BY <2>1, <2>3, <2>4, <2>5 DEF SleepInv
  <2> QED
    BY <2>1, <2>2, <2>5, <2>6 DEF PlaceInv, Loops, UpgradeLoops, Having
<1> QED
  BY <1>1, RowLockInvariant, PTL

-----------------------------------------------------------------------------
(* The elements of the table.                                              *)

LEMMA OthersStay ==
    ASSUME LockTypeOK, NEW t \in Threads, Step(t)
    PROVE  \A u \in Threads \ {t} : pc'[u] = pc[u] /\ mode'[u] = mode[u]
BY DEF LockTypeOK, Goto, Step, CallReadLock, CallWriteLock, CallUpgradeLock, Call,
       set_read_lock, Wait, unset_read_lock, LeaveRead, Write, set_write_lock,
       set_write_lock1, set_write_lock2, set_write_lock4, TakeWrite, Timeout,
       unset_write_lock, Upgrade, upgrade_read_lock, upgrade_read_lock2,
       upgrade_read_lock4, Wakeup

\* The row, with an element added and with one taken out.
LEMMA AppendOnce ==
    ASSUME NEW S, NEW s \in Seq(S), NEW e \in S, IsInjective(s), e \notin ToSet(s)
    PROVE  IsInjective(Append(s, e)) /\ ToSet(Append(s, e)) = ToSet(s) \cup {e}
<1>1. /\ DOMAIN s = 1 .. Len(s) /\ DOMAIN Append(s, e) = 1 .. Len(s) + 1
      /\ \A i \in 1 .. Len(s) : Append(s, e)[i] = s[i]
      /\ Append(s, e)[Len(s) + 1] = e /\ Len(s) \in Nat
  OBVIOUS
<1>2. \A i \in 1 .. Len(s) + 1 : i \in 1 .. Len(s) \/ i = Len(s) + 1
  BY <1>1
<1>3. \A i \in 1 .. Len(s) : i \in 1 .. Len(s) + 1 /\ Len(s) + 1 \in 1 .. Len(s) + 1
  BY <1>1
<1>4. Len(s) + 1 \in 1 .. Len(s) + 1
  BY <1>1
<1>5. IsInjective(Append(s, e))
  BY <1>1, <1>2 DEF IsInjective, ToSet
<1>6. ToSet(Append(s, e)) = ToSet(s) \cup {e}
  BY <1>1, <1>2, <1>3, <1>4, Zenon DEF ToSet
<1> QED
  BY <1>5, <1>6

LEMMA RemoveOnce ==
    ASSUME NEW S, NEW s \in Seq(S), NEW k \in DOMAIN s, IsInjective(s)
    PROVE  /\ RemoveAt(s, k) \in Seq(S) /\ IsInjective(RemoveAt(s, k))
           /\ ToSet(RemoveAt(s, k)) = ToSet(s) \ {s[k]}
<1> DEFINE r == RemoveAt(s, k)
<1>1. Len(s) \in Nat /\ DOMAIN s = 1 .. Len(s) /\ k \in 1 .. Len(s)
  OBVIOUS
<1>2. r \in Seq(S) /\ Len(r) = Len(s) - 1 /\ DOMAIN r = 1 .. Len(s) - 1
  BY <1>1 DEF RemoveAt
<1>3. \A i \in 1 .. Len(s) - 1 : r[i] = s[IF i < k THEN i ELSE i + 1]
  <2> DEFINE a == SubSeq(s, 1, k - 1)
             b == SubSeq(s, k + 1, Len(s))
  <2>1. a \in Seq(S) /\ b \in Seq(S) /\ Len(a) = k - 1 /\ Len(b) = Len(s) - k
    BY <1>1
  <2>2. \A i \in 1 .. k - 1 : a[i] = s[i]
    BY <1>1
  <2>3. \A i \in 1 .. Len(s) - k : b[i] = s[k + i]
    BY <1>1
  <2>4. r = a \o b
    BY DEF RemoveAt
  <2> HIDE DEF a, b, r
  <2>5. ASSUME NEW i \in 1 .. Len(s) - 1
        PROVE  r[i] = s[IF i < k THEN i ELSE i + 1]
    <3>1. CASE i < k
      BY <3>1, <2>1, <2>2, <2>4, <1>1
    <3>2. CASE ~(i < k)
      <4>1. r[i] = b[i - (k - 1)] /\ i - (k - 1) \in 1 .. Len(s) - k
        BY <3>2, <2>1, <2>4, <1>1, SMTT(30)
      <4> QED
        BY <3>2, <4>1, <2>3, <1>1
    <3> QED
      BY <3>1, <3>2
  <2> QED
    BY <2>5
<1> HIDE DEF r
<1>4. IsInjective(r)
  <2> SUFFICES ASSUME NEW i \in 1 .. Len(s) - 1, NEW j \in 1 .. Len(s) - 1, r[i] = r[j]
               PROVE  i = j
    BY <1>2 DEF IsInjective
  <2> DEFINE up(n) == IF n < k THEN n ELSE n + 1
  <2>1. up(i) \in DOMAIN s /\ up(j) \in DOMAIN s /\ s[up(i)] = s[up(j)]
    BY <1>1, <1>3
  <2>2. up(i) = up(j)
    BY <2>1 DEF IsInjective
  <2> QED
    BY <2>2, <1>1
<1>5. ASSUME NEW i \in DOMAIN r
      PROVE  r[i] \in ToSet(s) \ {s[k]}
  <2> DEFINE j == IF i < k THEN i ELSE i + 1
  <2>1. j \in DOMAIN s /\ j # k /\ r[i] = s[j]
    BY <1>1, <1>2, <1>3
  <2> QED
    BY <2>1 DEF IsInjective, ToSet
<1>6. ASSUME NEW j \in DOMAIN s, s[j] # s[k]
      PROVE  s[j] \in ToSet(r)
  <2> DEFINE i == IF j < k THEN j ELSE j - 1
  <2>1. i \in DOMAIN r /\ r[i] = s[j]
    BY <1>1, <1>2, <1>3, <1>6
  <2> QED
    BY <2>1 DEF ToSet
<1>7. ToSet(r) = ToSet(s) \ {s[k]}
  BY <1>5, <1>6 DEF ToSet
<1> QED
  BY <1>2, <1>4, <1>7 DEF r

\* What HASHTABLE_clear and HandedOnce count.
LEMMA PlacesIn ==
    ASSUME row \in Seq(Elements), IsInjective(row), NEW e \in Elements
    PROVE  Cardinality(Places(e)) = In(e)
<1>1. CASE e \notin ToSet(row)
  <2>1. Places(e) = {}
    BY <1>1 DEF Places, ToSet
  <2> QED
    BY <1>1, <2>1, FS_EmptySet DEF In
<1>2. CASE e \in ToSet(row)
  <2>1. PICK k \in DOMAIN row : row[k] = e
    BY <1>2 DEF ToSet
  <2>2. Places(e) = {k}
    BY <2>1 DEF Places, IsInjective
  <2> QED
    BY <1>2, <2>2, FS_Singleton DEF In
<1> QED
  BY <1>1, <1>2

LEMMA TableTypeStep ==
    ASSUME LockTypeOK, TableTypeOK, HNext
    PROVE  TableTypeOK'
<1> USE DEF TableTypeOK
<1>1. crew' = crew
  BY TableIsLock, CrewFixed DEF vars, HASHTABLE_init
<1>2. \A i \in Nat : increaseid(i) \in Nat
  BY IdAssumption DEF increaseid
<1>3. CASE UNCHANGED tvars
  BY <1>1, <1>3 DEF tvars
<1>4. CASE HASHTABLE_init
  BY <1>1, <1>4 DEF HASHTABLE_init
<1>5. CASE HASHTABLE_clear
  <2>1. ASSUME NEW e \in Elements
        PROVE  handed[e] + Cardinality({k \in DOMAIN row : row[k] = e}) \in Nat
    <3> DEFINE P == {k \in DOMAIN row : row[k] = e}
    <3>1. P \subseteq 1 .. Len(row) /\ Len(row) \in Nat
      OBVIOUS
    <3>2. IsFiniteSet(P)
      BY <3>1, FS_Interval, FS_Subset
    <3>3. Cardinality(P) \in Nat
      BY <3>2, FS_CardinalityType
    <3> QED
      BY <3>3
  <2>2. handed' \in [Elements -> Nat]
    BY <1>5, <2>1, Zenon DEF HASHTABLE_clear
  <2> QED
    <3>1. row' = <<>> /\ live' \in BOOLEAN /\ UNCHANGED <<lastid, id, asked, at, crashed>>
      BY <1>5, Zenon DEF HASHTABLE_clear
    <3>2. row' \in Seq(Elements)
      BY <3>1
    <3> QED
      BY <1>1, <2>2, <3>1, <3>2, Zenon
<1>6. CASE NextId
  BY <1>1, <1>2, <1>6 DEF NextId
<1>7. ASSUME NEW t \in Threads, Use(t)
      PROVE  TableTypeOK'
  <2>1. ASSUME NEW k \in DOMAIN row
        PROVE  RemoveAt(row, k) \in Seq(Elements)
    BY DEF RemoveAt
  <2>2. ASSUME NEW e, TakeOut(e)
        PROVE  row' \in Seq(Elements) /\ crashed' \in BOOLEAN
    BY <2>1, <2>2 DEF TakeOut
  <2>3. CASE AddRemove(t)
    <3>1. row' \in Seq(Elements) /\ crashed' \in BOOLEAN
      <4>1. CASE row' = Append(row, at[t]) /\ UNCHANGED crashed
        <5>1. at[t] \in Elements
          BY <2>3 DEF AddRemove
        <5> QED
          BY <4>1, <5>1
      <4> QED
        BY <2>2, <2>3, <4>1 DEF AddRemove
    <3> QED
      BY <3>1, <1>1, <2>3 DEF AddRemove
  <2>4. CASE FindRemove(t)
    <3>1. row' \in Seq(Elements) /\ crashed' \in BOOLEAN
      BY <2>2, <2>4 DEF FindRemove
    <3> QED
      BY <3>1, <1>1, <2>4 DEF FindRemove
  <2>5. CASE FindFirst(t)
    <3>1. row # <<>> => Head(row) \in Elements
      OBVIOUS
    <3>2. at' \in [Threads -> Elements \cup {NoElement}]
      BY <2>5, <3>1 DEF FindFirst
    <3> QED
      BY <1>1, <2>5, <3>2 DEF FindFirst
  <2>6. CASE FindNext(t)
    <3>1. at[t] \in ToSet(row) => After(at[t]) \in Elements \cup {NoElement}
      <4> SUFFICES ASSUME at[t] \in ToSet(row)
                   PROVE  After(at[t]) \in Elements \cup {NoElement}
        OBVIOUS
      <4> DEFINE k == CHOOSE j \in DOMAIN row : row[j] = at[t]
      <4>1. k \in DOMAIN row
        BY DEF ToSet
      <4>2. k # Len(row) => row[k + 1] \in Elements
        BY <4>1
      <4>3. After(at[t]) = IF k = Len(row) THEN NoElement ELSE row[k + 1]
        BY DEF After
      <4> HIDE DEF k
      <4> QED
        BY <4>2, <4>3
    <3> QED
      BY <1>1, <2>6, <3>1 DEF FindNext
  <2>7. CASE FindFound(t)
    BY <1>1, <2>7 DEF FindFound
  <2>8. CASE FindMissing(t)
    BY <1>1, <2>8 DEF FindMissing
  <2>9. CASE AddRemoveEnd(t) \/ FindMatch(t) \/ Inside(t)
    BY <1>3, <2>9 DEF AddRemoveEnd, FindMatch, Inside
  <2> QED
    BY <1>7, <2>3, <2>4, <2>5, <2>6, <2>7, <2>8, <2>9 DEF Use
<1>8. ASSUME NEW t \in Threads, NEW e \in Elements, AddCall(t, e) \/ RemoveCall(t, e)
      PROVE  TableTypeOK'
  BY <1>1, <1>2, <1>8 DEF AddCall, RemoveCall, Enters, NoHeader
<1>9. ASSUME NEW t \in Threads, NEW i \in Ids, FindCall(t, i)
      PROVE  TableTypeOK'
  <2>1. i \in Nat
    BY IdAssumption DEF Ids
  <2> QED
    BY <1>1, <1>9, <2>1 DEF FindCall
<1> QED
  BY <1>3, <1>4, <1>5, <1>6, <1>7, <1>8, <1>9 DEF HNext, Works, Users, hvars

LEMMA SlotStep ==
    ASSUME LockTypeOK, PlaceInv, TableTypeOK, SlotInv, HNext
    PROVE  SlotInv'
<1> USE DEF TableTypeOK
<1>1. crew' = crew /\ Users' = Users
  BY TableIsLock, CrewFixed DEF vars, HASHTABLE_init, Users
<1>2. ASSUME NEW t \in Threads \ Users, Step(t), UNCHANGED tvars
      PROVE  SlotInv'
  BY <1>1, <1>2, OthersStay DEF SlotInv, tvars, Users
<1>3. CASE UNCHANGED hvars
  BY <1>1, <1>3 DEF SlotInv, hvars, vars, tvars
<1>4. CASE HASHTABLE_init \/ HASHTABLE_clear \/ NextId
  BY <1>1, <1>4 DEF SlotInv, HASHTABLE_init, HASHTABLE_clear, NextId, Quiet, vars, Users
<1>5. ASSUME NEW t \in Users, Step(t), UNCHANGED <<live, row>>,
             \A u \in Threads \ {t} : at'[u] = at[u] /\ asked'[u] = asked[u],
             pc'[t] = "idle" /\ mode'[t] = "none" => at'[t] = NoElement,
             asked'[t] # NoId => "find" \in crew[t],
             live
      PROVE  SlotInv'
  BY <1>1, <1>5, OthersStay DEF SlotInv, Users
<1>6. ASSUME NEW t \in Users, UNCHANGED <<vars, live>>, live,
             \A u \in Threads \ {t} : at'[u] = at[u] /\ asked'[u] = asked[u],
             pc[t] = "idle" /\ mode[t] = "none" => at'[t] = NoElement,
             asked'[t] # NoId => "find" \in crew[t]
      PROVE  SlotInv'
  BY <1>1, <1>6 DEF SlotInv, vars, Users
<1>7. ASSUME NEW t \in Users, pc[t] # "idle" \/ mode[t] # "none"
      PROVE  live
  BY <1>7 DEF SlotInv
<1>8. ASSUME NEW t \in Users, Use(t)
      PROVE  SlotInv'
  <2>0. t \in Threads
    BY DEF Users
  <2>1. CASE AddRemove(t)
    BY <2>0, <2>1, <1>6, <1>7 DEF AddRemove, Holds, SlotInv
  <2>2. CASE AddRemoveEnd(t)
    <3>1. Step(t) /\ mode[t] = "write"
      BY <2>2 DEF AddRemoveEnd, Step, unset_write_lock
    <3> QED
      BY <3>1, <2>0, <2>2, <1>5, <1>7 DEF AddRemoveEnd, tvars, SlotInv
  <2>3. CASE FindFirst(t)
    <3>1. Step(t) /\ pc[t] = "read" /\ (mode'[t] # "none" \/ pc'[t] # "idle")
      BY <2>0, <2>3
      DEF FindFirst, Step, set_read_lock, Awake, Wait, Goto, LockTypeOK
    <3> QED
      BY <3>1, <2>0, <2>3, <1>5, <1>7 DEF FindFirst, SlotInv
  <2>4. CASE FindNext(t)
    BY <2>0, <2>4, <1>6, <1>7 DEF FindNext, Walks, SlotInv
  <2>5. CASE FindMatch(t)
    <3>1. Step(t) /\ pc'[t] # "idle" /\ mode[t] # "none"
      BY <2>0, <2>5 DEF FindMatch, Step, CallUpgradeLock, Call, Goto, LockTypeOK
    <3> QED
      BY <3>1, <2>0, <2>5, <1>5, <1>7 DEF FindMatch, tvars, SlotInv
  <2>6. CASE FindRemove(t)
    BY <2>0, <2>6, <1>6, <1>7 DEF FindRemove, Holds, SlotInv
  <2>7. CASE FindFound(t)
    <3>1. Step(t) /\ mode[t] = "write"
      BY <2>7 DEF FindFound, Step, unset_write_lock
    <3> QED
      BY <3>1, <2>0, <2>7, <1>5, <1>7 DEF FindFound, SlotInv
  <2>8. CASE FindMissing(t)
    <3>1. Step(t) /\ mode[t] = "read"
      BY <2>8 DEF FindMissing, Step, unset_read_lock, LeaveRead
    <3> QED
      BY <3>1, <2>0, <2>8, <1>5, <1>7 DEF FindMissing, SlotInv
  <2>9. CASE Inside(t)
    <3>1. Step(t) /\ pc[t] # "idle" /\ (mode'[t] # "none" \/ pc'[t] # "idle")
      BY <2>0, <2>9
      DEF Inside, Step, Write, set_write_lock, set_write_lock1, set_write_lock2,
          set_write_lock4, Upgrade, upgrade_read_lock, upgrade_read_lock2,
          upgrade_read_lock4, Awake, Wait, TakeWrite, Goto, LockTypeOK
    <3> QED
      BY <3>1, <2>0, <2>9, <1>5, <1>7 DEF Inside, tvars, SlotInv
  <2> QED
    BY <1>8, <2>1, <2>2, <2>3, <2>4, <2>5, <2>6, <2>7, <2>8, <2>9 DEF Use
<1>9. ASSUME NEW t \in Users, Wakeup(t), UNCHANGED tvars
      PROVE  SlotInv'
  BY <1>1, <1>9 DEF Wakeup, tvars, SlotInv
<1>10. ASSUME NEW t \in Users, NEW e \in Elements, AddCall(t, e) \/ RemoveCall(t, e)
       PROVE  SlotInv'
  <2>0. t \in Threads
    BY DEF Users
  <2>1. CASE CallWriteLock(t)
    <3>1. Step(t) /\ pc'[t] # "idle"
      BY <2>0, <2>1 DEF Step, CallWriteLock, Call, Goto, LockTypeOK
    <3> QED
      BY <3>1, <2>0, <1>10, <1>5 DEF AddCall, RemoveCall, Enters, NoHeader, SlotInv
  <2>2. CASE ~CallWriteLock(t)
    BY <2>0, <2>2, <1>10, <1>6 DEF AddCall, RemoveCall, Enters, NoHeader, SlotInv
  <2> QED
    BY <2>1, <2>2
<1>11. ASSUME NEW t \in Users, NEW i \in Ids, FindCall(t, i)
       PROVE  SlotInv'
  <2>0. t \in Threads
    BY DEF Users
  <2>1. Step(t) /\ pc'[t] # "idle"
    BY <2>0, <1>11 DEF FindCall, Step, CallReadLock, Call, Goto, LockTypeOK
  <2> QED
    BY <2>0, <2>1, <1>11, <1>5 DEF FindCall, SlotInv
<1> QED
  BY <1>2, <1>3, <1>4, <1>8, <1>9, <1>10, <1>11 DEF HNext, Works

\* The sets that HandedOnce counts are finite.
LEMMA CountsFinite ==
    ASSUME NEW e
    PROVE  /\ IsFiniteSet(InHand(e)) /\ Cardinality(InHand(e)) \in Nat
           /\ IsFiniteSet(Adding(e)) /\ Cardinality(Adding(e)) \in Nat
           /\ In(e) \in {0, 1}
<1>1. InHand(e) \subseteq Threads /\ Adding(e) \subseteq Threads
  BY DEF InHand, Adding, Having
<1>2. IsFiniteSet(InHand(e)) /\ IsFiniteSet(Adding(e))
  BY <1>1, LockThreadAssumption, FS_Subset
<1>3. In(e) \in {0, 1}
  BY DEF In
<1> QED
  BY <1>2, <1>3, FS_CardinalityType

LEMMA CountStep ==
    ASSUME LockTypeOK, TableTypeOK, SlotInv, CountInv, HNext
    PROVE  CountInv'
<1> USE DEF TableTypeOK
<1>1. crew' = crew /\ Having("find")' = Having("find") /\ Having("add")' = Having("add")
      /\ Having("remove")' = Having("remove") /\ (Delivering' <=> Delivering)
  BY TableIsLock, CrewFixed DEF vars, HASHTABLE_init, Having, Delivering
<1> SUFFICES ASSUME Delivering, ~crashed, ~crashed'
             PROVE  CountInv'
  BY <1>1 DEF CountInv, HNext, hvars, tvars
<1> DEFINE Sum(e) == handed[e] + Cardinality(InHand(e)) + Cardinality(Adding(e)) + In(e)
           One(e) == IF id[e] = NoId THEN 0 ELSE 1
<1>2. IsInjective(row) /\ \A e \in Elements : Sum(e) = One(e)
  BY DEF CountInv
<1>3. SUFFICES IsInjective(row') /\ \A e \in Elements : Sum(e)' = One(e)'
  BY <1>1 DEF CountInv
<1>4. \A t \in Threads : "remove" \notin crew[t]
                        /\ ("find" \in crew[t] => "add" \notin crew[t])
  BY UserAssumption DEF Delivering, Having
<1>5. Works /\ Users \subseteq Threads
  BY DEF HNext, Users
\* Nothing that is counted changes.
<1>6. ASSUME UNCHANGED <<row, handed, id>>,
             \A e \in Elements : InHand(e)' = InHand(e) /\ Adding(e)' = Adding(e)
      PROVE  IsInjective(row') /\ \A e \in Elements : Sum(e)' = One(e)'
  BY <1>2, <1>6 DEF In
<1>7. ASSUME UNCHANGED tvars
      PROVE  \A e \in Elements : InHand(e)' = InHand(e) /\ Adding(e)' = Adding(e)
  BY <1>1, <1>7 DEF InHand, Adding, tvars
<1>8. CASE HASHTABLE_init \/ NextId
  BY <1>1, <1>6, <1>8 DEF HASHTABLE_init, NextId, InHand, Adding, SlotInv
<1>9. CASE HASHTABLE_clear
  <2>1. IsInjective(row') /\ \A e \in Elements : In(e)' = 0
    BY <1>9 DEF HASHTABLE_clear, IsInjective, In, ToSet
  <2>2. ASSUME NEW e \in Elements
        PROVE  Sum(e)' = One(e)'
    <3>1. InHand(e)' = InHand(e) /\ Adding(e)' = Adding(e) /\ id' = id
      BY <1>1, <1>9 DEF HASHTABLE_clear, InHand, Adding
    <3>2. handed'[e] = handed[e] + In(e)
      <4>1. handed'[e] = handed[e] + Cardinality(Places(e))
        BY <1>9 DEF HASHTABLE_clear, Places
      <4> QED
        BY <4>1, <1>2, PlacesIn
    <3> QED
      BY <3>1, <3>2, <2>1, <1>2, CountsFinite
  <2> QED
    BY <2>1, <2>2
<1>10. ASSUME NEW t \in Threads, FindFirst(t) \/ FindNext(t) \/ FindMissing(t)
       PROVE  \A e \in Elements : InHand(e)' = InHand(e) /\ Adding(e)' = Adding(e)
  <2>1. "find" \in crew[t] /\ "add" \notin crew[t] /\ asked[t] # NoId
    BY <1>4, <1>10 DEF FindFirst, FindNext, FindMissing, Walks, SlotInv
  <2>2. \A u \in Threads \ {t} : at'[u] = at[u] /\ asked'[u] = asked[u]
    BY <1>10 DEF FindFirst, FindNext, FindMissing
  <2>3. asked'[t] # NoId \/ at'[t] = NoElement
    BY <2>1, <1>10 DEF FindFirst, FindNext, FindMissing
  <2> QED
    BY <2>1, <2>2, <2>3, <1>1, NoneAssumption DEF InHand, Adding, Having
<1>11. ASSUME NEW t \in Threads, AddRemove(t)
       PROVE  IsInjective(row') /\ \A e \in Elements : Sum(e)' = One(e)'
  <2>0. PICK e : e = at[t]
    OBVIOUS
  <2>1. /\ "add" \in crew[t] /\ "find" \notin crew[t] /\ e \in Elements
        /\ row' = Append(row, e) /\ at' = [at EXCEPT ![t] = NoElement]
        /\ UNCHANGED <<id, asked, handed>>
    BY <1>4, <1>11, <2>0 DEF AddRemove
  <2>2. \A f \in Elements : InHand(f)' = InHand(f) /\ (f # e => Adding(f)' = Adding(f))
    BY <2>0, <2>1, <1>1, NoneAssumption DEF InHand, Adding, Having
  <2>3. t \in Adding(e) /\ Adding(e)' = Adding(e) \ {t}
    BY <2>0, <2>1, <1>1, NoneAssumption DEF Adding, Having
  <2>4. Cardinality(Adding(e)') = Cardinality(Adding(e)) - 1 /\ Cardinality(Adding(e)') \in Nat
    <3>1. /\ IsFiniteSet(Adding(e) \ {t})
          /\ Cardinality(Adding(e) \ {t}) = Cardinality(Adding(e)) - 1
      BY <2>3, CountsFinite, FS_RemoveElement
    <3>2. Cardinality(Adding(e) \ {t}) \in Nat
      BY <3>1, FS_CardinalityType
    <3> QED
      BY <3>1, <3>2, <2>3
  <2>5. e \notin ToSet(row)
    <3>1. Sum(e) \in {0, 1} /\ handed[e] \in Nat /\ Cardinality(Adding(e)) > 0
      BY <2>1, <2>4, <1>2, CountsFinite
    <3>2. In(e) = 0
      BY <3>1, CountsFinite
    <3> QED
      BY <3>2 DEF In
  <2>6. IsInjective(row') /\ ToSet(row') = ToSet(row) \cup {e}
    BY <2>1, <2>5, <1>2, AppendOnce
  <2>7. ASSUME NEW f \in Elements
        PROVE  Sum(f)' = One(f)'
    <3>1. CASE f # e
      BY <3>1, <2>1, <2>2, <2>6, <1>2 DEF In
    <3>2. CASE f = e
      <4>1. In(e) = 0 /\ In(e)' = 1
        BY <2>5, <2>6 DEF In
      <4> QED
        BY <4>1, <3>2, <2>1, <2>2, <2>4, <1>2, CountsFinite
    <3> QED
      BY <3>1, <3>2
  <2> QED
    BY <2>6, <2>7
<1>12. ASSUME NEW t \in Threads, FindRemove(t)
       PROVE  IsInjective(row') /\ \A e \in Elements : Sum(e)' = One(e)'
  <2>0. PICK e : e = at[t]
    OBVIOUS
  <2>1. /\ "find" \in crew[t] /\ "add" \notin crew[t] /\ asked[t] # NoId
        /\ asked' = [asked EXCEPT ![t] = NoId]
        /\ UNCHANGED <<id, at, handed>>
    BY <1>4, <1>12 DEF FindRemove, SlotInv
  <2>2. PICK k \in DOMAIN row : row[k] = e /\ row' = RemoveAt(row, k)
    BY <1>12, <2>0 DEF FindRemove, TakeOut
  <2>3. IsInjective(row') /\ ToSet(row') = ToSet(row) \ {e} /\ e \in ToSet(row)
    <3>1. e \in ToSet(row)
      BY <2>2 DEF ToSet
    <3> QED
      BY <3>1, <2>2, <1>2, RemoveOnce
  <2>4. e \in Elements
    BY <2>2
  <2>5. \A f \in Elements : Adding(f)' = Adding(f) /\ (f # e => InHand(f)' = InHand(f))
    BY <2>0, <2>1, <1>1, NoneAssumption DEF InHand, Adding, Having
  <2>6. t \notin InHand(e) /\ InHand(e)' = InHand(e) \cup {t}
    BY <2>0, <2>1, <1>1 DEF InHand, Having
  <2>7. Cardinality(InHand(e)') = Cardinality(InHand(e)) + 1
    BY <2>6, CountsFinite, FS_AddElement
  <2>8. ASSUME NEW f \in Elements
        PROVE  Sum(f)' = One(f)'
    <3>1. CASE f # e
      BY <3>1, <2>1, <2>3, <2>5, <1>2 DEF In
    <3>2. CASE f = e
      <4>1. In(e) = 1 /\ In(e)' = 0
        BY <2>3 DEF In
      <4> QED
        BY <4>1, <3>2, <2>1, <2>5, <2>7, <1>2, CountsFinite
    <3> QED
      BY <3>1, <3>2
  <2> QED
    BY <2>3, <2>8
<1>13. ASSUME NEW t \in Threads, FindFound(t)
       PROVE  IsInjective(row') /\ \A e \in Elements : Sum(e)' = One(e)'
  <2>0. PICK e : e = at[t]
    OBVIOUS
  <2>1. /\ "find" \in crew[t] /\ "add" \notin crew[t] /\ asked[t] = NoId /\ e \in Elements
        /\ handed' = [handed EXCEPT ![e] = @ + 1] /\ at' = [at EXCEPT ![t] = NoElement]
        /\ UNCHANGED <<id, asked, row>>
    BY <1>4, <1>13, <2>0 DEF FindFound
  <2>2. \A f \in Elements : Adding(f)' = Adding(f) /\ (f # e => InHand(f)' = InHand(f))
    BY <2>0, <2>1, <1>1, NoneAssumption DEF InHand, Adding, Having
  <2>3. t \in InHand(e) /\ InHand(e)' = InHand(e) \ {t}
    BY <2>0, <2>1, <1>1, NoneAssumption DEF InHand, Having
  <2>4. Cardinality(InHand(e)') = Cardinality(InHand(e)) - 1
    BY <2>3, CountsFinite, FS_RemoveElement
  <2>5. ASSUME NEW f \in Elements
        PROVE  Sum(f)' = One(f)'
    <3>0. In(f)' = In(f)
      BY <2>1 DEF In
    <3>1. CASE f # e
      BY <3>0, <3>1, <2>1, <2>2, <1>2
    <3>2. CASE f = e
      BY <3>0, <3>2, <2>1, <2>2, <2>4, <1>2, CountsFinite
    <3> QED
      BY <3>1, <3>2
  <2> QED
    BY <2>1, <2>5, <1>2
<1>14. ASSUME NEW t \in Users, NEW e \in Elements, AddCall(t, e)
       PROVE  IsInjective(row') /\ \A f \in Elements : Sum(f)' = One(f)'
  <2>1. /\ t \in Threads /\ "add" \in crew[t] /\ "find" \notin crew[t] /\ at[t] = NoElement
        /\ id[e] = NoId /\ id' = [id EXCEPT ![e] = lastid]
        /\ at' = [at EXCEPT ![t] = e] /\ UNCHANGED <<row, asked, handed>>
    BY <1>4, <1>5, <1>14 DEF AddCall, Enters, NoHeader, CallWriteLock, Call, SlotInv
  <2>2. \A f \in Elements : InHand(f)' = InHand(f) /\ (f # e => Adding(f)' = Adding(f))
    BY <2>1, <1>1, NoneAssumption DEF InHand, Adding, Having
  <2>3. t \notin Adding(e) /\ Adding(e)' = Adding(e) \cup {t}
    BY <2>1, <1>1, NoneAssumption DEF Adding, Having
  <2>4. Cardinality(Adding(e)') = Cardinality(Adding(e)) + 1
    BY <2>3, CountsFinite, FS_AddElement
  <2>5. ASSUME NEW f \in Elements
        PROVE  Sum(f)' = One(f)'
    <3>0. In(f)' = In(f)
      BY <2>1 DEF In
    <3>1. CASE f # e
      BY <3>0, <3>1, <2>1, <2>2, <1>2
    <3>2. CASE f = e
      <4>0. lastid # NoId
        BY NoneAssumption
      <4>1. One(e) = 0 /\ One(e)' = 1
        BY <4>0, <2>1
      <4>2. Sum(e) = 0
        BY <4>1, <1>2
      <4>3. Sum(e)' = handed[e] + Cardinality(InHand(e)) + (Cardinality(Adding(e)) + 1) + In(e)
        BY <3>0, <3>2, <2>1, <2>2, <2>4
      <4>4. Sum(e)' = Sum(e) + 1
        BY <4>3, CountsFinite
      <4> QED
        BY <4>1, <4>2, <4>4, <3>2
    <3> QED
      BY <3>1, <3>2
  <2> QED
    BY <2>1, <2>5, <1>2
<1>15. ASSUME NEW t \in Users, NEW i \in Ids, FindCall(t, i)
       PROVE  \A e \in Elements : InHand(e)' = InHand(e) /\ Adding(e)' = Adding(e)
  <2>1. /\ t \in Threads /\ at[t] = NoElement /\ at' = at
        /\ asked' = [asked EXCEPT ![t] = i]
    BY <1>5, <1>15 DEF FindCall, CallReadLock, Call, SlotInv
  <2> QED
    BY <2>1, <1>1, NoneAssumption DEF InHand, Adding, Having
<1>16. ASSUME NEW t \in Users, Use(t)
       PROVE  IsInjective(row') /\ \A e \in Elements : Sum(e)' = One(e)'
  <2>1. CASE FindFirst(t) \/ FindNext(t) \/ FindMissing(t)
    BY <2>1, <1>5, <1>6, <1>10 DEF FindFirst, FindNext, FindMissing
  <2>2. CASE AddRemoveEnd(t) \/ FindMatch(t) \/ Inside(t)
    BY <2>2, <1>6, <1>7 DEF AddRemoveEnd, FindMatch, Inside, tvars
  <2> QED
    BY <1>16, <1>5, <1>11, <1>12, <1>13, <2>1, <2>2 DEF Use
<1>17. ASSUME NEW t \in Users, NEW i \in Ids, FindCall(t, i)
       PROVE  IsInjective(row') /\ \A e \in Elements : Sum(e)' = One(e)'
  BY <1>6, <1>15, <1>17 DEF FindCall
<1>18. ASSUME UNCHANGED tvars
       PROVE  IsInjective(row') /\ \A e \in Elements : Sum(e)' = One(e)'
  BY <1>6, <1>7, <1>18 DEF tvars
<1>19. \A t \in Users, e \in Elements : ~RemoveCall(t, e)
  BY <1>4, <1>5 DEF RemoveCall
<1> HIDE DEF Sum, One
<1> QED
  BY <1>5, <1>8, <1>9, <1>14, <1>16, <1>17, <1>18, <1>19 DEF Works

LEMMA TableInit == HInit => TableInv
<1> SUFFICES ASSUME HInit
             PROVE  TableInv
  OBVIOUS
<1>1. LockInv /\ TableTypeOK
  <2>1. live \in BOOLEAN /\ crashed \in BOOLEAN
    BY Zenon DEF HInit
  <2> QED
    BY <2>1, LockInit DEF HInit, Init, TableTypeOK
<1>2. SlotInv
  BY DEF HInit, Init, SlotInv, Users
<1>3. ASSUME NEW e \in Elements
      PROVE  InHand(e) = {} /\ Adding(e) = {} /\ In(e) = 0
  BY NoneAssumption DEF HInit, InHand, Adding, In, Having, ToSet
<1>4. CountInv
  <2>1. IsInjective(row)
    BY DEF HInit, IsInjective
  <2>2. \A e \in Elements : /\ handed[e] = 0 /\ id[e] = NoId /\ Cardinality(InHand(e)) = 0
                            /\ Cardinality(Adding(e)) = 0 /\ In(e) = 0
    BY <1>3, FS_EmptySet DEF HInit
  <2> QED
    BY <2>1, <2>2 DEF CountInv
<1> QED
  BY <1>1, <1>2, <1>4 DEF TableInv

\* TableInv is inductive.
THEOREM TableInvariant == HSpec => []TableInv
<1>1. TableInv /\ [HNext]_hvars => TableInv'
  <2>1. ASSUME TableInv, HNext
        PROVE  TableInv'
    <3>1. LockInv'
      BY <2>1, LockStep, LockStutter, LockReset, TableIsLock DEF TableInv
    <3> QED
      BY <2>1, <3>1, TableTypeStep, SlotStep, CountStep DEF TableInv, LockInv
  <2>2. ASSUME TableInv, UNCHANGED hvars
        PROVE  TableInv'
    <3>1. LockInv'
      BY <2>2, LockStutter DEF TableInv, hvars
    <3>2. TableTypeOK' /\ SlotInv'
      BY <2>2 DEF TableInv, TableTypeOK, SlotInv, hvars, vars, tvars, Users
    <3>3. CountInv'
      BY <2>2
      DEF TableInv, CountInv, hvars, vars, tvars, Delivering, Having, InHand, Adding, In
    <3> QED
      BY <3>1, <3>2, <3>3 DEF TableInv
  <2> QED
    BY <2>1, <2>2
<1> QED
  BY <1>1, TableInit, PTL DEF HSpec

\* An element added to the table goes to one callback only, whatever the finders
\* do at the same time: any number of finders, elements and ids.
THEOREM HandedOnceHolds == HSpec => []HandedOnce
<1>1. TableInv => HandedOnce
  BY PlacesIn DEF TableInv, TableTypeOK, CountInv, HandedOnce
<1> QED
  BY <1>1, TableInvariant, PTL

-----------------------------------------------------------------------------
(* One finder, and the lock of its row.                                    *)

\* The adder is between two calls, or at one of the places; it waits for the finder
\* in write4, and in write2 for a word that an upgrade has left behind.
AdderAt(places) == \A w \in Having("write") : mode[w] = "none" /\ pc[w] \in places

\* The word without the finder: nobody is in, or the adder is.
FreeWord ==
    \/ lockflags = 0 /\ threadid = NoThread /\ AdderAt({"idle", "write"})
    \/ lockflags = 2 /\ \E w \in Having("write") : threadid = w /\ mode[w] = "write"

FinderOut(f) ==
    /\ mode[f] = "none" /\ pc[f] \in {"idle", "read"}
    /\ \/ FreeWord
       \/ lockflags = 1 /\ threadid = NoThread /\ AdderAt({"write4"})

FinderReads(f) ==
    /\ mode[f] = "read" /\ pc[f] \in {"idle", "upgrade"} /\ threadid = NoThread
    /\ \/ lockflags = 4 /\ AdderAt({"idle", "write"})
       \/ lockflags = 5 /\ AdderAt({"write4"})

\* It has given up its place as a reader to an adder that waited for it.
FinderUpgrades(f) ==
    /\ mode[f] = "read" /\ pc[f] = "upgrade2"
    /\ \/ FreeWord
       \/ lockflags = 2 /\ threadid = NoThread /\ AdderAt({"write4"})

\* The release of an upgraded lock is refused, so the word stays as it is.
FinderUpgraded(f) ==
    /\ mode[f] \in {"none", "write"} /\ pc[f] \in {"idle", "read"} /\ threadid = NoThread
    /\ \/ lockflags = 2 /\ AdderAt({"idle", "write"})
       \/ lockflags = 3 /\ AdderAt({"write2"})

AloneInv == \A f \in Having("find") :
    FinderOut(f) \/ FinderReads(f) \/ FinderUpgrades(f) \/ FinderUpgraded(f)

\* While a finder walks, no element that it has passed has the id it looks for; from
\* the match until it is taken out, the element is in the row.
Passed(f) ==
    \/ at[f] = NoElement /\ \A k \in DOMAIN row : id[row[k]] # asked[f]
    \/ \E k \in DOMAIN row : at[f] = row[k] /\ \A j \in 1 .. k - 1 : id[row[j]] # asked[f]

Matched(f) == asked[f] # NoId /\ (mode[f] = "write" \/ (mode[f] = "read" /\ pc[f] # "idle"))

WalkInv == crashed \/ \A f \in Having("find") :
    /\ mode[f] = "read" => asked[f] # NoId
    /\ Walks(f) => Passed(f)
    /\ Matched(f) => at[f] \in ToSet(row)

LoneInv == LoneFinder => AloneInv /\ WalkInv

\* What the lock of such a row is used for.
LoneStep(t) ==
    \/ CallReadLock(t) \/ set_read_lock(t) \/ unset_read_lock(t)
    \/ CallWriteLock(t) \/ Write(t) \/ unset_write_lock(t)
    \/ CallUpgradeLock(t) \/ Upgrade(t) \/ Wakeup(t)

LEMMA LoneCrew ==
    ASSUME LockTypeOK, TableTypeOK, LoneFinder
    PROVE  /\ \E f \in Threads : Having("find") = {f} /\ Having("read") = {f}
           /\ Having("upgrade") \subseteq Having("find")
           /\ Having("find") \cap Having("write") = {}
           /\ Having("remove") = {} /\ Having("write") = Having("add")
           /\ OneWriter
<1>1. Having("find") \subseteq Threads /\ Having("add") \subseteq Threads
  BY DEF Having
<1>2. IsFiniteSet(Having("find")) /\ IsFiniteSet(Having("add"))
  BY <1>1, LockThreadAssumption, FS_Subset
<1>3. PICK f : Having("find") = {f}
  BY <1>2, FS_Singleton DEF LoneFinder
<1>4. Having("write") = Having("add") /\ Having("remove") = {}
  BY DEF LoneFinder, Delivering, Private
<1>5. \A t, u \in Having("add") : t = u
  BY <1>2, AtMostOne DEF LoneFinder, Delivering
<1>6. Having("find") \cap Having("add") = {}
  BY UserAssumption DEF Having, TableTypeOK
<1> QED
  BY <1>1, <1>3, <1>4, <1>5, <1>6 DEF LoneFinder, Private, OneWriter

\* Only users of the table use the lock, and they pass no timeout.
LEMMA LoneTable ==
    ASSUME LockTypeOK, PlaceInv, TableTypeOK, LoneFinder, HNext
    PROVE  (\E t \in Having("find") \cup Having("write") : LoneStep(t))
              \/ UNCHANGED vars \/ HASHTABLE_init
<1>1. Users = Having("find") \cup Having("write") /\ Users \subseteq Threads
  BY LoneCrew DEF Users, Having
<1>2. ASSUME NEW t \in Threads \ Users
      PROVE  ~Step(t)
  <2>1. crew[t] \cap {"read", "write", "upgrade"} = {}
    BY LoneCrew, <1>1 DEF Having
  <2>2. pc[t] = "idle" /\ mode[t] = "none" /\ t \notin asleep
    BY <2>1 DEF PlaceInv, LockTypeOK, Loops, WriteLoops, UpgradeLoops
  <2> QED
    BY <2>1, <2>2
    DEF Step, CallReadLock, CallWriteLock, CallUpgradeLock, set_read_lock, unset_read_lock,
        LeaveRead, Write, set_write_lock, set_write_lock1, set_write_lock2, set_write_lock4,
        Timeout, unset_write_lock, Upgrade, upgrade_read_lock, upgrade_read_lock2,
        upgrade_read_lock4, Wakeup, Awake
<1>3. ASSUME NEW t \in Users, Use(t)
      PROVE  LoneStep(t) \/ UNCHANGED vars
  BY <1>3
  DEF Use, AddRemove, AddRemoveEnd, FindFirst, FindNext, FindMatch, FindRemove, FindFound,
      FindMissing, Inside, LoneStep
<1>4. ASSUME NEW t \in Users, NEW e \in Elements, AddCall(t, e) \/ RemoveCall(t, e)
      PROVE  LoneStep(t) \/ UNCHANGED vars
  BY <1>4 DEF AddCall, RemoveCall, Enters, NoHeader, LoneStep
<1>5. ASSUME NEW t \in Users, NEW i \in Ids, FindCall(t, i)
      PROVE  LoneStep(t)
  BY <1>5 DEF FindCall, LoneStep
<1>6. ASSUME NEW t \in Users, Wakeup(t)
      PROVE  LoneStep(t)
  BY <1>6 DEF LoneStep
<1>7. HASHTABLE_clear \/ NextId => UNCHANGED vars
  BY DEF HASHTABLE_clear, NextId
<1>8. Works => (\E t \in Users : LoneStep(t)) \/ UNCHANGED vars \/ HASHTABLE_init
  BY <1>2, <1>3, <1>4, <1>5, <1>6, <1>7 DEF Works
<1> QED
  BY <1>1, <1>8 DEF HNext, hvars

\* The numbers the word goes through.
LEMMA LoneWords ==
    ASSUME lockflags \in {0, 1, 2, 3, 4, 5}
    PROVE  /\ lockflags % 4 = 0 <=> lockflags \in {0, 4}
           /\ Pending <=> lockflags \in {1, 3, 5}
           /\ Writing <=> lockflags \in {2, 3}
           /\ Reading > 0 <=> lockflags \in {4, 5}
           /\ Reading = 0 <=> lockflags \notin {4, 5}
           /\ lockflags % 3 > 0 <=> lockflags \notin {0, 3}
           /\ lockflags = 4 => Minus4 + 1 = 1
           /\ lockflags = 5 => Minus4 + 1 = 2
           /\ (1 \div 2) % 2 = 0 /\ (2 \div 2) % 2 = 1
           /\ SetPending = IF lockflags \in {1, 3, 5} THEN lockflags ELSE lockflags + 1
BY DEF Pending, Writing, Reading, Minus4, SetPending

LEMMA AloneStep ==
    ASSUME LockTypeOK, PlaceInv, AloneInv, OneWriter,
           NEW f \in Threads, Having("find") = {f}, Having("read") = {f},
           Having("upgrade") \subseteq {f}, f \notin Having("write"),
           NEW t \in {f} \cup Having("write"), LoneStep(t)
    PROVE  AloneInv'
<1> USE DEF LockTypeOK, Goto
<1>1. t \in Threads /\ Step(t)
  BY DEF Having, LoneStep, Step
<1>2. crew' = crew /\ Having("find")' = {f} /\ Having("write")' = Having("write")
  BY <1>1, CrewFixed DEF Having
<1>3. \A u \in Threads \ {t} : pc'[u] = pc[u] /\ mode'[u] = mode[u]
  BY <1>1, OthersStay
<1>4. FinderOut(f) \/ FinderReads(f) \/ FinderUpgrades(f) \/ FinderUpgraded(f)
  BY DEF AloneInv
<1>5. SUFFICES FinderOut(f)' \/ FinderReads(f)' \/ FinderUpgrades(f)' \/ FinderUpgraded(f)'
  BY <1>2 DEF AloneInv
<1>6. lockflags \in {0, 1, 2, 3, 4, 5}
  BY <1>4 DEF FinderOut, FinderReads, FinderUpgrades, FinderUpgraded, FreeWord
\* A step of the finder.
<1>7. CASE t = f
  <2>1. \A w \in Having("write") : w \in Threads /\ w # f
                                   /\ pc'[w] = pc[w] /\ mode'[w] = mode[w]
    BY <1>3, <1>7 DEF Having
  <2>2. \A P : AdderAt(P) => AdderAt(P)'
    BY <1>2, <2>1 DEF AdderAt
  <2>3. FreeWord /\ lockflags' = lockflags /\ threadid' = threadid => FreeWord'
    BY <1>2, <2>1, <2>2 DEF FreeWord
  <2>4. ~CallWriteLock(f) /\ ~Write(f)
    BY DEF CallWriteLock, Write, set_write_lock, set_write_lock1, set_write_lock2,
           set_write_lock4, Awake, PlaceInv, WriteLoops, Having
  <2>5. CASE Wakeup(f)
    BY <1>4, <2>2, <2>3, <2>5
    DEF Wakeup, FinderOut, FinderReads, FinderUpgrades, FinderUpgraded
  <2>6. CASE FinderOut(f)
    <3>1. CallReadLock(f) \/ set_read_lock(f) \/ Wakeup(f)
      BY <1>7, <2>4, <2>6
      DEF LoneStep, FinderOut, unset_read_lock, LeaveRead, unset_write_lock,
          CallUpgradeLock, Upgrade, upgrade_read_lock, upgrade_read_lock2,
          upgrade_read_lock4, Awake
    <3>2. CASE CallReadLock(f)
      <4>1. FinderOut(f)'
        BY <2>2, <2>3, <2>6, <3>2 DEF CallReadLock, Call, FinderOut
      <4> QED
        BY <4>1
    <3>3. CASE set_read_lock(f) /\ lockflags % 4 > 0
      <4>1. FinderOut(f)'
        BY <2>2, <2>3, <2>6, <3>3 DEF set_read_lock, Wait, FinderOut
      <4> QED
        BY <4>1
    <3>4. CASE set_read_lock(f) /\ ~(lockflags % 4 > 0)
      <4>1. lockflags = 0 /\ threadid = NoThread /\ AdderAt({"idle", "write"})
        BY <1>6, <2>6, <3>4, LoneWords DEF FinderOut, FreeWord
      <4>2. FinderReads(f)'
        BY <2>2, <3>4, <4>1 DEF set_read_lock, FinderReads
      <4> QED
        BY <4>2
    <3> QED
      BY <2>5, <3>1, <3>2, <3>3, <3>4
  <2>7. CASE FinderReads(f)
    <3>1. unset_read_lock(f) \/ CallUpgradeLock(f) \/ upgrade_read_lock(f) \/ Wakeup(f)
      BY <1>7, <2>4, <2>7
      DEF LoneStep, FinderReads, CallReadLock, set_read_lock, unset_write_lock,
          Upgrade, upgrade_read_lock2, upgrade_read_lock4, Awake
    <3>2. CASE unset_read_lock(f)
      <4>1. lockflags' = lockflags - 4 /\ threadid' = NoThread /\ mode'[f] = "none"
            /\ pc'[f] = "idle"
        BY <2>7, <3>2 DEF unset_read_lock, LeaveRead, FinderReads
      <4>2. FinderOut(f)'
        BY <2>2, <2>7, <4>1 DEF FinderReads, FinderOut, FreeWord
      <4> QED
        BY <4>2
    <3>3. CASE CallUpgradeLock(f)
      <4>1. FinderReads(f)'
        BY <2>2, <2>7, <3>3 DEF CallUpgradeLock, Call, FinderReads
      <4> QED
        BY <4>1
    <3>4. CASE upgrade_read_lock(f) /\ lockflags = 4
      <4>1. TakeWrite(f, threadid) /\ threadid = NoThread /\ AdderAt({"idle", "write"})
        BY <1>6, <2>7, <3>4, LoneWords DEF FinderReads, upgrade_read_lock
      <4>2. FinderUpgraded(f)'
        BY <2>2, <4>1 DEF TakeWrite, FinderUpgraded
      <4> QED
        BY <4>2
    <3>5. CASE upgrade_read_lock(f) /\ lockflags = 5
      <4>1. Wait(f, "upgrade2", 2) /\ threadid = NoThread /\ AdderAt({"write4"})
            /\ mode[f] = "read"
        BY <1>6, <2>7, <3>5, LoneWords DEF FinderReads, upgrade_read_lock
      <4>2. FinderUpgrades(f)'
        BY <2>2, <4>1 DEF Wait, FinderUpgrades
      <4> QED
        BY <4>2
    <3> QED
      BY <2>5, <2>7, <3>1, <3>2, <3>3, <3>4, <3>5 DEF FinderReads
  <2>8. CASE FinderUpgrades(f)
    <3>1. upgrade_read_lock2(f) \/ Wakeup(f)
      BY <1>7, <2>4, <2>8
      DEF LoneStep, FinderUpgrades, CallReadLock, CallUpgradeLock, Call, set_read_lock,
          unset_read_lock, LeaveRead, unset_write_lock, Upgrade, upgrade_read_lock,
          upgrade_read_lock4, Awake
    <3>2. CASE upgrade_read_lock2(f) /\ Writing
      <4>1. FinderUpgrades(f)'
        BY <2>2, <2>3, <2>8, <3>2 DEF upgrade_read_lock2, Wait, TakeWrite, FinderUpgrades
      <4> QED
        BY <4>1
    <3>3. CASE upgrade_read_lock2(f) /\ ~Writing
      <4>1. TakeWrite(f, NoThread) /\ AdderAt({"idle", "write"})
        BY <1>6, <2>8, <3>3, LoneWords DEF upgrade_read_lock2, FinderUpgrades, FreeWord
      <4>2. FinderUpgraded(f)'
        BY <2>2, <4>1 DEF TakeWrite, FinderUpgraded
      <4> QED
        BY <4>2
    <3> QED
      BY <2>5, <3>1, <3>2, <3>3
  <2>9. CASE FinderUpgraded(f)
    <3>1. CallReadLock(f) \/ set_read_lock(f) \/ unset_write_lock(f) \/ Wakeup(f)
      BY <1>7, <2>4, <2>9
      DEF LoneStep, FinderUpgraded, unset_read_lock, LeaveRead, CallUpgradeLock, Upgrade,
          upgrade_read_lock, upgrade_read_lock2, upgrade_read_lock4, Awake, PlaceInv,
          UpgradeLoops
    <3>2. f # NoThread /\ lockflags % 4 > 0
      BY <1>6, <2>9, LockThreadAssumption, LoneWords DEF FinderUpgraded
    <3>3. ASSUME CallReadLock(f) \/ set_read_lock(f) \/ unset_write_lock(f)
          PROVE  FinderUpgraded(f)'
      BY <2>2, <2>9, <3>2, <3>3
      DEF CallReadLock, Call, set_read_lock, Wait, unset_write_lock, FinderUpgraded
    <3> QED
      BY <2>5, <3>1, <3>3
  <2> QED
    BY <1>4, <2>6, <2>7, <2>8, <2>9
\* A step of the adder.
<1>8. CASE t # f
  <2>1. t \in Having("write") /\ \A w \in Having("write") : w = t
    BY <1>8 DEF OneWriter
  <2>2. mode'[f] = mode[f] /\ pc'[f] = pc[f]
    BY <1>3, <1>8
  <2>3. \A P : AdderAt(P) <=> mode[t] = "none" /\ pc[t] \in P
    BY <2>1 DEF AdderAt
  <2>4. \A P : AdderAt(P)' <=> mode'[t] = "none" /\ pc'[t] \in P
    BY <1>2, <2>1 DEF AdderAt
  <2>5. (\E w \in Having("write") : threadid = w /\ mode[w] = "write")
           <=> threadid = t /\ mode[t] = "write"
    BY <2>1
  <2>6. (\E w \in Having("write") : threadid = w /\ mode[w] = "write")'
           <=> threadid' = t /\ mode'[t] = "write"
    BY <1>2, <2>1
  <2>7. CallWriteLock(t) \/ Write(t) \/ unset_write_lock(t) \/ Wakeup(t)
    BY <1>1, <1>8
    DEF LoneStep, CallReadLock, set_read_lock, unset_read_lock, LeaveRead, CallUpgradeLock,
        Upgrade, upgrade_read_lock, upgrade_read_lock2, upgrade_read_lock4, Awake,
        PlaceInv, UpgradeLoops, Having
  <2>8. ASSUME Wakeup(t) \/ CallWriteLock(t), NEW P, "write" \in P \/ pc'[t] = pc[t],
               AdderAt(P)
        PROVE  AdderAt(P)' /\ UNCHANGED <<lockflags, threadid>>
    BY <1>1, <2>3, <2>4, <2>8 DEF Wakeup, CallWriteLock, Call
  <2>9. CallWriteLock(t) => pc[t] = "idle" /\ mode[t] = "none"
    BY DEF CallWriteLock, Call
  <2>10. ASSUME TakeWrite(t, t)
         PROVE  FreeWord'
    BY <1>1, <2>6, <2>10 DEF TakeWrite, FreeWord
  <2>11. ASSUME FreeWord
         PROVE  FreeWord'
    <3>1. CASE lockflags = 0 /\ threadid = NoThread /\ AdderAt({"idle", "write"})
      <4>1. mode[t] = "none" /\ pc[t] \in {"idle", "write"}
        BY <2>3, <3>1
      <4>2. CASE Wakeup(t) \/ CallWriteLock(t)
        BY <2>8, <3>1, <4>2 DEF FreeWord
      <4>3. CASE Write(t)
        <5>1. TakeWrite(t, t)
          BY <1>6, <3>1, <4>1, <4>3, LoneWords
          DEF Write, set_write_lock, set_write_lock1, set_write_lock2, set_write_lock4, Awake
        <5> QED
          BY <2>10, <5>1
      <4> QED
        BY <2>7, <4>1, <4>2, <4>3 DEF unset_write_lock
    <3>2. CASE lockflags = 2 /\ threadid = t /\ mode[t] = "write"
      <4>1. pc[t] = "idle"
        BY <1>1, <3>2 DEF PlaceInv
      <4>2. Wakeup(t) \/ unset_write_lock(t)
        BY <2>7, <3>2, <4>1
        DEF CallWriteLock, Write, set_write_lock, set_write_lock1, set_write_lock2,
            set_write_lock4, Awake
      <4>3. CASE Wakeup(t)
        BY <2>6, <3>2, <4>3 DEF Wakeup, FreeWord
      <4>4. CASE unset_write_lock(t)
        <5>1. lockflags' = 0 /\ threadid' = NoThread /\ mode'[t] = "none" /\ pc'[t] = "idle"
          BY <1>1, <3>2, <4>1, <4>4 DEF unset_write_lock
        <5> QED
          BY <2>4, <5>1 DEF FreeWord
      <4> QED
        BY <4>2, <4>3, <4>4
    <3>3. \/ lockflags = 0 /\ threadid = NoThread /\ AdderAt({"idle", "write"})
          \/ lockflags = 2 /\ threadid = t /\ mode[t] = "write"
      BY <2>5, <2>11 DEF FreeWord
    <3> QED
      BY <3>1, <3>2, <3>3
  \* In write4 it goes on when the finder has left, in write2 never.
  <2>12. ASSUME AdderAt({"write4"}), lockflags \notin {4, 5}, threadid = NoThread
         PROVE  FreeWord' \/ (AdderAt({"write4"})' /\ UNCHANGED <<lockflags, threadid>>)
    <3>1. mode[t] = "none" /\ pc[t] = "write4"
      BY <2>3, <2>12
    <3>2. CASE Wakeup(t) \/ CallWriteLock(t)
      BY <2>8, <2>9, <2>12, <3>1, <3>2 DEF Wakeup
    <3>3. CASE Write(t)
      <4>1. TakeWrite(t, t)
        BY <1>6, <2>12, <3>1, <3>3, LoneWords
        DEF Write, set_write_lock, set_write_lock1, set_write_lock2, set_write_lock4, Awake
      <4> QED
        BY <2>10, <4>1
    <3> QED
      BY <2>7, <3>1, <3>2, <3>3 DEF unset_write_lock
  <2>13. CASE FinderOut(f)
    <3>1. FinderOut(f)'
      BY <2>2, <2>11, <2>12, <2>13 DEF FinderOut
    <3> QED
      BY <3>1
  <2>14. CASE FinderUpgrades(f)
    <3>1. FinderUpgrades(f)'
      BY <2>2, <2>11, <2>12, <2>14 DEF FinderUpgrades
    <3> QED
      BY <3>1
  <2>15. CASE FinderReads(f)
    <3>1. FinderReads(f)'
      <4>1. CASE lockflags = 4 /\ AdderAt({"idle", "write"})
        <5>1. mode[t] = "none" /\ pc[t] \in {"idle", "write"}
          BY <2>3, <4>1
        <5>2. CASE Wakeup(t) \/ CallWriteLock(t)
          BY <2>2, <2>8, <2>15, <4>1, <5>2 DEF FinderReads
        <5>3. CASE Write(t)
          <6>1. Wait(t, "write4", 5)
            BY <1>6, <4>1, <5>1, <5>3, LoneWords
            DEF Write, set_write_lock, set_write_lock1, set_write_lock2, set_write_lock4,
                Awake
          <6> QED
            BY <1>1, <2>2, <2>4, <2>15, <5>1, <6>1 DEF Wait, FinderReads
        <5> QED
          BY <2>7, <5>1, <5>2, <5>3 DEF unset_write_lock
      <4>2. CASE lockflags = 5 /\ AdderAt({"write4"})
        <5>1. mode[t] = "none" /\ pc[t] = "write4"
          BY <2>3, <4>2
        <5>2. CASE Wakeup(t) \/ CallWriteLock(t)
          BY <2>2, <2>8, <2>9, <2>15, <4>2, <5>1, <5>2 DEF Wakeup, FinderReads
        <5>3. CASE Write(t)
          <6>1. Wait(t, "write4", 5)
            BY <1>6, <4>2, <5>1, <5>3, LoneWords
            DEF Write, set_write_lock, set_write_lock1, set_write_lock2, set_write_lock4,
                Awake
          <6> QED
            BY <1>1, <2>2, <2>4, <2>15, <5>1, <6>1 DEF Wait, FinderReads
        <5> QED
          BY <2>7, <5>1, <5>2, <5>3 DEF unset_write_lock
      <4> QED
        BY <2>15, <4>1, <4>2 DEF FinderReads
    <3> QED
      BY <3>1
  <2>16. CASE FinderUpgraded(f)
    <3>1. FinderUpgraded(f)'
      <4>1. CASE lockflags = 2 /\ AdderAt({"idle", "write"})
        <5>1. mode[t] = "none" /\ pc[t] \in {"idle", "write"}
          BY <2>3, <4>1
        <5>2. CASE Wakeup(t) \/ CallWriteLock(t)
          BY <2>2, <2>8, <2>16, <4>1, <5>2 DEF FinderUpgraded
        <5>3. CASE Write(t)
          <6>1. Wait(t, "write2", 3)
            BY <1>6, <4>1, <5>1, <5>3, LoneWords
            DEF Write, set_write_lock, set_write_lock1, set_write_lock2, set_write_lock4,
                Awake
          <6> QED
            BY <1>1, <2>2, <2>4, <2>16, <5>1, <6>1 DEF Wait, FinderUpgraded
        <5> QED
          BY <2>7, <5>1, <5>2, <5>3 DEF unset_write_lock
      <4>2. CASE lockflags = 3 /\ AdderAt({"write2"})
        <5>1. mode[t] = "none" /\ pc[t] = "write2"
          BY <2>3, <4>2
        <5>2. CASE Wakeup(t) \/ CallWriteLock(t)
          BY <2>2, <2>8, <2>9, <2>16, <4>2, <5>1, <5>2 DEF Wakeup, FinderUpgraded
        <5>3. CASE Write(t)
          <6>1. Wait(t, "write2", 3)
            BY <1>6, <4>2, <5>1, <5>3, LoneWords
            DEF Write, set_write_lock, set_write_lock1, set_write_lock2, set_write_lock4,
                Awake
          <6> QED
            BY <1>1, <2>2, <2>4, <2>16, <5>1, <6>1 DEF Wait, FinderUpgraded
        <5> QED
          BY <2>7, <5>1, <5>2, <5>3 DEF unset_write_lock
      <4> QED
        BY <2>16, <4>1, <4>2 DEF FinderUpgraded
    <3> QED
      BY <3>1
  <2> QED
    BY <1>4, <2>13, <2>14, <2>15, <2>16
<1> QED
  BY <1>7, <1>8

LEMMA WalkStep ==
    ASSUME LockInv, TableTypeOK, SlotInv, CountInv, LoneFinder, AloneInv, WalkInv, HNext
    PROVE  WalkInv'
<1> SUFFICES ASSUME ~crashed, ~crashed'
             PROVE  WalkInv'
  BY DEF WalkInv, HNext, hvars, tvars
<1> USE DEF TableTypeOK
<1>0. LockTypeOK /\ PlaceInv
  BY DEF LockInv
<1>1. PICK f \in Threads : Having("find") = {f} /\ Having("read") = {f}
  BY <1>0, LoneCrew
<1>2. /\ crew' = crew /\ Having("find")' = {f} /\ f \notin Having("write")
      /\ Having("write") = Having("add") /\ Having("remove") = {}
  BY <1>0, <1>1, LoneCrew, TableIsLock, CrewFixed DEF vars, HASHTABLE_init, Having
<1>3. /\ ~crashed /\ IsInjective(row) /\ (mode[f] = "read" => asked[f] # NoId)
      /\ (Walks(f) => Passed(f)) /\ (Matched(f) => at[f] \in ToSet(row))
  BY <1>1 DEF WalkInv, CountInv, LoneFinder
<1>4. ASSUME ~crashed', mode'[f] = "read" => asked'[f] # NoId,
             Walks(f)' => Passed(f)', Matched(f)' => at'[f] \in ToSet(row')
      PROVE  WalkInv'
  BY <1>2, <1>4 DEF WalkInv
<1>5. \A t \in Threads : "add" \in crew[t] => t # f
  BY <1>2 DEF Having
<1>6. \A k \in DOMAIN row : row[k] \in Elements /\ id[row[k]] # NoId
  <2> SUFFICES ASSUME NEW k \in DOMAIN row
               PROVE  row[k] \in Elements /\ id[row[k]] # NoId
    OBVIOUS
  <2>1. row[k] \in Elements /\ In(row[k]) = 1
    BY DEF In, ToSet
  <2>2. handed[row[k]] + Cardinality(InHand(row[k])) + Cardinality(Adding(row[k])) + 1
           = IF id[row[k]] = NoId THEN 0 ELSE 1
    BY <1>3, <2>1 DEF CountInv, LoneFinder
  <2>3. handed[row[k]] \in Nat
    BY <2>1
  <2> QED
    BY <2>1, <2>2, <2>3, CountsFinite
\* Nothing that WalkInv says changes.
<1>7. ASSUME UNCHANGED <<row, asked, crashed>>, pc'[f] = pc[f], mode'[f] = mode[f],
             at'[f] = at[f], \A k \in DOMAIN row : id'[row[k]] = id[row[k]]
      PROVE  WalkInv'
  <2>1. (Walks(f)' <=> Walks(f)) /\ (Matched(f)' <=> Matched(f)) /\ ToSet(row') = ToSet(row)
    BY <1>7 DEF Walks, Matched
  <2>2. ASSUME Passed(f)
        PROVE  Passed(f)'
    <3>1. row' = row /\ at'[f] = at[f] /\ asked'[f] = asked[f]
      BY <1>7
    <3>2. CASE at[f] = NoElement /\ \A k \in DOMAIN row : id[row[k]] # asked[f]
      BY <1>7, <3>1, <3>2 DEF Passed
    <3>3. ASSUME NEW k \in DOMAIN row, at[f] = row[k],
                 \A j \in 1 .. k - 1 : id[row[j]] # asked[f]
          PROVE  Passed(f)'
      <4>1. \A j \in 1 .. k - 1 : j \in DOMAIN row
        OBVIOUS
      <4>2. k \in DOMAIN row' /\ at'[f] = row'[k]
            /\ \A j \in 1 .. k - 1 : id'[row'[j]] # asked'[f]
        BY <1>7, <3>1, <3>3, <4>1
      <4> QED
        BY <4>2 DEF Passed
    <3> QED
      BY <2>2, <3>2, <3>3 DEF Passed
  <2>3. ~crashed' /\ (mode'[f] = "read" => asked'[f] # NoId)
    BY <1>3, <1>7
  <2>4. (Walks(f)' => Passed(f)') /\ (Matched(f)' => at'[f] \in ToSet(row'))
    BY <1>3, <1>7, <2>1, <2>2
  <2> QED
    BY <1>4, <2>3, <2>4
<1>8. ASSUME NEW t \in Threads \ {f}, Step(t), UNCHANGED tvars
      PROVE  WalkInv'
  BY <1>0, <1>7, <1>8, OthersStay DEF tvars
<1>9. CASE HASHTABLE_init \/ HASHTABLE_clear
  <2>1. mode'[f] = "none" /\ crashed' = crashed
    BY <1>9, Zenon DEF HASHTABLE_init, HASHTABLE_clear, Quiet, vars
  <2> QED
    BY <1>3, <1>4, <2>1 DEF Walks, Matched
<1>10. CASE NextId
  BY <1>7, <1>10 DEF NextId, vars
<1>11. ASSUME NEW t \in Threads \ Users, Step(t), UNCHANGED tvars
       PROVE  WalkInv'
  <2>1. f \in Users
    BY <1>1 DEF Users, Having
  <2> QED
    BY <1>8, <1>11, <2>1
<1>12. ASSUME NEW t \in Users, Wakeup(t), UNCHANGED tvars
       PROVE  WalkInv'
  BY <1>7, <1>12 DEF Wakeup, tvars
<1>13. ASSUME NEW t \in Users, NEW e \in Elements, AddCall(t, e)
       PROVE  WalkInv'
  <2>1. t \in Threads \ {f} /\ Step(t)
    BY <1>5, <1>13 DEF AddCall, Enters, NoHeader, Users, Step
  <2>2. id' = [id EXCEPT ![e] = lastid] /\ id[e] = NoId
        /\ UNCHANGED <<row, asked, crashed>>
    BY <1>13 DEF AddCall, Enters, NoHeader
  <2>3. \A k \in DOMAIN row : id'[row[k]] = id[row[k]]
    BY <1>6, <2>2
  <2>4. at'[f] = at[f]
    BY <1>13, <2>1 DEF AddCall, Enters, NoHeader
  <2> QED
    BY <1>0, <1>7, <2>1, <2>2, <2>3, <2>4, OthersStay
<1>14. \A t \in Users, e \in Elements : ~RemoveCall(t, e)
  BY <1>2 DEF RemoveCall, Having, Users
<1>15. ASSUME NEW t \in Users, NEW i \in Ids, FindCall(t, i)
       PROVE  WalkInv'
  <2>1. t = f
    BY <1>1, <1>15 DEF FindCall, Having, Users
  <2>2. mode'[f] = "none" /\ crashed' = crashed
    BY <1>15, <2>1 DEF FindCall, CallReadLock, Call
  <2> QED
    BY <1>3, <1>4, <2>2 DEF Walks, Matched
<1>16. ASSUME NEW t \in Users, Use(t)
       PROVE  WalkInv'
  <2>0. t \in Threads
    BY DEF Users
  <2>1. ASSUME t # f, AddRemoveEnd(t) \/ Inside(t)
        PROVE  WalkInv'
    BY <1>8, <2>0, <2>1
    DEF AddRemoveEnd, Inside, Step
  <2>2. CASE AddRemove(t)
    <3>1. /\ "add" \in crew[t] /\ t # f /\ mode[t] = "write" /\ at[t] \in Elements
          /\ row' = Append(row, at[t]) /\ at'[f] = at[f]
          /\ UNCHANGED <<vars, asked, crashed>>
      BY <1>2, <1>5, <2>0, <2>2 DEF AddRemove, Holds, Having
    <3>2. ~Walks(f)
      <4>1. t \in Having("write")
        BY <1>2, <2>0, <3>1 DEF Having
      <4> QED
        BY <1>1, <3>1, <4>1
        DEF Walks, AloneInv, FinderOut, FinderReads, FinderUpgrades, FinderUpgraded, AdderAt
    <3>3. ~Walks(f)' /\ (Matched(f)' <=> Matched(f))
      BY <3>1, <3>2 DEF Walks, Matched, vars
    <3>4. ToSet(row) \subseteq ToSet(row')
      <4>1. Append(row, at[t]) \in Seq(Elements)
            /\ \A k \in DOMAIN row : k \in DOMAIN Append(row, at[t])
                                     /\ Append(row, at[t])[k] = row[k]
        BY <3>1
      <4> QED
        BY <3>1, <4>1, Zenon DEF ToSet
    <3>5. mode' = mode
      BY <3>1 DEF vars
    <3> QED
      BY <1>3, <1>4, <3>1, <3>3, <3>4, <3>5
  <2>3. AddRemoveEnd(t) => t # f
    BY <1>1, <1>2, <1>5, UserAssumption DEF AddRemoveEnd, Having
  <2>4. CASE Inside(f)
    <3>1. Upgrade(f) /\ UNCHANGED tvars
      BY <1>2, <1>0, <2>4
      DEF Inside, Write, set_write_lock, set_write_lock1, set_write_lock2, set_write_lock4,
          Awake, PlaceInv, WriteLoops, Having
    <3>2. mode[f] = "read" /\ pc[f] # "idle"
      BY <1>0, <3>1
      DEF Upgrade, upgrade_read_lock, upgrade_read_lock2, upgrade_read_lock4, Awake,
          PlaceInv, UpgradeLoops
    <3>3. mode'[f] = "write" \/ (mode'[f] = "read" /\ pc'[f] # "idle")
      BY <1>0, <3>1, <3>2
      DEF Upgrade, upgrade_read_lock, upgrade_read_lock2, upgrade_read_lock4, Wait,
          TakeWrite, Goto, LockTypeOK
    <3>4. Matched(f) /\ ~Walks(f)'
      BY <1>3, <3>2, <3>3 DEF Matched, Walks
    <3>5. ~crashed' /\ asked' = asked /\ at' = at /\ row' = row
      BY <1>3, <3>1 DEF tvars
    <3> QED
      BY <1>3, <1>4, <3>2, <3>4, <3>5
  <2>5. CASE FindFirst(f)
    <3>1. /\ asked[f] # NoId /\ UNCHANGED <<row, id, asked, crashed>>
          /\ at'[f] = IF mode'[f] = "none" \/ row = <<>> THEN NoElement ELSE Head(row)
          /\ mode'[f] \in {"none", "read"} /\ (mode'[f] = "read" => pc'[f] = "idle")
      BY <1>0, <2>5
      DEF FindFirst, set_read_lock, Wait, Awake, Goto, LockTypeOK, PlaceInv
    <3>2. ~Matched(f)'
      BY <3>1 DEF Matched
    <3>3. Walks(f)' => Passed(f)'
      <4> SUFFICES ASSUME Walks(f)'
                   PROVE  Passed(f)'
        OBVIOUS
      <4>1. CASE row = <<>>
        BY <3>1, <4>1 DEF Passed
      <4>2. CASE row # <<>>
        <5>1. 1 \in DOMAIN row /\ at'[f] = row[1] /\ 1 .. 1 - 1 = {}
          BY <3>1, <4>2 DEF Walks
        <5> QED
          BY <3>1, <5>1 DEF Passed
      <4> QED
        BY <4>1, <4>2
    <3> QED
      BY <1>3, <1>4, <3>1, <3>2, <3>3
  <2>6. ASSUME Walks(f), at[f] # NoElement
        PROVE  \E k \in DOMAIN row : at[f] = row[k] /\ \A j \in 1 .. k - 1 : id[row[j]] # asked[f]
    BY <1>3, <2>6 DEF Passed
  <2>7. CASE FindNext(f)
    <3>1. PICK k \in DOMAIN row : at[f] = row[k] /\ \A j \in 1 .. k - 1 : id[row[j]] # asked[f]
      BY <2>6, <2>7 DEF FindNext
    <3>2. /\ at'[f] = After(at[f]) /\ id[at[f]] # asked[f] /\ mode'[f] = "read"
          /\ UNCHANGED <<vars, row, id, asked, crashed>> /\ Walks(f)
      BY <3>1, <2>7 DEF FindNext, ToSet, vars, Walks
    <3>3. After(at[f]) = IF k = Len(row) THEN NoElement ELSE row[k + 1]
      <4> DEFINE c == CHOOSE j \in DOMAIN row : row[j] = at[f]
      <4>1. c \in DOMAIN row /\ row[c] = at[f]
        BY <3>1
      <4>2. c = k
        BY <1>3, <3>1, <4>1 DEF IsInjective
      <4>3. After(at[f]) = IF c = Len(row) THEN NoElement ELSE row[c + 1]
        BY DEF After
      <4> HIDE DEF c
      <4> QED
        BY <4>2, <4>3
    <3>4. k \in 1 .. Len(row) /\ Len(row) \in Nat /\ DOMAIN row = 1 .. Len(row)
      BY <3>1
    <3>5. \A j \in 1 .. k : id[row[j]] # asked[f]
      <4>1. \A j \in 1 .. k : j = k \/ j \in 1 .. k - 1
        BY <3>4
      <4> QED
        BY <3>1, <3>2, <4>1
    <3>6. Passed(f)'
      <4>1. CASE k = Len(row)
        BY <3>2, <3>3, <3>4, <3>5, <4>1 DEF Passed
      <4>2. CASE k # Len(row)
        <5>1. k + 1 \in DOMAIN row /\ (k + 1) - 1 = k /\ at'[f] = row[k + 1]
          BY <3>2, <3>3, <3>4, <4>2
        <5> QED
          BY <3>2, <3>5, <5>1 DEF Passed
      <4> QED
        BY <4>1, <4>2
    <3>7. ~Matched(f)'
      BY <3>2 DEF Walks, Matched, vars
    <3> QED
      BY <1>3, <1>4, <3>2, <3>6, <3>7 DEF Walks
  <2>8. CASE FindMatch(f)
    <3>1. at[f] \in ToSet(row)
      BY <2>6, <2>8 DEF FindMatch, ToSet
    <3>2. /\ ~Walks(f)' /\ asked'[f] # NoId /\ at' = at /\ row' = row /\ ~crashed'
      BY <1>0, <1>3, <2>8
      DEF FindMatch, Walks, CallUpgradeLock, Call, Goto, LockTypeOK, tvars
    <3> QED
      BY <1>4, <3>1, <3>2
  <2>9. CASE FindRemove(f)
    <3>1. at[f] \in ToSet(row) /\ mode[f] = "write"
      BY <1>3, <2>9 DEF FindRemove, Holds, Matched
    <3>2. ~crashed' /\ asked'[f] = NoId /\ mode'[f] = "write"
      BY <1>3, <2>9, <3>1 DEF FindRemove, TakeOut, vars
    <3> QED
      BY <1>4, <3>2 DEF Walks, Matched
  <2>10. CASE FindFound(f) \/ FindMissing(f)
    <3>1. mode'[f] = "none" /\ ~crashed'
      BY <1>0, <1>3, <2>10
      DEF FindFound, FindMissing, unset_write_lock, unset_read_lock, LeaveRead, LockTypeOK
    <3> QED
      BY <1>4, <3>1 DEF Walks, Matched
  <2>11. FindFirst(t) \/ FindNext(t) \/ FindMatch(t) \/ FindRemove(t) \/ FindFound(t)
            \/ FindMissing(t) => t = f
    <3>1. asked[t] # NoId \/ "find" \in crew[t] => t = f
      BY <1>1, <2>0 DEF SlotInv, Having
    <3> QED
      BY <3>1 DEF FindFirst, FindNext, FindMatch, FindRemove, FindFound, FindMissing, Walks
  <2> QED
    BY <1>16, <2>1, <2>2, <2>3, <2>4, <2>5, <2>7, <2>8, <2>9, <2>10, <2>11 DEF Use
<1> QED
  BY <1>9, <1>10, <1>11, <1>12, <1>13, <1>14, <1>15, <1>16, <1>3 DEF HNext, Works

\* LoneInv is kept, too.
LEMMA LoneStays ==
    ASSUME TableInv, LoneInv, [HNext]_hvars
    PROVE  LoneInv'
<1> USE DEF TableInv
<1>1. LockTypeOK /\ PlaceInv
  BY DEF LockInv
<1>2. CASE UNCHANGED hvars
  <2>1. UNCHANGED <<crew, lockflags, threadid, pc, mode, row, id, asked, at, crashed>>
    BY <1>2 DEF hvars, vars, tvars
  <2> QED
    BY <2>1
    DEF LoneInv, LoneFinder, Delivering, Private, Having, AloneInv, FinderOut, FinderReads,
        FinderUpgrades, FinderUpgraded, FreeWord, AdderAt, WalkInv, Walks, Matched, Passed
<1>3. CASE HNext
  <2>1. crew' = crew
    BY <1>1, <1>3, TableIsLock, CrewFixed DEF vars, HASHTABLE_init
  <2>2. LoneFinder' <=> LoneFinder
    BY <2>1 DEF LoneFinder, Delivering, Private, Having
  <2> SUFFICES ASSUME LoneFinder
               PROVE  AloneInv' /\ WalkInv'
    BY <2>2 DEF LoneInv
  <2>3. AloneInv /\ WalkInv
    BY DEF LoneInv
  <2>4. WalkInv'
    BY <1>3, <2>3, WalkStep
  <2>5. AloneInv'
    <3>1. PICK f \in Threads : Having("find") = {f} /\ Having("read") = {f}
      BY <1>1, LoneCrew
    <3>2. CASE UNCHANGED vars
      BY <2>1, <2>3, <3>2
      DEF vars, Having, AloneInv, FinderOut, FinderReads, FinderUpgrades, FinderUpgraded,
          FreeWord, AdderAt
    <3>3. CASE HASHTABLE_init
      <4>1. lockflags' = 0 /\ UNCHANGED <<crew, threadid, pc, mode>>
            /\ \A t \in Threads : pc[t] = "idle" /\ mode[t] = "none"
        BY <3>3, Zenon DEF HASHTABLE_init, Quiet
      <4>2. threadid = NoThread
        BY <2>3, <3>1, <4>1
        DEF AloneInv, FinderOut, FinderReads, FinderUpgrades, FinderUpgraded, FreeWord, Having
      <4> QED
        BY <4>1, <4>2 DEF AloneInv, FinderOut, FreeWord, AdderAt, Having
    <3>4. ASSUME NEW t \in Having("find") \cup Having("write"), LoneStep(t)
          PROVE  AloneInv'
      BY <1>1, <2>3, <3>1, <3>4, LoneCrew, AloneStep
    <3> QED
      BY <1>1, <1>3, <3>2, <3>3, <3>4, LoneTable
  <2> QED
    BY <2>4, <2>5
<1> QED
  BY <1>2, <1>3

\* What a finder steps from or takes out is in the row.
LEMMA FinderSafe ==
    ASSUME TableTypeOK, SlotInv, LoneFinder, WalkInv, ~crashed,
           NEW t \in Having("find"), Use(t)
    PROVE  ~crashed'
<1>1. t \in Threads /\ "find" \in crew[t] /\ "add" \notin crew[t] /\ "remove" \notin crew[t]
  BY UserAssumption DEF Having, TableTypeOK
<1>2. CASE FindNext(t)
  BY <1>2 DEF FindNext, WalkInv, Passed, ToSet
<1>3. CASE FindRemove(t)
  <2>1. at[t] \in ToSet(row)
    BY <1>3 DEF FindRemove, Holds, WalkInv, Matched
  <2> QED
    BY <1>3, <2>1 DEF FindRemove, TakeOut, ToSet
<1>4. ~AddRemove(t)
  BY <1>1 DEF AddRemove
<1> QED
  BY <1>2, <1>3, <1>4
  DEF Use, AddRemoveEnd, FindFirst, FindMatch, FindFound, FindMissing, Inside, tvars

\* With one finder and one adder in a row, a find that comes back with nothing is
\* right, and never steps from an element that is gone.
THEOREM MissIsRightHolds == HSpec => MissIsRight
<1>1. HInit => LoneInv
  BY DEF HInit, Init, LoneInv, AloneInv, FinderOut, FreeWord, AdderAt, Having, WalkInv,
         Walks, Matched
<1>2. TableInv /\ LoneInv /\ [HNext]_hvars => LoneInv'
  BY LoneStays
<1> DEFINE Right == LoneFinder => \A t \in Having("find") :
      /\ Use(t) => ~crashed'
      /\ FindMissing(t) => \A k \in DOMAIN row : id[row[k]] # asked[t]
<1>3. TableInv /\ LoneInv /\ LoneInv' /\ [HNext]_hvars => [Right]_hvars
  <2> SUFFICES ASSUME TableInv, LoneInv, HNext, hvars' # hvars, LoneFinder
               PROVE  Right
    BY Zenon
  <2>1. ~crashed /\ WalkInv
    BY DEF HNext, LoneInv
  <2>2. ASSUME NEW t \in Having("find"), Use(t)
        PROVE  ~crashed'
    BY <2>1, <2>2, FinderSafe DEF TableInv
  <2>3. ASSUME NEW t \in Having("find"), FindMissing(t), NEW k \in DOMAIN row
        PROVE  id[row[k]] # asked[t]
    <3>1. Walks(t) /\ at[t] = NoElement
      BY <2>3 DEF FindMissing
    <3>2. Passed(t)
      BY <2>1, <3>1 DEF WalkInv
    <3>3. \A j \in DOMAIN row : row[j] # NoElement
      BY NoneAssumption DEF TableInv, TableTypeOK
    <3> QED
      BY <3>1, <3>2, <3>3 DEF Passed
  <2> QED
    BY <2>2, <2>3
<1> HIDE DEF Right
<1>4. HSpec => [][Right]_hvars
  BY <1>1, <1>2, <1>3, TableInvariant, PTL DEF HSpec
<1> QED
  BY <1>4 DEF MissIsRight, Right

=============================================================================
