-------------------------- MODULE EventFlagProofs ---------------------------
(***************************************************************************)
(* Proofs about EventFlag, for any number of threads and flags: the type   *)
(* invariant, mutual exclusion of the lock bits, no lost wakeup, the exact *)
(* results of set_flag/unset_flag and of the waits, and that EventFlag     *)
(* implements FlagLock.                                                    *)
(***************************************************************************)
EXTENDS EventFlag, TLAPS

\* Only the thread that has the mutex is between the lock and the unlock of
\* a function (or between the return of a wait and the next one).
MutexInv == \A t \in Threads :
    stage[t] \in {"test", "update", "broadcast", "release"} => mutex = t

\* The arguments a thread is called with: a lock call names one lock bit,
\* the other calls name state bits.
CallInv == \A t \in Threads :
    /\ call[t].fn = "lock_flag" => \E f \in LockFlags : call[t].mask = {f}
    /\ call[t].fn = "unlock_flag" =>
          call[t].mask = {} \/ \E f \in LockFlags : call[t].mask = {f}
    /\ call[t].fn \notin LockCalls => call[t].mask \subseteq StateFlags

\* A lock bit is set exactly when somebody has it; the thread about to set
\* it found it unset, the thread about to unset it has it.
HoldInv ==
    /\ \A f \in LockFlags : f \in word <=> holders[f] # {}
    /\ \A f \in LockFlags : \A t, u \in holders[f] : t = u
    /\ \A t \in Threads :
          /\ stage[t] = "update" /\ call[t].fn = "lock_flag" => word \cap call[t].mask = {}
          /\ stage[t] \in {"acquire", "test", "update"} /\ call[t].fn = "unlock_flag" =>
                /\ call[t].mask # {}
                /\ \A f \in call[t].mask : holders[f] = {t}

\* unlock_flag, set_flag and unset_flag never sleep, the waits change nothing.
SleepInv == \A t \in Threads :
    /\ stage[t] \in {"blocked", "woken"} => call[t].fn \notin ({"unlock_flag"} \cup SetCalls)
    /\ stage[t] \in {"update", "broadcast"} => call[t].fn \notin WaitCalls

IInv == /\ TypeOK /\ MutexInv /\ CallInv /\ SleepInv /\ HoldInv
        /\ NoLostWakeup /\ WaitResultExact /\ OneWinner

\* Every step keeps the types.
LEMMA TypeStep ==
    TypeOK /\ [Next]_vars => TypeOK'
<1> SUFFICES ASSUME TypeOK, [Next]_vars
             PROVE  TypeOK'
    OBVIOUS
<1> USE FlagAssumption, ThreadAssumption
<1>1. CASE UNCHANGED vars
  BY <1>1
  DEF TypeOK, CallRecord, Stages, Calls, LockCalls, SetCalls, WaitCalls, Flags, Masks,
      vars
<1>2. ASSUME NEW t \in Threads, Step(t)
      PROVE  TypeOK'
  <2>1. ASSUME NEW f \in LockFlags, CallLockFlag(t, f)
        PROVE  TypeOK'
    BY <2>1
    DEF TypeOK, CallRecord, Stages, Calls, LockCalls, SetCalls, WaitCalls, Flags,
        Masks, CallLockFlag, Begin
  <2>2. ASSUME NEW f \in LockFlags, CallUnlockFlag(t, f)
        PROVE  TypeOK'
    BY <2>2
    DEF TypeOK, CallRecord, Stages, Calls, LockCalls, SetCalls, WaitCalls, Flags,
        Masks, CallUnlockFlag, Begin
  <2>3. ASSUME NEW fn \in SetCalls, NEW mask \in Masks, CallSetFlag(t, fn, mask)
        PROVE  TypeOK'
    BY <2>3
    DEF TypeOK, CallRecord, Stages, Calls, LockCalls, SetCalls, WaitCalls, Flags,
        Masks, CallSetFlag, Begin, SetCalls, Masks
  <2>4. ASSUME NEW fn \in WaitCalls, NEW mask \in Masks, NEW timed \in BOOLEAN,
               CallWait(t, fn, mask, timed)
        PROVE  TypeOK'
    BY <2>4
    DEF TypeOK, CallRecord, Stages, Calls, LockCalls, SetCalls, WaitCalls, Flags,
        Masks, CallWait, Begin, WaitCalls, Masks
  <2>5. CASE AcquireMutex(t)
    BY <2>5
    DEF TypeOK, CallRecord, Stages, Calls, LockCalls, SetCalls, WaitCalls, Flags,
        Masks, AcquireMutex
  <2>6. CASE TestLockFlag(t)
    BY <2>6
    DEF TypeOK, CallRecord, Stages, Calls, LockCalls, SetCalls, WaitCalls, Flags,
        Masks, TestLockFlag, Sleep
  <2>7. CASE TestNothing(t)
    BY <2>7
    DEF TypeOK, CallRecord, Stages, Calls, LockCalls, SetCalls, WaitCalls, Flags,
        Masks, TestNothing
  <2>8. CASE TestWaitFlag(t)
    <3>1. CASE Sleep(t)
      BY <3>1 DEF TypeOK, Stages, Sleep
    <3>2. CASE ~Sleep(t)
      <4>1. PICK r \in {{}, call[t].mask} : result' = [result EXCEPT ![t] = r]
        BY <2>8, <3>2 DEF TestWaitFlag, WaitFlag
      <4>2. call[t].mask \subseteq Flags
        BY DEF TypeOK, CallRecord
      <4>3. /\ stage' = [stage EXCEPT ![t] = "release"]
            /\ UNCHANGED <<word, mutex, call, expired, holders, balance>>
        BY <2>8, <3>2 DEF TestWaitFlag, WaitFlag
      <4> QED
        BY <4>1, <4>2, <4>3 DEF TypeOK, Stages
    <3> QED
      BY <3>1, <3>2
  <2>9. CASE TestUnlockWait(t)
    BY <2>9
    DEF TypeOK, CallRecord, Stages, Calls, LockCalls, SetCalls, WaitCalls, Flags,
        Masks, TestUnlockWait, Sleep
  <2>10. CASE UpdateLockFlag(t)
    BY <2>10
    DEF TypeOK, CallRecord, Stages, Calls, LockCalls, SetCalls, WaitCalls, Flags,
        Masks, UpdateLockFlag, Update
  <2>11. CASE UpdateUnlockFlag(t)
    BY <2>11
    DEF TypeOK, CallRecord, Stages, Calls, LockCalls, SetCalls, WaitCalls, Flags,
        Masks, UpdateUnlockFlag, Update
  <2>12. CASE UpdateSetFlag(t)
    BY <2>12
    DEF TypeOK, CallRecord, Stages, Calls, LockCalls, SetCalls, WaitCalls, Flags,
        Masks, UpdateSetFlag, SetFlag, Update
  <2>13. CASE UpdateUnsetFlag(t)
    BY <2>13
    DEF TypeOK, CallRecord, Stages, Calls, LockCalls, SetCalls, WaitCalls, Flags,
        Masks, UpdateUnsetFlag, UnsetFlag, Update
  <2>14. CASE Broadcast(t)
    BY <2>14
    DEF TypeOK, CallRecord, Stages, Calls, LockCalls, SetCalls, WaitCalls, Flags,
        Masks, Broadcast, Wake
  <2>15. CASE ReleaseMutex(t)
    BY <2>15
    DEF TypeOK, CallRecord, Stages, Calls, LockCalls, SetCalls, WaitCalls, Flags,
        Masks, ReleaseMutex
  <2>16. CASE Timeout(t)
    BY <2>16
    DEF TypeOK, CallRecord, Stages, Calls, LockCalls, SetCalls, WaitCalls, Flags,
        Masks, Timeout
  <2>17. CASE SpuriousWakeup(t)
    BY <2>17
    DEF TypeOK, CallRecord, Stages, Calls, LockCalls, SetCalls, WaitCalls, Flags,
        Masks, SpuriousWakeup
  <2> QED
    BY <1>2, <2>1, <2>2, <2>3, <2>4, <2>5, <2>6, <2>7, <2>8, <2>9, <2>10, <2>11, <2>12, <2>13, <2>14, <2>15, <2>16, <2>17
    DEF Step, Enter, Proceed
<1> QED
  BY <1>1, <1>2 DEF Next

\* Every step keeps the mutex with the thread inside the functions.
LEMMA MutexStep ==
    TypeOK /\ MutexInv /\ [Next]_vars => MutexInv'
<1> SUFFICES ASSUME TypeOK, MutexInv, [Next]_vars
             PROVE  MutexInv'
    OBVIOUS
<1> USE FlagAssumption, ThreadAssumption
<1>1. CASE UNCHANGED vars
  BY <1>1 DEF TypeOK, MutexInv, vars
<1>2. ASSUME NEW t \in Threads, Step(t)
      PROVE  MutexInv'
  <2>1. ASSUME NEW f \in LockFlags, CallLockFlag(t, f)
        PROVE  MutexInv'
    BY <2>1 DEF TypeOK, MutexInv, CallLockFlag, Begin
  <2>2. ASSUME NEW f \in LockFlags, CallUnlockFlag(t, f)
        PROVE  MutexInv'
    BY <2>2 DEF TypeOK, MutexInv, CallUnlockFlag, Begin
  <2>3. ASSUME NEW fn \in SetCalls, NEW mask \in Masks, CallSetFlag(t, fn, mask)
        PROVE  MutexInv'
    BY <2>3 DEF TypeOK, MutexInv, CallSetFlag, Begin, SetCalls, Masks
  <2>4. ASSUME NEW fn \in WaitCalls, NEW mask \in Masks, NEW timed \in BOOLEAN,
               CallWait(t, fn, mask, timed)
        PROVE  MutexInv'
    BY <2>4 DEF TypeOK, MutexInv, CallWait, Begin, WaitCalls, Masks
  <2>5. CASE AcquireMutex(t)
    BY <2>5 DEF TypeOK, MutexInv, AcquireMutex
  <2>6. CASE TestLockFlag(t)
    BY <2>6 DEF TypeOK, MutexInv, TestLockFlag, Sleep
  <2>7. CASE TestNothing(t)
    BY <2>7 DEF TypeOK, MutexInv, TestNothing
  <2>8. CASE TestWaitFlag(t)
    BY <2>8 DEF TypeOK, MutexInv, TestWaitFlag, WaitFlag, Sleep
  <2>9. CASE TestUnlockWait(t)
    BY <2>9 DEF TypeOK, MutexInv, TestUnlockWait, Sleep
  <2>10. CASE UpdateLockFlag(t)
    BY <2>10 DEF TypeOK, MutexInv, UpdateLockFlag, Update
  <2>11. CASE UpdateUnlockFlag(t)
    BY <2>11 DEF TypeOK, MutexInv, UpdateUnlockFlag, Update
  <2>12. CASE UpdateSetFlag(t)
    BY <2>12 DEF TypeOK, MutexInv, UpdateSetFlag, SetFlag, Update
  <2>13. CASE UpdateUnsetFlag(t)
    BY <2>13 DEF TypeOK, MutexInv, UpdateUnsetFlag, UnsetFlag, Update
  <2>14. CASE Broadcast(t)
    BY <2>14 DEF TypeOK, MutexInv, Broadcast, Wake
  <2>15. CASE ReleaseMutex(t)
    BY <2>15 DEF TypeOK, MutexInv, ReleaseMutex
  <2>16. CASE Timeout(t)
    BY <2>16 DEF TypeOK, MutexInv, Timeout
  <2>17. CASE SpuriousWakeup(t)
    BY <2>17 DEF TypeOK, MutexInv, SpuriousWakeup
  <2> QED
    BY <1>2, <2>1, <2>2, <2>3, <2>4, <2>5, <2>6, <2>7, <2>8, <2>9, <2>10, <2>11, <2>12, <2>13, <2>14, <2>15, <2>16, <2>17
    DEF Step, Enter, Proceed
<1> QED
  BY <1>1, <1>2 DEF Next

\* Every step keeps the shape of the arguments.
LEMMA CallStep ==
    TypeOK /\ CallInv /\ [Next]_vars => CallInv'
<1> SUFFICES ASSUME TypeOK, CallInv, [Next]_vars
             PROVE  CallInv'
    OBVIOUS
<1> USE FlagAssumption, ThreadAssumption
<1>1. CASE UNCHANGED vars
  BY <1>1
  DEF TypeOK, CallRecord, Stages, Calls, LockCalls, SetCalls, WaitCalls, Flags, Masks,
      CallInv, vars
<1>2. ASSUME NEW t \in Threads, Step(t)
      PROVE  CallInv'
  <2>1. ASSUME NEW f \in LockFlags, CallLockFlag(t, f)
        PROVE  CallInv'
    BY <2>1
    DEF TypeOK, CallRecord, Stages, Calls, LockCalls, SetCalls, WaitCalls, Flags,
        Masks, CallInv, CallLockFlag, Begin
  <2>2. ASSUME NEW f \in LockFlags, CallUnlockFlag(t, f)
        PROVE  CallInv'
    BY <2>2
    DEF TypeOK, CallRecord, Stages, Calls, LockCalls, SetCalls, WaitCalls, Flags,
        Masks, CallInv, CallUnlockFlag, Begin
  <2>3. ASSUME NEW fn \in SetCalls, NEW mask \in Masks, CallSetFlag(t, fn, mask)
        PROVE  CallInv'
    BY <2>3
    DEF TypeOK, CallRecord, Stages, Calls, LockCalls, SetCalls, WaitCalls, Flags,
        Masks, CallInv, CallSetFlag, Begin, SetCalls, Masks
  <2>4. ASSUME NEW fn \in WaitCalls, NEW mask \in Masks, NEW timed \in BOOLEAN,
               CallWait(t, fn, mask, timed)
        PROVE  CallInv'
    BY <2>4
    DEF TypeOK, CallRecord, Stages, Calls, LockCalls, SetCalls, WaitCalls, Flags,
        Masks, CallInv, CallWait, Begin, WaitCalls, Masks
  <2>5. CASE AcquireMutex(t)
    BY <2>5
    DEF TypeOK, CallRecord, Stages, Calls, LockCalls, SetCalls, WaitCalls, Flags,
        Masks, CallInv, AcquireMutex
  <2>6. CASE TestLockFlag(t)
    BY <2>6
    DEF TypeOK, CallRecord, Stages, Calls, LockCalls, SetCalls, WaitCalls, Flags,
        Masks, CallInv, TestLockFlag, Sleep
  <2>7. CASE TestNothing(t)
    BY <2>7
    DEF TypeOK, CallRecord, Stages, Calls, LockCalls, SetCalls, WaitCalls, Flags,
        Masks, CallInv, TestNothing
  <2>8. CASE TestWaitFlag(t)
    BY <2>8
    DEF TypeOK, CallRecord, Stages, Calls, LockCalls, SetCalls, WaitCalls, Flags,
        Masks, CallInv, TestWaitFlag, WaitFlag, Sleep
  <2>9. CASE TestUnlockWait(t)
    BY <2>9
    DEF TypeOK, CallRecord, Stages, Calls, LockCalls, SetCalls, WaitCalls, Flags,
        Masks, CallInv, TestUnlockWait, Sleep
  <2>10. CASE UpdateLockFlag(t)
    BY <2>10
    DEF TypeOK, CallRecord, Stages, Calls, LockCalls, SetCalls, WaitCalls, Flags,
        Masks, CallInv, UpdateLockFlag, Update
  <2>11. CASE UpdateUnlockFlag(t)
    BY <2>11
    DEF TypeOK, CallRecord, Stages, Calls, LockCalls, SetCalls, WaitCalls, Flags,
        Masks, CallInv, UpdateUnlockFlag, Update
  <2>12. CASE UpdateSetFlag(t)
    BY <2>12
    DEF TypeOK, CallRecord, Stages, Calls, LockCalls, SetCalls, WaitCalls, Flags,
        Masks, CallInv, UpdateSetFlag, SetFlag, Update
  <2>13. CASE UpdateUnsetFlag(t)
    BY <2>13
    DEF TypeOK, CallRecord, Stages, Calls, LockCalls, SetCalls, WaitCalls, Flags,
        Masks, CallInv, UpdateUnsetFlag, UnsetFlag, Update
  <2>14. CASE Broadcast(t)
    BY <2>14
    DEF TypeOK, CallRecord, Stages, Calls, LockCalls, SetCalls, WaitCalls, Flags,
        Masks, CallInv, Broadcast, Wake
  <2>15. CASE ReleaseMutex(t)
    BY <2>15
    DEF TypeOK, CallRecord, Stages, Calls, LockCalls, SetCalls, WaitCalls, Flags,
        Masks, CallInv, ReleaseMutex
  <2>16. CASE Timeout(t)
    BY <2>16
    DEF TypeOK, CallRecord, Stages, Calls, LockCalls, SetCalls, WaitCalls, Flags,
        Masks, CallInv, Timeout
  <2>17. CASE SpuriousWakeup(t)
    BY <2>17
    DEF TypeOK, CallRecord, Stages, Calls, LockCalls, SetCalls, WaitCalls, Flags,
        Masks, CallInv, SpuriousWakeup
  <2> QED
    BY <1>2, <2>1, <2>2, <2>3, <2>4, <2>5, <2>6, <2>7, <2>8, <2>9, <2>10, <2>11, <2>12, <2>13, <2>14, <2>15, <2>16, <2>17
    DEF Step, Enter, Proceed
<1> QED
  BY <1>1, <1>2 DEF Next

\* Only the waiting calls sleep.
LEMMA SleepStep ==
    TypeOK /\ SleepInv /\ [Next]_vars => SleepInv'
<1> SUFFICES ASSUME TypeOK, SleepInv, [Next]_vars
             PROVE  SleepInv'
    OBVIOUS
<1> USE FlagAssumption, ThreadAssumption
<1>1. CASE UNCHANGED vars
  BY <1>1
  DEF TypeOK, CallRecord, Stages, Calls, LockCalls, SetCalls, WaitCalls, Flags, Masks,
      SleepInv, vars
<1>2. ASSUME NEW t \in Threads, Step(t)
      PROVE  SleepInv'
  <2>1. ASSUME NEW f \in LockFlags, CallLockFlag(t, f)
        PROVE  SleepInv'
    BY <2>1
    DEF TypeOK, CallRecord, Stages, Calls, LockCalls, SetCalls, WaitCalls, Flags,
        Masks, SleepInv, CallLockFlag, Begin
  <2>2. ASSUME NEW f \in LockFlags, CallUnlockFlag(t, f)
        PROVE  SleepInv'
    BY <2>2
    DEF TypeOK, CallRecord, Stages, Calls, LockCalls, SetCalls, WaitCalls, Flags,
        Masks, SleepInv, CallUnlockFlag, Begin
  <2>3. ASSUME NEW fn \in SetCalls, NEW mask \in Masks, CallSetFlag(t, fn, mask)
        PROVE  SleepInv'
    BY <2>3
    DEF TypeOK, CallRecord, Stages, Calls, LockCalls, SetCalls, WaitCalls, Flags,
        Masks, SleepInv, CallSetFlag, Begin, SetCalls, Masks
  <2>4. ASSUME NEW fn \in WaitCalls, NEW mask \in Masks, NEW timed \in BOOLEAN,
               CallWait(t, fn, mask, timed)
        PROVE  SleepInv'
    BY <2>4
    DEF TypeOK, CallRecord, Stages, Calls, LockCalls, SetCalls, WaitCalls, Flags,
        Masks, SleepInv, CallWait, Begin, WaitCalls, Masks
  <2>5. CASE AcquireMutex(t)
    BY <2>5
    DEF TypeOK, CallRecord, Stages, Calls, LockCalls, SetCalls, WaitCalls, Flags,
        Masks, SleepInv, AcquireMutex
  <2>6. CASE TestLockFlag(t)
    BY <2>6
    DEF TypeOK, CallRecord, Stages, Calls, LockCalls, SetCalls, WaitCalls, Flags,
        Masks, SleepInv, TestLockFlag, Sleep
  <2>7. CASE TestNothing(t)
    BY <2>7
    DEF TypeOK, CallRecord, Stages, Calls, LockCalls, SetCalls, WaitCalls, Flags,
        Masks, SleepInv, TestNothing
  <2>8. CASE TestWaitFlag(t)
    BY <2>8
    DEF TypeOK, CallRecord, Stages, Calls, LockCalls, SetCalls, WaitCalls, Flags,
        Masks, SleepInv, TestWaitFlag, WaitFlag, Sleep
  <2>9. CASE TestUnlockWait(t)
    BY <2>9
    DEF TypeOK, CallRecord, Stages, Calls, LockCalls, SetCalls, WaitCalls, Flags,
        Masks, SleepInv, TestUnlockWait, Sleep
  <2>10. CASE UpdateLockFlag(t)
    BY <2>10
    DEF TypeOK, CallRecord, Stages, Calls, LockCalls, SetCalls, WaitCalls, Flags,
        Masks, SleepInv, UpdateLockFlag, Update
  <2>11. CASE UpdateUnlockFlag(t)
    BY <2>11
    DEF TypeOK, CallRecord, Stages, Calls, LockCalls, SetCalls, WaitCalls, Flags,
        Masks, SleepInv, UpdateUnlockFlag, Update
  <2>12. CASE UpdateSetFlag(t)
    BY <2>12
    DEF TypeOK, CallRecord, Stages, Calls, LockCalls, SetCalls, WaitCalls, Flags,
        Masks, SleepInv, UpdateSetFlag, SetFlag, Update
  <2>13. CASE UpdateUnsetFlag(t)
    BY <2>13
    DEF TypeOK, CallRecord, Stages, Calls, LockCalls, SetCalls, WaitCalls, Flags,
        Masks, SleepInv, UpdateUnsetFlag, UnsetFlag, Update
  <2>14. CASE Broadcast(t)
    BY <2>14
    DEF TypeOK, CallRecord, Stages, Calls, LockCalls, SetCalls, WaitCalls, Flags,
        Masks, SleepInv, Broadcast, Wake
  <2>15. CASE ReleaseMutex(t)
    BY <2>15
    DEF TypeOK, CallRecord, Stages, Calls, LockCalls, SetCalls, WaitCalls, Flags,
        Masks, SleepInv, ReleaseMutex
  <2>16. CASE Timeout(t)
    BY <2>16
    DEF TypeOK, CallRecord, Stages, Calls, LockCalls, SetCalls, WaitCalls, Flags,
        Masks, SleepInv, Timeout
  <2>17. CASE SpuriousWakeup(t)
    BY <2>17
    DEF TypeOK, CallRecord, Stages, Calls, LockCalls, SetCalls, WaitCalls, Flags,
        Masks, SleepInv, SpuriousWakeup
  <2> QED
    BY <1>2, <2>1, <2>2, <2>3, <2>4, <2>5, <2>6, <2>7, <2>8, <2>9, <2>10, <2>11, <2>12, <2>13, <2>14, <2>15, <2>16, <2>17
    DEF Step, Enter, Proceed
<1> QED
  BY <1>1, <1>2 DEF Next

\* Every step keeps the word and the holders of the lock bits in agreement.
LEMMA HoldStep ==
    TypeOK /\ MutexInv /\ CallInv /\ SleepInv /\ HoldInv /\ [Next]_vars => HoldInv'
<1> SUFFICES ASSUME TypeOK, MutexInv, CallInv, SleepInv, HoldInv, [Next]_vars
             PROVE  HoldInv'
    OBVIOUS
<1> USE FlagAssumption, ThreadAssumption
<1>1. CASE UNCHANGED vars
  BY <1>1
  DEF TypeOK, MutexInv, CallInv, SleepInv, HoldInv, LockCalls, SetCalls, WaitCalls,
      vars
<1>2. ASSUME NEW t \in Threads, Step(t)
      PROVE  HoldInv'
  <2>1. ASSUME NEW f \in LockFlags, CallLockFlag(t, f)
        PROVE  HoldInv'
    BY <2>1
    DEF TypeOK, MutexInv, CallInv, SleepInv, HoldInv, LockCalls, SetCalls, WaitCalls,
        CallLockFlag, Begin
  <2>2. ASSUME NEW f \in LockFlags, CallUnlockFlag(t, f)
        PROVE  HoldInv'
    BY <2>2
    DEF TypeOK, MutexInv, CallInv, SleepInv, HoldInv, LockCalls, SetCalls, WaitCalls,
        CallUnlockFlag, Begin
  <2>3. ASSUME NEW fn \in SetCalls, NEW mask \in Masks, CallSetFlag(t, fn, mask)
        PROVE  HoldInv'
    BY <2>3
    DEF TypeOK, MutexInv, CallInv, SleepInv, HoldInv, LockCalls, SetCalls, WaitCalls,
        CallSetFlag, Begin, SetCalls, Masks
  <2>4. ASSUME NEW fn \in WaitCalls, NEW mask \in Masks, NEW timed \in BOOLEAN,
               CallWait(t, fn, mask, timed)
        PROVE  HoldInv'
    BY <2>4
    DEF TypeOK, MutexInv, CallInv, SleepInv, HoldInv, LockCalls, SetCalls, WaitCalls,
        CallWait, Begin, WaitCalls, Masks
  <2>5. CASE AcquireMutex(t)
    BY <2>5
    DEF TypeOK, MutexInv, CallInv, SleepInv, HoldInv, LockCalls, SetCalls, WaitCalls,
        AcquireMutex
  <2>6. CASE TestLockFlag(t)
    BY <2>6
    DEF TypeOK, MutexInv, CallInv, SleepInv, HoldInv, LockCalls, SetCalls, WaitCalls,
        TestLockFlag, Sleep, IsSet
  <2>7. CASE TestNothing(t)
    BY <2>7
    DEF TypeOK, MutexInv, CallInv, SleepInv, HoldInv, LockCalls, SetCalls, WaitCalls,
        TestNothing
  <2>8. CASE TestWaitFlag(t)
    BY <2>8
    DEF TypeOK, MutexInv, CallInv, SleepInv, HoldInv, LockCalls, SetCalls, WaitCalls,
        TestWaitFlag, WaitFlag, Sleep
  <2>9. CASE TestUnlockWait(t)
    BY <2>9
    DEF TypeOK, MutexInv, CallInv, SleepInv, HoldInv, LockCalls, SetCalls, WaitCalls,
        TestUnlockWait, Sleep
  <2>10. CASE UpdateLockFlag(t)
    <3>1. PICK f \in LockFlags : call[t].mask = {f}
      BY <2>10 DEF UpdateLockFlag, CallInv
    <3>2. f \notin word /\ holders[f] = {}
      BY <2>10, <3>1 DEF UpdateLockFlag, Update, HoldInv
    <3>3. /\ word' = word \cup {f}
          /\ holders' = [holders EXCEPT ![f] = {t}]
          /\ stage' = [stage EXCEPT ![t] = "broadcast"]
          /\ UNCHANGED <<mutex, call>>
      BY <2>10, <3>1, <3>2 DEF UpdateLockFlag, Update, TypeOK
    <3>4. \A u \in Threads : stage'[u] = "update" => FALSE
      BY <2>10, <3>3 DEF UpdateLockFlag, Update, TypeOK, MutexInv
    <3>5. ASSUME NEW u \in Threads, NEW g \in call[u].mask, call[u].fn = "unlock_flag",
                 stage[u] \in {"acquire", "test", "update"}
          PROVE  g # f
      BY <3>2, <3>5 DEF HoldInv
    <3>6. \A g \in LockFlags : /\ g \in word' <=> holders'[g] # {}
                              /\ \A v, w \in holders'[g] : v = w
      <4>1. TAKE g \in LockFlags
      <4>2. CASE g = f
        BY <3>3, <4>2 DEF TypeOK
      <4>3. CASE g # f
        BY <3>3, <4>3 DEF HoldInv, TypeOK
      <4> QED
        BY <4>2, <4>3
    <3>7. ASSUME NEW u \in Threads, call'[u].fn = "unlock_flag",
                 stage'[u] \in {"acquire", "test", "update"}
          PROVE  call'[u].mask # {} /\ \A g \in call'[u].mask : holders'[g] = {u}
      <4>1. stage[u] = stage'[u]
        BY <3>3, <3>7 DEF TypeOK
      <4>2. \A g \in call[u].mask : g \in LockFlags
        BY <3>3, <3>7 DEF CallInv
      <4> QED
        BY <3>3, <3>5, <3>7, <4>1, <4>2 DEF HoldInv, TypeOK
    <3> QED
      BY <3>4, <3>6, <3>7 DEF HoldInv
  <2>11. CASE UpdateUnlockFlag(t)
    BY <2>11
    DEF TypeOK, MutexInv, CallInv, SleepInv, HoldInv, LockCalls, SetCalls, WaitCalls,
        UpdateUnlockFlag, Update
  <2>12. CASE UpdateSetFlag(t)
    BY <2>12
    DEF TypeOK, MutexInv, CallInv, SleepInv, HoldInv, LockCalls, SetCalls, WaitCalls,
        UpdateSetFlag, SetFlag, Update
  <2>13. CASE UpdateUnsetFlag(t)
    BY <2>13
    DEF TypeOK, MutexInv, CallInv, SleepInv, HoldInv, LockCalls, SetCalls, WaitCalls,
        UpdateUnsetFlag, UnsetFlag, Update
  <2>14. CASE Broadcast(t)
    BY <2>14
    DEF TypeOK, MutexInv, CallInv, SleepInv, HoldInv, LockCalls, SetCalls, WaitCalls,
        Broadcast, Wake
  <2>15. CASE ReleaseMutex(t)
    BY <2>15
    DEF TypeOK, MutexInv, CallInv, SleepInv, HoldInv, LockCalls, SetCalls, WaitCalls,
        ReleaseMutex
  <2>16. CASE Timeout(t)
    BY <2>16
    DEF TypeOK, MutexInv, CallInv, SleepInv, HoldInv, LockCalls, SetCalls, WaitCalls,
        Timeout
  <2>17. CASE SpuriousWakeup(t)
    BY <2>17
    DEF TypeOK, MutexInv, CallInv, SleepInv, HoldInv, LockCalls, SetCalls, WaitCalls,
        SpuriousWakeup
  <2> QED
    BY <1>2, <2>1, <2>2, <2>3, <2>4, <2>5, <2>6, <2>7, <2>8, <2>9, <2>10, <2>11, <2>12, <2>13, <2>14, <2>15, <2>16, <2>17
    DEF Step, Enter, Proceed
<1> QED
  BY <1>1, <1>2 DEF Next

\* Every step keeps the sleeping threads asleep for a reason.
LEMMA WakeupStep ==
    TypeOK /\ MutexInv /\ NoLostWakeup /\ [Next]_vars => NoLostWakeup'
<1> SUFFICES ASSUME TypeOK, MutexInv, NoLostWakeup, [Next]_vars
             PROVE  NoLostWakeup'
    OBVIOUS
<1> USE FlagAssumption, ThreadAssumption
<1>1. CASE UNCHANGED vars
  BY <1>1 DEF TypeOK, MutexInv, NoLostWakeup, vars, IsSet, Condition
<1>2. ASSUME NEW t \in Threads, Step(t)
      PROVE  NoLostWakeup'
  <2>1. ASSUME NEW f \in LockFlags, CallLockFlag(t, f)
        PROVE  NoLostWakeup'
    BY <2>1 DEF TypeOK, MutexInv, NoLostWakeup, CallLockFlag, Begin, IsSet, Condition
  <2>2. ASSUME NEW f \in LockFlags, CallUnlockFlag(t, f)
        PROVE  NoLostWakeup'
    BY <2>2 DEF TypeOK, MutexInv, NoLostWakeup, CallUnlockFlag, Begin, IsSet, Condition
  <2>3. ASSUME NEW fn \in SetCalls, NEW mask \in Masks, CallSetFlag(t, fn, mask)
        PROVE  NoLostWakeup'
    BY <2>3
    DEF TypeOK, MutexInv, NoLostWakeup, CallSetFlag, Begin, SetCalls, Masks, IsSet,
        Condition
  <2>4. ASSUME NEW fn \in WaitCalls, NEW mask \in Masks, NEW timed \in BOOLEAN,
               CallWait(t, fn, mask, timed)
        PROVE  NoLostWakeup'
    BY <2>4
    DEF TypeOK, MutexInv, NoLostWakeup, CallWait, Begin, WaitCalls, Masks, IsSet,
        Condition
  <2>5. CASE AcquireMutex(t)
    BY <2>5 DEF TypeOK, MutexInv, NoLostWakeup, AcquireMutex, IsSet, Condition
  <2>6. CASE TestLockFlag(t)
    BY <2>6 DEF TypeOK, MutexInv, NoLostWakeup, TestLockFlag, Sleep, IsSet, Condition
  <2>7. CASE TestNothing(t)
    BY <2>7 DEF TypeOK, MutexInv, NoLostWakeup, TestNothing, IsSet, Condition
  <2>8. CASE TestWaitFlag(t)
    BY <2>8
    DEF TypeOK, MutexInv, NoLostWakeup, TestWaitFlag, WaitFlag, Sleep, IsSet,
        Condition
  <2>9. CASE TestUnlockWait(t)
    BY <2>9 DEF TypeOK, MutexInv, NoLostWakeup, TestUnlockWait, Sleep, IsSet, Condition
  <2>10. CASE UpdateLockFlag(t)
    BY <2>10
    DEF TypeOK, MutexInv, NoLostWakeup, UpdateLockFlag, Update, IsSet, Condition
  <2>11. CASE UpdateUnlockFlag(t)
    BY <2>11
    DEF TypeOK, MutexInv, NoLostWakeup, UpdateUnlockFlag, Update, IsSet, Condition
  <2>12. CASE UpdateSetFlag(t)
    BY <2>12
    DEF TypeOK, MutexInv, NoLostWakeup, UpdateSetFlag, SetFlag, Update, IsSet,
        Condition
  <2>13. CASE UpdateUnsetFlag(t)
    BY <2>13
    DEF TypeOK, MutexInv, NoLostWakeup, UpdateUnsetFlag, UnsetFlag, Update, IsSet,
        Condition
  <2>14. CASE Broadcast(t)
    BY <2>14 DEF TypeOK, MutexInv, NoLostWakeup, Broadcast, Wake, IsSet, Condition
  <2>15. CASE ReleaseMutex(t)
    BY <2>15 DEF TypeOK, MutexInv, NoLostWakeup, ReleaseMutex, IsSet, Condition
  <2>16. CASE Timeout(t)
    BY <2>16 DEF TypeOK, MutexInv, NoLostWakeup, Timeout, IsSet, Condition
  <2>17. CASE SpuriousWakeup(t)
    BY <2>17 DEF TypeOK, MutexInv, NoLostWakeup, SpuriousWakeup, IsSet, Condition
  <2> QED
    BY <1>2, <2>1, <2>2, <2>3, <2>4, <2>5, <2>6, <2>7, <2>8, <2>9, <2>10, <2>11, <2>12, <2>13, <2>14, <2>15, <2>16, <2>17
    DEF Step, Enter, Proceed
<1> QED
  BY <1>1, <1>2 DEF Next

\* The word does not change between the last test of a wait and its return.
LEMMA ResultStep ==
    TypeOK /\ MutexInv /\ SleepInv /\ WaitResultExact /\ [Next]_vars => WaitResultExact'
<1> SUFFICES ASSUME TypeOK, MutexInv, SleepInv, WaitResultExact, [Next]_vars
             PROVE  WaitResultExact'
    OBVIOUS
<1> USE FlagAssumption, ThreadAssumption
<1>1. CASE UNCHANGED vars
  BY <1>1
  DEF TypeOK, MutexInv, SleepInv, WaitCalls, WaitResultExact, vars, IsSet, Condition
<1>2. ASSUME NEW t \in Threads, Step(t)
      PROVE  WaitResultExact'
  <2>1. ASSUME NEW f \in LockFlags, CallLockFlag(t, f)
        PROVE  WaitResultExact'
    BY <2>1
    DEF TypeOK, MutexInv, SleepInv, WaitCalls, WaitResultExact, CallLockFlag, Begin,
        IsSet, Condition
  <2>2. ASSUME NEW f \in LockFlags, CallUnlockFlag(t, f)
        PROVE  WaitResultExact'
    BY <2>2
    DEF TypeOK, MutexInv, SleepInv, WaitCalls, WaitResultExact, CallUnlockFlag, Begin,
        IsSet, Condition
  <2>3. ASSUME NEW fn \in SetCalls, NEW mask \in Masks, CallSetFlag(t, fn, mask)
        PROVE  WaitResultExact'
    BY <2>3
    DEF TypeOK, MutexInv, SleepInv, WaitCalls, WaitResultExact, CallSetFlag, Begin,
        SetCalls, Masks, IsSet, Condition
  <2>4. ASSUME NEW fn \in WaitCalls, NEW mask \in Masks, NEW timed \in BOOLEAN,
               CallWait(t, fn, mask, timed)
        PROVE  WaitResultExact'
    BY <2>4
    DEF TypeOK, MutexInv, SleepInv, WaitCalls, WaitResultExact, CallWait, Begin,
        WaitCalls, Masks, IsSet, Condition
  <2>5. CASE AcquireMutex(t)
    BY <2>5
    DEF TypeOK, MutexInv, SleepInv, WaitCalls, WaitResultExact, AcquireMutex, IsSet,
        Condition
  <2>6. CASE TestLockFlag(t)
    BY <2>6
    DEF TypeOK, MutexInv, SleepInv, WaitCalls, WaitResultExact, TestLockFlag, Sleep,
        IsSet, Condition
  <2>7. CASE TestNothing(t)
    BY <2>7
    DEF TypeOK, MutexInv, SleepInv, WaitCalls, WaitResultExact, TestNothing, IsSet,
        Condition
  <2>8. CASE TestWaitFlag(t)
    BY <2>8
    DEF TypeOK, MutexInv, SleepInv, WaitCalls, WaitResultExact, TestWaitFlag,
        WaitFlag, Sleep, IsSet, Condition
  <2>9. CASE TestUnlockWait(t)
    BY <2>9
    DEF TypeOK, MutexInv, SleepInv, WaitCalls, WaitResultExact, TestUnlockWait, Sleep,
        IsSet, Condition
  <2>10. CASE UpdateLockFlag(t)
    BY <2>10
    DEF TypeOK, MutexInv, SleepInv, WaitCalls, WaitResultExact, UpdateLockFlag,
        Update, IsSet, Condition
  <2>11. CASE UpdateUnlockFlag(t)
    BY <2>11
    DEF TypeOK, MutexInv, SleepInv, WaitCalls, WaitResultExact, UpdateUnlockFlag,
        Update, IsSet, Condition
  <2>12. CASE UpdateSetFlag(t)
    BY <2>12
    DEF TypeOK, MutexInv, SleepInv, WaitCalls, WaitResultExact, UpdateSetFlag,
        SetFlag, Update, IsSet, Condition
  <2>13. CASE UpdateUnsetFlag(t)
    BY <2>13
    DEF TypeOK, MutexInv, SleepInv, WaitCalls, WaitResultExact, UpdateUnsetFlag,
        UnsetFlag, Update, IsSet, Condition
  <2>14. CASE Broadcast(t)
    BY <2>14
    DEF TypeOK, MutexInv, SleepInv, WaitCalls, WaitResultExact, Broadcast, Wake,
        IsSet, Condition
  <2>15. CASE ReleaseMutex(t)
    BY <2>15
    DEF TypeOK, MutexInv, SleepInv, WaitCalls, WaitResultExact, ReleaseMutex, IsSet,
        Condition
  <2>16. CASE Timeout(t)
    BY <2>16
    DEF TypeOK, MutexInv, SleepInv, WaitCalls, WaitResultExact, Timeout, IsSet,
        Condition
  <2>17. CASE SpuriousWakeup(t)
    BY <2>17
    DEF TypeOK, MutexInv, SleepInv, WaitCalls, WaitResultExact, SpuriousWakeup, IsSet,
        Condition
  <2> QED
    BY <1>2, <2>1, <2>2, <2>3, <2>4, <2>5, <2>6, <2>7, <2>8, <2>9, <2>10, <2>11, <2>12, <2>13, <2>14, <2>15, <2>16, <2>17
    DEF Step, Enter, Proceed
<1> QED
  BY <1>1, <1>2 DEF Next

\* Every step keeps the balance of sets and unsets.
LEMMA WinnerStep ==
    TypeOK /\ CallInv /\ OneWinner /\ [Next]_vars => OneWinner'
<1> SUFFICES ASSUME TypeOK, CallInv, OneWinner, [Next]_vars
             PROVE  OneWinner'
    OBVIOUS
<1> USE FlagAssumption, ThreadAssumption
<1>1. CASE UNCHANGED vars
  BY <1>1 DEF TypeOK, CallInv, OneWinner, LockCalls, Flags, vars
<1>2. ASSUME NEW t \in Threads, Step(t)
      PROVE  OneWinner'
  <2>1. ASSUME NEW f \in LockFlags, CallLockFlag(t, f)
        PROVE  OneWinner'
    BY <2>1 DEF TypeOK, CallInv, OneWinner, LockCalls, Flags, CallLockFlag, Begin
  <2>2. ASSUME NEW f \in LockFlags, CallUnlockFlag(t, f)
        PROVE  OneWinner'
    BY <2>2 DEF TypeOK, CallInv, OneWinner, LockCalls, Flags, CallUnlockFlag, Begin
  <2>3. ASSUME NEW fn \in SetCalls, NEW mask \in Masks, CallSetFlag(t, fn, mask)
        PROVE  OneWinner'
    BY <2>3
    DEF TypeOK, CallInv, OneWinner, LockCalls, Flags, CallSetFlag, Begin, SetCalls,
        Masks
  <2>4. ASSUME NEW fn \in WaitCalls, NEW mask \in Masks, NEW timed \in BOOLEAN,
               CallWait(t, fn, mask, timed)
        PROVE  OneWinner'
    BY <2>4
    DEF TypeOK, CallInv, OneWinner, LockCalls, Flags, CallWait, Begin, WaitCalls,
        Masks
  <2>5. CASE AcquireMutex(t)
    BY <2>5 DEF TypeOK, CallInv, OneWinner, LockCalls, Flags, AcquireMutex
  <2>6. CASE TestLockFlag(t)
    BY <2>6 DEF TypeOK, CallInv, OneWinner, LockCalls, Flags, TestLockFlag, Sleep
  <2>7. CASE TestNothing(t)
    BY <2>7 DEF TypeOK, CallInv, OneWinner, LockCalls, Flags, TestNothing
  <2>8. CASE TestWaitFlag(t)
    BY <2>8
    DEF TypeOK, CallInv, OneWinner, LockCalls, Flags, TestWaitFlag, WaitFlag, Sleep
  <2>9. CASE TestUnlockWait(t)
    BY <2>9 DEF TypeOK, CallInv, OneWinner, LockCalls, Flags, TestUnlockWait, Sleep
  <2>10. CASE UpdateLockFlag(t)
    BY <2>10 DEF TypeOK, CallInv, OneWinner, LockCalls, Flags, UpdateLockFlag, Update
  <2>11. CASE UpdateUnlockFlag(t)
    BY <2>11 DEF TypeOK, CallInv, OneWinner, LockCalls, Flags, UpdateUnlockFlag, Update
  <2>12. CASE UpdateSetFlag(t)
    BY <2>12
    DEF TypeOK, CallInv, OneWinner, LockCalls, Flags, UpdateSetFlag, SetFlag, Update
  <2>13. CASE UpdateUnsetFlag(t)
    BY <2>13
    DEF TypeOK, CallInv, OneWinner, LockCalls, Flags, UpdateUnsetFlag, UnsetFlag,
        Update
  <2>14. CASE Broadcast(t)
    BY <2>14 DEF TypeOK, CallInv, OneWinner, LockCalls, Flags, Broadcast, Wake
  <2>15. CASE ReleaseMutex(t)
    BY <2>15 DEF TypeOK, CallInv, OneWinner, LockCalls, Flags, ReleaseMutex
  <2>16. CASE Timeout(t)
    BY <2>16 DEF TypeOK, CallInv, OneWinner, LockCalls, Flags, Timeout
  <2>17. CASE SpuriousWakeup(t)
    BY <2>17 DEF TypeOK, CallInv, OneWinner, LockCalls, Flags, SpuriousWakeup
  <2> QED
    BY <1>2, <2>1, <2>2, <2>3, <2>4, <2>5, <2>6, <2>7, <2>8, <2>9, <2>10, <2>11, <2>12, <2>13, <2>14, <2>15, <2>16, <2>17
    DEF Step, Enter, Proceed
<1> QED
  BY <1>1, <1>2 DEF Next

\* The inductive invariant holds in every reachable state.
THEOREM Inductive == Spec => []IInv
<1>1. Init => IInv
  BY ThreadAssumption, FlagAssumption
  DEF Init, IInv, TypeOK, MutexInv, CallInv, SleepInv, HoldInv, NoLostWakeup, WaitResultExact,
      OneWinner, NoCall, CallRecord, Stages, Calls, LockCalls, SetCalls, WaitCalls, Flags
<1>2. IInv /\ [Next]_vars => IInv'
  BY TypeStep, MutexStep, CallStep, SleepStep, HoldStep, WakeupStep, ResultStep, WinnerStep
  DEF IInv
<1> QED
  BY <1>1, <1>2, PTL DEF Spec

\* Every variable keeps its type.
THEOREM TypeCorrect == Spec => []TypeOK
<1>1. IInv => TypeOK
  BY DEF IInv
<1> QED
  BY Inductive, <1>1, PTL

\* A lock bit is never with two threads (EVENT_signal_lock_flag).
THEOREM MutualExclusionCorrect == Spec => []MutualExclusion
<1>1. IInv => MutualExclusion
  BY DEF IInv, HoldInv, MutualExclusion
<1> QED
  BY Inductive, <1>1, PTL

\* Nobody sleeps on a word that does not make it wait.
THEOREM NoLostWakeupCorrect == Spec => []NoLostWakeup
<1>1. IInv => NoLostWakeup
  BY DEF IInv
<1> QED
  BY Inductive, <1>1, PTL

\* The waits return the truth (event_signal_wait_flag_shared).
THEOREM WaitResultCorrect == Spec => []WaitResultExact
<1>1. IInv => WaitResultExact
  BY DEF IInv
<1> QED
  BY Inductive, <1>1, PTL

\* One thread is told that it set a bit (EVENT_signal_set_flag).
THEOREM OneWinnerCorrect == Spec => []OneWinner
<1>1. IInv => OneWinner
  BY DEF IInv
<1> QED
  BY Inductive, <1>1, PTL

\* Every step of EventFlag is a step of FlagLock or leaves the holders alone.
LEMMA RefinementStep ==
    TypeOK /\ CallInv /\ HoldInv /\ [Next]_vars => [Abstract!Next]_holders
<1> SUFFICES ASSUME TypeOK, CallInv, HoldInv, [Next]_vars
             PROVE  [Abstract!Next]_holders
    OBVIOUS
<1>1. CASE UNCHANGED vars
  BY <1>1 DEF vars
<1>2. ASSUME NEW t \in Threads, Step(t)
      PROVE  [Abstract!Next]_holders
  <2>1. CASE UpdateLockFlag(t)
    <3>1. PICK f \in LockFlags : call[t].mask = {f}
      BY <2>1 DEF UpdateLockFlag, CallInv
    <3>2. holders[f] = {}
      BY <2>1, <3>1 DEF UpdateLockFlag, Update, HoldInv
    <3>3. holders' = [holders EXCEPT ![f] = {t}]
      BY <2>1, <3>1, <3>2 DEF UpdateLockFlag, TypeOK
    <3> QED
      BY <3>2, <3>3 DEF Abstract!Next, Abstract!Acquire
  <2>2. CASE UpdateUnlockFlag(t)
    <3>1. PICK f \in LockFlags : call[t].mask = {f}
      BY <2>2 DEF UpdateUnlockFlag, Update, CallInv, HoldInv
    <3>2. holders[f] = {t}
      BY <2>2, <3>1 DEF UpdateUnlockFlag, Update, HoldInv
    <3>3. holders' = [holders EXCEPT ![f] = {}]
      BY <2>2, <3>1, <3>2 DEF UpdateUnlockFlag, TypeOK
    <3> QED
      BY <3>2, <3>3 DEF Abstract!Next, Abstract!Release
  <2>3. CASE ~UpdateLockFlag(t) /\ ~UpdateUnlockFlag(t)
    <3> HIDE DEF Abstract!Next
    <3>1. UNCHANGED holders
      BY <1>2, <2>3
      DEF Step, Enter, Proceed, CallLockFlag, CallUnlockFlag, CallSetFlag, CallWait, Begin,
          AcquireMutex, Sleep, TestLockFlag, TestNothing, TestWaitFlag, WaitFlag,
          TestUnlockWait, UpdateSetFlag, SetFlag, UpdateUnsetFlag, UnsetFlag, Broadcast, ReleaseMutex, Timeout, SpuriousWakeup
    <3> QED
      BY <3>1
  <2> QED
    BY <2>1, <2>2, <2>3
<1> QED
  BY <1>1, <1>2 DEF Next

\* The functions of lib/event keep the promise of FlagLock.
THEOREM RefinementCorrect == Spec => ImplementsFlagLock
<1>1. Init => Abstract!Init
  BY DEF Init, Abstract!Init
<1>2. IInv /\ [Next]_vars => [Abstract!Next]_holders
  BY RefinementStep DEF IInv
<1> QED
  BY <1>1, <1>2, Inductive, PTL DEF Spec, ImplementsFlagLock, Abstract!Spec
=============================================================================
