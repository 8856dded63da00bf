----------------------------- MODULE JobProofs ------------------------------
(***************************************************************************)
(* Proofs about jobs: LocalThreads, which runs them, for any number of     *)
(* workers, putters and jobs, and Start, whose job does the actions of any *)
(* list of modules while the main thread may undo them.                    *)
(***************************************************************************)
EXTENDS LocalThreads, Start, TLAPS

\* The types of the pool.
TypeOK ==
    /\ finish \in BOOLEAN
    /\ joblist \in Seq(Jobs)
    /\ pc \in [Workers -> WorkerStages]
    /\ doing \in [Workers -> SUBSET Jobs]
    /\ ppc \in [Putters -> PutStages]
    /\ putting \in [Putters -> SUBSET Jobs]
    /\ raced \subseteq Putters
    /\ stray \in BOOLEAN
    /\ fate \in [Jobs -> Fates]

\* A job that is being linked is nowhere else: no other putter links it.
PuttingInv ==
    /\ \A s \in Putters : ppc[s] = "link" => \A j \in putting[s] : fate[j] = "putting"
    /\ \A s, r \in Putters : s # r /\ ppc[s] = "link" /\ ppc[r] = "link" =>
          putting[s] \cap putting[r] = {}

\* After local_threads_stop nobody goes to sleep any more.
FinishInv == finish => \A w \in Workers : pc[w] # "asleep"

PoolInv == TypeOK /\ PuttingInv /\ RunsOnce /\ FinishInv /\ NoForgottenJob

-----------------------------------------------------------------------------
\* The job list without its first job.
LEMMA TailList ==
    ASSUME NEW S, NEW s \in Seq(S), s # <<>>
    PROVE  /\ Head(s) \in S /\ Head(s) = s[1] /\ 1 \in 1 .. Len(s)
           /\ Tail(s) \in Seq(S) /\ Len(Tail(s)) = Len(s) - 1
           /\ \A i \in 1 .. Len(Tail(s)) : Tail(s)[i] = s[i + 1] /\ i + 1 \in 1 .. Len(s)
OBVIOUS

\* A sequence, of jobs or of modules, with one more member.
LEMMA AppendList ==
    ASSUME NEW S, NEW s \in Seq(S), NEW e \in S
    PROVE  /\ Append(s, e) \in Seq(S) /\ Len(Append(s, e)) = Len(s) + 1 /\ Len(s) \in Nat
           /\ \A i \in 1 .. Len(s) : Append(s, e)[i] = s[i]
           /\ Append(s, e)[Len(s) + 1] = e
           /\ \A i \in 1 .. Len(s) + 1 : i \in 1 .. Len(s) \/ i = Len(s) + 1
OBVIOUS

LEMMA WakeAllType ==
    ASSUME TypeOK
    PROVE  WakeAll \in [Workers -> WorkerStages] /\ \A w \in Workers : WakeAll[w] # "asleep"
BY DEF TypeOK, WakeAll, WorkerStages

LEMMA PoolInit == Init => PoolInv
<1> SUFFICES ASSUME Init
             PROVE  PoolInv
  OBVIOUS
<1>1. finish \in BOOLEAN /\ stray \in BOOLEAN
  BY Zenon DEF Init
<1>2. TypeOK
  BY <1>1 DEF Init, TypeOK, WorkerStages, PutStages, Fates
<1>3. PuttingInv /\ FinishInv /\ NoForgottenJob
  BY DEF Init, PuttingInv, FinishInv, NoForgottenJob
<1>4. RunsOnce
  BY DEF Init, RunsOnce
<1> QED
  BY <1>2, <1>3, <1>4 DEF PoolInv

LEMMA TypeStep ==
    ASSUME TypeOK, Next
    PROVE  TypeOK'
<1> USE DEF TypeOK, WorkerStages, PutStages, Fates
<1>1. ASSUME NEW s \in Putters, NEW j \in Jobs, PutTest(s, j)
      PROVE  TypeOK'
  BY <1>1 DEF PutTest
<1>2. ASSUME NEW s \in Putters, PutLink(s)
      PROVE  TypeOK'
  <2>1. PICK j \in putting[s] :
           /\ joblist' \in {joblist, Append(joblist, j)}
           /\ fate' \in {[fate EXCEPT ![j] = "queued"], [fate EXCEPT ![j] = "lost"]}
    BY <1>2 DEF PutLink
  <2>2. stray' \in BOOLEAN
    BY <1>2, Zenon DEF PutLink
  <2>3. j \in Jobs
    OBVIOUS
  <2>4. joblist' \in Seq(Jobs) /\ fate' \in [Jobs -> Fates]
    <3>1. Append(joblist, j) \in Seq(Jobs)
      BY <2>3, AppendList
    <3> QED
      BY <2>1, <2>3, <3>1
  <2> QED
    BY <1>2, <2>2, <2>4 DEF PutLink, Linking
<1>3. ASSUME NEW s \in Putters, PutBroadcast(s)
      PROVE  TypeOK'
  BY <1>3, WakeAllType DEF PutBroadcast
<1>4. ASSUME NEW w \in Workers, CreateThread(w) \/ SpuriousWakeup(w) \/ CheckFinish(w)
                                  \/ CheckSleep(w) \/ JobReturns(w) \/ Exit(w)
      PROVE  TypeOK'
  BY <1>4 DEF CreateThread, SpuriousWakeup, CheckFinish, CheckSleep, JobReturns, Exit
<1>5. ASSUME NEW w \in Workers, CheckTake(w)
      PROVE  TypeOK'
  <2>1. Head(joblist) \in Jobs /\ Tail(joblist) \in Seq(Jobs)
    BY <1>5, TailList DEF CheckTake, Take
  <2>2. stray' \in BOOLEAN
    BY <1>5, Zenon DEF CheckTake, Take, AtTail
  <2> QED
    BY <1>5, <2>1, <2>2 DEF CheckTake, Take, AtTail, Linking
<1>6. CASE local_threads_stop
  <2>1. finish' \in BOOLEAN
    BY <1>6, Zenon DEF local_threads_stop
  <2> QED
    BY <1>6, <2>1, WakeAllType DEF local_threads_stop
<1> QED
  BY <1>1, <1>2, <1>3, <1>4, <1>5, <1>6 DEF Next, Work

\* PutTest, PutLink, CheckTake and JobReturns change what RunsOnce is about.
LEMMA JobStep ==
    ASSUME TypeOK, PuttingInv, RunsOnce, Next
    PROVE  PuttingInv' /\ RunsOnce'
<1> USE DEF TypeOK
<1>1. ASSUME NEW s \in Putters, NEW j \in Jobs, PutTest(s, j)
      PROVE  PuttingInv' /\ RunsOnce'
  <2>1. /\ fate[j] = "new" /\ UNCHANGED <<joblist, doing>>
        /\ \E f \in {"refused", "putting"} : fate' = [fate EXCEPT ![j] = f]
    BY <1>1 DEF PutTest
  <2>2. RunsOnce'
    BY <2>1 DEF RunsOnce
  <2>3. PuttingInv'
    BY <1>1, <2>1 DEF PuttingInv, PutTest
  <2> QED
    BY <2>2, <2>3
<1>2. ASSUME NEW s \in Putters, PutLink(s)
      PROVE  PuttingInv' /\ RunsOnce'
  <2>1. PICK j \in putting[s] :
           \/ joblist' = joblist /\ fate' = [fate EXCEPT ![j] = "lost"]
           \/ joblist' = Append(joblist, j) /\ fate' = [fate EXCEPT ![j] = "queued"]
    BY <1>2 DEF PutLink
  <2>2. /\ j \in Jobs /\ fate[j] = "putting" /\ UNCHANGED <<doing, putting>>
        /\ ppc' = [ppc EXCEPT ![s] = "broadcast"] /\ ppc[s] = "link"
    BY <1>2 DEF PutLink, PuttingInv
  <2>3. PuttingInv'
    BY <2>1, <2>2 DEF PuttingInv
  <2>4. CASE joblist' = joblist /\ fate' = [fate EXCEPT ![j] = "lost"]
    BY <2>2, <2>3, <2>4 DEF RunsOnce
  <2>5. CASE joblist' = Append(joblist, j) /\ fate' = [fate EXCEPT ![j] = "queued"]
    <3>1. \A i \in 1 .. Len(joblist) : joblist[i] # j /\ joblist[i] \in Jobs
      BY <2>2 DEF RunsOnce
    <3>2. \A i \in 1 .. Len(joblist') :
             \/ i \in 1 .. Len(joblist) /\ joblist'[i] = joblist[i]
             \/ i = Len(joblist) + 1 /\ joblist'[i] = j
      BY <2>2, <2>5, AppendList
    <3>3. \A i \in 1 .. Len(joblist') : fate'[joblist'[i]] = "queued"
      BY <3>1, <3>2, <2>2, <2>5 DEF RunsOnce
    <3>4. \A i, k \in 1 .. Len(joblist') : joblist'[i] = joblist'[k] => i = k
      BY <3>1, <3>2 DEF RunsOnce
    <3>5. \A w \in Workers : \A k \in doing'[w] : fate'[k] = "started"
      BY <2>2, <2>5 DEF RunsOnce
    <3> QED
      BY <3>3, <3>4, <3>5, <2>2, <2>3 DEF RunsOnce
  <2> QED
    BY <2>1, <2>3, <2>4, <2>5
<1>3. ASSUME NEW w \in Workers, CheckTake(w)
      PROVE  PuttingInv' /\ RunsOnce'
  <2> DEFINE rest == Tail(joblist)
  <2>0. PICK j : j = Head(joblist)
    OBVIOUS
  <2>1. /\ j \in Jobs /\ j = joblist[1] /\ 1 \in 1 .. Len(joblist)
        /\ joblist' = rest /\ doing' = [doing EXCEPT ![w] = {j}]
        /\ fate' = [fate EXCEPT ![j] = "started"] /\ UNCHANGED <<ppc, putting>>
    BY <1>3, <2>0, TailList DEF CheckTake, Take
  <2>2. \A i \in 1 .. Len(rest) : rest[i] = joblist[i + 1] /\ i + 1 \in 1 .. Len(joblist)
    BY <1>3, TailList DEF CheckTake, Take
  <2>3. fate[j] = "queued"
    BY <2>1 DEF RunsOnce
  <2>4. PuttingInv'
    BY <2>1, <2>3 DEF PuttingInv
  <2> HIDE DEF rest
  <2>5. \A i \in 1 .. Len(rest) : rest[i] # j /\ rest[i] \in Jobs
    <3>1. \A i \in 1 .. Len(rest) : i + 1 # 1
      OBVIOUS
    <3> QED
      BY <3>1, <2>1, <2>2 DEF RunsOnce
  <2>6. \A i \in 1 .. Len(joblist') : fate'[joblist'[i]] = "queued"
    BY <2>1, <2>2, <2>5 DEF RunsOnce
  <2>7. \A i, k \in 1 .. Len(joblist') : joblist'[i] = joblist'[k] => i = k
    <3> SUFFICES ASSUME NEW i \in 1 .. Len(rest), NEW k \in 1 .. Len(rest), rest[i] = rest[k]
                 PROVE  i = k
      BY <2>1
    <3>1. i + 1 = k + 1
      BY <2>2 DEF RunsOnce
    <3> QED
      BY <3>1
  <2>8. \A v \in Workers : \A k \in doing'[v] : fate'[k] = "started"
    BY <2>1 DEF RunsOnce
  <2>9. \A v, u \in Workers : v # u => doing'[v] \cap doing'[u] = {}
    BY <2>1, <2>3 DEF RunsOnce
  <2> QED
    BY <2>4, <2>6, <2>7, <2>8, <2>9 DEF RunsOnce
<1>4. ASSUME NEW w \in Workers, JobReturns(w)
      PROVE  PuttingInv' /\ RunsOnce'
  <2>1. /\ fate' = [j \in Jobs |-> IF j \in doing[w] THEN "done" ELSE fate[j]]
        /\ doing' = [doing EXCEPT ![w] = {}] /\ UNCHANGED <<joblist, ppc, putting>>
    BY <1>4 DEF JobReturns
  <2>2. \A j \in Jobs : fate[j] # "started" => fate'[j] = fate[j]
    BY <2>1 DEF RunsOnce
  <2>3. PuttingInv'
    BY <2>1, <2>2 DEF PuttingInv
  <2>4. \A i \in 1 .. Len(joblist) : joblist[i] \in Jobs
    OBVIOUS
  <2>5. \A v \in Workers : \A k \in doing'[v] : fate'[k] = "started"
    BY <2>1 DEF RunsOnce
  <2> QED
    BY <2>1, <2>2, <2>3, <2>4, <2>5 DEF RunsOnce
<1>5. ASSUME UNCHANGED <<joblist, doing, fate>>, UNCHANGED putting /\ UNCHANGED ppc
      PROVE  PuttingInv' /\ RunsOnce'
  BY <1>5 DEF PuttingInv, RunsOnce
<1>6. ASSUME NEW s \in Putters, PutBroadcast(s)
      PROVE  PuttingInv' /\ RunsOnce'
  BY <1>6 DEF PutBroadcast, PuttingInv, RunsOnce
<1>7. ASSUME NEW w \in Workers, CreateThread(w) \/ SpuriousWakeup(w) \/ CheckFinish(w)
                                  \/ CheckSleep(w) \/ Exit(w)
      PROVE  PuttingInv' /\ RunsOnce'
  BY <1>5, <1>7 DEF CreateThread, SpuriousWakeup, CheckFinish, CheckSleep, Exit
<1>8. CASE local_threads_stop
  BY <1>5, <1>8 DEF local_threads_stop
<1> QED
  BY <1>1, <1>2, <1>3, <1>4, <1>6, <1>7, <1>8 DEF Next, Work

LEMMA SleepStep ==
    ASSUME TypeOK, FinishInv, NoForgottenJob, Next
    PROVE  FinishInv' /\ NoForgottenJob'
<1> USE DEF TypeOK, FinishInv, NoForgottenJob
<1>1. ASSUME NEW s \in Putters, (\E j \in Jobs : PutTest(s, j)) \/ PutLink(s)
      PROVE  FinishInv' /\ NoForgottenJob'
  <2>1. CASE PutLink(s)
    <3>1. ppc'[s] = "broadcast" /\ UNCHANGED <<finish, pc>>
      BY <2>1 DEF PutLink
    <3> QED
      BY <3>1
  <2>2. ASSUME NEW j \in Jobs, PutTest(s, j)
        PROVE  FinishInv' /\ NoForgottenJob'
    <3>1. /\ UNCHANGED <<finish, joblist, pc>>
          /\ \A r \in Putters : ppc[r] = "broadcast" => ppc'[r] = "broadcast"
      BY <2>2 DEF PutTest
    <3> QED
      BY <3>1
  <2> QED
    BY <1>1, <2>1, <2>2
<1>2. ASSUME NEW s \in Putters, PutBroadcast(s)
      PROVE  FinishInv' /\ NoForgottenJob'
  BY <1>2, WakeAllType DEF PutBroadcast
<1>3. ASSUME NEW w \in Workers, CreateThread(w) \/ SpuriousWakeup(w) \/ CheckFinish(w)
                                  \/ CheckSleep(w) \/ JobReturns(w) \/ Exit(w)
      PROVE  FinishInv' /\ NoForgottenJob'
  BY <1>3 DEF CreateThread, SpuriousWakeup, CheckFinish, CheckSleep, JobReturns, Exit
<1>4. ASSUME NEW w \in Workers, CheckTake(w)
      PROVE  FinishInv' /\ NoForgottenJob'
  BY <1>4 DEF CheckTake, Take
<1>5. CASE local_threads_stop
  BY <1>5, WakeAllType DEF local_threads_stop
<1> QED
  BY <1>1, <1>2, <1>3, <1>4, <1>5 DEF Next, Work

\* PoolInv is inductive.
THEOREM PoolInvariant == Spec => []PoolInv
<1>1. ASSUME PoolInv, [Next]_vars
      PROVE  PoolInv'
  <2>1. CASE Next
    BY <1>1, <2>1, TypeStep, JobStep, SleepStep DEF PoolInv
  <2>2. CASE UNCHANGED vars
    BY <1>1, <2>2
    DEF PoolInv, vars, TypeOK, PuttingInv, RunsOnce, FinishInv, NoForgottenJob
  <2> QED
    BY <1>1, <2>1, <2>2
<1> QED
  BY <1>1, PoolInit, PTL DEF Spec

\* A job that put_job has linked is on the list once, or with one worker: it is
\* never run twice, nor while it is still queued.
THEOREM RunsOnceHolds == Spec => []RunsOnce
<1>1. PoolInv => RunsOnce
  BY DEF PoolInv
<1> QED
  BY <1>1, PoolInvariant, PTL

\* A worker never sleeps over a job with nobody awake to see it, although put_job
\* links the job without the mutex of the pool.
THEOREM NoForgottenJobHolds == Spec => []NoForgottenJob
<1>1. PoolInv => NoForgottenJob
  BY DEF PoolInv
<1> QED
  BY <1>1, PoolInvariant, PTL

-----------------------------------------------------------------------------
(* The start sequence.                                                     *)

Statuses == SUBSET {"LOADED", "DONE", "ERROR"}
Before == {"read", "wait", "run", "test", "call", "poll", "ended"}
Undoing == {"undo", "calling", "undone", "unload", "unloaded"}
Doing == {"do", "calling", "did", "failed"}

\* The types of the start sequence.
StartTypeOK ==
    /\ type \in Seq({"intern", "extern"}) /\ status \in Seq(Statuses) /\ object \in Seq(BOOLEAN)
    /\ Len(status) = Len(type) /\ Len(object) = Len(type)
    /\ mpc \in Before \cup Undoing \cup {"done"} /\ mi \in 0 .. Len(type) /\ mcopy \in Statuses
    /\ jpc \in {"none", "queued", "wait", "ended"} \cup Doing /\ ji \in Nat /\ jcopy \in Statuses
    /\ did \in Seq(Nat) /\ undid \in Seq(Nat) /\ early \in BOOLEAN

\* Where the main thread and the job can be: the list is fixed when the job is
\* put, and a job that runs beside the undo was overtaken by it.
StageInv ==
    /\ mpc = "read" => jpc = "none"
    /\ mpc \in Before => undid = <<>> /\ ~early
    /\ mpc \in Undoing => mi > 0
    /\ mpc = "done" => mi = 0
    /\ JobRuns => type # <<>> /\ (mpc \in Before \/ early)
    /\ jpc \in Doing => ji \in Places

\* The action of module i was done.
Done(i) == \E k \in 1 .. Len(did) : did[k] = i

\* The job does the actions in the order of the list.
DidInv ==
    /\ jpc \in {"none", "queued", "wait"} => did = <<>>
    /\ \A k \in 1 .. Len(did) : did[k] \in Places
    /\ jpc \in Doing => \A k \in 1 .. Len(did) : did[k] < ji \/ (did[k] = ji /\ jpc = "did")
    /\ \A k, n \in 1 .. Len(did) : k < n => did[k] < did[n]
    /\ jpc = "did" => Done(ji)

\* The undo has not passed module i.
Ahead(i) == mpc \in Before \/ i <= mi

\* An external module is loaded until the undo unloads it: neither of the two
\* unlocked updates of its status brings the bit back or loses it too early.
LoadedInv ==
    /\ \A i \in Places :
          /\ "LOADED" \in status[i] => type[i] = "extern"
          /\ type[i] = "extern" /\ Ahead(i) => "LOADED" \in status[i]
          /\ object[i] <=> type[i] = "extern" /\ Ahead(i) /\ ~(i = mi /\ mpc = "unloaded")
    /\ jpc \in {"did", "failed"} =>
          /\ "LOADED" \in jcopy => type[ji] = "extern"
          /\ type[ji] = "extern" /\ Ahead(ji) => "LOADED" \in jcopy
    /\ mpc \in {"undone", "unloaded"} => ("LOADED" \in mcopy <=> type[mi] = "extern")

\* The bit DONE is set for what was done only, also in the copies.
DoneInv ==
    /\ \A i \in Places : "DONE" \in status[i] => Done(i)
    /\ jpc \in {"did", "failed"} /\ "DONE" \in jcopy => Done(ji)
    /\ mpc \in {"undone", "unloaded"} /\ "DONE" \in mcopy => Done(mi)
    /\ mpc = "calling" => Done(mi)

Passing == {"undone", "unload", "unloaded"}

\* The undo goes back along the list.
UndidInv ==
    /\ \A k \in 1 .. Len(undid) : Done(undid[k])
    /\ \A k \in 1 .. Len(undid) : undid[k] > mi \/ (undid[k] = mi /\ mpc \in Passing)
    /\ \A k, n \in 1 .. Len(undid) : k < n => undid[k] > undid[n]

\* What was done and is not undone yet.
Rest == Len(did) - Len(undid)

\* Without the job beside it: before the undo the bit DONE is set for all that
\* was done, during it for what is left, which is ahead.
CleanInv ==
    /\ mpc \in Before => \A k \in 1 .. Len(did) :
          (jpc = "did" /\ did[k] = ji) \/ "DONE" \in status[did[k]]
    /\ mpc \notin Before /\ ~early =>
          /\ Rest >= 0
          /\ \A k \in 1 .. Len(did) :
                IF k <= Rest
                THEN /\ did[k] < mi \/ (did[k] = mi /\ mpc \notin Passing)
                     /\ "DONE" \in status[did[k]]
                ELSE did[k] > mi \/ (did[k] = mi /\ mpc \in Passing)
          /\ \A i \in Places : i > mi => "DONE" \notin status[i] /\ "LOADED" \notin status[i]
          /\ mpc \in {"unload", "unloaded"} => "DONE" \notin status[mi]
          /\ mpc \in {"undone", "unloaded"} => mcopy = status[mi]

StartInv == /\ StartTypeOK /\ StageInv /\ DidInv /\ LoadedInv
            /\ DoneInv /\ UndidInv /\ CleanInv

-----------------------------------------------------------------------------
LEMMA StartInitInv == StartInit => StartInv
<1> SUFFICES ASSUME StartInit PROVE StartInv
  OBVIOUS
<1>1. early \in BOOLEAN
  BY Zenon DEF StartInit
<1>2. StartTypeOK
  BY <1>1 DEF StartInit, StartTypeOK, Before, Statuses
<1>3. StageInv /\ DidInv /\ LoadedInv
  BY DEF StartInit, StageInv, DidInv, LoadedInv, Before, Undoing, Doing, JobRuns, Places, Done
<1>4. DoneInv /\ UndidInv /\ CleanInv
  BY DEF StartInit, DoneInv, UndidInv, CleanInv, Before, Places, Passing, Done
<1> QED
  BY <1>2, <1>3, <1>4 DEF StartInv

\* Nothing of the list, the job or the undo changes: the main thread goes on
\* between its calls, or the event loop is stopped.
LEMMA QuietKeeps ==
    ASSUME StartInv,
           UNCHANGED <<type, status, object, mi, mcopy, jpc, ji, jcopy, did, undid, early>>,
           mpc' = mpc \/ (mpc \in Before /\ mpc' \in Before \ {"read"})
    PROVE  StartInv'
<1>1. StartTypeOK'
  BY DEF StartInv, StartTypeOK
<1>2. StageInv' /\ DidInv'
  BY DEF StartInv, StageInv, DidInv, Before, Undoing, JobRuns, Places, Done
<1>3. LoadedInv'
  BY DEF StartInv, LoadedInv, Before, Places, Ahead
<1>4. DoneInv' /\ UndidInv'
  BY DEF StartInv, DoneInv, UndidInv, Before, Places, Done, Passing
<1>5. CleanInv'
  BY DEF StartInv, CleanInv, Before, Places, Passing, Rest
<1> QED
  BY <1>1, <1>2, <1>3, <1>4, <1>5 DEF StartInv

\* The same for the job, when it neither begins nor does an action.
LEMMA JobQuietKeeps ==
    ASSUME StartInv,
           UNCHANGED <<type, status, object, mi, mcopy, jcopy, did, undid, early>>,
           \/ UNCHANGED ji /\ mpc = "read" /\ mpc' = "wait" /\ jpc' = "queued" /\ type # <<>>
           \/ UNCHANGED <<mpc, ji>> /\ jpc = "queued" /\ jpc' = "wait"
           \/ UNCHANGED <<mpc, ji>> /\ jpc = "wait" /\ jpc' = "ended"
           \/ UNCHANGED mpc /\ jpc = "wait" /\ jpc' = "do" /\ ji' = 1
    PROVE  StartInv'
<1>1. StartTypeOK'
  BY DEF StartInv, StartTypeOK, Before, Doing
<1>2. Len(type) \in Nat /\ (type # <<>> => 1 \in 1 .. Len(type))
  BY DEF StartInv, StartTypeOK
<1>3. StageInv' /\ DidInv'
  BY <1>2 DEF StartInv, StageInv, DidInv, Before, Undoing, Doing, JobRuns, Places, Done
<1>4. LoadedInv'
  BY DEF StartInv, LoadedInv, Before, Places, Ahead
<1>5. DoneInv' /\ UndidInv'
  BY DEF StartInv, DoneInv, UndidInv, Before, Places, Done, Passing
<1>6. CleanInv'
  <2>1. mpc' \in Before => mpc \in Before /\ jpc # "did"
    BY DEF StartInv, StageInv, Before
  <2>2. mpc' \notin Before => mpc' = mpc
    BY DEF Before
  <2> QED
    BY <2>1, <2>2 DEF StartInv, CleanInv, Places, Passing, Rest
<1> QED
  BY <1>1, <1>3, <1>4, <1>5, <1>6 DEF StartInv

\* A module is put on the list: nothing is done yet.
LEMMA AddKeeps ==
    ASSUME StartInv, OSNS_action_add \/ ProfileModule
    PROVE  StartInv'
<1>1. PICK t \in {"intern", "extern"}, s \in Statuses, o \in BOOLEAN :
        /\ type' = Append(type, t) /\ status' = Append(status, s) /\ object' = Append(object, o)
        /\ ("LOADED" \in s <=> t = "extern") /\ (o <=> t = "extern") /\ "DONE" \notin s
  <2>1. CASE OSNS_action_add
    <3>1. {} \in Statuses /\ FALSE \in BOOLEAN
      BY Zenon DEF Statuses
    <3>2. /\ type' = Append(type, "intern") /\ status' = Append(status, {})
          /\ object' = Append(object, FALSE)
      BY <2>1 DEF OSNS_action_add, Add
    <3> QED
      BY <3>1, <3>2
  <2>2. CASE ProfileModule
    <3>1. {"LOADED"} \in Statuses /\ TRUE \in BOOLEAN
      BY Zenon DEF Statuses
    <3>2. /\ type' = Append(type, "extern") /\ status' = Append(status, {"LOADED"})
          /\ object' = Append(object, TRUE)
      BY <2>2 DEF ProfileModule, Add, OSNS_module_load, MODULE_load
    <3> QED
      BY <3>1, <3>2
  <2> QED
    BY <2>1, <2>2
<1>2. mpc = "read" /\ UNCHANGED <<mpc, mi, mcopy, jpc, ji, jcopy, did, undid, early>>
  BY DEF OSNS_action_add, ProfileModule, Add, main, job, history
<1>3. /\ StartTypeOK /\ type \in Seq({"intern", "extern"}) /\ status \in Seq(Statuses)
      /\ object \in Seq(BOOLEAN) /\ Len(status) = Len(type) /\ Len(object) = Len(type)
  BY DEF StartInv, StartTypeOK
<1> DEFINE len == Len(type)
<1>4. /\ type' \in Seq({"intern", "extern"}) /\ Len(type') = len + 1 /\ len \in Nat
      /\ \A i \in 1 .. len : type'[i] = type[i]
      /\ type'[len + 1] = t
      /\ \A i \in 1 .. len + 1 : i \in 1 .. len \/ i = len + 1
  BY <1>1, <1>3, AppendList
<1>5. /\ status' \in Seq(Statuses) /\ Len(status') = len + 1
      /\ \A i \in 1 .. len : status'[i] = status[i]
      /\ status'[len + 1] = s
  BY <1>1, <1>3, AppendList
<1>6. /\ object' \in Seq(BOOLEAN) /\ Len(object') = len + 1
      /\ \A i \in 1 .. len : object'[i] = object[i]
      /\ object'[len + 1] = o
  BY <1>1, <1>3, AppendList
<1>7. jpc = "none" /\ did = <<>> /\ undid = <<>> /\ Len(did) = 0 /\ Len(undid) = 0 /\ ~early
  BY <1>2 DEF StartInv, StageInv, DidInv, Before
<1>8. \A k : ~(k \in 1 .. 0)
  OBVIOUS
<1>9. StartTypeOK'
  BY <1>2, <1>3, <1>4, <1>5, <1>6 DEF StartTypeOK
<1>10. StageInv' /\ DidInv'
  BY <1>2, <1>7, <1>8 DEF StartInv, StageInv, DidInv, Before, Undoing, Doing, JobRuns, Done
<1>11. LoadedInv'
  <2> SUFFICES ASSUME NEW i \in Places'
               PROVE  /\ "LOADED" \in status'[i] <=> type'[i] = "extern"
                      /\ object'[i] <=> type'[i] = "extern"
    BY <1>2, <1>7 DEF LoadedInv, Ahead, Before
  <2>1. i \in 1 .. len \/ i = len + 1
    BY <1>4 DEF Places
  <2>2. CASE i = len + 1
    BY <2>2, <1>1, <1>4, <1>5, <1>6
  <2>3. CASE i \in 1 .. len
    BY <2>3, <1>2, <1>4, <1>5, <1>6 DEF StartInv, LoadedInv, Places, Ahead, Before
  <2> QED
    BY <2>1, <2>2, <2>3
<1>12. DoneInv'
  <2>1. ASSUME NEW i \in Places' PROVE "DONE" \notin status'[i]
    <3>1. i \in 1 .. len \/ i = len + 1
      BY <1>4 DEF Places
    <3> QED
      BY <3>1, <1>1, <1>4, <1>5, <1>7, <1>8 DEF StartInv, DoneInv, Places, Done
  <2> QED
    BY <2>1, <1>2, <1>7 DEF DoneInv
<1>13. UndidInv' /\ CleanInv'
  BY <1>2, <1>7, <1>8 DEF UndidInv, CleanInv, Before
<1> QED
  BY <1>9, <1>10, <1>11, <1>12, <1>13 DEF StartInv

\* The loop has ended: the undo begins at the last module.
LEMMA LoopEndKeeps ==
    ASSUME StartInv, LoopEnd
    PROVE  StartInv'
<1>1. /\ mpc = "ended" /\ mi' = Len(type) /\ Len(type) \in Nat /\ undid = <<>>
      /\ (type = <<>> /\ mpc' = "done") \/ (type # <<>> /\ mpc' = "undo")
      /\ UNCHANGED <<type, status, object, mcopy, jpc, ji, jcopy, did, undid>>
      /\ type = <<>> <=> Len(type) = 0
  <2>1. type \in Seq({"intern", "extern"}) /\ (mpc = "ended" => undid = <<>>)
    BY DEF StartInv, StartTypeOK, StageInv, Before
  <2>2. Len(type) \in Nat /\ (type = <<>> <=> Len(type) = 0)
    BY <2>1
  <2> QED
    BY <2>1, <2>2 DEF LoopEnd, list, job
<1>2. early' \in BOOLEAN /\ (early' <=> JobRuns)
  BY Zenon DEF LoopEnd, JobRuns
<1>3. Ahead(0)' \in BOOLEAN /\ \A i \in Places : Ahead(i) /\ Ahead(i)'
  BY <1>1 DEF Ahead, Before, Places
<1>4. StartTypeOK'
  BY <1>1, <1>2 DEF StartInv, StartTypeOK, Undoing
<1>5. StageInv'
  BY <1>1, <1>2 DEF StartInv, StageInv, Before, Undoing, Places, JobRuns
<1>6. DidInv'
  BY <1>1 DEF StartInv, DidInv, Places, Done
<1>7. LoadedInv'
  <2>1. jpc \in {"did", "failed"} => ji \in Places
    BY DEF StartInv, StageInv, Doing
  <2> QED
    BY <1>1, <1>3, <2>1 DEF StartInv, LoadedInv, Places
<1>8. DoneInv' /\ UndidInv'
  BY <1>1 DEF StartInv, DoneInv, UndidInv, Places, Done
<1>9. CleanInv'
  <2>1. Len(undid) = 0 /\ Len(did) \in Nat /\ Rest' = Len(did)
    BY <1>1 DEF StartInv, StartTypeOK, Rest
  <2>2. \A k \in 1 .. Len(did) : did[k] \in 1 .. Len(type)
    BY DEF StartInv, DidInv, Places
  <2>3. ASSUME ~early' PROVE \A k \in 1 .. Len(did) : "DONE" \in status[did[k]]
    BY <2>3, <1>1, <1>2 DEF StartInv, CleanInv, Before, JobRuns
  <2>4. \A k \in 1 .. Len(did) : did[k] < mi' \/ did[k] = mi'
    BY <1>1, <2>2
  <2>5. Len(did) > 0 => mpc' = "undo"
    <3>1. Len(did) > 0 => 1 \in 1 .. Len(did)
      BY <2>1
    <3> QED
      BY <1>1, <2>2, <3>1
  <2> QED
    BY <1>1, <2>1, <2>3, <2>4, <2>5 DEF CleanInv, Before, Passing, Places
<1> QED
  BY <1>4, <1>5, <1>6, <1>7, <1>8, <1>9 DEF StartInv

-----------------------------------------------------------------------------
(* The undo.                                                               *)

\* The module the undo is at.
LEMMA UndoPlace ==
    ASSUME StartInv, mpc \in Undoing
    PROVE  /\ mi \in Places /\ mi \in 1 .. Len(type) /\ mi \in Nat /\ mpc \notin Before
           /\ Len(type) \in Nat /\ Len(did) \in Nat /\ Len(undid) \in Nat
           /\ DOMAIN status = 1 .. Len(type) /\ DOMAIN object = 1 .. Len(type)
           /\ \A k \in 1 .. Len(did) : did[k] \in Nat /\ did[k] \in Places
           /\ \A k \in 1 .. Len(undid) : undid[k] \in Nat
<1>1. mi \in 1 .. Len(type) /\ mpc \notin Before
  BY DEF StartInv, StartTypeOK, StageInv, Undoing, Before
<1> QED
  BY <1>1 DEF StartInv, StartTypeOK, DidInv, Places

\* The undo goes on to the previous module.
LEMMA PassKeeps ==
    ASSUME StartInv, mpc \in {"unload", "unloaded"}, MPrev,
           UNCHANGED <<type, object, mcopy, jpc, ji, jcopy, did, undid, early>>,
           status' \in Seq(Statuses), Len(status') = Len(status),
           \A i \in Places : i # mi => status'[i] = status[i],
           "LOADED" \notin status'[mi], "DONE" \in status'[mi] => Done(mi),
           ~early => "DONE" \notin status'[mi],
           ~object[mi]
    PROVE  StartInv'
<1>1. /\ mi \in 1 .. Len(type) /\ mi \in Nat /\ mpc \notin Before /\ Len(type) \in Nat
      /\ Len(did) \in Nat /\ Len(undid) \in Nat
      /\ \A k \in 1 .. Len(did) : did[k] \in Nat /\ did[k] \in Places
      /\ \A k \in 1 .. Len(undid) : undid[k] \in Nat
  BY UndoPlace DEF Undoing
<1>2. /\ mi' = mi - 1 /\ mi' \in 0 .. Len(type)
      /\ (mi' > 0 /\ mpc' = "undo") \/ (mi' = 0 /\ mpc' = "done")
  BY <1>1 DEF MPrev
<1>3. mpc' \notin Before /\ \A i \in Places : (Ahead(i)' <=> i < mi) /\ (Ahead(i) <=> i < mi \/ i = mi)
  BY <1>1, <1>2 DEF Ahead, Before, Places
<1>4. StartTypeOK'
  BY <1>2 DEF StartInv, StartTypeOK, Undoing
<1>5. StageInv' /\ DidInv'
  BY <1>1, <1>2, <1>3 DEF StartInv, StageInv, DidInv, Undoing, Before, JobRuns, Places, Done
<1>6. LoadedInv'
  <2>1. ASSUME NEW i \in Places
        PROVE  /\ "LOADED" \in status'[i] => type[i] = "extern"
               /\ type[i] = "extern" /\ Ahead(i)' => "LOADED" \in status'[i]
               /\ object[i] <=> type[i] = "extern" /\ Ahead(i)'
    <3>1. CASE i = mi
      BY <3>1, <1>1, <1>3
    <3>2. CASE i # mi
      <4>1. Ahead(i)' <=> Ahead(i)
        BY <3>2, <1>3
      <4> QED
        BY <3>2, <4>1 DEF StartInv, LoadedInv
    <3> QED
      BY <3>1, <3>2
  <2>2. jpc \in {"did", "failed"} => ji \in Places
    BY DEF StartInv, StageInv, Doing
  <2>3. jpc \in {"did", "failed"} /\ Ahead(ji)' => Ahead(ji)
    BY <2>2, <1>3
  <2> QED
    BY <1>2, <2>1, <2>3 DEF StartInv, LoadedInv, Places
<1>7. DoneInv'
  <2>1. ASSUME NEW i \in Places, "DONE" \in status'[i] PROVE Done(i)
    BY <2>1 DEF StartInv, DoneInv
  <2> QED
    BY <1>2, <2>1 DEF StartInv, DoneInv, Places, Done
<1>8. UndidInv'
  <2>1. \A k \in 1 .. Len(undid) : undid[k] > mi'
    BY <1>1, <1>2 DEF StartInv, UndidInv
  <2> QED
    BY <2>1 DEF StartInv, UndidInv, Done
<1>9. CleanInv'
  <2> SUFFICES ASSUME ~early
      PROVE  /\ Rest >= 0
             /\ \A k \in 1 .. Len(did) :
                   IF k <= Rest THEN /\ did[k] < mi' \/ did[k] = mi'
                                     /\ "DONE" \in status'[did[k]]
                                ELSE did[k] > mi'
             /\ \A i \in Places : i > mi' => "DONE" \notin status'[i] /\ "LOADED" \notin status'[i]
    BY <1>2, <1>3 DEF CleanInv, Passing, Places, Rest
  <2>1. /\ Rest >= 0
        /\ \A k \in 1 .. Len(did) :
              IF k <= Rest THEN did[k] < mi /\ "DONE" \in status[did[k]]
                           ELSE did[k] > mi \/ did[k] = mi
        /\ \A i \in Places : i > mi => "DONE" \notin status[i] /\ "LOADED" \notin status[i]
    BY <1>1 DEF StartInv, CleanInv, Passing
  <2>2. \A i \in Places : i > mi' => i = mi \/ i > mi
    BY <1>1, <1>2 DEF Places
  <2>3. \A i \in Places : i > mi' => "DONE" \notin status'[i] /\ "LOADED" \notin status'[i]
    BY <2>1, <2>2
  <2>4. \A k \in 1 .. Len(did) : k <= Rest => did[k] # mi /\ (did[k] < mi' \/ did[k] = mi')
    BY <1>1, <1>2, <2>1
  <2>5. \A k \in 1 .. Len(did) : ~(k <= Rest) => did[k] > mi'
    BY <1>1, <1>2, <2>1
  <2> QED
    BY <1>1, <2>1, <2>3, <2>4, <2>5
<1> QED
  BY <1>4, <1>5, <1>6, <1>7, <1>8, <1>9 DEF StartInv

LEMMA UndoTestKeeps ==
    ASSUME StartInv, UndoTest
    PROVE  StartInv'
<1>1. /\ mi \in Places /\ mpc \notin Before /\ Ahead(mi) /\ mi \in Nat
      /\ \A k \in 1 .. Len(did) : did[k] \in Nat /\ did[k] \in Places
  BY UndoPlace DEF UndoTest, Undoing, Ahead
<1>2. /\ mpc = "undo"
      /\ (mpc' = "calling" /\ "DONE" \in status[mi]) \/ (mpc' = "unload" /\ "DONE" \notin status[mi])
      /\ UNCHANGED <<type, status, object, mi, mcopy, jpc, ji, jcopy, did, undid, early>>
  BY <1>1 DEF UndoTest, StartInv, LoadedInv, MGoto, list, job, history
<1>3. mpc' \notin Before /\ \A i : Ahead(i)' <=> Ahead(i)
  BY <1>1, <1>2 DEF Ahead, Before
<1>4. StartTypeOK'
  BY <1>2 DEF StartInv, StartTypeOK, Undoing
<1>5. StageInv' /\ DidInv'
  BY <1>1, <1>2, <1>3 DEF StartInv, StageInv, DidInv, Undoing, JobRuns, Places, Done
<1>6. LoadedInv'
  BY <1>2, <1>3 DEF StartInv, LoadedInv, Places
<1>7. DoneInv' /\ UndidInv'
  BY <1>1, <1>2 DEF StartInv, DoneInv, UndidInv, Places, Done, Passing
<1>8. CleanInv'
  <2> SUFFICES ASSUME ~early
      PROVE  /\ Rest >= 0
             /\ \A k \in 1 .. Len(did) :
                   IF k <= Rest THEN /\ did[k] < mi \/ (did[k] = mi /\ mpc' # "unload")
                                     /\ "DONE" \in status[did[k]]
                                ELSE did[k] > mi
             /\ \A i \in Places : i > mi => "DONE" \notin status[i] /\ "LOADED" \notin status[i]
    BY <1>2, <1>3 DEF CleanInv, Passing, Places, Rest
  <2> QED
    BY <1>1, <1>2 DEF StartInv, CleanInv, Passing
<1> QED
  BY <1>4, <1>5, <1>6, <1>7, <1>8 DEF StartInv

\* The last of what is left to undo is the module the undo is at.
LEMMA UndoReturnsKeeps ==
    ASSUME StartInv, UndoReturns
    PROVE  StartInv'
<1>1. /\ mi \in Places /\ mpc \notin Before /\ Ahead(mi) /\ mi \in Nat /\ mi > 0
      /\ Len(did) \in Nat /\ Len(undid) \in Nat
      /\ \A k \in 1 .. Len(did) : did[k] \in Nat /\ did[k] \in Places
      /\ \A k \in 1 .. Len(undid) : undid[k] \in Nat
  BY UndoPlace DEF UndoReturns, Undoing, Ahead, Places
<1>2. /\ mpc = "calling" /\ mpc' = "undone" /\ mcopy' = status[mi] /\ undid' = Append(undid, mi)
      /\ UNCHANGED <<type, status, object, mi, jpc, ji, jcopy, did, early>>
  BY DEF UndoReturns, list, job
<1>3. mpc' \notin Before /\ \A i : Ahead(i)' <=> Ahead(i)
  BY <1>1, <1>2 DEF Ahead, Before
<1>4. /\ undid' \in Seq(Nat) /\ Len(undid') = Len(undid) + 1
      /\ \A k \in 1 .. Len(undid) : undid'[k] = undid[k]
      /\ undid'[Len(undid) + 1] = mi
      /\ \A k \in 1 .. Len(undid) + 1 : k \in 1 .. Len(undid) \/ k = Len(undid) + 1
  <2>1. undid \in Seq(Nat)
    BY DEF StartInv, StartTypeOK
  <2> QED
    BY <2>1, <1>1, <1>2, AppendList
<1>5. status[mi] \in Statuses
  BY <1>1 DEF StartInv, StartTypeOK, Places
<1>6. StartTypeOK'
  BY <1>2, <1>4, <1>5 DEF StartInv, StartTypeOK, Undoing
<1>7. StageInv' /\ DidInv'
  BY <1>1, <1>2, <1>3 DEF StartInv, StageInv, DidInv, Undoing, JobRuns, Places, Done
<1>8. LoadedInv'
  <2>1. "LOADED" \in status[mi] <=> type[mi] = "extern"
    BY <1>1 DEF StartInv, LoadedInv
  <2> QED
    BY <1>2, <1>3, <2>1 DEF StartInv, LoadedInv, Places
<1>9. DoneInv'
  BY <1>1, <1>2 DEF StartInv, DoneInv, Places, Done
<1>10. UndidInv'
  <2>1. Done(mi) /\ \A k \in 1 .. Len(undid) : Done(undid[k]) /\ undid[k] > mi
    BY <1>1, <1>2 DEF StartInv, UndidInv, DoneInv, Passing
  <2>2. \A k \in 1 .. Len(undid') : Done(undid'[k])
    BY <1>4, <2>1
  <2>3. \A k \in 1 .. Len(undid') : undid'[k] > mi \/ undid'[k] = mi
    BY <1>4, <2>1
  <2>4. ASSUME NEW k \in 1 .. Len(undid'), NEW m \in 1 .. Len(undid'), k < m
        PROVE  undid'[k] > undid'[m]
    <3>1. k \in 1 .. Len(undid)
      BY <2>4, <1>1, <1>4
    <3>2. CASE m \in 1 .. Len(undid)
      BY <3>1, <3>2, <2>4, <1>4 DEF StartInv, UndidInv
    <3>3. CASE m = Len(undid) + 1
      BY <3>1, <3>3, <1>4, <2>1
    <3> QED
      BY <3>2, <3>3, <1>4
  <2> QED
    BY <2>2, <2>3, <2>4, <1>2 DEF UndidInv, Passing, Done
<1>11. CleanInv'
  <2> SUFFICES ASSUME ~early
      PROVE  /\ Rest - 1 >= 0
             /\ \A k \in 1 .. Len(did) :
                   IF k <= Rest - 1 THEN did[k] < mi /\ "DONE" \in status[did[k]]
                                    ELSE did[k] > mi \/ did[k] = mi
             /\ \A i \in Places : i > mi => "DONE" \notin status[i] /\ "LOADED" \notin status[i]
    <3>1. Rest' = Rest - 1
      BY <1>1, <1>2, <1>4 DEF Rest
    <3> QED
      BY <3>1, <1>2, <1>3 DEF CleanInv, Passing, Places
  <2>1. /\ Rest >= 0 /\ Rest \in Int /\ Rest <= Len(did)
        /\ \A k \in 1 .. Len(did) :
              IF k <= Rest THEN /\ did[k] < mi \/ did[k] = mi
                                /\ "DONE" \in status[did[k]]
                           ELSE did[k] > mi
        /\ \A i \in Places : i > mi => "DONE" \notin status[i] /\ "LOADED" \notin status[i]
    <3>1. Rest \in Int /\ Rest <= Len(did)
      BY <1>1 DEF Rest
    <3>2. mpc \notin {"undone", "unload", "unloaded"}
      BY <1>2
    <3> QED
      BY <1>1, <3>1, <3>2 DEF StartInv, CleanInv, Passing
  <2>2. PICK m \in 1 .. Len(did) : did[m] = mi
    BY <1>2 DEF StartInv, DoneInv, Done
  <2>3. m <= Rest /\ Rest \in 1 .. Len(did)
    BY <1>1, <2>1, <2>2
  <2>4. \A k, j \in 1 .. Len(did) : k < j => did[k] < did[j]
    BY DEF StartInv, DidInv
  <2>5. m = Rest
    <3>1. ASSUME m < Rest PROVE FALSE
      <4>1. did[m] < did[Rest]
        BY <3>1, <2>3, <2>4
      <4>2. did[Rest] < mi \/ did[Rest] = mi
        BY <2>1, <2>3
      <4> QED
        BY <4>1, <4>2, <1>1, <2>2, <2>3
    <3> QED
      BY <3>1, <2>1, <2>3
  <2>6. \A k \in 1 .. Len(did) : k <= Rest - 1 => did[k] < mi /\ "DONE" \in status[did[k]]
    BY <2>1, <2>2, <2>4, <2>5
  <2>7. \A k \in 1 .. Len(did) : ~(k <= Rest - 1) => did[k] > mi \/ did[k] = mi
    BY <2>1, <2>2, <2>5
  <2> QED
    BY <2>1, <2>3, <2>6, <2>7
<1> QED
  BY <1>6, <1>7, <1>8, <1>9, <1>10, <1>11 DEF StartInv

LEMMA UndoWriteKeeps ==
    ASSUME StartInv, UndoWrite
    PROVE  StartInv'
<1>1. /\ mi \in Places /\ mpc \notin Before /\ Ahead(mi) /\ mi \in Nat /\ mi > 0
      /\ DOMAIN status = 1 .. Len(type)
      /\ \A k \in 1 .. Len(did) : did[k] \in Nat /\ did[k] \in Places
  BY UndoPlace DEF UndoWrite, Undoing, Ahead, Places
<1>2. /\ mpc = "undone" /\ mpc' = "unload" /\ status' = [status EXCEPT ![mi] = mcopy \ {"DONE"}]
      /\ UNCHANGED <<type, object, mi, mcopy, jpc, ji, jcopy, did, undid, early>>
  BY DEF UndoWrite, list, job, history, MGoto
<1>3. mpc' \notin Before /\ \A i : Ahead(i)' <=> Ahead(i)
  BY <1>1, <1>2 DEF Ahead, Before
<1>4. /\ status' \in Seq(Statuses) /\ Len(status') = Len(status)
      /\ status'[mi] = mcopy \ {"DONE"} /\ \A i \in Places : i # mi => status'[i] = status[i]
  BY <1>1, <1>2 DEF StartInv, StartTypeOK, Places, Statuses
<1>5. StartTypeOK'
  BY <1>2, <1>4 DEF StartInv, StartTypeOK, Undoing
<1>6. StageInv' /\ DidInv'
  BY <1>1, <1>2, <1>3 DEF StartInv, StageInv, DidInv, Undoing, JobRuns, Places, Done
<1>7. LoadedInv'
  <2>1. "LOADED" \in status'[mi] <=> type[mi] = "extern"
    BY <1>1, <1>2, <1>4 DEF StartInv, LoadedInv
  <2> QED
    BY <1>2, <1>3, <1>4, <2>1 DEF StartInv, LoadedInv, Places
<1>8. DoneInv' /\ UndidInv'
  BY <1>1, <1>2, <1>4 DEF StartInv, DoneInv, UndidInv, Places, Done, Passing
<1>9. CleanInv'
  <2> SUFFICES ASSUME ~early
      PROVE  /\ Rest >= 0
             /\ \A k \in 1 .. Len(did) :
                   IF k <= Rest THEN did[k] < mi /\ "DONE" \in status'[did[k]]
                                ELSE did[k] > mi \/ did[k] = mi
             /\ \A i \in Places : i > mi => "DONE" \notin status'[i] /\ "LOADED" \notin status'[i]
             /\ "DONE" \notin status'[mi]
    BY <1>2, <1>3 DEF CleanInv, Passing, Places, Rest
  <2> QED
    BY <1>1, <1>2, <1>4 DEF StartInv, CleanInv, Passing
<1> QED
  BY <1>5, <1>6, <1>7, <1>8, <1>9 DEF StartInv

LEMMA UnloadKeeps ==
    ASSUME StartInv, Unload
    PROVE  StartInv'
<1>1. /\ mi \in Places /\ mpc \notin Before /\ Ahead(mi) /\ mi \in Nat /\ mi > 0
      /\ DOMAIN object = 1 .. Len(type)
  BY UndoPlace DEF Unload, Undoing, Ahead, Places
<1>2. /\ mpc = "unload"
      /\ UNCHANGED <<type, status, jpc, ji, jcopy, did, undid, early>>
  BY DEF Unload, job, history
<1>3. CASE type[mi] = "extern"
  <2>1. /\ mpc' = "unloaded" /\ mcopy' = status[mi] /\ UNCHANGED mi
        /\ object' = [object EXCEPT ![mi] = FALSE]
    BY <1>3 DEF Unload, OSNS_module_unload, MODULE_unload
  <2>2. mpc' \notin Before /\ \A i : Ahead(i)' <=> Ahead(i)
    BY <1>1, <1>2, <2>1 DEF Ahead, Before
  <2>3. FALSE \in BOOLEAN
    BY Zenon
  <2>4. /\ object' \in Seq(BOOLEAN) /\ Len(object') = Len(object)
        /\ ~object'[mi] /\ \A i \in Places : i # mi => object'[i] = object[i]
    BY <1>1, <2>1, <2>3 DEF StartInv, StartTypeOK, Places
  <2>5. status[mi] \in Statuses
    BY <1>1 DEF StartInv, StartTypeOK, Places
  <2>6. StartTypeOK'
    BY <1>2, <2>1, <2>4, <2>5 DEF StartInv, StartTypeOK, Undoing
  <2>7. StageInv' /\ DidInv'
    BY <1>1, <1>2, <2>1, <2>2 DEF StartInv, StageInv, DidInv, Undoing, JobRuns, Places, Done
  <2>8. LoadedInv'
    <3>1. "LOADED" \in status[mi] <=> type[mi] = "extern"
      BY <1>1 DEF StartInv, LoadedInv
    <3> QED
      BY <1>2, <2>1, <2>2, <2>4, <3>1 DEF StartInv, LoadedInv, Places
  <2>9. DoneInv' /\ UndidInv'
    BY <1>1, <1>2, <2>1 DEF StartInv, DoneInv, UndidInv, Places, Done, Passing
  <2>10. CleanInv'
    BY <1>1, <1>2, <2>1, <2>2 DEF StartInv, CleanInv, Passing, Places, Rest
  <2> QED
    BY <2>6, <2>7, <2>8, <2>9, <2>10 DEF StartInv
<1>4. CASE type[mi] # "extern"
  <2>1. MPrev /\ UNCHANGED <<object, mcopy>>
    BY <1>4 DEF Unload
  <2>2. "LOADED" \notin status[mi] /\ ~object[mi] /\ ("DONE" \in status[mi] => Done(mi))
    BY <1>1, <1>4 DEF StartInv, LoadedInv, DoneInv
  <2>3. ~early => "DONE" \notin status[mi]
    BY <1>1, <1>2 DEF StartInv, CleanInv
  <2>4. status \in Seq(Statuses)
    BY DEF StartInv, StartTypeOK
  <2> QED
    BY <1>2, <2>1, <2>2, <2>3, <2>4, PassKeeps
<1> QED
  BY <1>3, <1>4

LEMMA UnloadWriteKeeps ==
    ASSUME StartInv, UnloadWrite
    PROVE  StartInv'
<1>1. /\ mi \in Places /\ mpc \notin Before /\ mi > 0 /\ DOMAIN status = 1 .. Len(type)
  BY UndoPlace DEF UnloadWrite, Undoing, Places
<1>2. /\ mpc = "unloaded" /\ MPrev /\ status' = [status EXCEPT ![mi] = mcopy \ {"LOADED"}]
      /\ UNCHANGED <<type, object, mcopy, jpc, ji, jcopy, did, undid, early>>
  BY DEF UnloadWrite, list, job, history
<1>3. /\ status' \in Seq(Statuses) /\ Len(status') = Len(status)
      /\ status'[mi] = mcopy \ {"LOADED"} /\ \A i \in Places : i # mi => status'[i] = status[i]
  BY <1>1, <1>2 DEF StartInv, StartTypeOK, Places, Statuses
<1>4. "DONE" \in mcopy => Done(mi)
  BY <1>2 DEF StartInv, DoneInv
<1>5. ~early => "DONE" \notin mcopy
  BY <1>1, <1>2 DEF StartInv, CleanInv
<1>6. ~object[mi]
  BY <1>1, <1>2 DEF StartInv, LoadedInv
<1> QED
  BY <1>2, <1>3, <1>4, <1>5, <1>6, PassKeeps

-----------------------------------------------------------------------------
(* The job.                                                                *)

\* The module the job is at.
LEMMA JobPlace ==
    ASSUME StartInv, jpc \in Doing
    PROVE  /\ ji \in Places /\ ji \in Nat /\ JobRuns /\ type # <<>> /\ mpc # "read"
           /\ mpc \notin Before => early
           /\ Len(type) \in Nat /\ Len(did) \in Nat
           /\ DOMAIN status = 1 .. Len(type)
           /\ \A k \in 1 .. Len(did) : did[k] \in Nat /\ did[k] \in Places
<1>1. JobRuns
  BY DEF JobRuns, Doing
<1> QED
  BY <1>1 DEF StartInv, StartTypeOK, StageInv, DidInv, Places, Doing

\* The job goes on to the next module, or ends; what was done is marked.
LEMMA JobNextKeeps ==
    ASSUME StartInv, jpc \in Doing,
           \/ JNext
           \/ jpc' = "ended" /\ UNCHANGED ji,
           UNCHANGED <<type, object, mpc, mi, mcopy, jcopy, did, undid, early>>,
           status' \in Seq(Statuses), Len(status') = Len(status),
           \A i \in Places : i # ji => status'[i] = status[i],
           "LOADED" \in status'[ji] => type[ji] = "extern",
           type[ji] = "extern" /\ Ahead(ji) => "LOADED" \in status'[ji],
           "DONE" \in status'[ji] => Done(ji),
           mpc \in Before /\ Done(ji) => "DONE" \in status'[ji]
    PROVE  StartInv'
<1>1. /\ ji \in Places /\ ji \in Nat /\ JobRuns /\ type # <<>> /\ mpc # "read"
      /\ mpc \notin Before => early
      /\ Len(type) \in Nat /\ Len(did) \in Nat
      /\ \A k \in 1 .. Len(did) : did[k] \in Nat /\ did[k] \in Places
  BY JobPlace
<1>2. /\ ji' \in Nat
      /\ jpc' = "ended" \/ (jpc' = "do" /\ ji' = ji + 1 /\ ji < Len(type))
  BY <1>1 DEF JNext
<1>3. StartTypeOK'
  BY <1>2 DEF StartInv, StartTypeOK, Doing
<1>4. StageInv'
  BY <1>1, <1>2 DEF StartInv, StageInv, Doing, JobRuns, Places
<1>5. DidInv'
  <2>1. \A k \in 1 .. Len(did) : did[k] < ji \/ did[k] = ji
    BY DEF StartInv, DidInv
  <2>2. ji' = ji + 1 => \A k \in 1 .. Len(did) : did[k] < ji'
    BY <1>1, <2>1
  <2> QED
    BY <1>2, <2>2 DEF StartInv, DidInv, Places, Doing, Done
<1>6. LoadedInv'
  <2>1. ASSUME NEW i \in Places
        PROVE  /\ "LOADED" \in status'[i] => type[i] = "extern"
               /\ type[i] = "extern" /\ Ahead(i) => "LOADED" \in status'[i]
    BY DEF StartInv, LoadedInv
  <2> QED
    BY <1>2, <2>1 DEF StartInv, LoadedInv, Places, Ahead
<1>7. DoneInv'
  <2>1. ASSUME NEW i \in Places, "DONE" \in status'[i] PROVE Done(i)
    BY <2>1 DEF StartInv, DoneInv
  <2> QED
    BY <1>2, <2>1 DEF StartInv, DoneInv, Places, Done
<1>8. UndidInv'
  BY DEF StartInv, UndidInv, Done
<1>9. CleanInv'
  <2>1. ASSUME mpc \in Before, NEW k \in 1 .. Len(did)
        PROVE  "DONE" \in status'[did[k]]
    <3>1. did[k] = ji => Done(ji)
      BY DEF Done
    <3> QED
      BY <3>1, <2>1, <1>1 DEF StartInv, CleanInv
  <2> QED
    BY <1>1, <2>1 DEF CleanInv
<1> QED
  BY <1>3, <1>4, <1>5, <1>6, <1>7, <1>8, <1>9 DEF StartInv

LEMMA DoTestKeeps ==
    ASSUME StartInv, DoTest
    PROVE  StartInv'
<1>1. /\ ji \in Places /\ ji \in Nat /\ JobRuns /\ type # <<>> /\ mpc # "read"
      /\ mpc \notin Before => early
  BY JobPlace DEF DoTest, Doing
<1>2. /\ jpc = "do" /\ jpc \in Doing
      /\ UNCHANGED <<type, status, object, mpc, mi, mcopy, jcopy, did, undid, early>>
  BY DEF DoTest, list, main, history, Doing
<1>3. CASE JNext
  <2>1. status \in Seq(Statuses) /\ ~Done(ji)
    <3>1. \A k \in 1 .. Len(did) : did[k] < ji /\ did[k] \in Nat
      BY <1>2, JobPlace DEF StartInv, DidInv
    <3> QED
      BY <3>1, <1>1 DEF StartInv, StartTypeOK, Done
  <2>2. /\ "LOADED" \in status[ji] => type[ji] = "extern"
        /\ type[ji] = "extern" /\ Ahead(ji) => "LOADED" \in status[ji]
        /\ "DONE" \in status[ji] => Done(ji)
    BY <1>1 DEF StartInv, LoadedInv, DoneInv
  <2> QED
    BY <1>2, <1>3, <2>1, <2>2, JobNextKeeps
<1>4. CASE jpc' = "calling" /\ UNCHANGED ji
  <2>1. StartTypeOK'
    BY <1>2, <1>4 DEF StartInv, StartTypeOK, Doing
  <2>2. StageInv' /\ DidInv'
    BY <1>1, <1>2, <1>4 DEF StartInv, StageInv, DidInv, Doing, JobRuns, Places, Done
  <2>3. LoadedInv'
    BY <1>2, <1>4 DEF StartInv, LoadedInv, Places, Ahead
  <2>4. DoneInv' /\ UndidInv'
    BY <1>2, <1>4 DEF StartInv, DoneInv, UndidInv, Places, Done
  <2>5. CleanInv'
    BY <1>1, <1>2, <1>4 DEF StartInv, CleanInv, Places
  <2> QED
    BY <2>1, <2>2, <2>3, <2>4, <2>5 DEF StartInv
<1> QED
  BY <1>3, <1>4 DEF DoTest

LEMMA DoReturnsKeeps ==
    ASSUME StartInv, DoReturns
    PROVE  StartInv'
<1>1. /\ ji \in Places /\ ji \in Nat /\ JobRuns /\ type # <<>> /\ mpc # "read"
      /\ mpc \notin Before => early
      /\ Len(did) \in Nat /\ \A k \in 1 .. Len(did) : did[k] \in Nat /\ did[k] \in Places
  BY JobPlace DEF DoReturns, Doing
<1>2. /\ jpc = "calling" /\ jcopy' = status[ji]
      /\ UNCHANGED <<type, status, object, mpc, mi, mcopy, ji, undid, early>>
      /\ (jpc' = "did" /\ did' = Append(did, ji)) \/ (jpc' = "failed" /\ UNCHANGED did)
  BY DEF DoReturns, list, main
<1>3. /\ "LOADED" \in status[ji] => type[ji] = "extern"
      /\ type[ji] = "extern" /\ Ahead(ji) => "LOADED" \in status[ji]
      /\ "DONE" \in status[ji] => Done(ji)
      /\ status[ji] \in Statuses
      /\ \A k \in 1 .. Len(did) : did[k] < ji
      /\ did \in Seq(Nat)
  BY <1>1, <1>2 DEF StartInv, StartTypeOK, LoadedInv, DoneInv, DidInv, Places, Doing
<1>4. LoadedInv'
  BY <1>2, <1>3 DEF StartInv, LoadedInv, Places, Ahead
<1>5. StageInv'
  BY <1>1, <1>2 DEF StartInv, StageInv, Doing, JobRuns, Places
<1>6. CASE jpc' = "failed" /\ UNCHANGED did
  <2>1. StartTypeOK'
    BY <1>2, <1>3, <1>6 DEF StartInv, StartTypeOK, Doing
  <2>2. DidInv'
    BY <1>2, <1>6 DEF StartInv, DidInv, Doing, Places, Done
  <2>3. DoneInv' /\ UndidInv'
    BY <1>2, <1>3, <1>6 DEF StartInv, DoneInv, UndidInv, Places, Done
  <2>4. CleanInv'
    BY <1>1, <1>2, <1>6 DEF StartInv, CleanInv, Places
  <2> QED
    BY <1>4, <1>5, <2>1, <2>2, <2>3, <2>4 DEF StartInv
<1>7. CASE jpc' = "did" /\ did' = Append(did, ji)
  <2>1. /\ did' \in Seq(Nat) /\ Len(did') = Len(did) + 1
        /\ \A k \in 1 .. Len(did) : did'[k] = did[k]
        /\ did'[Len(did) + 1] = ji
        /\ \A k \in 1 .. Len(did) + 1 : k \in 1 .. Len(did) \/ k = Len(did) + 1
        /\ Len(did) + 1 \in 1 .. Len(did) + 1
        /\ \A k \in 1 .. Len(did) : k \in 1 .. Len(did) + 1
    BY <1>1, <1>3, <1>7, AppendList
  <2>2. Done(ji)' /\ \A i : Done(i) => Done(i)'
    BY <1>2, <2>1 DEF Done
  <2>3. StartTypeOK'
    BY <1>2, <1>3, <1>7, <2>1 DEF StartInv, StartTypeOK, Doing
  <2>4. DidInv'
    <3>1. \A k \in 1 .. Len(did') : did'[k] \in Places /\ (did'[k] < ji \/ did'[k] = ji)
      BY <1>1, <1>3, <2>1
    <3>2. ASSUME NEW k \in 1 .. Len(did'), NEW m \in 1 .. Len(did'), k < m
          PROVE  did'[k] < did'[m]
      <4>1. k \in 1 .. Len(did)
        BY <3>2, <1>1, <2>1
      <4>2. CASE m \in 1 .. Len(did)
        BY <4>1, <4>2, <3>2, <2>1 DEF StartInv, DidInv
      <4>3. CASE m = Len(did) + 1
        BY <4>1, <4>3, <2>1, <1>3
      <4> QED
        BY <4>2, <4>3, <2>1
    <3> QED
      BY <1>2, <1>7, <2>2, <3>1, <3>2 DEF DidInv, Places
  <2>5. DoneInv'
    BY <1>2, <1>3, <2>2 DEF StartInv, DoneInv, Places
  <2>6. UndidInv'
    BY <1>2, <2>2 DEF StartInv, UndidInv
  <2>7. CleanInv'
    <3>1. ASSUME mpc \in Before, NEW k \in 1 .. Len(did')
          PROVE  did'[k] = ji \/ "DONE" \in status[did'[k]]
      BY <3>1, <1>2, <2>1 DEF StartInv, CleanInv
    <3> QED
      BY <1>1, <1>2, <1>7, <3>1 DEF CleanInv
  <2> QED
    BY <1>4, <1>5, <2>3, <2>4, <2>5, <2>6, <2>7 DEF StartInv
<1> QED
  BY <1>2, <1>6, <1>7

\* The status is written: the copy with one bit more.
LEMMA DoWriteKeeps ==
    ASSUME StartInv, DoWrite \/ DoError
    PROVE  StartInv'
<1>1. /\ jpc \in {"did", "failed"} /\ jpc \in Doing
      /\ UNCHANGED <<type, object, mpc, mi, mcopy, jcopy, did, undid, early>>
      /\ JNext \/ (jpc' = "ended" /\ UNCHANGED ji)
  BY DEF DoWrite, DoError, list, main, history, Doing
<1>2. PICK bit \in {"DONE", "ERROR"} :
        /\ status' = [status EXCEPT ![ji] = jcopy \cup {bit}]
        /\ bit = "DONE" <=> jpc = "did"
  BY DEF DoWrite, DoError
<1>3. ji \in Places /\ ji \in Nat /\ DOMAIN status = 1 .. Len(type)
      /\ \A k \in 1 .. Len(did) : did[k] \in Nat
  BY <1>1, JobPlace
<1>4. /\ status' \in Seq(Statuses) /\ Len(status') = Len(status)
      /\ status'[ji] = jcopy \cup {bit} /\ \A i \in Places : i # ji => status'[i] = status[i]
  BY <1>2, <1>3 DEF StartInv, StartTypeOK, Places, Statuses
<1>5. /\ "LOADED" \in jcopy => type[ji] = "extern"
      /\ type[ji] = "extern" /\ Ahead(ji) => "LOADED" \in jcopy
      /\ "DONE" \in jcopy => Done(ji)
      /\ jpc = "did" => Done(ji)
  BY <1>1 DEF StartInv, LoadedInv, DoneInv, DidInv
<1>6. jpc = "failed" => ~Done(ji)
  <2>1. ASSUME jpc = "failed" PROVE \A k \in 1 .. Len(did) : did[k] < ji
    BY <2>1 DEF StartInv, DidInv, Doing
  <2> QED
    BY <2>1, <1>3 DEF Done
<1>7. /\ "LOADED" \in status'[ji] => type[ji] = "extern"
      /\ type[ji] = "extern" /\ Ahead(ji) => "LOADED" \in status'[ji]
      /\ "DONE" \in status'[ji] => Done(ji)
      /\ Done(ji) => "DONE" \in status'[ji]
  BY <1>1, <1>2, <1>4, <1>5, <1>6
<1> QED
  BY <1>1, <1>4, <1>7, JobNextKeeps

-----------------------------------------------------------------------------
LEMMA StartStep == StartInv /\ [StartNext]_startvars => StartInv'
<1> SUFFICES ASSUME StartInv, [StartNext]_startvars PROVE StartInv'
  OBVIOUS
<1>1. CASE OSNS_action_add \/ ProfileModule
  BY <1>1, AddKeeps
<1>2. CASE ProfileNoSymbol \/ StopLoop \/ UNCHANGED startvars
  <2>1. UNCHANGED <<type, status, object, mpc, mi, mcopy, jpc, ji, jcopy, did, undid, early>>
    BY <1>2 DEF ProfileNoSymbol, StopLoop, startvars, list, main, job, history
  <2> QED
    BY <2>1, QuietKeeps
<1>3. CASE StartAll
  <2>1. /\ mpc = "read" /\ jpc = "none"
        /\ UNCHANGED <<type, status, object, mi, mcopy, ji, jcopy, did, undid, early>>
        /\ \/ mpc' \in {"run", "wait"} /\ UNCHANGED jpc
           \/ mpc' = "wait" /\ jpc' = "queued" /\ type # <<>>
    BY <1>3 DEF StartInv, StageInv, StartAll, MGoto, list, job, history
  <2>2. CASE mpc' \in {"run", "wait"} /\ UNCHANGED jpc
    BY <2>1, <2>2, QuietKeeps DEF Before
  <2>3. CASE mpc' = "wait" /\ jpc' = "queued" /\ type # <<>>
    BY <2>1, <2>3, JobQuietKeeps
  <2> QED
    BY <2>1, <2>2, <2>3
<1>4. CASE WaitStarted \/ WaitTimeout \/ LoopStart \/ LoopTest \/ EpollCall \/ EpollReturns
  <2>1. /\ UNCHANGED <<type, status, object, mi, mcopy, jpc, ji, jcopy, did, undid, early>>
        /\ mpc \in Before /\ mpc' \in Before \ {"read"}
    BY <1>4 DEF WaitStarted, WaitTimeout, LoopStart, LoopTest, EpollCall, EpollReturns, MGoto,
                list, job, history, Before
  <2> QED
    BY <2>1, QuietKeeps
<1>5. CASE JobStarts \/ JobWaited \/ JobTimeout
  <2>1. /\ UNCHANGED <<type, status, object, mpc, mi, mcopy, jcopy, did, undid, early>>
        /\ \/ UNCHANGED ji /\ jpc = "queued" /\ jpc' = "wait"
           \/ UNCHANGED ji /\ jpc = "wait" /\ jpc' = "ended"
           \/ jpc = "wait" /\ jpc' = "do" /\ ji' = 1
    BY <1>5 DEF JobStarts, JobWaited, JobTimeout, list, main, history
  <2> QED
    BY <2>1, JobQuietKeeps
<1>6. CASE LoopEnd
  BY <1>6, LoopEndKeeps
<1>7. CASE UndoTest \/ UndoReturns \/ UndoWrite \/ Unload \/ UnloadWrite
  BY <1>7, UndoTestKeeps, UndoReturnsKeeps, UndoWriteKeeps, UnloadKeeps, UnloadWriteKeeps
<1>8. CASE DoTest \/ DoReturns \/ DoWrite \/ DoError
  BY <1>8, DoTestKeeps, DoReturnsKeeps, DoWriteKeeps
<1> QED
  BY <1>1, <1>2, <1>3, <1>4, <1>5, <1>6, <1>7, <1>8
     DEF StartNext, Reading, FILE_parse, Main, Job

\* Whatever the list, wherever an action fails or a wait times out, and whenever
\* the loop is stopped: the bits of a module's status are about what was done with
\* it, though job and undo update them without a lock.
THEOREM StartInvariant == StartSpec => []StartInv
  BY StartInitInv, StartStep, PTL DEF StartSpec

\* A job that has ended before the loop leaves an undo that undoes everything and
\* unloads everything.
THEOREM CleanEndHolds == StartSpec => []CleanEnd
<1>1. StartInv => CleanEnd
  <2> SUFFICES ASSUME StartInv, mpc = "done", ~early
               PROVE  /\ Len(undid) = Len(did)
                      /\ \A i \in Places : status[i] \cap {"DONE", "LOADED"} = {} /\ ~object[i]
    BY DEF CleanEnd
  <2>1. mi = 0 /\ mpc \notin Before /\ \A i \in Places : i > mi /\ ~Ahead(i)
    BY DEF StartInv, StartTypeOK, StageInv, Before, Places, Ahead
  <2>2. \A i \in Places : "DONE" \notin status[i] /\ "LOADED" \notin status[i] /\ ~object[i]
    BY <2>1 DEF StartInv, CleanInv, LoadedInv
  <2>3. Len(did) \in Nat /\ Len(undid) \in Nat /\ Rest >= 0 /\ Rest = Len(did) - Len(undid)
    BY <2>1 DEF StartInv, StartTypeOK, CleanInv, Rest
  <2>4. ASSUME Rest > 0 PROVE FALSE
    <3>1. 1 \in 1 .. Len(did) /\ 1 <= Rest
      BY <2>3, <2>4
    <3>2. did[1] \in Nat /\ did[1] > 0
      BY <3>1 DEF StartInv, StartTypeOK, DidInv, Places
    <3>3. did[1] < mi \/ did[1] = mi
      BY <2>1, <3>1 DEF StartInv, CleanInv
    <3> QED
      BY <2>1, <3>2, <3>3
  <2>5. Len(undid) = Len(did)
    BY <2>3, <2>4
  <2> QED
    BY <2>2, <2>5
<1> QED
  BY <1>1, StartInvariant, PTL

\* What is undone was done, once and in the reverse order, and no call goes into
\* an object that was unloaded, unless the undo overtook the job.
THEOREM UndoSafeHolds == StartSpec => []UndoSafe
<1>1. StartInv => UndoSafe
  <2> SUFFICES ASSUME StartInv PROVE UndoSafe
    OBVIOUS
  <2>1. /\ DOMAIN undid = 1 .. Len(undid) /\ DOMAIN did = 1 .. Len(did)
    BY DEF StartInv, StartTypeOK
  <2>2. UndoAfterDo
    BY <2>1 DEF StartInv, UndidInv, Done, UndoAfterDo
  <2>3. mpc = "calling" /\ type[mi] = "extern" => object[mi]
    <3>1. mpc = "calling" => mi \in Places /\ Ahead(mi)
      BY UndoPlace DEF Undoing, Ahead
    <3> QED
      BY <3>1 DEF StartInv, LoadedInv
  <2>4. jpc = "calling" /\ type[ji] = "extern" /\ ~early => object[ji]
    <3>1. jpc = "calling" /\ ~early => ji \in Places /\ mpc \in Before
      BY JobPlace DEF Doing
    <3> QED
      BY <3>1 DEF StartInv, LoadedInv, Ahead, Before
  <2> QED
    BY <2>2, <2>3, <2>4 DEF UndoSafe, CallsIntoObject
<1> QED
  BY <1>1, StartInvariant, PTL
=============================================================================
