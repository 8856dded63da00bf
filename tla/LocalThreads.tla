---------------------------- MODULE LocalThreads ----------------------------
(***************************************************************************)
(* lib/main/localthreads.c: a fixed pool of worker threads and a list of   *)
(* jobs.  A worker looks at the list and goes to sleep under the mutex of  *)
(* the pool's signal.  put_job tests the FINISH bit and links the job      *)
(* without that mutex; only its broadcast takes it.                        *)
(*                                                                         *)
(* The linking is therefore a window: when the last job of the list is     *)
(* taken, or another one linked, while a job is being linked after it, the *)
(* job ends up on the list or behind an element that is not on the list    *)
(* any more.  In the second case tail.p may stay with the stray element:   *)
(* then every later job is linked behind it, out of sight of the workers,  *)
(* until taking the last job of the list sets tail.p again.  A third       *)
(* outcome, following a link that is still NULL, ends the program and      *)
(* with it the behaviour.                                                  *)
(*                                                                         *)
(* The list of the threads themselves is left out.  Nothing walks it, but  *)
(* a thread is linked twice, stays linked when it could not be created,    *)
(* and takes itself off without a lock: what its last steps then write     *)
(* through the links of freed neighbours is not modelled.                  *)
(***************************************************************************)
EXTENDS Integers, Sequences

CONSTANTS Workers,   \* threads of the pool (maxnr of them)
          Putters,   \* threads that put jobs
          Jobs       \* jobs that may be put, each at most once

VARIABLES finish,    \* status & LOCAL_THREADS_MANAGER_STATUS_FINISH
          joblist,   \* the jobs linked on manager->joblist
          pc,        \* pc[w]: where worker w is
          doing,     \* doing[w]: jobs w is running, none or one
          ppc,       \* ppc[s]: where putter s is in put_job
          putting,   \* putting[s]: the job s is putting, none or one
          raced,     \* putters whose window saw another change at the tail
          stray,     \* tail.p is an element that is not on the list
          fate       \* history: what happened to a job

vars == <<finish, joblist, pc, doing, ppc, putting, raced, stray, fate>>

WorkerStages == {"none",     \* not created
                 "check",    \* at checkandwait
                 "asleep",   \* in EVENT_signal_wait
                 "run",      \* in the callback of a job
                 "exit",     \* at exitthread
                 "gone"}
PutStages == {"idle", "link", "broadcast"}
Fates == {"new", "putting", "queued", "refused", "lost", "started", "done"}

Init ==
    /\ finish = FALSE
    /\ joblist = <<>>
    /\ pc = [w \in Workers |-> "none"]
    /\ doing = [w \in Workers |-> {}]
    /\ ppc = [s \in Putters |-> "idle"]
    /\ putting = [s \in Putters |-> {}]
    /\ raced = {}
    /\ stray = FALSE
    /\ fate = [j \in Jobs |-> "new"]

Linking == {s \in Putters : ppc[s] = "link"}

\* EVENT_signal_broadcast
WakeAll == [w \in Workers |-> IF pc[w] = "asleep" THEN "check" ELSE pc[w]]

-----------------------------------------------------------------------------
(* local_threads_put_job                                                   *)

\* The test of FINISH, without the mutex, and the allocation of the job; with
\* FINISH set or no memory the job is dropped without a word.
PutTest(s, j) ==
    /\ ppc[s] = "idle" /\ fate[j] = "new"
    /\ \/ /\ fate' = [fate EXCEPT ![j] = "refused"]
          /\ UNCHANGED <<ppc, putting>>
       \/ /\ ~finish
          /\ fate' = [fate EXCEPT ![j] = "putting"]
          /\ ppc' = [ppc EXCEPT ![s] = "link"]
          /\ putting' = [putting EXCEPT ![s] = {j}]
    /\ UNCHANGED <<finish, joblist, pc, doing, raced, stray>>

\* LIST_header_add_last(&manager->joblist, &ljob->list)
PutLink(s) ==
    /\ ppc[s] = "link"
    /\ \E j \in putting[s] :
         \/ /\ ~stray \/ s \in raced
            /\ joblist' = Append(joblist, j)
            /\ fate' = [fate EXCEPT ![j] = "queued"]
            /\ UNCHANGED stray
         \/ /\ stray \/ s \in raced
            /\ fate' = [fate EXCEPT ![j] = "lost"]
            /\ stray' \in {TRUE, stray}
            /\ UNCHANGED joblist
    /\ ppc' = [ppc EXCEPT ![s] = "broadcast"]
    /\ raced' = (raced \cup Linking) \ {s}
    /\ UNCHANGED <<finish, pc, doing, putting>>

\* Mutant: nobody is woken.
PutBroadcastMutant(s) ==
    /\ ppc[s] = "broadcast"
    /\ ppc' = [ppc EXCEPT ![s] = "idle"]
    /\ putting' = [putting EXCEPT ![s] = {}]
    /\ UNCHANGED <<finish, joblist, pc, doing, raced, stray, fate>>

\* EVENT_signal_broadcast_locked(&esignal_threads)
PutBroadcast(s) ==
    /\ ppc[s] = "broadcast"
    /\ ppc' = [ppc EXCEPT ![s] = "idle"]
    /\ putting' = [putting EXCEPT ![s] = {}]
    /\ pc' = WakeAll
    /\ UNCHANGED <<finish, joblist, doing, raced, stray, fate>>

-----------------------------------------------------------------------------
(* process_local_thread: from checkandwait to the unlock is one step.      *)

\* Taking the only job relinks head and tail, under the hands of a putter.
AtTail(list) == IF Len(list) = 1 THEN raced' = Linking /\ stray' = FALSE
                                 ELSE UNCHANGED <<raced, stray>>

\* FINISH is tested before the list.
CheckFinish(w) ==
    /\ pc[w] = "check"
    /\ finish
    /\ pc' = [pc EXCEPT ![w] = "exit"]
    /\ UNCHANGED <<finish, joblist, doing, ppc, putting, raced, stray, fate>>

\* The first job of the list is taken, rest stays.
Take(w, rest) ==
    /\ pc[w] = "check"
    /\ joblist # <<>>
    /\ joblist' = rest
    /\ doing' = [doing EXCEPT ![w] = {Head(joblist)}]
    /\ fate' = [fate EXCEPT ![Head(joblist)] = "started"]
    /\ pc' = [pc EXCEPT ![w] = "run"]
    /\ AtTail(joblist)
    /\ UNCHANGED <<finish, ppc, putting>>

\* Mutant: the job is looked at and left on the list.
CheckTakeMutant(w) == ~finish /\ Take(w, joblist)

CheckTake(w) == ~finish /\ Take(w, Tail(joblist))

CheckSleep(w) ==
    /\ pc[w] = "check"
    /\ ~finish
    /\ joblist = <<>>
    /\ pc' = [pc EXCEPT ![w] = "asleep"]
    /\ UNCHANGED <<finish, joblist, doing, ppc, putting, raced, stray, fate>>

SpuriousWakeup(w) ==
    /\ pc[w] = "asleep"
    /\ pc' = [pc EXCEPT ![w] = "check"]
    /\ UNCHANGED <<finish, joblist, doing, ppc, putting, raced, stray, fate>>

\* (* job->cb)(job->ptr) returns, free(job)
JobReturns(w) ==
    /\ pc[w] = "run"
    /\ fate' = [j \in Jobs |-> IF j \in doing[w] THEN "done" ELSE fate[j]]
    /\ doing' = [doing EXCEPT ![w] = {}]
    /\ pc' = [pc EXCEPT ![w] = "check"]
    /\ UNCHANGED <<finish, joblist, ppc, putting, raced, stray>>

Exit(w) ==
    /\ pc[w] = "exit"
    /\ pc' = [pc EXCEPT ![w] = "gone"]
    /\ UNCHANGED <<finish, joblist, doing, ppc, putting, raced, stray, fate>>

-----------------------------------------------------------------------------
\* One round of local_threads_start; pthread_create may fail, then the pool is
\* one thread short.
CreateThread(w) ==
    /\ pc[w] = "none"
    /\ \/ pc' = [pc EXCEPT ![w] = "check"]
       \/ pc' = [pc EXCEPT ![w] = "gone"]
    /\ UNCHANGED <<finish, joblist, doing, ppc, putting, raced, stray, fate>>

\* Mutant: the workers are not woken.
local_threads_stopMutant ==
    /\ finish' = TRUE
    /\ UNCHANGED <<joblist, pc, doing, ppc, putting, raced, stray, fate>>

local_threads_stop ==
    /\ finish' = TRUE
    /\ pc' = WakeAll
    /\ UNCHANGED <<joblist, doing, ppc, putting, raced, stray, fate>>

Work(w) == \/ CheckFinish(w) \/ CheckTake(w) \/ CheckSleep(w)
           \/ JobReturns(w) \/ Exit(w)

Next ==
    \/ \E s \in Putters : (\E j \in Jobs : PutTest(s, j)) \/ PutLink(s) \/ PutBroadcast(s)
    \/ \E w \in Workers : CreateThread(w) \/ Work(w) \/ SpuriousWakeup(w)
    \/ local_threads_stop

Spec == Init /\ [][Next]_vars

\* Threads that can run do run, and callbacks return.
Fairness == /\ \A w \in Workers : WF_vars(Work(w)) /\ WF_vars(CreateThread(w))
            /\ \A s \in Putters : WF_vars(PutLink(s)) /\ WF_vars(PutBroadcast(s))

FairSpec == Spec /\ Fairness

-----------------------------------------------------------------------------
\* A job is on the list, with one worker, or with nobody: it is never run
\* twice and never run while it is still queued (process_local_thread takes
\* it off the list and unlocks before the callback).
RunsOnce ==
    /\ \A w, v \in Workers : w # v => doing[w] \cap doing[v] = {}
    /\ \A i \in 1 .. Len(joblist) :
          /\ fate[joblist[i]] = "queued"
          /\ \A k \in 1 .. Len(joblist) : joblist[i] = joblist[k] => i = k
    /\ \A w \in Workers : \A j \in doing[w] : fate[j] = "started"

\* With a job on the list somebody is awake who will see it: a worker, or the
\* putter on its way to the broadcast (the job is linked before the broadcast,
\* the broadcast takes the mutex, a worker holds it from its look to its sleep).
NoForgottenJob ==
    joblist # <<>> /\ (\E w \in Workers : pc[w] = "asleep") =>
        \/ \E w \in Workers : pc[w] \in {"check", "run"}
        \/ \E s \in Putters : ppc[s] = "broadcast"

\* local_threads_stop ends every worker that was created.
StopEndsWorkers == \A w \in Workers : (finish /\ pc[w] # "none") ~> pc[w] = "gone"
=============================================================================
