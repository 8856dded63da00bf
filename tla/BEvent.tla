------------------------------- MODULE BEvent -------------------------------
(***************************************************************************)
(* lib/eventloop: one bevent (a watched fd) between the thread of the      *)
(* event loop, which takes its events from epoll and puts them on the list *)
(* of reported events, and the threads of the pool, which run the          *)
(* callbacks (backend.c, bae.c, queue.c), and the thread that detaches the *)
(* context of the user (ctx.c, bevent.c).                                  *)
(*                                                                         *)
(* revents.events is changed under the lock bit REVENTS, except by the     *)
(* event loop when it adds what epoll reports: that is a read and a write  *)
(* with anything in between.  epoll is level triggered (mode is always 0). *)
(***************************************************************************)
EXTENDS Integers, Sequences, FiniteSets, SequencesExt

CONSTANTS Workers,     \* threads the pool may have
          Pools,       \* the pools: sets of threads
          Watch,       \* events.header: the order in which callbacks were set
          Happens,     \* sets of what may happen to the fd
          MaxJobs,     \* bound: jobs of this bevent waiting in the pool
          NoThread

\* The indices for which a callback can be set; WRITEABLE is not among them
\* (BEVENT_ctx_set_cb does not know it).
Indices == {"readable", "pri", "error", "close"}
CloseError == {"error", "close"}

ASSUME BEventAssumption ==
    /\ NoThread \notin Workers
    /\ Pools \subseteq SUBSET Workers
    /\ Happens \subseteq SUBSET Indices
    /\ Watch \in Seq(Indices) /\ IsInjective(Watch)
    /\ MaxJobs \in Nat

VARIABLES
    pool,       \* the threads of the pool; none once it is stopped
    happens,    \* what may happen to the fd; never changes
    ready,      \* what the kernel would report about the fd
    epolled,    \* the fd is registered with epoll
    revents,    \* bevent->revents.events
    rlist,      \* bevent->revents.header, whose elements have the flag RLIST
    threadid,   \* bevent->revents.threadid
    lpc,        \* where the thread of the event loop is
    reported,   \* aevents[i].events
    seen,       \* value of revents.events the event loop has read
    walk,       \* position on Watch
    queued,     \* what BEVENT_bevent_queue_events returns
    wpc,        \* wpc[w]: where thread w is in BEVENT_process_events_thread
    current,    \* current[w]: index of the event w handles
    copy,       \* copy[w]: value of revents.events w has read
    calls,      \* calls[w]: context whose callback w has fetched
    jobs,       \* jobs put and not started
    dropped,    \* history: the last job did not get to the pool, or the pool was stopped
    bctx,       \* bevent->bctx: "user" or "fallback"
    signal,     \* the user's context has a signal callback
    dpc,        \* where the thread that detaches is
    inactive,   \* bevent->status & BEVENT_STATUS_FLAG_INACTIVE
    place       \* the list the bevent is on

fixed == <<happens, signal>>
work == <<pool, jobs, dropped>>
kernel == <<ready, epolled>>
loop == <<lpc, reported, seen, walk, queued>>
thread == <<wpc, current, copy, calls>>
detach == <<bctx, dpc, inactive, place>>
vars == <<pool, happens, ready, epolled, revents, rlist, threadid, lpc, reported, seen, walk, queued,
          wpc, current, copy, calls, jobs, dropped, bctx, signal, dpc, inactive, place>>

\* BEVENT_create: nothing is reported yet and no thread has the bevent.
Created ==
    /\ revents = {} /\ rlist = <<>> /\ threadid = NoThread
    /\ inactive = FALSE /\ place = "bevents"

\* BEVENT_ctx_attach_to_eventloop, with or without BEVENT_ctx_set_signal.
Attached ==
    /\ bctx = "user" /\ dpc = "attached"
    /\ signal \in BOOLEAN

\* BEVENT_ctx_add
Added == ready = {} /\ epolled = TRUE

Init ==
    /\ pool \in Pools
    /\ happens \in Happens
    /\ Created /\ Attached /\ Added
    /\ lpc = "wait" /\ reported = {} /\ seen = {} /\ walk = 0 /\ queued = 0
    /\ wpc = [w \in Workers |-> "idle"]
    /\ current = [w \in Workers |-> "none"]
    /\ copy = [w \in Workers |-> {}]
    /\ calls = [w \in Workers |-> "none"]
    /\ jobs = 0 /\ dropped = FALSE

\* The lock bit REVENTS: only a worker that clears a bit has it between steps.
RevFree == \A w \in Workers : wpc[w] # "clear"

-----------------------------------------------------------------------------
\* Data arrives, the peer closes, and so on.
KernelReports(i) ==
    /\ i \in happens \ ready
    /\ ready' = ready \cup {i}
    /\ UNCHANGED <<fixed, epolled, revents, rlist, threadid, loop, thread, work, detach>>

\* events.events: what BEVENT_ctx_set_cb has set a callback for.
Watched == Range(Watch)

\* What epoll reports; errors and hangups without being asked.
Pending == IF epolled THEN ready \cap (Watched \cup CloseError) ELSE {}

-----------------------------------------------------------------------------
(* The event loop: BEVENTLOOP_backend_start, BEVENT_bevent_queue_events    *)

\* "only process events not already reported before"
Filter ==
    /\ lpc = "wait"
    /\ Pending \ revents # {}
    /\ reported' = Pending \ revents
    /\ lpc' = "read"
    /\ UNCHANGED <<fixed, kernel, revents, rlist, threadid, seen, walk, queued, thread, work, detach>>

\* bevent->revents.events |= ..., without the lock: read ...
OrRead ==
    /\ lpc = "read"
    /\ seen' = revents
    /\ lpc' = "write"
    /\ UNCHANGED <<fixed, kernel, revents, rlist, threadid, reported, walk, queued, thread, work, detach>>

\* ... and write.
OrWrite ==
    /\ lpc = "write"
    /\ revents' = seen \cup reported
    /\ lpc' = "test"
    /\ walk' = 1
    /\ reported' = {} /\ seen' = {}
    /\ UNCHANGED <<fixed, kernel, rlist, threadid, queued, thread, work, detach>>

\* while (list && bevent->revents.events): the test every action starts with.
WalkTest ==
    /\ lpc = "test"
    /\ walk <= Len(Watch) /\ revents # {}
    /\ \/ Watch[walk] \in revents /\ lpc' = "act" /\ UNCHANGED walk
       \/ Watch[walk] \notin revents /\ walk' = walk + 1 /\ UNCHANGED lpc
    /\ UNCHANGED <<fixed, kernel, revents, rlist, threadid, reported, seen, queued, thread, work, detach>>

\* BEVENT_process_events: LOCAL_threads_put_job says nothing of what became of the
\* job.  It is refused when the pool is stopped, not put when there is no memory,
\* and may be linked where no worker finds it (PutTest and PutLink in LocalThreads).
PutJob ==
    /\ \/ pool # {} /\ jobs < MaxJobs /\ jobs' = jobs + 1 /\ dropped' = FALSE
       \/ dropped' = TRUE /\ UNCHANGED jobs
    /\ UNCHANGED pool

\* The end of the walk, and BEVENT_process_events when something was queued.
WalkEnd ==
    /\ lpc = "test"
    /\ walk > Len(Watch) \/ revents = {}
    /\ IF queued > 0 THEN PutJob ELSE UNCHANGED work
    /\ lpc' = "wait"
    /\ walk' = 0 /\ queued' = 0
    /\ UNCHANGED <<fixed, kernel, revents, rlist, threadid, reported, seen, thread, detach>>

NextAction == lpc' = "test" /\ walk' = walk + 1

\* LIST_header_add_last(&bevent->revents.header, &bae->rlist), and the bit off.
Report(i) == rlist' = Append(rlist, i) /\ revents' = revents \ {i}

HasSignal == signal /\ bctx = "user"

\* BAE_action_default, after its test.
action_default ==
    /\ lpc = "act" /\ Watch[walk] \notin CloseError
    /\ RevFree
    /\ LET i == Watch[walk] IN
       \/ /\ i \in Range(rlist)
          /\ revents' = IF HasSignal THEN revents ELSE revents \cup {i}
          /\ UNCHANGED <<rlist, queued>>
       \/ i \notin Range(rlist) /\ Report(i) /\ queued' = queued + 1
    /\ NextAction
    /\ UNCHANGED <<fixed, kernel, threadid, reported, seen, thread, work, detach>>

\* BAE_action_closeerror, after its test: with other events on the list the
\* event is not put there and its bit stays.
action_closeerror ==
    /\ lpc = "act" /\ Watch[walk] \in CloseError
    /\ HasSignal \/ RevFree
    /\ \/ HasSignal /\ UNCHANGED <<rlist, revents, queued>>
       \/ ~HasSignal /\ rlist = <<>> /\ Report(Watch[walk]) /\ queued' = queued + 1
       \/ ~HasSignal /\ rlist # <<>> /\ queued' = queued + 1 /\ UNCHANGED <<rlist, revents>>
    /\ NextAction
    /\ UNCHANGED <<fixed, kernel, threadid, reported, seen, thread, work, detach>>

-----------------------------------------------------------------------------
(* A thread of the pool: BEVENT_process_events_thread                      *)

\* The first of the list, or the end of the job.
HandleFirst(w, list) ==
    IF list = <<>>
    THEN /\ wpc' = [wpc EXCEPT ![w] = "idle"]
         /\ current' = [current EXCEPT ![w] = "none"]
    ELSE /\ wpc' = [wpc EXCEPT ![w] = "fetch"]
         /\ current' = [current EXCEPT ![w] = Head(list)]

\* Mutant: the test for another thread is dropped.
JobStartsMutant(w) ==
    /\ w \in pool /\ wpc[w] = "idle" /\ jobs > 0
    /\ RevFree
    /\ jobs' = jobs - 1
    /\ threadid' = w
    /\ HandleFirst(w, rlist)
    /\ UNCHANGED <<fixed, pool, dropped, kernel, revents, rlist, loop, copy, calls, detach>>

\* threadid is set by the first thread that comes here, and never reset.
JobStarts(w) ==
    /\ w \in pool /\ wpc[w] = "idle" /\ jobs > 0
    /\ RevFree
    /\ jobs' = jobs - 1
    /\ \/ /\ threadid \in {NoThread, w}
          /\ threadid' = w
          /\ HandleFirst(w, rlist)
       \/ /\ threadid \notin {NoThread, w}
          /\ UNCHANGED <<threadid, wpc, current>>
    /\ UNCHANGED <<fixed, pool, dropped, kernel, revents, rlist, loop, copy, calls, detach>>

\* local_threads_stop: the workers test FINISH before the list of jobs, and what
\* is on it stays there; who runs a callback ends it.
PoolStops ==
    /\ pool # {}
    /\ pool' = {}
    /\ jobs' = 0
    /\ dropped' = TRUE
    /\ UNCHANGED <<fixed, kernel, revents, rlist, threadid, loop, thread, detach>>

\* bctx=bevent->bctx under the lock bit BCTX of the bevent.
FetchContext(w) ==
    /\ wpc[w] = "fetch"
    /\ calls' = [calls EXCEPT ![w] = bctx]
    /\ wpc' = [wpc EXCEPT ![w] = "callback"]
    /\ UNCHANGED <<fixed, kernel, revents, rlist, threadid, loop, current, copy, work, detach>>

\* (* bctx->cb[index])(bctx, &arg); the user's callback may deal with all there
\* is, with a part of it, or with nothing; the fallback's does nothing.
Callback(w) ==
    /\ wpc[w] = "callback"
    /\ \/ calls[w] = "user" /\ ready' = ready \ {current[w]}
       \/ UNCHANGED ready
    /\ calls' = [calls EXCEPT ![w] = "none"]
    /\ wpc' = [wpc EXCEPT ![w] = "after"]
    /\ UNCHANGED <<fixed, epolled, revents, rlist, threadid, loop, current, copy, work, detach>>

\* Mutant: the job ends after the first event of the list.
AfterMutant(w) ==
    /\ wpc[w] = "after"
    /\ RevFree
    /\ rlist' = Tail(rlist)
    /\ wpc' = [wpc EXCEPT ![w] = "idle"]
    /\ UNCHANGED <<fixed, kernel, revents, threadid, loop, current, copy, calls, work, detach>>

\* Mutant: an event that is reported again is taken off the list.
AfterMutantAgain(w) ==
    /\ wpc[w] = "after"
    /\ RevFree
    /\ rlist' = Remove(rlist, current[w])
    /\ HandleFirst(w, rlist')
    /\ UNCHANGED <<fixed, kernel, revents, threadid, loop, copy, calls, work, detach>>

\* Reported again, or off the list and on to the next one.
After(w) ==
    /\ wpc[w] = "after"
    /\ RevFree
    /\ \/ /\ current[w] \in revents
          /\ copy' = [copy EXCEPT ![w] = revents]
          /\ wpc' = [wpc EXCEPT ![w] = "clear"]
          /\ UNCHANGED <<rlist, current>>
       \/ /\ current[w] \notin revents
          /\ \E k \in DOMAIN rlist : rlist[k] = current[w] /\ rlist' = RemoveAt(rlist, k)
          /\ HandleFirst(w, rlist')
          /\ UNCHANGED copy
    /\ UNCHANGED <<fixed, kernel, revents, threadid, loop, calls, work, detach>>

\* bevent->revents.events &= ~event, then goto processeventcb.
ClearBit(w) ==
    /\ wpc[w] = "clear"
    /\ revents' = copy[w] \ {current[w]}
    /\ copy' = [copy EXCEPT ![w] = {}]
    /\ wpc' = [wpc EXCEPT ![w] = "fetch"]
    /\ UNCHANGED <<fixed, kernel, rlist, threadid, loop, current, calls, work, detach>>

-----------------------------------------------------------------------------
(* BEVENT_ctx_detach                                                       *)

\* BEVENT_ctx_replace_with_fallback, with the lock bit BCTX of the loop.
ReplaceWithFallback ==
    /\ dpc = "attached"
    /\ bctx' = "fallback"
    /\ dpc' = "move1"
    /\ UNCHANGED <<fixed, kernel, revents, rlist, threadid, loop, thread, work, inactive, place>>

\* BEVENT_ctx_del
CtxDel ==
    /\ dpc = "del"
    /\ epolled' = FALSE
    /\ dpc' = "move2"
    /\ UNCHANGED <<fixed, ready, revents, rlist, threadid, loop, thread, work, bctx, inactive, place>>

AfterMove == [move1 |-> "del", move2 |-> "done", away1 |-> "del", away2 |-> "done"]

\* BEVENT_move_to_inactive, called twice: who sets the flag takes the bevent
\* off the list of the loop ...
MoveRemove ==
    /\ dpc \in {"move1", "move2"}
    /\ inactive' = TRUE
    /\ \/ ~inactive /\ place' = "none" /\ dpc' = IF dpc = "move1" THEN "away1" ELSE "away2"
       \/ inactive /\ dpc' = AfterMove[dpc] /\ UNCHANGED place
    /\ UNCHANGED <<fixed, kernel, revents, rlist, threadid, loop, thread, work, bctx>>

\* ... and puts it on the other one.
MoveAdd ==
    /\ dpc \in {"away1", "away2"}
    /\ place' = "inactive"
    /\ dpc' = AfterMove[dpc]
    /\ UNCHANGED <<fixed, kernel, revents, rlist, threadid, loop, thread, work, bctx, inactive>>

-----------------------------------------------------------------------------
Loop == \/ Filter \/ OrRead \/ OrWrite
        \/ WalkTest \/ action_default \/ action_closeerror \/ WalkEnd

Process(w) == FetchContext(w) \/ Callback(w) \/ After(w) \/ ClearBit(w)

Detach == ReplaceWithFallback \/ CtxDel \/ MoveRemove \/ MoveAdd

Next == \/ \E i \in Indices : KernelReports(i)
        \/ Loop
        \/ \E w \in Workers : JobStarts(w) \/ Process(w)
        \/ PoolStops
        \/ Detach

Spec == Init /\ [][Next]_vars

\* The event loop and the threads of the pool go on, and a pool that is not
\* stopped gives a job that got there to one of its threads (its workers look
\* at the list under the mutex, NoForgottenJob in LocalThreads); lock bits are
\* served (EventFlag).  Nothing is assumed of a job getting there.
Fairness == /\ WF_vars(Loop)
            /\ SF_vars(\E w \in Workers : JobStarts(w))
            /\ \A w \in Workers : SF_vars(Process(w))

FairSpec == Spec /\ Fairness

-----------------------------------------------------------------------------
AllIdle == \A w \in Workers : wpc[w] = "idle"
Handling(i) == \E w \in Workers : wpc[w] = "callback" /\ current[w] = i

\* The callbacks of one bevent never run in two threads at the same time,
\* however many jobs the loop has put (the test of threadid, queue.c:65).
OneThread == \A w, v \in Workers : wpc[w] # "idle" /\ wpc[v] # "idle" => w = v

\* A bit left in revents.events hides the event from now on (backend.c:209), so
\* data is only hidden while somebody is going to look: the event is on the
\* list, or the loop has yet to come to it.  The unlocked update of
\* revents.events does not break this; closes and errors do (bae.c:115).
NotHidden == \A i \in revents \ CloseError :
    \/ i \in Range(rlist)
    \/ lpc \in {"test", "act"} /\ \E k \in walk .. Len(Watch) : Watch[k] = i

\* "test there is another thread active for this bevent" (queue.c:63): the first
\* of the reported events gets its callback when no thread is active, unless the
\* last job did not get to the pool.
FirstServed == \A i \in Indices :
    (rlist # <<>> /\ Head(rlist) = i /\ AllIdle) ~> (Handling(i) \/ dropped)

\* So it is when the pool is started with one thread; and a job that is put later
\* gets the events served that an earlier one that was lost was for.
SingleThreadServes == (Cardinality(pool) = 1) => FirstServed
=============================================================================
