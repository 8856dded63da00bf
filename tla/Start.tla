------------------------------- MODULE Start --------------------------------
(***************************************************************************)
(* lib/osns/start.c with the start and stop of the event loop.  The main   *)
(* thread reads the modules of the start profile, puts a job that does     *)
(* their actions, runs the event loop and undoes the actions when the loop *)
(* has ended.  That order is the one of a program that uses the library.   *)
(* The job and the main thread share the list of modules without a lock:   *)
(* a change of module->status is a read and a write.                       *)
(*                                                                         *)
(* A call of action->manage takes time, and is a call into the module's    *)
(* shared object when the module is an external one.                       *)
(***************************************************************************)
EXTENDS Integers, Sequences

CONSTANTS MaxModules,   \* bound: modules on the list
          MaxLost       \* bound: modules of the profile without a symbol

ASSUME StartAssumption == MaxModules \in Nat /\ MaxLost \in Nat

VARIABLES
    type,       \* type[i]: "intern" or "extern", for the modules of octx->actions
    status,     \* status[i]: subset of {"LOADED", "DONE", "ERROR"}
    object,     \* object[i]: the shared object is in memory
    lost,       \* shared objects in memory of modules that are on no list
    mpc,        \* where the main thread is
    mi,         \* its place on the list
    mcopy,      \* the status it has read
    jpc,        \* where the job is
    ji,         \* its place on the list
    jcopy,      \* the status it has read
    started,    \* octx->status & OSNS_CTX_STATUS_THREAD_STARTED
    start,      \* eloop->flags & BEVENTLOOP_FLAG_START
    stop,       \* eloop->flags & BEVENTLOOP_FLAG_STOP
    fd,         \* the epoll fd is open
    did,        \* history: modules whose action was done, in order
    undid,      \* history: modules whose action was undone, in order
    early       \* history: the undo began before the job had ended

list == <<type, object, lost>>
main == <<mpc, mi, mcopy>>
job == <<jpc, ji, jcopy>>
loop == <<start, stop, fd>>
history == <<did, undid, early>>
startvars == <<type, status, object, lost, mpc, mi, mcopy, jpc, ji, jcopy,
               started, start, stop, fd, did, undid, early>>

\* epoll_create may fail.
BEVENTLOOP_backend_init == fd \in BOOLEAN

BEVENTLOOP_init == start = FALSE /\ stop = FALSE /\ BEVENTLOOP_backend_init

\* OSNS_ctx_init
StartInit ==
    /\ type = <<>> /\ status = <<>> /\ object = <<>> /\ lost = 0
    /\ mpc = "read" /\ mi = 0 /\ mcopy = {}
    /\ jpc = "none" /\ ji = 0 /\ jcopy = {}
    /\ started = FALSE
    /\ BEVENTLOOP_init
    /\ did = <<>> /\ undid = <<>> /\ early = FALSE

-----------------------------------------------------------------------------
(* The list of modules.                                                    *)

\* dlopen and dlclose of the object of a module.
MODULE_load == object' = Append(object, TRUE)

OSNS_module_load == MODULE_load

MODULE_unload(i) == object' = [object EXCEPT ![i] = FALSE]

OSNS_module_unload(i) == MODULE_unload(i)

Add(t, s) ==
    /\ mpc = "read" /\ Len(type) < MaxModules
    /\ type' = Append(type, t)
    /\ status' = Append(status, s)
    /\ UNCHANGED <<lost, main, job, started, loop, history>>

OSNS_action_add == Add("intern", {}) /\ object' = Append(object, FALSE)

\* osns_read_startprofile_cb: a line whose module is loaded and has its symbol.
\* A line with another name, or a module that cannot be loaded, is skipped.
ProfileModule == Add("extern", {"LOADED"}) /\ OSNS_module_load

\* The symbol is not found: the module is freed, and its object stays.
ProfileNoSymbol ==
    /\ mpc = "read" /\ lost < MaxLost
    /\ lost' = lost + 1
    /\ UNCHANGED <<type, status, object, main, job, started, loop, history>>

-----------------------------------------------------------------------------
(* BEVENTLOOP_stop: who sets the flag closes the fd.                       *)

BEVENTLOOP_stop == /\ stop' = TRUE
                   /\ fd' = (fd /\ stop)
                   /\ UNCHANGED start

\* A callback, or a thread of the program, stops the loop.
StopLoop ==
    /\ BEVENTLOOP_stop
    /\ UNCHANGED <<list, status, main, job, started, history>>

-----------------------------------------------------------------------------
(* The main thread.                                                        *)

MGoto(stage) == mpc' = stage /\ UNCHANGED <<mi, mcopy>>

\* OSNS_action_process_all_start: with an empty list nothing is started; the
\* job may be dropped (LocalThreads).
StartAll ==
    /\ mpc = "read"
    /\ \/ type = <<>> /\ MGoto("run") /\ UNCHANGED job
       \/ type # <<>> /\ MGoto("wait") /\ jpc' \in {"queued", "none"} /\ UNCHANGED <<ji, jcopy>>
    /\ UNCHANGED <<list, status, started, loop, history>>

WaitStarted ==
    /\ mpc = "wait" /\ started
    /\ MGoto("run")
    /\ UNCHANGED <<list, status, job, started, loop, history>>

\* Mutant: the wait has no end.
WaitTimeoutMutant ==
    /\ mpc = "wait" /\ started
    /\ BEVENTLOOP_stop
    /\ MGoto("run")
    /\ UNCHANGED <<list, status, job, started, history>>

\* Not within two seconds: stop the loop, and go on.
WaitTimeout ==
    /\ mpc = "wait" /\ ~started
    /\ BEVENTLOOP_stop
    /\ MGoto("run")
    /\ UNCHANGED <<list, status, job, started, history>>

\* BEVENTLOOP_backend_start
LoopStart ==
    /\ mpc = "run"
    /\ start' = TRUE
    /\ MGoto("test")
    /\ UNCHANGED <<list, status, job, started, stop, fd, history>>

\* while ((eloop->flags & BEVENTLOOP_FLAG_STOP)==0)
LoopTest ==
    /\ mpc = "test"
    /\ MGoto(IF stop THEN "ended" ELSE "call")
    /\ UNCHANGED <<list, status, job, started, loop, history>>

\* epoll_pwait on an open fd waits; closing the fd does not wake it.
EpollCall ==
    /\ mpc = "call"
    /\ MGoto(IF fd THEN "poll" ELSE "ended")
    /\ UNCHANGED <<list, status, job, started, loop, history>>

\* Events, or nothing, or an error.
EpollReturns ==
    /\ mpc = "poll"
    /\ MGoto("test") \/ MGoto("ended")
    /\ UNCHANGED <<list, status, job, started, loop, history>>

JobRuns == jpc \notin {"none", "ended"}

\* The flag START is unset; OSNS_action_process_all_undo begins at the last.
LoopEnd ==
    /\ mpc = "ended"
    /\ start' = FALSE
    /\ mpc' = IF type = <<>> THEN "done" ELSE "undo"
    /\ mi' = Len(type)
    /\ early' = JobRuns
    /\ UNCHANGED <<list, status, mcopy, job, started, stop, fd, did, undid>>

\* To the previous module.
MPrev == /\ mi' = mi - 1
         /\ mpc' = IF mi > 1 THEN "undo" ELSE "done"

\* Mutant: the module is undone whether it was done or not.
UndoTestMutant ==
    /\ mpc = "undo"
    /\ IF type[mi] = "extern" /\ "LOADED" \notin status[mi]
       THEN MPrev /\ UNCHANGED mcopy
       ELSE MGoto("calling")
    /\ UNCHANGED <<list, status, job, started, loop, history>>

\* osns_process_actions_list, UNDO: a module that is not loaded is skipped.
UndoTest ==
    /\ mpc = "undo"
    /\ IF type[mi] = "extern" /\ "LOADED" \notin status[mi]
       THEN MPrev /\ UNCHANGED mcopy
       ELSE MGoto(IF "DONE" \in status[mi] THEN "calling" ELSE "unload")
    /\ UNCHANGED <<list, status, job, started, loop, history>>

\* manage(UNDO) returns, its result is not used; then status &= ~DONE.
UndoReturns ==
    /\ mpc = "calling"
    /\ undid' = Append(undid, mi)
    /\ mpc' = "undone" /\ mcopy' = status[mi]
    /\ UNCHANGED <<list, status, mi, job, started, loop, did, early>>

UndoWrite ==
    /\ mpc = "undone"
    /\ status' = [status EXCEPT ![mi] = mcopy \ {"DONE"}]
    /\ MGoto("unload")
    /\ UNCHANGED <<list, job, started, loop, history>>

\* Mutant: the module is not unloaded.
UnloadMutant ==
    /\ mpc = "unload"
    /\ MPrev
    /\ UNCHANGED <<list, status, mcopy, job, started, loop, history>>

\* An external module is unloaded; then status &= ~LOADED.
Unload ==
    /\ mpc = "unload"
    /\ IF type[mi] = "extern"
       THEN /\ OSNS_module_unload(mi)
            /\ mcopy' = status[mi]
            /\ mpc' = "unloaded" /\ UNCHANGED mi
       ELSE MPrev /\ UNCHANGED <<object, mcopy>>
    /\ UNCHANGED <<type, lost, status, job, started, loop, history>>

UnloadWrite ==
    /\ mpc = "unloaded"
    /\ status' = [status EXCEPT ![mi] = mcopy \ {"LOADED"}]
    /\ MPrev
    /\ UNCHANGED <<list, mcopy, job, started, loop, history>>

-----------------------------------------------------------------------------
(* The job: osns_process_actions_thread                                    *)

JobStarts ==
    /\ jpc = "queued"
    /\ started' = TRUE
    /\ jpc' = "wait"
    /\ UNCHANGED <<list, status, main, ji, jcopy, loop, history>>

\* BEVENTLOOP_wait_to_start: START, or STOP, is set.
JobWaited ==
    /\ jpc = "wait" /\ (start \/ stop)
    /\ jpc' = "do" /\ ji' = 1
    /\ UNCHANGED <<list, status, main, jcopy, started, loop, history>>

JobTimeout ==
    /\ jpc = "wait" /\ ~(start \/ stop)
    /\ jpc' = "ended"
    /\ BEVENTLOOP_stop
    /\ UNCHANGED <<list, status, main, ji, jcopy, started, history>>

\* To the next module.
JNext == /\ ji' = ji + 1
         /\ jpc' = IF ji < Len(type) THEN "do" ELSE "ended"

DoTest ==
    /\ jpc = "do"
    /\ IF type[ji] = "extern" /\ "LOADED" \notin status[ji]
       THEN JNext
       ELSE jpc' = "calling" /\ UNCHANGED ji
    /\ UNCHANGED <<list, status, main, jcopy, started, loop, history>>

\* manage(DO) returns; then status |= DONE, or |= ERROR.
DoReturns ==
    /\ jpc = "calling"
    /\ jcopy' = status[ji]
    /\ \/ jpc' = "did" /\ did' = Append(did, ji)
       \/ jpc' = "failed" /\ UNCHANGED did
    /\ UNCHANGED <<list, status, main, ji, started, loop, undid, early>>

DoWrite ==
    /\ jpc = "did"
    /\ status' = [status EXCEPT ![ji] = jcopy \cup {"DONE"}]
    /\ JNext
    /\ UNCHANGED <<list, main, jcopy, started, loop, history>>

\* An error ends the walk and stops the loop.
DoError ==
    /\ jpc = "failed"
    /\ status' = [status EXCEPT ![ji] = jcopy \cup {"ERROR"}]
    /\ jpc' = "ended"
    /\ BEVENTLOOP_stop
    /\ UNCHANGED <<list, main, ji, jcopy, started, history>>

-----------------------------------------------------------------------------
\* FILE_parse: line by line.
FILE_parse == ProfileModule \/ ProfileNoSymbol

\* Actions of the program itself, and those of OSNS_read_start.
Reading == OSNS_action_add \/ FILE_parse

Main == \/ StartAll \/ WaitStarted \/ WaitTimeout
        \/ LoopStart \/ LoopTest \/ EpollCall \/ LoopEnd
        \/ UndoTest \/ UndoReturns \/ UndoWrite \/ Unload \/ UnloadWrite

Job == \/ JobStarts \/ JobWaited \/ JobTimeout
       \/ DoTest \/ DoReturns \/ DoWrite \/ DoError

StartNext == Reading \/ Main \/ EpollReturns \/ Job \/ StopLoop

StartSpec == StartInit /\ [][StartNext]_startvars

\* The threads run, waits time out, actions return.  That a waiting epoll_pwait
\* returns is not assumed: there may be no event.
StartFairness == WF_startvars(Main) /\ WF_startvars(Job)

FairStart == StartSpec /\ StartFairness

-----------------------------------------------------------------------------
Places == 1 .. Len(type)

\* When the job has ended before the loop, the undo leaves nothing behind: every
\* action that was done is undone, and no module of the list is done or loaded.
\* (start.c takes no lock for it.)
CleanEnd == mpc = "done" /\ ~early =>
    /\ Len(undid) = Len(did)
    /\ \A i \in Places : status[i] \cap {"DONE", "LOADED"} = {} /\ ~object[i]

\* An action is undone only after it was done without an error, once, and after
\* every later module, even when the undo overtakes the job.
UndoAfterDo ==
    /\ \A k \in DOMAIN undid : \E n \in DOMAIN did : did[n] = undid[k]
    /\ \A k, n \in DOMAIN undid : k < n => undid[k] > undid[n]

\* A call of an action is a call into an object in memory, unless the undo
\* overtook the job.
CallsIntoObject ==
    /\ mpc = "calling" /\ type[mi] = "extern" => object[mi]
    /\ jpc = "calling" /\ type[ji] = "extern" /\ ~early => object[ji]

\* Undoing is orderly, and calls nothing that is unloaded.
UndoSafe == UndoAfterDo /\ CallsIntoObject

\* A stop that comes before the loop tests for it ends the loop and undoes the
\* actions, whether or not the job was ever started.  One that comes when the
\* loop waits, or is about to, waits for the next event (loop.c:102).
StopIsSeen == (stop /\ mpc \notin {"call", "poll"}) ~> mpc = "done"
=============================================================================
