--------------------------- MODULE SignalMonitor ----------------------------
(***************************************************************************)
(* lib/system/signal.c: signals are read from a signalfd by a callback of  *)
(* the event loop (the reader), put on a queue and handed to the user's    *)
(* callback by a job of the thread pool (a worker).  The THREAD bit of     *)
(* monitor.status says that such a job exists.                             *)
(*                                                                         *)
(* Only the bit, and the get at the end of the job's loop, are under the   *)
(* mutex.  Linking an event, dropping the oldest one, the first get of a   *)
(* job and the cleanup of stop are not: taking the first event is a look   *)
(* followed by an unlink, and an unlink of an event that somebody else     *)
(* unlinked follows a NULL pointer: the program ends.  Linking is a window *)
(* as in LocalThreads.                                                     *)
(***************************************************************************)
EXTENDS Integers, Sequences, SequencesExt

CONSTANTS Workers,      \* threads of the pool
          MaxSignals,   \* bound: signals that arrive; an event is its number
          MaxCount,     \* maxcount_events (128)
          Batch,        \* signals in one read (8)
          PoolDrops     \* put_job may drop a job (no memory, pool stopped)

ASSUME SignalAssumption ==
    /\ MaxSignals \in Nat /\ MaxCount \in Nat /\ Batch \in Nat \ {0}
    /\ PoolDrops \in BOOLEAN
    /\ Workers \cap {"reader", "stop"} = {}

VARIABLES
    arrived,    \* signals the kernel has queued so far
    read,       \* signals read from the signalfd so far
    batch,      \* signals of the last read that are not created yet
    again,      \* the last read was a full one: read again
    rpc,        \* where the reader is
    spc,        \* where SYSTEM_signal_monitor_stop is
    wpc,        \* wpc[w]: where worker w is
    held,       \* held[x]: the event remover x looks at or has, 0 for none
    queue,      \* the events linked on monitor.header
    count,      \* monitor.header.count
    thread,     \* monitor.status & SYSTEM_SIGNAL_MONITOR_STATUS_THREAD
    jobs,       \* jobs of the monitor waiting in the pool
    race,       \* what was removed while the reader links an event
    stray,      \* tail.p is an element that is not on the queue
    drift,      \* history: an update of count may have been lost
    dropped,    \* history: the queue has been full
    last,       \* history: the last event given to the callback
    crashed     \* the program has ended

reader == <<read, batch, again, rpc>>
list == <<queue, count, race, stray, drift>>
vars == <<arrived, read, batch, again, rpc, spc, wpc, held, queue, count, thread, jobs,
          race, stray, drift, dropped, last, crashed>>

Removers == Workers \cup {"reader", "stop"}

\* SYSTEM_signal_monitor_start has succeeded; a second call returns at once.
Init ==
    /\ arrived = 0 /\ read = 0 /\ batch = 0 /\ again = FALSE
    /\ rpc = "idle" /\ spc = "open"
    /\ wpc = [w \in Workers |-> "idle"]
    /\ held = [x \in Removers |-> 0]
    /\ queue = <<>> /\ count = 0 /\ race = "none" /\ stray = FALSE
    /\ thread = FALSE /\ jobs = 0
    /\ drift = FALSE /\ dropped = FALSE /\ last = 0 /\ crashed = FALSE

-----------------------------------------------------------------------------
(* LIST_header_remove_first, in two steps.                                 *)

First == IF queue = <<>> THEN 0 ELSE Head(queue)

Look(x) == held' = [held EXCEPT ![x] = First]

\* What the removal means to a reader that is linking an event behind.
Unlink(x) ==
    /\ count' = count - 1
    /\ \/ /\ First = held[x]
          /\ queue' = Tail(queue)
          /\ stray' = (stray /\ Len(queue) > 1)
          /\ race' = CASE rpc # "link" -> "none"
                       [] Len(queue) = 1 \/ race = "tail" -> "tail"
                       [] OTHER -> "count"
          /\ UNCHANGED crashed
       \/ /\ First # held[x]
          /\ crashed' = TRUE
          /\ UNCHANGED <<queue, stray, race>>
    /\ UNCHANGED drift

-----------------------------------------------------------------------------
(* The reader: SYSTEM_signal_io_read_event                                 *)

SignalArrives ==
    /\ arrived < MaxSignals
    /\ arrived' = arrived + 1
    /\ UNCHANGED <<reader, spc, wpc, held, list, thread, jobs, dropped, last, crashed>>

\* read(): up to Batch signals; after stop the fd is closed.
ReadFd ==
    /\ rpc = "idle"
    /\ spc = "open"
    /\ arrived > read \/ again
    /\ \E n \in 0 .. Batch :
         /\ n = (IF arrived - read < Batch THEN arrived - read ELSE Batch)
         /\ batch' = n
         /\ read' = read + n
         /\ again' = (n = Batch)
         /\ rpc' = IF n > 0 THEN "create" ELSE "idle"
    /\ UNCHANGED <<arrived, spc, wpc, held, list, thread, jobs, dropped, last, crashed>>

\* The event the reader is working on.
Current == read - batch + 1

\* Done with one event: go on with the next of the batch.
NextOfBatch == /\ batch' = batch - 1
               /\ rpc' = IF batch > 1 THEN "create" ELSE "idle"

\* system_signal_event_create: no memory, the signal is lost.
CreateFails ==
    /\ rpc = "create"
    /\ NextOfBatch
    /\ UNCHANGED <<arrived, read, again, spc, wpc, held, list, thread, jobs, dropped, last, crashed>>

\* count is unsigned: one decrement too many makes it very large.
Full == count < 0 \/ count > MaxCount

\* The test of the count, and the look for the oldest event.
CreateTest ==
    /\ rpc = "create"
    /\ \/ /\ Full
          /\ Look("reader")
          /\ dropped' = TRUE
          /\ rpc' = IF queue = <<>> THEN "link" ELSE "drop"
       \/ /\ ~Full
          /\ rpc' = "link"
          /\ UNCHANGED <<held, dropped>>
    /\ UNCHANGED <<arrived, read, batch, again, spc, wpc, list, thread, jobs, last, crashed>>

\* SYSTEM_signal_monitor_remove_first
DropOldest ==
    /\ rpc = "drop"
    /\ Unlink("reader")
    /\ held' = [held EXCEPT !["reader"] = 0]
    /\ rpc' = "link"
    /\ UNCHANGED <<arrived, read, batch, again, spc, wpc, thread, jobs, dropped, last>>

\* Mutant: the event is added at the wrong end.
AddLastMutant ==
    /\ rpc = "link"
    /\ queue' = <<Current>> \o queue
    /\ count' = count + 1
    /\ rpc' = "handler"
    /\ race' = "none"
    /\ UNCHANGED <<arrived, read, batch, again, spc, wpc, held, stray, drift, thread, jobs, dropped, last, crashed>>

\* LIST_header_add_last(&monitor.header, &sse->list)
AddLast ==
    /\ rpc = "link"
    /\ \/ /\ ~stray \/ race = "tail"
          /\ queue' = Append(queue, Current)
          /\ UNCHANGED stray
       \/ /\ stray \/ race = "tail"
          /\ stray' \in {TRUE, stray}
          /\ UNCHANGED queue
    /\ \/ count' = count + 1
       \/ race # "none" /\ count' \in {count, count + 2}
    /\ drift' = (drift \/ race # "none")
    /\ race' = "none"
    /\ rpc' = "handler"
    /\ UNCHANGED <<arrived, read, batch, again, spc, wpc, held, thread, jobs, dropped, last, crashed>>

\* A worker between its look and its unlink at the end of the loop has the mutex.
MutexFree == \A w \in Workers : wpc[w] # "unlink2"

\* Mutant: the bit is not set.
event_handlerMutant ==
    /\ rpc = "handler"
    /\ MutexFree
    /\ \/ ~thread /\ rpc' = "put" /\ UNCHANGED batch
       \/ thread /\ NextOfBatch
    /\ UNCHANGED <<arrived, read, again, spc, wpc, held, list, thread, jobs, dropped, last, crashed>>

\* system_signal_event_handler
event_handler ==
    /\ rpc = "handler"
    /\ MutexFree
    /\ thread' = TRUE
    /\ \/ ~thread /\ rpc' = "put" /\ UNCHANGED batch
       \/ thread /\ NextOfBatch
    /\ UNCHANGED <<arrived, read, again, spc, wpc, held, list, jobs, dropped, last, crashed>>

\* LOCAL_threads_put_job
PutJob ==
    /\ rpc = "put"
    /\ \/ jobs' = jobs + 1
       \/ PoolDrops /\ UNCHANGED jobs
    /\ NextOfBatch
    /\ UNCHANGED <<arrived, read, again, spc, wpc, held, list, thread, dropped, last, crashed>>

-----------------------------------------------------------------------------
(* A worker: system_signal_process_events_thread                           *)

\* A job is started, and looks for the first event.  Without one it returns
\* and leaves the THREAD bit as it is.
JobStarts(w) ==
    /\ wpc[w] = "idle" /\ jobs > 0
    /\ jobs' = jobs - 1
    /\ Look(w)
    /\ wpc' = [wpc EXCEPT ![w] = IF queue = <<>> THEN "idle" ELSE "unlink1"]
    /\ UNCHANGED <<arrived, reader, spc, list, thread, dropped, last, crashed>>

Take(w) ==
    /\ wpc[w] \in {"unlink1", "unlink2"}
    /\ Unlink(w)
    /\ wpc' = [wpc EXCEPT ![w] = "callback"]
    /\ UNCHANGED <<arrived, reader, spc, held, thread, jobs, dropped, last>>

\* (* monitor.system_signal_event_cb)(...), free(sse)
Callback(w) ==
    /\ wpc[w] = "callback"
    /\ last' = held[w]
    /\ held' = [held EXCEPT ![w] = 0]
    /\ wpc' = [wpc EXCEPT ![w] = "loop"]
    /\ UNCHANGED <<arrived, reader, spc, list, thread, jobs, dropped, crashed>>

\* Mutant: a job handles one event and does not look for more.
LoopMutant(w) ==
    /\ wpc[w] = "loop"
    /\ MutexFree
    /\ thread' = FALSE
    /\ wpc' = [wpc EXCEPT ![w] = "idle"]
    /\ UNCHANGED <<arrived, reader, spc, held, list, jobs, dropped, last, crashed>>

\* With the mutex: the next event, or the end of the job.
Loop(w) ==
    /\ wpc[w] = "loop"
    /\ MutexFree
    /\ Look(w)
    /\ \/ /\ queue # <<>>
          /\ wpc' = [wpc EXCEPT ![w] = "unlink2"]
          /\ UNCHANGED thread
       \/ /\ queue = <<>>
          /\ thread' = FALSE
          /\ wpc' = [wpc EXCEPT ![w] = "idle"]
    /\ UNCHANGED <<arrived, reader, spc, list, jobs, dropped, last, crashed>>

-----------------------------------------------------------------------------
(* SYSTEM_signal_monitor_stop, with the global mutex, which is another one *)
(* than that of the monitor.                                               *)

\* Detach and close; then, until there is none, look for the first event.
\* init_done stays set, so stop may be called again.
StopLook ==
    /\ spc \in {"open", "look", "closed"}
    /\ Look("stop")
    /\ spc' = IF queue = <<>> THEN "closed" ELSE "unlink"
    /\ UNCHANGED <<arrived, reader, wpc, list, thread, jobs, dropped, last, crashed>>

StopUnlink ==
    /\ spc = "unlink"
    /\ Unlink("stop")
    /\ held' = [held EXCEPT !["stop"] = 0]
    /\ spc' = "look"
    /\ UNCHANGED <<arrived, reader, wpc, thread, jobs, dropped, last>>

-----------------------------------------------------------------------------
Reader == \/ ReadFd \/ CreateFails \/ CreateTest \/ DropOldest
          \/ AddLast \/ event_handler \/ PutJob

Worker(w) == JobStarts(w) \/ Take(w) \/ Callback(w) \/ Loop(w)

Next == /\ ~crashed
        /\ \/ SignalArrives \/ Reader
           \/ \E w \in Workers : Worker(w)
           \/ StopLook \/ StopUnlink

Spec == Init /\ [][Next]_vars

-----------------------------------------------------------------------------
Events == 1 .. MaxSignals
Busy == {w \in Workers : wpc[w] # "idle"}

\* At most one job of the monitor exists, so the user's callback is never in
\* two threads: the THREAD bit is set before the job is put and cleared as the
\* last thing the job does.  So the first get of a job, which is outside the
\* mutex, takes an event that nobody else takes, as long as the queue was never
\* full and stop is not called.
OneProcessor ==
    /\ \A w, v \in Busy : w = v
    /\ jobs > 0 => jobs = 1 /\ Busy = {} /\ rpc # "put"
    /\ Busy # {} => rpc # "put"
    /\ crashed => dropped \/ spc # "open"

\* No event is left on the queue with the bit clear: the worker clears it with
\* the mutex and an empty queue, the reader adds before it tests the bit.
NoneUnattended ==
    queue # <<>> /\ ~thread /\ ~crashed => rpc = "handler"

\* Signals reach the callback in the order in which they were read.
InOrder == [][last' # last => last' > last]_vars
=============================================================================
