------------------------ MODULE SignalMonitorProofs -------------------------
(***************************************************************************)
(* Proofs about SignalMonitor: any number of workers and signals, any      *)
(* limit of the queue and any batch.                                       *)
(***************************************************************************)
EXTENDS SignalMonitor, TLAPS

\* The types of the monitor.
TypeOK ==
    /\ arrived \in Nat /\ read \in Nat /\ batch \in Nat /\ again \in BOOLEAN
    /\ rpc \in {"idle", "create", "drop", "link", "handler", "put"}
    /\ spc \in {"open", "look", "unlink", "closed"}
    /\ wpc \in [Workers -> {"idle", "unlink1", "unlink2", "callback", "loop"}]
    /\ held \in [Removers -> Nat]
    /\ queue \in Seq(Nat \ {0}) /\ count \in Int
    /\ race \in {"none", "tail", "count"} /\ stray \in BOOLEAN /\ drift \in BOOLEAN
    /\ thread \in BOOLEAN /\ jobs \in Nat
    /\ dropped \in BOOLEAN /\ last \in Nat /\ crashed \in BOOLEAN

\* The reader is idle between two batches; a remover that is to unlink has looked
\* at an event.
PlaceInv ==
    /\ batch <= read /\ (rpc = "idle" <=> batch = 0)
    /\ \A w \in Workers : wpc[w] \in {"unlink1", "unlink2", "callback"} => held[w] # 0
    /\ rpc = "drop" => held["reader"] # 0
    /\ spc = "unlink" => held["stop"] # 0

\* The THREAD bit is a token: the reader about to put the job, the job in the
\* pool and the busy worker have it, one at a time.
TokenInv ==
    /\ \A w, v \in Busy : w = v
    /\ jobs > 0 => jobs = 1 /\ Busy = {} /\ rpc # "put"
    /\ Busy # {} => rpc # "put"
    /\ Busy # {} \/ jobs > 0 \/ rpc = "put" => thread

\* Until the queue has been full or stop is called, nobody but the one worker
\* removes, so what it looked at is still the first event.
LookInv == ~dropped /\ spc = "open" =>
    /\ rpc # "drop" /\ ~crashed
    /\ \A w \in Workers : wpc[w] \in {"unlink1", "unlink2"} => First = held[w]

\* The last event the reader has linked, or skipped.
Newest == IF rpc \in {"handler", "put"} THEN Current ELSE Current - 1

\* Events are numbered in the order they are read: what was given to the
\* callback, what is with a worker and what is on the queue come in this order.
OrderInv ==
    /\ \A i, k \in 1 .. Len(queue) : i < k => queue[i] < queue[k]
    /\ \A i \in 1 .. Len(queue) : last < queue[i] /\ queue[i] <= Newest
    /\ last <= Newest
    /\ \A w \in Workers : wpc[w] = "callback" /\ ~crashed =>
          /\ last < held[w] /\ held[w] <= Newest
          /\ \A i \in 1 .. Len(queue) : held[w] < queue[i]

MonitorInv == TypeOK /\ PlaceInv /\ TokenInv /\ LookInv /\ NoneUnattended /\ OrderInv

-----------------------------------------------------------------------------
(* The queue.                                                              *)

LEMMA TailQueue ==
    ASSUME NEW S, NEW s \in Seq(S), s # <<>>
    PROVE  /\ Head(s) \in S /\ Head(s) = s[1] /\ 1 \in 1 .. Len(s)
           /\ Tail(s) \in Seq(S) /\ Len(Tail(s)) = Len(s) - 1
           /\ \A i \in 1 .. Len(Tail(s)) : Tail(s)[i] = s[i + 1] /\ i + 1 \in 1 .. Len(s) /\ 1 < i + 1
OBVIOUS

LEMMA AppendQueue ==
    ASSUME NEW S, NEW s \in Seq(S), NEW e \in S
    PROVE  /\ Append(s, e) \in Seq(S) /\ Append(s, e) # <<>> /\ Len(s) \in Nat
           /\ s # <<>> => Head(Append(s, e)) = Head(s)
           /\ \A i \in 1 .. Len(Append(s, e)) :
                 \/ i \in 1 .. Len(s) /\ Append(s, e)[i] = s[i]
                 \/ i = Len(s) + 1 /\ Append(s, e)[i] = e
OBVIOUS

LEMMA FirstType ==
    ASSUME TypeOK
    PROVE  First \in Nat /\ (queue # <<>> => First # 0 /\ First = Head(queue))
<1>1. queue # <<>> => Head(queue) \in Nat \ {0}
  BY TailQueue DEF TypeOK
<1> QED
  BY <1>1 DEF First

\* LIST_header_remove_first by one that has looked at an event: that event is
\* first and goes, or the program ends.
LEMMA UnlinkEffect ==
    ASSUME TypeOK, NEW x \in Removers, held[x] # 0, Unlink(x)
    PROVE  /\ count' \in Int /\ UNCHANGED drift
           /\ race' \in {"none", "tail", "count"} /\ stray' \in BOOLEAN
           /\ \/ /\ queue # <<>> /\ First = held[x] /\ held[x] = Head(queue)
                 /\ queue' = Tail(queue) /\ queue' \in Seq(Nat \ {0}) /\ UNCHANGED crashed
              \/ /\ First # held[x] /\ UNCHANGED queue /\ crashed' = TRUE
<1>1. CASE First = held[x] /\ queue' = Tail(queue) /\ UNCHANGED crashed
  <2>1. queue # <<>> /\ held[x] = Head(queue)
    BY <1>1 DEF First
  <2>2. queue' \in Seq(Nat \ {0})
    BY <1>1, <2>1, TailQueue DEF TypeOK
  <2>3. stray' \in BOOLEAN
    BY Zenon DEF Unlink, TypeOK
  <2>4. race' \in {"none", "tail", "count"}
    BY DEF Unlink, TypeOK
  <2> QED
    BY <1>1, <2>1, <2>2, <2>3, <2>4 DEF Unlink, TypeOK
<1>2. CASE First # held[x]
  BY <1>2 DEF Unlink, TypeOK
<1> QED
  BY <1>1, <1>2 DEF Unlink

-----------------------------------------------------------------------------
(* The steps.                                                              *)

LEMMA TypeStep ==
    ASSUME TypeOK, PlaceInv, Next
    PROVE  TypeOK'
<1> USE DEF TypeOK
<1>1. CASE SignalArrives
  BY <1>1 DEF SignalArrives, reader, list
<1>2. CASE ReadFd
  <2>1. PICK n \in 0 .. Batch : batch' = n /\ read' = read + n /\ again' = (n = Batch)
                               /\ rpc' = IF n > 0 THEN "create" ELSE "idle"
    BY <1>2 DEF ReadFd
  <2>2. n \in Nat
    BY SignalAssumption
  <2>3. again' \in BOOLEAN
    BY <2>1, Zenon
  <2> QED
    BY <1>2, <2>1, <2>2, <2>3 DEF ReadFd, list
<1>3. CASE CreateFails \/ event_handler \/ PutJob
  <2>1. batch > 0 /\ batch' \in Nat
    BY <1>3 DEF CreateFails, event_handler, PutJob, NextOfBatch, PlaceInv
  <2>2. thread' \in BOOLEAN
    BY <1>3, Zenon DEF CreateFails, event_handler, PutJob
  <2>3. jobs' \in Nat
    BY <1>3 DEF CreateFails, event_handler, PutJob
  <2>4. rpc' \in {"idle", "create", "drop", "link", "handler", "put"}
    BY <1>3 DEF CreateFails, event_handler, PutJob, NextOfBatch
  <2> QED
    BY <1>3, <2>1, <2>2, <2>3, <2>4 DEF CreateFails, event_handler, PutJob, list
<1>4. CASE CreateTest
  <2>1. dropped' \in BOOLEAN
    BY <1>4, Zenon DEF CreateTest
  <2>2. held' \in [Removers -> Nat]
    BY <1>4, FirstType DEF CreateTest, Look
  <2> QED
    BY <1>4, <2>1, <2>2 DEF CreateTest, list
<1>5. CASE DropOldest
  <2>1. "reader" \in Removers /\ held["reader"] # 0 /\ Unlink("reader")
    BY <1>5 DEF DropOldest, PlaceInv, Removers
  <2>2. queue' \in Seq(Nat \ {0}) /\ count' \in Int /\ UNCHANGED drift
        /\ race' \in {"none", "tail", "count"} /\ stray' \in BOOLEAN
    BY <2>1, UnlinkEffect
  <2>3. crashed' \in BOOLEAN
    BY <2>1, UnlinkEffect, Zenon
  <2> QED
    BY <1>5, <2>2, <2>3 DEF DropOldest
<1>6. CASE AddLast
  <2>1. Current \in Nat \ {0}
    BY <1>6 DEF PlaceInv, Current, AddLast
  <2>2. queue' \in Seq(Nat \ {0})
    <3>1. Append(queue, Current) \in Seq(Nat \ {0})
      BY <2>1, AppendQueue
    <3>2. queue' = queue \/ queue' = Append(queue, Current)
      BY <1>6 DEF AddLast
    <3> QED
      BY <3>1, <3>2
  <2>3. stray' \in BOOLEAN /\ drift' \in BOOLEAN
    BY <1>6, Zenon DEF AddLast
  <2> QED
    BY <1>6, <2>2, <2>3 DEF AddLast
<1>7. ASSUME NEW w \in Workers, JobStarts(w) \/ Loop(w)
      PROVE  TypeOK'
  <2>1. thread' \in BOOLEAN
    BY <1>7, Zenon DEF JobStarts, Loop
  <2>2. held' \in [Removers -> Nat]
    BY <1>7, FirstType DEF JobStarts, Loop, Look
  <2>3. CASE JobStarts(w)
    BY <2>2, <2>3, SMTT(30) DEF JobStarts, reader, list
  <2>4. CASE Loop(w)
    BY <2>1, <2>2, <2>4 DEF Loop, reader, list
  <2> QED
    BY <1>7, <2>3, <2>4
<1>8. ASSUME NEW w \in Workers, Take(w)
      PROVE  TypeOK'
  <2>1. w \in Removers /\ held[w] # 0 /\ Unlink(w)
    BY <1>8 DEF Take, PlaceInv, Removers
  <2>2. queue' \in Seq(Nat \ {0}) /\ count' \in Int /\ UNCHANGED drift
        /\ race' \in {"none", "tail", "count"} /\ stray' \in BOOLEAN
    BY <2>1, UnlinkEffect
  <2>3. crashed' \in BOOLEAN
    BY <2>1, UnlinkEffect, Zenon
  <2>4. /\ wpc' = [wpc EXCEPT ![w] = "callback"]
        /\ UNCHANGED <<arrived, read, batch, again, rpc, spc, held, thread, jobs, dropped, last>>
    BY <1>8 DEF Take, reader
  <2> QED
    BY <2>2, <2>3, <2>4
<1>9. ASSUME NEW w \in Workers, Callback(w)
      PROVE  TypeOK'
  BY <1>9 DEF Callback, reader, list, Removers
<1>10. CASE StopLook
  <2>1. held' \in [Removers -> Nat]
    BY <1>10, FirstType DEF StopLook, Look
  <2> QED
    BY <1>10, <2>1 DEF StopLook, reader, list
<1>11. CASE StopUnlink
  <2>1. "stop" \in Removers /\ held["stop"] # 0 /\ Unlink("stop")
    BY <1>11 DEF StopUnlink, PlaceInv, Removers
  <2>2. queue' \in Seq(Nat \ {0}) /\ count' \in Int /\ UNCHANGED drift
        /\ race' \in {"none", "tail", "count"} /\ stray' \in BOOLEAN
    BY <2>1, UnlinkEffect
  <2>3. crashed' \in BOOLEAN
    BY <2>1, UnlinkEffect, Zenon
  <2> QED
    BY <1>11, <2>2, <2>3 DEF StopUnlink, reader
<1> QED
  BY <1>1, <1>2, <1>3, <1>4, <1>5, <1>6, <1>7, <1>8, <1>9, <1>10, <1>11
  DEF Next, Reader, Worker

LEMMA PlaceStep ==
    ASSUME TypeOK, PlaceInv, Next
    PROVE  PlaceInv'
<1> USE DEF TypeOK, PlaceInv
<1>0. /\ "reader" \in Removers /\ "stop" \in Removers /\ Workers \subseteq Removers
      /\ "reader" \notin Workers /\ "stop" \notin Workers
  BY SignalAssumption DEF Removers
<1>1. CASE SignalArrives
  BY <1>1 DEF SignalArrives, reader
<1>2. CASE ReadFd
  <2>1. PICK n \in 0 .. Batch : batch' = n /\ read' = read + n
                               /\ rpc' = IF n > 0 THEN "create" ELSE "idle"
    BY <1>2 DEF ReadFd
  <2>2. n \in Nat
    BY SignalAssumption
  <2> QED
    BY <1>2, <2>1, <2>2 DEF ReadFd
<1>3. CASE CreateFails \/ event_handler \/ PutJob
  <2>1. /\ UNCHANGED <<read, spc, wpc, held>> /\ rpc # "idle"
        /\ \/ batch' = batch - 1 /\ rpc' = IF batch > 1 THEN "create" ELSE "idle"
           \/ batch' = batch /\ rpc' = "put"
    BY <1>3 DEF CreateFails, event_handler, PutJob, NextOfBatch
  <2> QED
    BY <2>1
<1>4. CASE CreateTest
  BY <1>0, <1>4, FirstType DEF CreateTest, Look
<1>5. CASE DropOldest \/ AddLast
  BY <1>0, <1>5 DEF DropOldest, AddLast
<1>6. ASSUME NEW w \in Workers, JobStarts(w) \/ Loop(w)
      PROVE  PlaceInv'
  BY <1>0, <1>6, FirstType DEF JobStarts, Loop, Look, reader
<1>7. ASSUME NEW w \in Workers, Take(w) \/ Callback(w)
      PROVE  PlaceInv'
  BY <1>0, <1>7 DEF Take, Callback, reader
<1>8. CASE StopLook
  BY <1>0, <1>8, FirstType DEF StopLook, Look, reader
<1>9. CASE StopUnlink
  BY <1>0, <1>9 DEF StopUnlink, reader
<1> QED
  BY <1>1, <1>2, <1>3, <1>4, <1>5, <1>6, <1>7, <1>8, <1>9 DEF Next, Reader, Worker

LEMMA TokenStep ==
    ASSUME TypeOK, TokenInv, Next
    PROVE  TokenInv'
<1> USE DEF TypeOK, TokenInv, Busy
<1>1. CASE SignalArrives \/ ReadFd \/ CreateFails \/ CreateTest \/ DropOldest \/ AddLast
           \/ StopLook \/ StopUnlink
  <2>1. UNCHANGED <<wpc, jobs, thread>> /\ (rpc' = "put" => rpc = "put")
    BY <1>1
    DEF SignalArrives, ReadFd, CreateFails, CreateTest, DropOldest, AddLast, StopLook,
        StopUnlink, NextOfBatch, reader
  <2> QED
    BY <2>1
<1>2. CASE event_handler
  <2>1. UNCHANGED <<wpc, jobs>> /\ thread' = TRUE /\ (rpc' = "put" => ~thread)
    BY <1>2 DEF event_handler, NextOfBatch
  <2> QED
    BY <2>1
<1>3. CASE PutJob
  <2>1. /\ UNCHANGED <<wpc, thread>> /\ rpc = "put" /\ rpc' # "put"
        /\ jobs' = jobs + 1 \/ jobs' = jobs
    BY <1>3 DEF PutJob, NextOfBatch
  <2> QED
    BY <2>1
<1>4. ASSUME NEW w \in Workers, JobStarts(w)
      PROVE  TokenInv'
  <2>1. /\ UNCHANGED <<rpc, thread>> /\ jobs > 0 /\ jobs' = jobs - 1
        /\ \A v \in Workers : v # w => wpc'[v] = wpc[v]
    BY <1>4 DEF JobStarts, reader
  <2> QED
    BY <2>1
<1>5. ASSUME NEW w \in Workers, Take(w) \/ Callback(w)
      PROVE  TokenInv'
  <2>1. /\ UNCHANGED <<rpc, thread, jobs>> /\ wpc[w] # "idle"
        /\ \A v \in Workers : v # w => wpc'[v] = wpc[v]
    BY <1>5 DEF Take, Callback, reader
  <2> QED
    BY <2>1
<1>6. ASSUME NEW w \in Workers, Loop(w)
      PROVE  TokenInv'
  <2>1. /\ UNCHANGED <<rpc, jobs>> /\ wpc[w] # "idle"
        /\ \A v \in Workers : v # w => wpc'[v] = wpc[v]
        /\ UNCHANGED thread \/ wpc'[w] = "idle"
    BY <1>6 DEF Loop, reader
  <2> QED
    BY <2>1
<1> QED
  BY <1>1, <1>2, <1>3, <1>4, <1>5, <1>6 DEF Next, Reader, Worker

LEMMA LookStep ==
    ASSUME TypeOK, PlaceInv, TokenInv, LookInv, Next
    PROVE  LookInv'
<1> USE DEF TypeOK
<1>0. /\ "reader" \in Removers /\ "stop" \in Removers /\ Workers \subseteq Removers
      /\ "reader" \notin Workers /\ "stop" \notin Workers
  BY SignalAssumption DEF Removers
<1> SUFFICES ASSUME ~dropped', spc' = "open"
             PROVE  /\ rpc' # "drop" /\ ~crashed'
                    /\ \A w \in Workers : wpc'[w] \in {"unlink1", "unlink2"} => First' = held'[w]
  BY DEF LookInv
<1>1. ~dropped /\ spc = "open" /\ ~crashed
  <2>1. Reader \/ SignalArrives => spc' = spc /\ (dropped => dropped')
    <3>1. CreateTest => spc' = spc /\ (dropped => dropped')
      BY DEF CreateTest
    <3>2. SignalArrives \/ ReadFd \/ CreateFails \/ DropOldest \/ AddLast \/ event_handler \/ PutJob
             => spc' = spc /\ dropped' = dropped
      BY DEF SignalArrives, ReadFd, CreateFails, DropOldest, AddLast, event_handler, PutJob
    <3> QED
      BY <3>1, <3>2 DEF Reader
  <2>2. ASSUME NEW w \in Workers, Worker(w)
        PROVE  spc' = spc /\ dropped' = dropped
    BY <2>2 DEF Worker, JobStarts, Take, Callback, Loop
  <2>3. StopLook \/ StopUnlink => FALSE
    BY DEF StopLook, StopUnlink
  <2> QED
    BY <2>1, <2>2, <2>3 DEF Next
<1>2. rpc # "drop" /\ \A w \in Workers : wpc[w] \in {"unlink1", "unlink2"} => First = held[w]
  BY <1>1 DEF LookInv
<1>3. CASE SignalArrives \/ ReadFd \/ CreateFails \/ event_handler \/ PutJob \/ CreateTest
  <2>1. UNCHANGED <<wpc, queue, crashed, held>> /\ rpc' # "drop"
    BY <1>2, <1>3
    DEF SignalArrives, ReadFd, CreateFails, event_handler, PutJob, CreateTest, NextOfBatch,
        list, reader
  <2> QED
    BY <1>1, <1>2, <2>1 DEF First
<1>4. CASE DropOldest \/ StopLook \/ StopUnlink
  BY <1>1, <1>2, <1>4 DEF DropOldest, StopLook, StopUnlink
<1>5. CASE AddLast
  <2>1. UNCHANGED <<wpc, crashed, held>> /\ rpc' # "drop"
    BY <1>5 DEF AddLast
  <2>2. Current \in Nat \ {0}
    BY <1>5 DEF PlaceInv, Current, AddLast
  <2>3. queue # <<>> => First' = First
    <3>1. queue # <<>> /\ queue' = Append(queue, Current) =>
             queue' # <<>> /\ Head(queue') = Head(queue)
      BY <2>2, AppendQueue
    <3>2. queue' = queue \/ queue' = Append(queue, Current)
      BY <1>5 DEF AddLast
    <3> QED
      BY <3>1, <3>2 DEF First
  <2>4. \A w \in Workers : wpc[w] \in {"unlink1", "unlink2"} => queue # <<>>
    BY <1>2 DEF PlaceInv, First
  <2> QED
    BY <1>1, <1>2, <2>1, <2>3, <2>4
<1>6. ASSUME NEW w \in Workers, JobStarts(w) \/ Loop(w)
      PROVE  /\ rpc' # "drop" /\ ~crashed'
             /\ \A v \in Workers : wpc'[v] \in {"unlink1", "unlink2"} => First' = held'[v]
  BY <1>0, <1>1, <1>2, <1>6, SMTT(30) DEF JobStarts, Loop, Look, First, reader, list
<1>7. ASSUME NEW w \in Workers, Take(w)
      PROVE  /\ rpc' # "drop" /\ ~crashed'
             /\ \A v \in Workers : wpc'[v] \in {"unlink1", "unlink2"} => First' = held'[v]
  <2>1. w \in Busy /\ First = held[w]
    BY <1>2, <1>7 DEF Take, Busy
  <2>2. \A v \in Workers : wpc'[v] \notin {"unlink1", "unlink2"}
    BY <2>1, <1>7 DEF TokenInv, Busy, Take
  <2>3. ~crashed'
    BY <1>1, <1>7, <2>1 DEF Take, Unlink
  <2> QED
    BY <1>2, <1>7, <2>2, <2>3 DEF Take, reader
<1>8. ASSUME NEW w \in Workers, Callback(w)
      PROVE  /\ rpc' # "drop" /\ ~crashed'
             /\ \A v \in Workers : wpc'[v] \in {"unlink1", "unlink2"} => First' = held'[v]
  BY <1>0, <1>1, <1>2, <1>8 DEF Callback, First, reader, list
<1> QED
  BY <1>3, <1>4, <1>5, <1>6, <1>7, <1>8 DEF Next, Reader, Worker

LEMMA UnattendedStep ==
    ASSUME TypeOK, PlaceInv, NoneUnattended, Next
    PROVE  NoneUnattended'
<1> USE DEF TypeOK
<1>0. ~crashed
  BY DEF Next
<1>1. CASE SignalArrives \/ ReadFd \/ CreateFails \/ CreateTest \/ PutJob \/ StopLook
  <2>1. UNCHANGED <<queue, thread, crashed>> /\ (rpc = "handler" => rpc' = "handler")
    BY <1>1
    DEF SignalArrives, ReadFd, CreateFails, CreateTest, PutJob, StopLook, reader, list
  <2> QED
    BY <2>1, <1>0 DEF NoneUnattended
<1>2. CASE event_handler \/ AddLast
  BY <1>2 DEF event_handler, AddLast, NoneUnattended
<1>3. ASSUME NEW w \in Workers, JobStarts(w) \/ Callback(w) \/ Loop(w)
      PROVE  NoneUnattended'
  BY <1>3, <1>0 DEF JobStarts, Callback, Loop, NoneUnattended, reader, list
<1>4. ASSUME NEW x \in Removers, held[x] # 0, Unlink(x), UNCHANGED thread, rpc # "handler" \/ rpc' = rpc
      PROVE  NoneUnattended'
  <2>1. (queue # <<>> /\ queue' = Tail(queue)) \/ crashed'
    BY <1>4, UnlinkEffect
  <2> QED
    BY <2>1, <1>0, <1>4 DEF NoneUnattended
<1>5. CASE DropOldest
  BY <1>4, <1>5 DEF DropOldest, PlaceInv, Removers
<1>6. CASE StopUnlink
  BY <1>4, <1>6 DEF StopUnlink, PlaceInv, Removers, reader
<1>7. ASSUME NEW w \in Workers, Take(w)
      PROVE  NoneUnattended'
  BY <1>4, <1>7 DEF Take, PlaceInv, Removers, reader
<1> QED
  BY <1>1, <1>2, <1>3, <1>5, <1>6, <1>7 DEF Next, Reader, Worker

\* The order of what is on the queue, with its first event gone and with a newer
\* one added.
LEMMA OrderStep ==
    ASSUME TypeOK, PlaceInv, TokenInv, OrderInv, Next
    PROVE  OrderInv'
<1> USE DEF TypeOK
<1>0. /\ "reader" \in Removers /\ "stop" \in Removers /\ Workers \subseteq Removers
      /\ "reader" \notin Workers /\ "stop" \notin Workers
  BY SignalAssumption DEF Removers
<1>a. /\ Newest \in Nat /\ \A w \in Workers : held[w] \in Nat
      /\ \A i \in 1 .. Len(queue) : queue[i] \in Nat
  BY <1>0 DEF Newest, Current, PlaceInv
<1>c. ~crashed
  BY DEF Next
\* Nothing changes but the reader, and that goes forward.
<1>b. ASSUME UNCHANGED <<queue, last, wpc>>, Newest <= Newest', Newest' \in Nat,
             \A w \in Workers : held'[w] = held[w]
      PROVE  OrderInv'
  BY <1>a, <1>b, <1>c DEF OrderInv
<1>1. CASE SignalArrives
  BY <1>a, <1>b, <1>1 DEF SignalArrives, reader, list, Newest, Current
<1>2. CASE ReadFd
  <2>1. PICK n \in 0 .. Batch : batch' = n /\ read' = read + n
                               /\ rpc' = IF n > 0 THEN "create" ELSE "idle"
    BY <1>2 DEF ReadFd
  <2>2. n \in Nat /\ batch = 0 /\ rpc = "idle"
    BY SignalAssumption, <1>2 DEF ReadFd, PlaceInv
  <2>3. Newest' = Newest
    BY <2>1, <2>2 DEF Newest, Current
  <2> QED
    BY <1>a, <1>b, <1>2, <2>3 DEF ReadFd, list
<1>3. CASE CreateFails \/ event_handler \/ PutJob
  <2>1. /\ UNCHANGED <<queue, last, wpc, held, read>> /\ rpc \in {"create", "handler", "put"}
        /\ \/ batch' = batch - 1 /\ rpc' = IF batch > 1 THEN "create" ELSE "idle"
           \/ batch' = batch /\ rpc' = "put" /\ rpc = "handler"
    BY <1>3 DEF CreateFails, event_handler, PutJob, NextOfBatch, list
  <2>2. Newest' \in Nat /\ Newest <= Newest'
    BY <2>1, <1>a DEF Newest, Current, PlaceInv
  <2> QED
    BY <1>b, <2>1, <2>2
<1>4. CASE CreateTest
  <2>1. UNCHANGED <<queue, last, wpc, read, batch>> /\ rpc = "create" /\ rpc' \in {"link", "drop"}
    BY <1>4 DEF CreateTest, list
  <2>2. Newest' = Newest
    BY <2>1 DEF Newest, Current
  <2>3. \A w \in Workers : held'[w] = held[w]
    BY <1>0, <1>4 DEF CreateTest, Look
  <2> QED
    BY <1>a, <1>b, <2>1, <2>2, <2>3
<1>5. CASE StopLook
  <2>1. \A w \in Workers : held'[w] = held[w]
    BY <1>0, <1>5 DEF StopLook, Look
  <2> QED
    BY <1>a, <1>b, <1>5, <2>1 DEF StopLook, reader, list, Newest, Current
\* The first event is taken; who took it keeps it in order.
<1>6. ASSUME NEW x \in Removers, held[x] # 0, Unlink(x), UNCHANGED last, Newest' = Newest,
             \A w \in Workers : held'[w] = held[w],
             \A w \in Workers : wpc'[w] = "callback" => wpc[w] = "callback" \/ w = x
      PROVE  OrderInv'
  <2>1. CASE UNCHANGED queue /\ First # held[x]
    <3>1. crashed'
      BY <2>1, <1>6, UnlinkEffect
    <3> QED
      BY <3>1, <2>1, <1>6 DEF OrderInv
  <2>2. CASE queue # <<>> /\ held[x] = Head(queue) /\ queue' = Tail(queue)
    <3>1. /\ held[x] = queue[1] /\ 1 \in 1 .. Len(queue)
          /\ \A i \in 1 .. Len(queue') :
                queue'[i] = queue[i + 1] /\ i + 1 \in 1 .. Len(queue) /\ 1 < i + 1
      BY <2>2, TailQueue
    <3>2. \A i, k \in 1 .. Len(queue') : i < k => queue'[i] < queue'[k]
      BY <3>1, <1>c DEF OrderInv
    <3>3. \A i \in 1 .. Len(queue') : last < queue'[i] /\ queue'[i] <= Newest /\ held[x] < queue'[i]
      BY <3>1, <1>c DEF OrderInv
    <3>4. last < held[x] /\ held[x] <= Newest
      BY <3>1, <1>c DEF OrderInv
    <3>5. \A w \in Workers : wpc[w] = "callback" =>
             \A i \in 1 .. Len(queue') : held[w] < queue'[i]
      BY <3>1, <1>c DEF OrderInv
    <3> QED
      <4>1. \A w \in Workers : wpc'[w] = "callback" =>
               /\ last < held[w] /\ held[w] <= Newest
               /\ \A i \in 1 .. Len(queue') : held[w] < queue'[i]
        BY <3>3, <3>4, <3>5, <1>6, <1>c DEF OrderInv
      <4> QED
        BY <3>2, <3>3, <4>1, <1>6 DEF OrderInv
  <2> QED
    BY <2>1, <2>2, <1>6, UnlinkEffect
<1>7. CASE DropOldest
  <2>1. Newest' = Newest
    BY <1>7 DEF DropOldest, Newest, Current
  <2> QED
    BY <1>0, <1>6, <1>7, <2>1 DEF DropOldest, PlaceInv
<1>8. CASE StopUnlink
  <2>1. Newest' = Newest
    BY <1>8 DEF StopUnlink, Newest, Current, reader
  <2> QED
    BY <1>0, <1>6, <1>8, <2>1 DEF StopUnlink, PlaceInv
<1>9. ASSUME NEW w \in Workers, Take(w)
      PROVE  OrderInv'
  <2>1. Newest' = Newest
    BY <1>9 DEF Take, Newest, Current, reader
  <2> QED
    BY <1>0, <1>6, <1>9, <2>1 DEF Take, PlaceInv
<1>10. CASE AddLast
  <2>1. /\ Current \in Nat \ {0} /\ Newest = Current - 1 /\ Newest' = Current
        /\ UNCHANGED <<held, wpc, last>>
    BY <1>10 DEF PlaceInv, Current, AddLast, Newest
  <2>2. CASE UNCHANGED queue
    BY <1>a, <1>b, <2>1, <2>2
  <2>3. CASE queue' = Append(queue, Current)
    <3>1. \A i \in 1 .. Len(queue') :
             \/ i \in 1 .. Len(queue) /\ queue'[i] = queue[i]
             \/ i = Len(queue) + 1 /\ queue'[i] = Current
      BY <2>1, <2>3, AppendQueue
    <3>2. \A i \in 1 .. Len(queue) : queue[i] < Current /\ last < queue[i]
      BY <2>1, <1>a, <1>c DEF OrderInv
    <3>3. last < Current /\ \A w \in Workers : wpc[w] = "callback" => held[w] < Current
      BY <2>1, <1>a, <1>c DEF OrderInv
    <3>4. ASSUME NEW i \in 1 .. Len(queue'), NEW k \in 1 .. Len(queue'), i < k
          PROVE  queue'[i] < queue'[k]
      <4>1. i \in 1 .. Len(queue) /\ queue'[i] = queue[i]
        BY <3>1, <3>4, <2>3, AppendQueue
      <4> QED
        BY <3>1, <3>2, <3>4, <4>1 DEF OrderInv
    <3>5. \A i \in 1 .. Len(queue') : last < queue'[i] /\ queue'[i] <= Current
      BY <3>1, <3>2, <3>3, <2>1, <1>a
    <3>6. \A w \in Workers : wpc[w] = "callback" => \A i \in 1 .. Len(queue') : held[w] < queue'[i]
      BY <3>1, <3>3, <1>c DEF OrderInv
    <3> QED
      <4>1. last <= Current /\ \A w \in Workers : wpc[w] = "callback" =>
               last < held[w] /\ held[w] <= Current
        BY <3>3, <2>1, <1>a, <1>c DEF OrderInv
      <4> QED
        BY <3>4, <3>5, <3>6, <4>1, <2>1 DEF OrderInv
  <2> QED
    BY <1>10, <2>2, <2>3 DEF AddLast
<1>11. ASSUME NEW w \in Workers, JobStarts(w) \/ Loop(w)
       PROVE  OrderInv'
  <2>1. /\ UNCHANGED <<queue, last>> /\ Newest' = Newest
        /\ wpc'[w] # "callback" /\ \A v \in Workers \ {w} : wpc'[v] = wpc[v] /\ held'[v] = held[v]
    BY <1>0, <1>11 DEF JobStarts, Loop, Look, reader, list, Newest, Current
  <2> QED
    BY <2>1, <1>c DEF OrderInv
<1>12. ASSUME NEW w \in Workers, Callback(w)
       PROVE  OrderInv'
  <2>1. /\ UNCHANGED queue /\ Newest' = Newest /\ last' = held[w] /\ wpc[w] = "callback"
        /\ wpc' = [wpc EXCEPT ![w] = "loop"]
    BY <1>12 DEF Callback, reader, list, Newest, Current
  <2>2. \A v \in Workers : wpc'[v] # "callback"
    BY <2>1 DEF TokenInv, Busy
  <2> QED
    BY <2>1, <2>2, <1>c DEF OrderInv
<1> QED
  BY <1>1, <1>2, <1>3, <1>4, <1>5, <1>7, <1>8, <1>9, <1>10, <1>11, <1>12
  DEF Next, Reader, Worker

LEMMA MonitorInit == Init => MonitorInv
<1> SUFFICES ASSUME Init
             PROVE  MonitorInv
  OBVIOUS
<1>1. /\ again \in BOOLEAN /\ stray \in BOOLEAN /\ drift \in BOOLEAN /\ thread \in BOOLEAN
      /\ dropped \in BOOLEAN /\ crashed \in BOOLEAN
  BY Zenon DEF Init
<1>2. TypeOK
  BY <1>1 DEF Init, TypeOK
<1>3. PlaceInv /\ TokenInv /\ LookInv /\ NoneUnattended
  BY DEF Init, PlaceInv, TokenInv, LookInv, NoneUnattended, Busy
<1>4. OrderInv
  BY DEF Init, OrderInv, Newest, Current
<1> QED
  BY <1>2, <1>3, <1>4 DEF MonitorInv

LEMMA MonitorStep ==
    ASSUME MonitorInv, [Next]_vars
    PROVE  MonitorInv'
<1>1. CASE Next
  BY <1>1, TypeStep, PlaceStep, TokenStep, LookStep, UnattendedStep, OrderStep DEF MonitorInv
<1>2. CASE UNCHANGED vars
  <2>1. TypeOK' /\ PlaceInv' /\ TokenInv'
    BY <1>2 DEF MonitorInv, vars, TypeOK, PlaceInv, TokenInv, Busy
  <2>2. LookInv' /\ NoneUnattended' /\ OrderInv'
    BY <1>2 DEF MonitorInv, vars, LookInv, First, NoneUnattended, OrderInv, Newest, Current
  <2> QED
    BY <2>1, <2>2 DEF MonitorInv
<1> QED
  BY <1>1, <1>2

\* MonitorInv is inductive.
THEOREM MonitorInvariant == Spec => []MonitorInv
BY MonitorInit, MonitorStep, PTL DEF Spec

\* The user's callback is never in two threads, and the first get of a job, which
\* is outside the mutex, is safe until the queue was full or stop is called.
THEOREM OneProcessorHolds == Spec => []OneProcessor
<1>1. MonitorInv => OneProcessor
  BY DEF MonitorInv, TokenInv, LookInv, OneProcessor
<1> QED
  BY <1>1, MonitorInvariant, PTL

\* No event stays on the queue with nobody to handle it.
THEOREM NoneUnattendedHolds == Spec => []NoneUnattended
<1>1. MonitorInv => NoneUnattended
  BY DEF MonitorInv
<1> QED
  BY <1>1, MonitorInvariant, PTL

\* Signals reach the callback in the order in which they were read, whatever is
\* dropped or lost in between.
THEOREM InOrderHolds == Spec => InOrder
<1>1. ASSUME MonitorInv, [Next]_vars
      PROVE  [last' # last => last' > last]_vars
  <2>1. ASSUME Next, last' # last
        PROVE  last' > last
    <3>1. PICK w \in Workers : Callback(w)
      BY <2>1
      DEF Next, Reader, Worker, SignalArrives, ReadFd, CreateFails, CreateTest, DropOldest,
          AddLast, event_handler, PutJob, JobStarts, Take, Loop, StopLook, StopUnlink
    <3>2. last' = held[w] /\ wpc[w] = "callback" /\ w \in Removers
      BY <3>1 DEF Callback, Removers
    <3> QED
      BY <1>1, <2>1, <3>2 DEF MonitorInv, OrderInv, TypeOK, Next
  <2> QED
    BY <1>1, <2>1
<1> QED
  BY <1>1, MonitorInvariant, PTL DEF Spec, InOrder

=============================================================================
