--------------------------- MODULE EventLoopProofs ---------------------------
(***************************************************************************)
(* Proofs about what the event loop does with a watched descriptor         *)
(* (BEvent): any pool, any events watched in any order, any number of      *)
(* jobs; about the sockets the discovery of services watches (Dnssd): any  *)
(* addresses, threads and answers; and about the names it cuts out of the  *)
(* records (MdnsNames): any texts.                                         *)
(***************************************************************************)
EXTENDS BEvent, Dnssd, FiniteSetTheorems, SequenceTheorems, WellFoundedInduction, TLAPS

\* The types of the bevent and of the threads around it.
TypeOK ==
    /\ pool \subseteq Workers /\ happens \subseteq Indices /\ signal \in BOOLEAN
    /\ ready \subseteq Indices /\ epolled \in BOOLEAN
    /\ revents \subseteq Indices /\ rlist \in Seq(Indices)
    /\ threadid \in Workers \cup {NoThread}
    /\ lpc \in {"wait", "read", "write", "test", "act"}
    /\ reported \subseteq Indices /\ seen \subseteq Indices
    /\ walk \in Nat /\ queued \in Nat /\ jobs \in Nat /\ dropped \in BOOLEAN
    /\ wpc \in [Workers -> {"idle", "fetch", "callback", "after", "clear"}]
    /\ current \in [Workers -> Indices \cup {"none"}]
    /\ copy \in [Workers -> SUBSET Indices]
    /\ calls \in [Workers -> {"none", "user", "fallback"}]
    /\ bctx \in {"user", "fallback"} /\ inactive \in BOOLEAN
    /\ dpc \in {"attached", "move1", "away1", "del", "move2", "away2", "done"}
    /\ place \in {"bevents", "none", "inactive"}

\* The thread that is in BEVENT_process_events_thread is the one of threadid, and
\* what it handles is the first of the list.
ThreadInv == \A w \in Workers : wpc[w] # "idle" =>
    /\ threadid = w
    /\ rlist # <<>> /\ current[w] = Head(rlist)

\* Where the loop is on Watch.
WalkInv ==
    /\ lpc \in {"test", "act"} => walk >= 1
    /\ lpc = "act" => walk <= Len(Watch)

\* Only what is watched is ever reported, closes and errors apart.
WatchedInv ==
    /\ revents \cup seen \cup reported \subseteq Watched \cup CloseError
    /\ \A w \in Workers : copy[w] \subseteq Watched \cup CloseError

\* The two unlocked copies of revents.events.  While the event loop is between
\* its read and its write, bits are only cleared; while a thread is between
\* its two, bits are only added.
CopyInv ==
    /\ lpc = "write" => revents \subseteq seen
    /\ \A w \in Workers : wpc[w] = "clear" => copy[w] \subseteq revents

BEventInv == TypeOK /\ ThreadInv /\ WalkInv /\ WatchedInv /\ CopyInv /\ NotHidden

-----------------------------------------------------------------------------
(* The list of reported events.                                            *)

LEMMA AppendReport ==
    ASSUME NEW S, NEW s \in Seq(S), NEW e \in S
    PROVE  /\ Append(s, e) \in Seq(S) /\ Append(s, e) # <<>>
           /\ s # <<>> => Head(Append(s, e)) = Head(s)
           /\ Range(s) \subseteq Range(Append(s, e)) /\ e \in Range(Append(s, e))
<1>1. /\ Append(s, e) \in Seq(S) /\ Append(s, e) # <<>>
      /\ s # <<>> => Head(Append(s, e)) = Head(s)
  <2>1. Append(s, e) \in Seq(S) /\ Len(Append(s, e)) = Len(s) + 1 /\ Len(s) \in Nat
    OBVIOUS
  <2>2. Append(s, e) # <<>>
    BY <2>1
  <2>3. s # <<>> => Len(s) > 0 /\ Append(s, e)[1] = s[1]
    OBVIOUS
  <2> QED
    BY <2>1, <2>2, <2>3
<1>2. /\ \A i \in DOMAIN s : i \in DOMAIN Append(s, e) /\ Append(s, e)[i] = s[i]
      /\ Len(s) + 1 \in DOMAIN Append(s, e) /\ Append(s, e)[Len(s) + 1] = e
  OBVIOUS
<1>3. Range(s) \subseteq Range(Append(s, e)) /\ e \in Range(Append(s, e))
  BY <1>2 DEF Range
<1> QED
  BY <1>1, <1>3

LEMMA RemoveReport ==
    ASSUME NEW S, NEW s \in Seq(S), NEW k \in 1 .. Len(s)
    PROVE  /\ RemoveAt(s, k) \in Seq(S)
           /\ \A e \in Range(s) : e # s[k] => e \in Range(RemoveAt(s, k))
<1> DEFINE a == SubSeq(s, 1, k - 1)
           b == SubSeq(s, k + 1, Len(s))
           r == a \o b
<1>0. \A i \in 1 .. Len(s) : s[i] \in S
  OBVIOUS
<1>1. Len(s) \in Nat /\ DOMAIN s = 1 .. Len(s) /\ k \in 1 .. Len(s)
  OBVIOUS
<1>2. a \in Seq(S) /\ Len(a) = k - 1 /\ \A i \in 1 .. k - 1 : a[i] = s[i]
  BY <1>0, <1>1
<1>3. b \in Seq(S) /\ Len(b) = Len(s) - k /\ \A i \in 1 .. Len(s) - k : b[i] = s[k + i]
  <2> DEFINE m == k + 1
             n == Len(s)
  <2>1. m \in Int /\ n \in Int /\ m - 1 = k /\ m <= n + 1 /\ \A i \in m .. n : s[i] \in S
    BY <1>0, <1>1
  <2>2. (n - m) + 1 = Len(s) - k
    BY <1>1
  <2> HIDE DEF m, n
  <2>3. /\ SubSeq(s, m, n) \in Seq(S)
        /\ Len(SubSeq(s, m, n)) = IF m <= n THEN (n - m) + 1 ELSE 0
        /\ \A i \in 1 .. (n - m) + 1 : SubSeq(s, m, n)[i] = s[m + (i - 1)]
    BY <2>1, SubSeqProperties
  <2>4. Len(SubSeq(s, m, n)) = (n - m) + 1
    BY <2>1, <2>3
  <2>5. \A i \in 1 .. (n - m) + 1 : SubSeq(s, m, n)[i] = s[k + i]
    <3> TAKE i \in 1 .. (n - m) + 1
    <3>1. m + (i - 1) = k + i
      BY <2>1, <1>1
    <3> QED
      BY <2>3, <3>1
  <2>6. b = SubSeq(s, m, n)
    BY DEF m, n
  <2> HIDE DEF b
  <2> QED
    BY <2>2, <2>3, <2>4, <2>5, <2>6
<1>4. RemoveAt(s, k) = r
  BY DEF RemoveAt
<1> HIDE DEF a, b
<1>5. /\ r \in Seq(S) /\ Len(r) = Len(a) + Len(b)
      /\ \A i \in 1 .. Len(a) + Len(b) :
            r[i] = IF i <= Len(a) THEN a[i] ELSE b[i - Len(a)]
  <2>1. a \in Seq(S) /\ b \in Seq(S)
    BY <1>2, <1>3
  <2> QED
    BY <2>1, ConcatProperties, Zenon
<1> HIDE DEF r
<1>6. Len(a) + Len(b) = Len(s) - 1
  BY <1>1, <1>2, <1>3
<1>7. DOMAIN r = 1 .. Len(s) - 1
  <2>1. r \in Seq(S) /\ Len(r) = Len(s) - 1
    BY <1>5, <1>6
  <2> QED
    BY <2>1
<1>8. ASSUME NEW i \in 1 .. Len(s), s[i] # s[k]
      PROVE  s[i] \in Range(r)
  <2>1. CASE i < k
    <3>1. i \in 1 .. k - 1 /\ i \in 1 .. Len(s) - 1
      BY <1>1, <2>1
    <3>2. r[i] = a[i] /\ a[i] = s[i]
      BY <1>2, <1>5, <1>6, <3>1
    <3> QED
      BY <1>7, <3>1, <3>2 DEF Range
  <2>2. CASE i > k
    <3> DEFINE m == i - 1
               n == i - k
    <3>1. /\ m \in 1 .. Len(s) - 1 /\ m \in 1 .. Len(a) + Len(b) /\ n \in 1 .. Len(s) - k
          /\ ~(m <= Len(a)) /\ m - Len(a) = n /\ k + n = i
      BY <1>1, <1>2, <1>6, <2>2
    <3> HIDE DEF m, n
    <3>2. r[m] = b[m - Len(a)]
      BY <1>5, <3>1, Zenon
    <3>3. r[m] = s[i]
      BY <1>3, <3>1, <3>2
    <3> QED
      BY <1>7, <3>1, <3>3 DEF Range
  <2> QED
    BY <1>1, <1>8, <2>1, <2>2
<1>9. \A e \in Range(s) : e # s[k] => e \in Range(r)
  BY <1>1, <1>8 DEF Range
<1> QED
  BY <1>4, <1>5, <1>9

\* Watch, and what is watched.
LEMMA WatchFacts ==
    /\ Len(Watch) \in Nat /\ Watched \subseteq Indices
    /\ \A k \in 1 .. Len(Watch) : Watch[k] \in Indices /\ Watch[k] \in Watched
    /\ \A i \in Watched : \E k \in 1 .. Len(Watch) : Watch[k] = i
<1>1. Watch \in Seq(Indices)
  BY BEventAssumption
<1>2. Len(Watch) \in Nat /\ DOMAIN Watch = 1 .. Len(Watch)
      /\ \A k \in 1 .. Len(Watch) : Watch[k] \in Indices
  BY <1>1
<1> QED
  BY <1>2 DEF Watched, Range

-----------------------------------------------------------------------------
(* What each step does to the events, the list and the threads.            *)

\* Steps that leave these alone: the kernel's, the detaching thread's, and the
\* part of a thread's work that is not about the events.
Aside == \/ \E i \in Indices : KernelReports(i)
         \/ PoolStops
         \/ Detach

LEMMA AsideEffect ==
    ASSUME Aside
    PROVE  UNCHANGED <<revents, rlist, threadid, lpc, reported, seen, walk, wpc, current, copy>>
BY DEF Aside, KernelReports, PoolStops, Detach, ReplaceWithFallback, CtxDel, MoveRemove, MoveAdd, loop, thread

LEMMA BEventInit == Init => BEventInv
<1> SUFFICES ASSUME Init
             PROVE  BEventInv
  OBVIOUS
<1> USE DEF Init, Created, Attached, Added
<1>1. signal \in BOOLEAN /\ epolled \in BOOLEAN /\ inactive \in BOOLEAN /\ dropped \in BOOLEAN
  BY Zenon
<1>2. pool \subseteq Workers /\ happens \subseteq Indices
  BY BEventAssumption
<1>3. TypeOK
  BY <1>1, <1>2 DEF TypeOK
<1>4. ThreadInv /\ WalkInv /\ WatchedInv /\ CopyInv /\ NotHidden
  BY DEF ThreadInv, WalkInv, WatchedInv, CopyInv, NotHidden
<1> QED
  BY <1>3, <1>4 DEF BEventInv

LEMMA TypeStep ==
    ASSUME TypeOK, WalkInv, Next
    PROVE  TypeOK'
<1> USE DEF TypeOK, fixed, work, kernel, loop, thread, detach
<1>0. CloseError \subseteq Indices
  BY DEF CloseError, Indices
<1>1. ASSUME NEW i \in Indices, KernelReports(i)
      PROVE  TypeOK'
  BY <1>1 DEF KernelReports
<1>2. CASE Filter
  BY <1>2 DEF Filter, Pending
<1>3. CASE OrRead \/ OrWrite \/ WalkTest
  BY <1>3 DEF OrRead, OrWrite, WalkTest
<1>4. CASE WalkEnd
  <2>1. dropped' \in BOOLEAN
    BY <1>4, Zenon DEF WalkEnd, PutJob
  <2> QED
    BY <1>4, <2>1 DEF WalkEnd, PutJob
<1>5. CASE action_default \/ action_closeerror
  <2>1. walk \in 1 .. Len(Watch) /\ Watch[walk] \in Indices
    BY <1>5, WatchFacts DEF action_default, action_closeerror, WalkInv
  <2>2. rlist' = rlist \/ rlist' = Append(rlist, Watch[walk])
    BY <1>5 DEF action_default, action_closeerror, Report
  <2>3. rlist' \in Seq(Indices)
    <3>1. Append(rlist, Watch[walk]) \in Seq(Indices)
      BY <2>1, AppendReport
    <3> QED
      BY <2>2, <3>1
  <2>4. revents' \subseteq Indices /\ queued' \in Nat
    BY <1>5, <2>1 DEF action_default, action_closeerror, Report
  <2> QED
    BY <1>5, <2>3, <2>4 DEF action_default, action_closeerror, NextAction
<1>6. ASSUME NEW w \in Workers, JobStarts(w)
      PROVE  TypeOK'
  <2>1. rlist # <<>> => Head(rlist) \in Indices
    OBVIOUS
  <2>2. /\ wpc' \in [Workers -> {"idle", "fetch", "callback", "after", "clear"}]
        /\ current' \in [Workers -> Indices \cup {"none"}]
    BY <1>6, <2>1 DEF JobStarts, HandleFirst
  <2> QED
    BY <1>6, <2>2 DEF JobStarts
<1>7. ASSUME NEW w \in Workers, FetchContext(w) \/ ClearBit(w)
      PROVE  TypeOK'
  BY <1>7 DEF FetchContext, ClearBit
<1>8. ASSUME NEW w \in Workers, Callback(w)
      PROVE  TypeOK'
  BY <1>8 DEF Callback
<1>9. ASSUME NEW w \in Workers, After(w)
      PROVE  TypeOK'
  <2>1. CASE current[w] \in revents
    BY <1>9, <2>1 DEF After
  <2>2. CASE current[w] \notin revents
    <3>1. rlist' \in Seq(Indices)
      BY <1>9, <2>2, RemoveReport DEF After
    <3>2. rlist' # <<>> => Head(rlist') \in Indices
      BY <3>1
    <3>3. /\ wpc' \in [Workers -> {"idle", "fetch", "callback", "after", "clear"}]
          /\ current' \in [Workers -> Indices \cup {"none"}]
      BY <1>9, <2>2, <3>2 DEF After, HandleFirst
    <3> QED
      BY <1>9, <2>2, <3>1, <3>3 DEF After
  <2> QED
    BY <2>1, <2>2
<1>10. CASE ReplaceWithFallback \/ MoveAdd
  BY <1>10 DEF ReplaceWithFallback, MoveAdd, AfterMove
<1>11. CASE CtxDel
  <2>1. epolled' \in BOOLEAN
    BY <1>11, Zenon DEF CtxDel
  <2> QED
    BY <1>11, <2>1 DEF CtxDel
<1>12. CASE MoveRemove
  <2>1. inactive' \in BOOLEAN
    BY <1>12, Zenon DEF MoveRemove
  <2> QED
    BY <1>12, <2>1 DEF MoveRemove, AfterMove
<1>13. CASE PoolStops
  <2>1. dropped' \in BOOLEAN
    BY <1>13, Zenon DEF PoolStops
  <2> QED
    BY <1>13, <2>1 DEF PoolStops
<1> QED
  BY <1>1, <1>2, <1>3, <1>4, <1>5, <1>6, <1>7, <1>8, <1>9, <1>10, <1>11, <1>12, <1>13
  DEF Next, Loop, Process, Detach

LEMMA ThreadStep ==
    ASSUME TypeOK, WalkInv, ThreadInv, Next
    PROVE  ThreadInv'
<1> USE DEF TypeOK, ThreadInv
<1>1. CASE Aside \/ Filter \/ OrRead \/ OrWrite \/ WalkTest \/ WalkEnd
  <2>1. UNCHANGED <<rlist, threadid, wpc, current>>
    BY <1>1, AsideEffect DEF Filter, OrRead, OrWrite, WalkTest, WalkEnd, thread
  <2> QED
    BY <2>1
<1>2. CASE action_default \/ action_closeerror
  <2>1. Watch[walk] \in Indices
    BY <1>2, WatchFacts DEF action_default, action_closeerror, WalkInv
  <2>2. rlist' = rlist \/ rlist' = Append(rlist, Watch[walk])
    BY <1>2 DEF action_default, action_closeerror, Report
  <2>3. rlist # <<>> => rlist' # <<>> /\ Head(rlist') = Head(rlist)
    <3>1. rlist # <<>> =>
             Append(rlist, Watch[walk]) # <<>> /\ Head(Append(rlist, Watch[walk])) = Head(rlist)
      BY <2>1, AppendReport
    <3> QED
      BY <2>2, <3>1
  <2>4. UNCHANGED <<threadid, wpc, current>>
    BY <1>2 DEF action_default, action_closeerror, thread
  <2> QED
    BY <2>3, <2>4
<1>3. ASSUME NEW w \in Workers, JobStarts(w)
      PROVE  ThreadInv'
  <2>1. CASE threadid \in {NoThread, w}
    <3>1. \A v \in Workers \ {w} : wpc[v] = "idle"
      BY <2>1, BEventAssumption
    <3>2. UNCHANGED rlist /\ threadid' = w /\ HandleFirst(w, rlist)
      BY <1>3, <2>1 DEF JobStarts
    <3> QED
      BY <3>1, <3>2 DEF HandleFirst
  <2>2. CASE threadid \notin {NoThread, w}
    BY <1>3, <2>2 DEF JobStarts
  <2> QED
    BY <2>1, <2>2
<1>4. ASSUME NEW w \in Workers, FetchContext(w) \/ Callback(w) \/ ClearBit(w)
      PROVE  ThreadInv'
  <2>1. /\ UNCHANGED <<rlist, threadid, current>> /\ wpc[w] # "idle"
        /\ \A v \in Workers \ {w} : wpc'[v] = wpc[v]
    BY <1>4 DEF FetchContext, Callback, ClearBit
  <2> QED
    BY <2>1
<1>5. ASSUME NEW w \in Workers, After(w)
      PROVE  ThreadInv'
  <2>1. threadid = w /\ threadid' = threadid /\ \A v \in Workers \ {w} : wpc[v] = "idle"
    BY <1>5 DEF After
  <2>2. CASE current[w] \in revents
    BY <1>5, <2>1, <2>2 DEF After
  <2>3. CASE current[w] \notin revents
    BY <1>5, <2>1, <2>3 DEF After, HandleFirst
  <2> QED
    BY <2>2, <2>3
<1> QED
  BY <1>1, <1>2, <1>3, <1>4, <1>5 DEF Next, Loop, Process, Aside

LEMMA WalkStep ==
    ASSUME TypeOK, WalkInv, Next
    PROVE  WalkInv'
<1> USE DEF TypeOK, WalkInv
<1>1. CASE Aside
  BY <1>1, AsideEffect
<1>2. CASE Loop
  BY <1>2
  DEF Loop, Filter, OrRead, OrWrite, WalkTest, WalkEnd, action_default, action_closeerror, NextAction
<1>3. ASSUME NEW w \in Workers, JobStarts(w) \/ Process(w)
      PROVE  WalkInv'
  BY <1>3 DEF JobStarts, Process, FetchContext, Callback, After, ClearBit, loop
<1> QED
  BY <1>1, <1>2, <1>3 DEF Next, Aside

\* revents.events: OrWrite, the actions of the loop and ClearBit change it.
LEMMA EventsStep ==
    ASSUME TypeOK, ThreadInv, WalkInv, WatchedInv, CopyInv, Next
    PROVE  WatchedInv' /\ CopyInv'
<1> USE DEF TypeOK, WatchedInv, CopyInv
<1>1. CASE Aside
  BY <1>1, AsideEffect
<1>2. CASE Filter
  BY <1>2 DEF Filter, Pending, thread
<1>3. CASE OrRead \/ OrWrite
  BY <1>3 DEF OrRead, OrWrite, thread
<1>4. CASE WalkTest \/ WalkEnd
  BY <1>4 DEF WalkTest, WalkEnd, thread
<1>5. CASE action_default \/ action_closeerror
  <2>1. Watch[walk] \in Watched
    BY <1>5, WatchFacts DEF action_default, action_closeerror, WalkInv
  <2>2. CASE UNCHANGED revents
    BY <1>5, <2>2 DEF action_default, action_closeerror, NextAction, thread
  <2>3. CASE ~UNCHANGED revents
    <3>1. revents' \subseteq revents \cup {Watch[walk]} /\ RevFree
      BY <1>5, <2>3 DEF action_default, action_closeerror, Report
    <3>2. UNCHANGED <<seen, reported, wpc, copy>> /\ lpc' = "test"
      BY <1>5 DEF action_default, action_closeerror, NextAction, thread
    <3> QED
      BY <2>1, <3>1, <3>2 DEF RevFree
  <2> QED
    BY <2>2, <2>3
<1>6. ASSUME NEW w \in Workers, JobStarts(w) \/ FetchContext(w) \/ Callback(w)
      PROVE  WatchedInv' /\ CopyInv'
  <2>1. /\ UNCHANGED <<revents, seen, reported, lpc, copy>>
        /\ \A v \in Workers : wpc'[v] = "clear" => wpc[v] = "clear"
    BY <1>6 DEF JobStarts, HandleFirst, FetchContext, Callback, loop
  <2> QED
    BY <2>1
<1>7. ASSUME NEW w \in Workers, After(w)
      PROVE  WatchedInv' /\ CopyInv'
  <2>1. UNCHANGED <<revents, seen, reported, lpc>>
    BY <1>7 DEF After, loop
  <2>2. CASE current[w] \in revents
    BY <1>7, <2>1, <2>2 DEF After
  <2>3. CASE current[w] \notin revents
    BY <1>7, <2>1, <2>3 DEF After, HandleFirst
  <2> QED
    BY <2>2, <2>3
<1>8. ASSUME NEW w \in Workers, ClearBit(w)
      PROVE  WatchedInv' /\ CopyInv'
  <2>1. \A v \in Workers \ {w} : wpc[v] = "idle"
    BY <1>8 DEF ClearBit, ThreadInv
  <2>2. /\ revents' = copy[w] \ {current[w]} /\ UNCHANGED <<seen, reported, lpc>>
        /\ copy' = [copy EXCEPT ![w] = {}] /\ wpc' = [wpc EXCEPT ![w] = "fetch"]
        /\ wpc[w] = "clear"
    BY <1>8 DEF ClearBit, loop
  <2> QED
    BY <2>1, <2>2
<1> QED
  BY <1>1, <1>2, <1>3, <1>4, <1>5, <1>6, <1>7, <1>8 DEF Next, Loop, Process, Aside

\* Who still looks after a bit.
LEMMA NotHiddenStep ==
    ASSUME TypeOK, WalkInv, WatchedInv, CopyInv, NotHidden, Next
    PROVE  NotHidden'
<1> USE DEF TypeOK, NotHidden
<1>1. CASE Aside
  BY <1>1, AsideEffect
<1>2. CASE Filter \/ OrRead
  BY <1>2 DEF Filter, OrRead
<1>3. CASE OrWrite
  <2>1. revents' \subseteq Watched \cup CloseError /\ lpc' = "test" /\ walk' = 1
    BY <1>3 DEF OrWrite, WatchedInv
  <2> QED
    BY <2>1, WatchFacts
<1>4. CASE WalkTest
  <2>1. UNCHANGED <<revents, rlist>> /\ lpc = "test" /\ lpc' \in {"test", "act"}
    BY <1>4 DEF WalkTest
  <2>2. CASE walk' = walk
    BY <2>1, <2>2
  <2>3. CASE walk' = walk + 1 /\ Watch[walk] \notin revents
    <3>1. ASSUME NEW i \in revents, NEW k \in walk .. Len(Watch), Watch[k] = i
          PROVE  k \in walk' .. Len(Watch)
      BY <3>1, <2>3, WatchFacts
    <3> QED
      BY <2>1, <3>1
  <2> QED
    BY <1>4, <2>2, <2>3 DEF WalkTest
<1>5. CASE WalkEnd
  BY <1>5, WatchFacts DEF WalkEnd
<1>6. CASE action_default \/ action_closeerror
  <2>1. /\ walk \in 1 .. Len(Watch) /\ Watch[walk] \in Indices
        /\ lpc = "act" /\ lpc' = "test" /\ walk' = walk + 1
    BY <1>6, WatchFacts DEF action_default, action_closeerror, NextAction, WalkInv
  <2>2. ASSUME NEW i, NEW k \in walk .. Len(Watch), Watch[k] = i, i # Watch[walk]
        PROVE  k \in walk' .. Len(Watch)
    BY <2>1, <2>2, WatchFacts
  <2>3. revents' \subseteq revents \cup {Watch[walk]}
    BY <1>6 DEF action_default, action_closeerror, Report
  <2>4. Range(rlist) \subseteq Range(rlist')
    <3>1. rlist' = rlist \/ rlist' = Append(rlist, Watch[walk])
      BY <1>6 DEF action_default, action_closeerror, Report
    <3>2. Range(rlist) \subseteq Range(Append(rlist, Watch[walk]))
      BY <2>1, AppendReport
    <3> QED
      BY <3>1, <3>2
  <2>5. Watch[walk] \in CloseError \/ Watch[walk] \in Range(rlist')
    <3>1. CASE action_closeerror
      BY <3>1 DEF action_closeerror
    <3>2. CASE action_default
      <4>1. CASE Watch[walk] \in Range(rlist)
        BY <4>1, <2>4
      <4>2. CASE Watch[walk] \notin Range(rlist)
        <5>1. rlist' = Append(rlist, Watch[walk])
          BY <3>2, <4>2 DEF action_default, Report
        <5> QED
          BY <5>1, <2>1, AppendReport
      <4> QED
        BY <4>1, <4>2
    <3> QED
      BY <1>6, <3>1, <3>2
  <2> QED
    BY <2>1, <2>2, <2>3, <2>4, <2>5
<1>7. ASSUME NEW w \in Workers, JobStarts(w) \/ FetchContext(w) \/ Callback(w)
      PROVE  NotHidden'
  <2>1. UNCHANGED <<revents, rlist, lpc, walk>>
    BY <1>7 DEF JobStarts, FetchContext, Callback, loop
  <2> QED
    BY <2>1
<1>8. ASSUME NEW w \in Workers, After(w)
      PROVE  NotHidden'
  <2>1. UNCHANGED <<revents, lpc, walk>>
    BY <1>8 DEF After, loop
  <2>2. CASE current[w] \in revents
    BY <1>8, <2>1, <2>2 DEF After
  <2>3. CASE current[w] \notin revents
    <3>1. PICK k \in DOMAIN rlist : rlist[k] = current[w] /\ rlist' = RemoveAt(rlist, k)
      BY <1>8, <2>3 DEF After
    <3>2. \A i \in Range(rlist) : i # current[w] => i \in Range(rlist')
      BY <3>1, RemoveReport
    <3> QED
      BY <2>1, <2>3, <3>2
  <2> QED
    BY <2>2, <2>3
<1>9. ASSUME NEW w \in Workers, ClearBit(w)
      PROVE  NotHidden'
  <2>1. UNCHANGED <<rlist, lpc, walk>> /\ revents' \subseteq revents
    BY <1>9 DEF ClearBit, loop, CopyInv
  <2> QED
    BY <2>1
<1> QED
  BY <1>1, <1>2, <1>3, <1>4, <1>5, <1>6, <1>7, <1>8, <1>9 DEF Next, Loop, Process, Aside

-----------------------------------------------------------------------------
\* BEventInv is inductive.
THEOREM BEventInvariant == Spec => []BEventInv
<1>1. ASSUME BEventInv, [Next]_vars
      PROVE  BEventInv'
  <2>1. CASE Next
    BY <1>1, <2>1, TypeStep, ThreadStep, WalkStep, EventsStep, NotHiddenStep DEF BEventInv
  <2>2. CASE UNCHANGED vars
    <3>1. TypeOK' /\ ThreadInv' /\ WalkInv'
      BY <1>1, <2>2 DEF BEventInv, vars, TypeOK, ThreadInv, WalkInv
    <3>2. WatchedInv' /\ CopyInv' /\ NotHidden'
      BY <1>1, <2>2 DEF BEventInv, vars, WatchedInv, CopyInv, NotHidden
    <3> QED
      BY <3>1, <3>2 DEF BEventInv
  <2> QED
    BY <1>1, <2>1, <2>2
<1> QED
  BY <1>1, BEventInit, PTL DEF Spec

\* The callbacks of one bevent run in one thread only: threadid, once set, keeps
\* every other thread of the pool out.
THEOREM OneThreadHolds == Spec => []OneThread
<1>1. BEventInv => OneThread
  BY DEF BEventInv, ThreadInv, OneThread
<1> QED
  BY <1>1, BEventInvariant, PTL

\* No event but a close or an error is hidden by a bit that stays in
\* revents.events, although the event loop changes it without the lock.
THEOREM NotHiddenHolds == Spec => []NotHidden
<1>1. BEventInv => NotHidden
  BY DEF BEventInv
<1> QED
  BY <1>1, BEventInvariant, PTL

-----------------------------------------------------------------------------
(* The sockets of the discovery.                                           *)

SocketFlags == {"error", "open", "eventloop", "discovery", "read"}
Sockets == [addr : Addrs, flags : SUBSET SocketFlags, fd : Nat, attached : BOOLEAN,
            watched : Nat, reader : {"idle", "lock", "recv", "leave", "unserved"}]

\* The types of the discovery, as far as the sockets depend on them.
DnssdTypeOK ==
    /\ scene \in Scenes /\ locked \in BOOLEAN /\ present \subseteq Addrs
    /\ msockets \in Seq(Sockets)
    /\ pc \in [Threads -> Stages \cup Addrs] /\ todo \in [Threads -> SUBSET Addrs]
    /\ at \in [Threads -> Nat]
    /\ \E m \in Nat : fds = 1 .. m

Inside(c) == pc[c] \in {"scan", "giveup"} \cup Addrs

\* Between lock and unlock of LOCK_MSOCKETS one caller is alone, so that what it
\* found about an address is still so when it adds the socket.
LockInv ==
    /\ \A c \in Threads : Inside(c) => locked
    /\ \A c, d \in Threads : Inside(c) /\ Inside(d) => c = d
    /\ \A c \in Threads : pc[c] \in Addrs => ~Skip(pc[c]) /\ ~Listed(pc[c])

\* The places of msockets.
Entries == 1 .. Len(msockets)

\* A descriptor is open, and of one socket at most.
FdInv ==
    /\ \A i \in Entries : msockets[i].fd \in fds \cup {NoFd}
    /\ \A i, j \in Entries : i # j /\ msockets[i].fd = msockets[j].fd => msockets[i].fd = NoFd

\* A caller is at socket i, in between of a step and setting the flag for it.
Stays(i, stage) == \E c \in scene.callers : pc[c] = stage /\ at[c] = i

\* The flags tell what was done with a socket, except for that step.
SocketInv(i) ==
    LET s == msockets[i] IN
    /\ "open" \in s.flags => s.fd # NoFd
    /\ s.fd # NoFd => "open" \in s.flags \/ Stays(i, "opened")
    /\ "eventloop" \in s.flags =>
          /\ "open" \in s.flags /\ "error" \notin s.flags
          /\ s.attached /\ s.watched \in {s.fd, NoFd}
    /\ s.attached => "eventloop" \in s.flags \/ Stays(i, "watched")
    /\ s.watched # NoFd => s.attached

\* What the tests of the walk have found about socket s.
TestedInv(s, stage) ==
    /\ stage = "isopen" => "error" \notin s.flags
    /\ stage = "open" => {"error", "open"} \cap s.flags = {}
    /\ stage = "opened" => {"error", "open"} \cap s.flags = {} /\ s.fd # NoFd
    /\ stage = "error" => "eventloop" \notin s.flags
    /\ stage = "watch" => "open" \in s.flags /\ "error" \notin s.flags
    /\ stage = "watched" => /\ "open" \in s.flags /\ {"error", "eventloop"} \cap s.flags = {}
                            /\ s.attached /\ s.watched \in {s.fd, NoFd}

SerialInv == Serial =>
    /\ \A f \in fds : \E i \in Entries : msockets[i].fd = f
    /\ \A i \in Entries : SocketInv(i)
    /\ \A c \in scene.callers : at[c] \in Entries => TestedInv(msockets[at[c]], pc[c])

DnssdInv == DnssdTypeOK /\ LockInv /\ OneSocketPerAddress /\ FdInv /\ SerialInv

-----------------------------------------------------------------------------
LEMMA DnssdInitInv == DnssdInit => DnssdInv
<1> SUFFICES ASSUME DnssdInit PROVE DnssdInv
  OBVIOUS
<1>1. DnssdTypeOK
  <2>1. locked \in BOOLEAN
    BY Zenon DEF DnssdInit
  <2>2. fds = 1 .. 0
    BY DEF DnssdInit
  <2> QED
    BY <2>1, <2>2 DEF DnssdInit, DnssdTypeOK, Stages
<1>2. LockInv
  BY AddrAssumption DEF DnssdInit, LockInv, Inside, Stages
<1>3. OneSocketPerAddress /\ FdInv
  BY DEF DnssdInit, OneSocketPerAddress, FdInv, Entries
<1>4. SerialInv
  BY DEF DnssdInit, SerialInv, Entries
<1> QED
  BY <1>1, <1>2, <1>3, <1>4 DEF DnssdInv

\* What the types say of the sockets and of a caller.
LEMMA SocketFacts ==
    ASSUME DnssdInv
    PROVE  /\ Len(msockets) \in Nat /\ DOMAIN msockets = Entries
           /\ \A i \in Entries : msockets[i] \in Sockets
           /\ \A c \in scene.callers : c \in Threads /\ at[c] \in Nat
           /\ \A c \in Threads : pc[c] \in Addrs => pc[c] \notin Stages
BY SceneAssumption, AddrAssumption DEF DnssdInv, DnssdTypeOK, Entries

\* With one thread that calls, a caller is that thread.
LEMMA SerialOne ==
    ASSUME DnssdInv, Serial, NEW c \in scene.callers, NEW d \in scene.callers
    PROVE  c = d
<1>1. IsFiniteSet(scene.callers)
  BY SceneAssumption, FS_Subset DEF DnssdInv, DnssdTypeOK
<1> QED
  BY <1>1, FS_Singleton DEF Serial

\* Nothing of the sockets and the callers changes.
LEMMA StillKeeps ==
    ASSUME DnssdInv, UNCHANGED <<scene, locked, msockets, fds, pc, todo, at>>,
           present' \subseteq Addrs
    PROVE  DnssdInv'
<1>1. DnssdTypeOK'
  BY DEF DnssdInv, DnssdTypeOK
<1>2. LockInv' /\ OneSocketPerAddress' /\ FdInv'
  BY DEF DnssdInv, LockInv, Inside, Listed, OneSocketPerAddress, FdInv, Entries
<1>3. SerialInv'
  BY DEF DnssdInv, SerialInv, Serial, SocketInv, Stays, TestedInv, Entries
<1> QED
  BY <1>1, <1>2, <1>3 DEF DnssdInv

\* A caller goes on, outside of the lock.
LEMMA MoveKeeps ==
    ASSUME DnssdInv, NEW c \in scene.callers, NEW stage \in Stages,
           pc' = [pc EXCEPT ![c] = stage],
           UNCHANGED <<scene, locked, msockets, fds, todo, present>>,
           at' \in [Threads -> Nat], \A d \in Threads \ {c} : at'[d] = at[d],
           pc[c] \notin {"scan", "giveup", "opened", "watched"}, pc[c] \notin Addrs,
           stage \notin {"scan", "giveup"},
           Serial /\ at'[c] \in Entries => TestedInv(msockets[at'[c]], stage)
    PROVE  DnssdInv'
<1>1. /\ c \in Threads /\ stage \notin Addrs /\ \A d \in scene.callers : d \in Threads
      /\ pc'[c] = stage /\ \A d \in Threads \ {c} : pc'[d] = pc[d]
  BY SocketFacts, AddrAssumption DEF DnssdInv, DnssdTypeOK
<1>2. DnssdTypeOK'
  BY DEF DnssdInv, DnssdTypeOK
<1>3. LockInv'
  <2>1. \A d \in Threads : Inside(d)' => d # c /\ Inside(d)
    BY <1>1 DEF Inside
  <2>2. \A d \in Threads : pc'[d] \in Addrs => d # c /\ pc'[d] = pc[d]
    BY <1>1
  <2> QED
    BY <2>1, <2>2 DEF DnssdInv, LockInv, Listed
<1>4. OneSocketPerAddress' /\ FdInv'
  BY DEF DnssdInv, OneSocketPerAddress, FdInv, Entries
<1>5. SerialInv'
  <2> SUFFICES ASSUME Serial PROVE /\ \A i \in Entries : SocketInv(i)'
                                   /\ \A d \in scene.callers : at'[d] \in Entries =>
                                         TestedInv(msockets[at'[d]], pc'[d])
    BY DEF DnssdInv, SerialInv, Serial, Entries, TestedInv
  <2>1. \A i : Stays(i, "opened") => Stays(i, "opened")'
    <3> SUFFICES ASSUME NEW i, NEW d \in scene.callers, pc[d] = "opened", at[d] = i
                 PROVE  pc'[d] = "opened" /\ at'[d] = i
      BY DEF Stays
    <3> QED
      BY <1>1
  <2>2. \A i : Stays(i, "watched") => Stays(i, "watched")'
    <3> SUFFICES ASSUME NEW i, NEW d \in scene.callers, pc[d] = "watched", at[d] = i
                 PROVE  pc'[d] = "watched" /\ at'[d] = i
      BY DEF Stays
    <3> QED
      BY <1>1
  <2>3. \A d \in scene.callers : at'[d] \in Entries => TestedInv(msockets[at'[d]], pc'[d])
    BY <1>1, SerialOne
  <2>4. \A i \in Entries : SocketInv(i)'
    BY <2>1, <2>2 DEF DnssdInv, SerialInv, SocketInv, Entries
  <2> QED
    BY <2>3, <2>4
<1> QED
  BY <1>2, <1>3, <1>4, <1>5 DEF DnssdInv

\* A reader changes its flag READ and where it is, nothing else of its socket.
LEMMA ReaderKeeps ==
    ASSUME DnssdInv, NEW i, NEW from, NEW to \in {"idle", "lock", "recv", "leave", "unserved"},
           Reader(i, from, to)
    PROVE  DnssdInv'
<1>1. /\ UNCHANGED <<scene, locked, fds, present, pc, todo, at>> /\ i \in Entries
      /\ Len(msockets) \in Nat /\ DOMAIN msockets = Entries
  BY SocketFacts DEF Reader, manage, callers
<1>2. PICK f \in SUBSET SocketFlags :
        /\ msockets' = [msockets EXCEPT ![i].reader = to, ![i].flags = f]
        /\ \A x \in SocketFlags \ {"read"} : x \in f <=> x \in msockets[i].flags
  <2> DEFINE g == CASE to = "recv" -> msockets[i].flags \cup {"read"}
                    [] from = "leave" -> msockets[i].flags \ {"read"}
                    [] OTHER -> msockets[i].flags
  <2>1. msockets[i] \in Sockets
    BY <1>1, SocketFacts
  <2>2. /\ g \in SUBSET SocketFlags
        /\ \A x \in SocketFlags \ {"read"} : x \in g <=> x \in msockets[i].flags
    BY <2>1 DEF Sockets, SocketFlags
  <2>3. msockets' = [msockets EXCEPT ![i].reader = to, ![i].flags = g]
    BY <1>1, <2>1 DEF Reader, Sockets
  <2> QED
    BY <2>2, <2>3
<1>3. /\ msockets' \in Seq(Sockets) /\ Len(msockets') = Len(msockets)
      /\ \A k \in Entries : /\ msockets'[k].addr = msockets[k].addr
                            /\ msockets'[k].fd = msockets[k].fd
                            /\ msockets'[k].attached = msockets[k].attached
                            /\ msockets'[k].watched = msockets[k].watched
                            /\ \A x \in SocketFlags \ {"read"} :
                                  x \in msockets'[k].flags <=> x \in msockets[k].flags
  <2> DEFINE r == [msockets[i] EXCEPT !.reader = to, !.flags = f]
  <2>1. \A k \in Entries : msockets[k] \in Sockets
    BY SocketFacts
  <2>2. /\ r \in Sockets /\ r.addr = msockets[i].addr /\ r.fd = msockets[i].fd
        /\ r.attached = msockets[i].attached /\ r.watched = msockets[i].watched
        /\ r.flags = f
    BY <1>1, <2>1 DEF Sockets
  <2>3. msockets' = [msockets EXCEPT ![i] = r]
    BY <1>2
  <2> HIDE DEF r
  <2>4. msockets' \in Seq(Sockets) /\ Len(msockets') = Len(msockets)
    BY <1>1, <2>2, <2>3 DEF DnssdInv, DnssdTypeOK
  <2>5. \A k \in Entries : msockets'[k] = IF k = i THEN r ELSE msockets[k]
    BY <1>1, <2>3
  <2> QED
    BY <1>2, <2>2, <2>4, <2>5
<1>4. DnssdTypeOK'
  BY <1>1, <1>3 DEF DnssdInv, DnssdTypeOK
<1>5. Entries' = Entries /\ DOMAIN msockets' = Entries
  BY <1>3 DEF Entries
<1>6. LockInv' /\ OneSocketPerAddress' /\ FdInv'
  BY <1>1, <1>3, <1>5 DEF DnssdInv, LockInv, Inside, Listed, OneSocketPerAddress, FdInv
<1>7. SerialInv'
  BY <1>1, <1>3, <1>5 DEF DnssdInv, SerialInv, Serial, SocketInv, Stays, TestedInv, SocketFlags
<1> QED
  BY <1>4, <1>6, <1>7 DEF DnssdInv

-----------------------------------------------------------------------------
(* The walk over the sockets.                                              *)

\* The flags of a socket at which the caller is at that place.
OwnInv(s, stage) ==
    /\ "open" \in s.flags => s.fd # NoFd
    /\ s.fd # NoFd => "open" \in s.flags \/ stage = "opened"
    /\ "eventloop" \in s.flags =>
          /\ "open" \in s.flags /\ "error" \notin s.flags
          /\ s.attached /\ s.watched \in {s.fd, NoFd}
    /\ s.attached => "eventloop" \in s.flags \/ stage = "watched"
    /\ s.watched # NoFd => s.attached
    /\ TestedInv(s, stage)

LEMMA OwnSocket ==
    ASSUME DnssdInv, Serial, NEW c \in scene.callers, at[c] \in Entries
    PROVE  OwnInv(msockets[at[c]], pc[c])
<1>1. \A d \in scene.callers : d = c
  BY SerialOne
<1>2. /\ Stays(at[c], "opened") => pc[c] = "opened"
      /\ Stays(at[c], "watched") => pc[c] = "watched"
  BY <1>1 DEF Stays
<1> QED
  BY <1>2 DEF DnssdInv, SerialInv, SocketInv, OwnInv

\* A caller changes the socket where it is to r.
LEMMA ChangeKeeps ==
    ASSUME DnssdInv, NEW c \in scene.callers, NEW r \in Sockets, NEW stage \in Stages,
           at[c] \in Entries, r.addr = msockets[at[c]].addr,
           msockets' = [msockets EXCEPT ![at[c]] = r],
           pc' = [pc EXCEPT ![c] = stage],
           UNCHANGED <<scene, locked, todo, present, at>>,
           pc[c] \notin {"scan", "giveup"}, pc[c] \notin Addrs, stage \notin {"scan", "giveup"},
           \E m \in Nat : fds' = 1 .. m, fds \subseteq fds',
           r.fd \in fds' \cup {NoFd}, r.fd = msockets[at[c]].fd \/ r.fd \notin fds,
           Serial => /\ OwnInv(r, stage)
                     /\ \A f \in fds' : f = r.fd \/ (f \in fds /\ f # msockets[at[c]].fd)
    PROVE  DnssdInv'
<1> DEFINE k == at[c]
<1>1. /\ c \in Threads /\ stage \notin Addrs /\ \A d \in scene.callers : d \in Threads
      /\ pc'[c] = stage /\ \A d \in Threads \ {c} : pc'[d] = pc[d]
      /\ Len(msockets) \in Nat /\ DOMAIN msockets = Entries /\ k \in Entries
  BY SocketFacts, AddrAssumption DEF DnssdInv, DnssdTypeOK
<1>2. /\ msockets' \in Seq(Sockets) /\ Len(msockets') = Len(msockets)
      /\ \A j \in Entries : msockets'[j] = IF j = k THEN r ELSE msockets[j]
  BY <1>1 DEF DnssdInv, DnssdTypeOK
<1>3. Entries' = Entries /\ DOMAIN msockets' = Entries
  BY <1>2 DEF Entries
<1>4. DnssdTypeOK'
  BY <1>2 DEF DnssdInv, DnssdTypeOK
<1>5. \A j \in Entries : msockets'[j].addr = msockets[j].addr
  BY <1>2
<1>6. LockInv'
  <2>1. \A d \in Threads : Inside(d)' => d # c /\ Inside(d)
    BY <1>1 DEF Inside
  <2>2. \A d \in Threads : pc'[d] \in Addrs => d # c /\ pc'[d] = pc[d]
    BY <1>1
  <2>3. \A a : Listed(a)' => Listed(a)
    BY <1>1, <1>3, <1>5 DEF Listed
  <2> QED
    BY <2>1, <2>2, <2>3 DEF DnssdInv, LockInv
<1>7. OneSocketPerAddress'
  BY <1>1, <1>3, <1>5 DEF DnssdInv, OneSocketPerAddress
<1>8. FdInv'
  <2>1. \A j \in Entries : msockets'[j].fd \in fds' \cup {NoFd}
    BY <1>2 DEF DnssdInv, FdInv
  <2>2. ASSUME NEW j \in Entries, j # k, msockets[j].fd = r.fd PROVE r.fd = NoFd
    <3>1. CASE r.fd = msockets[k].fd
      BY <3>1, <2>2, <1>1 DEF DnssdInv, FdInv
    <3>2. CASE r.fd \notin fds
      BY <3>2, <2>2 DEF DnssdInv, FdInv
    <3> QED
      BY <3>1, <3>2
  <2>3. ASSUME NEW j \in Entries, NEW l \in Entries, j # l, msockets'[j].fd = msockets'[l].fd
        PROVE  msockets'[j].fd = NoFd
    <3>1. CASE j = k
      BY <3>1, <2>2, <2>3, <1>2
    <3>2. CASE l = k
      BY <3>2, <2>2, <2>3, <1>2
    <3>3. CASE j # k /\ l # k
      BY <3>3, <2>3, <1>2 DEF DnssdInv, FdInv
    <3> QED
      BY <3>1, <3>2, <3>3
  <2> QED
    BY <2>1, <2>3, <1>3 DEF FdInv
<1>9. SerialInv'
  <2> SUFFICES ASSUME Serial
               PROVE  /\ \A f \in fds' : \E j \in Entries : msockets'[j].fd = f
                      /\ \A j \in Entries : SocketInv(j)'
                      /\ \A d \in scene.callers : at[d] \in Entries =>
                            TestedInv(msockets'[at[d]], pc'[d])
    BY <1>3 DEF SerialInv, Serial, TestedInv
  <2>1. \A d \in scene.callers : d = c
    BY SerialOne
  <2>2. ASSUME NEW f \in fds' PROVE \E j \in Entries : msockets'[j].fd = f
    <3>1. CASE f = r.fd
      BY <3>1, <1>1, <1>2
    <3>2. CASE f \in fds /\ f # msockets[k].fd
      <4>1. PICK j \in Entries : msockets[j].fd = f
        BY <3>2 DEF DnssdInv, SerialInv
      <4> QED
        BY <3>2, <4>1, <1>2
    <3> QED
      BY <3>1, <3>2
  <2>3. ASSUME NEW j \in Entries PROVE SocketInv(j)'
    <3>1. \A where : Stays(j, where)' <=> (j = k /\ where = stage)
      BY <2>1, <1>1 DEF Stays
    <3>2. CASE j = k
      BY <3>1, <3>2, <1>2 DEF SocketInv, OwnInv
    <3>3. CASE j # k
      <4>1. ~Stays(j, "opened") /\ ~Stays(j, "watched")
        BY <2>1, <3>3 DEF Stays
      <4> QED
        BY <4>1, <3>1, <3>3, <1>2 DEF DnssdInv, SerialInv, SocketInv
    <3> QED
      BY <3>2, <3>3
  <2>4. TestedInv(msockets'[at[c]], pc'[c])
    BY <1>1, <1>2 DEF OwnInv
  <2> QED
    BY <2>1, <2>2, <2>3, <2>4
<1> QED
  BY <1>4, <1>6, <1>7, <1>8, <1>9 DEF DnssdInv

LEMMA SetFlagsKeeps ==
    ASSUME DnssdInv, NEW c \in scene.callers, SetFlags(c)
    PROVE  DnssdInv'
<1>1. PICK stage, flag, next :
        /\ SetFlag(c, stage, flag, next)
        /\ \/ stage = "error" /\ flag = "error" /\ next = "next"
           \/ stage = "opened" /\ flag = "open" /\ next = "watch"
           \/ stage = "watched" /\ flag = "eventloop" /\ next = "send"
           \/ stage = "sent" /\ flag = "discovery" /\ next = "next"
  BY DEF SetFlags
<1>2. /\ pc[c] = stage /\ at[c] \in Entries
      /\ pc' = [pc EXCEPT ![c] = next]
      /\ msockets' = [msockets EXCEPT ![at[c]].flags = @ \cup {flag}]
      /\ UNCHANGED <<scene, locked, fds, todo, present, at>>
  BY <1>1, SocketFacts DEF SetFlag, Walks, Goto, manage
<1>3. /\ stage \in Stages \ {"scan", "giveup"} /\ next \in Stages \ {"scan", "giveup"}
      /\ flag \in SocketFlags
  BY <1>1 DEF Stages, SocketFlags
<1>4. pc[c] \notin Addrs
  BY <1>2, <1>3, AddrAssumption
<1> DEFINE s == msockets[at[c]]
           r == [s EXCEPT !.flags = @ \cup {flag}]
<1>5. s \in Sockets /\ Len(msockets) \in Nat
  BY <1>2, SocketFacts
<1>6. /\ r \in Sockets /\ r.addr = s.addr /\ r.fd = s.fd /\ r.watched = s.watched
      /\ r.attached = s.attached /\ r.flags = s.flags \cup {flag}
  BY <1>3, <1>5 DEF Sockets
<1>7. msockets' = [msockets EXCEPT ![at[c]] = r]
  BY <1>2
<1>8. ASSUME Serial PROVE OwnInv(r, next)
  <2>1. OwnInv(s, stage)
    BY <1>2, <1>8, OwnSocket
  <2> HIDE DEF r, s
  <2> QED
    BY <2>1, <1>1, <1>6 DEF OwnInv, TestedInv
<1>9. ASSUME Serial PROVE \A f \in fds' : f = r.fd \/ (f \in fds /\ f # s.fd)
  BY <1>2, <1>6
<1>10. (\E m \in Nat : fds' = 1 .. m) /\ fds \subseteq fds' /\ r.fd \in fds' \cup {NoFd}
  BY <1>2, <1>6 DEF DnssdInv, DnssdTypeOK, FdInv
<1> HIDE DEF r
<1> QED
  BY <1>2, <1>3, <1>4, <1>6, <1>7, <1>8, <1>9, <1>10, ChangeKeeps

LEMMA OpenKeeps ==
    ASSUME DnssdInv, NEW c \in scene.callers, MDNS_socket_open(c)
    PROVE  DnssdInv'
<1>1. PICK fd \in {Cardinality(fds) + 1, NoFd} :
        /\ fds' = fds \cup ({fd} \ {NoFd})
        /\ msockets' = [msockets EXCEPT ![at[c]].fd = fd]
        /\ pc' = [pc EXCEPT ![c] = IF fd = NoFd THEN "error" ELSE "opened"]
  BY DEF MDNS_socket_open, OpenFamily, Goto
<1>2. /\ pc[c] = "open" /\ at[c] \in Entries
      /\ UNCHANGED <<scene, locked, todo, present, at>>
  BY SocketFacts DEF MDNS_socket_open, Walks, manage
<1>3. PICK m \in Nat : fds = 1 .. m
  BY DEF DnssdInv, DnssdTypeOK
<1>4. Cardinality(fds) = m
  BY <1>3, FS_Interval
<1>5. /\ fd \in Nat /\ fd \notin fds /\ fd \in fds' \cup {NoFd} /\ fds \subseteq fds'
      /\ \A f \in fds' : f = fd \/ f \in fds
      /\ \E n \in Nat : fds' = 1 .. n
  <2>1. CASE fd = NoFd
    <3>1. fds' = fds /\ fd = 0
      BY <2>1, <1>1 DEF NoFd
    <3> QED
      BY <3>1, <2>1, <1>3
  <2>2. CASE fd = m + 1
    <3>1. fds' = 1 .. (m + 1) /\ fd # NoFd
      BY <2>2, <1>1, <1>3 DEF NoFd
    <3>2. m + 1 \in Nat
      OBVIOUS
    <3> QED
      BY <3>1, <3>2, <2>2, <1>3
  <2> QED
    BY <2>1, <2>2, <1>1, <1>4
<1> DEFINE s == msockets[at[c]]
           r == [s EXCEPT !.fd = fd]
           stage == IF fd = NoFd THEN "error" ELSE "opened"
<1>6. s \in Sockets
  BY <1>2, SocketFacts
<1>7. /\ r \in Sockets /\ r.addr = s.addr /\ r.fd = fd /\ r.watched = s.watched
      /\ r.attached = s.attached /\ r.flags = s.flags
  BY <1>5, <1>6 DEF Sockets
<1>8. msockets' = [msockets EXCEPT ![at[c]] = r]
  BY <1>1
<1>9. /\ stage \in Stages \ {"scan", "giveup"} /\ pc[c] \in Stages \ {"scan", "giveup"}
  BY <1>2 DEF Stages
<1>10. pc[c] \notin Addrs
  BY <1>9, AddrAssumption
<1>11. ASSUME Serial
       PROVE  OwnInv(r, stage) /\ \A f \in fds' : f = r.fd \/ (f \in fds /\ f # s.fd)
  <2>1. OwnInv(s, "open")
    BY <1>2, <1>11, OwnSocket
  <2>2. s.fd = NoFd /\ NoFd \notin fds
    BY <2>1, <1>3 DEF OwnInv, TestedInv, NoFd
  <2> HIDE DEF r, s
  <2>3. OwnInv(r, stage)
    BY <2>1, <2>2, <1>7 DEF OwnInv, TestedInv
  <2> QED
    BY <2>2, <2>3, <1>5, <1>7
<1> HIDE DEF r, stage
<1>12. pc' = [pc EXCEPT ![c] = stage]
  BY <1>1 DEF stage
<1> QED
  BY <1>2, <1>5, <1>7, <1>8, <1>9, <1>10, <1>11, <1>12, ChangeKeeps

LEMMA WatchKeeps ==
    ASSUME DnssdInv, NEW c \in scene.callers, MDNS_socket_add_to_eventloop(c)
    PROVE  DnssdInv'
<1> DEFINE s == msockets[at[c]]
<1>1. /\ pc[c] = "watch" /\ at[c] \in Entries
      /\ UNCHANGED <<scene, locked, fds, todo, present, at>>
  BY SocketFacts DEF MDNS_socket_add_to_eventloop, Walks, manage
<1>2. pc[c] \notin Addrs
  BY <1>1, AddrAssumption DEF Stages
<1>3. ASSUME NEW fd \in {s.fd, NoFd},
             "eventloop" \notin s.flags, ~s.attached,
             msockets' = [msockets EXCEPT ![at[c]].attached = TRUE, ![at[c]].watched = fd],
             pc' = [pc EXCEPT ![c] = "watched"]
      PROVE  DnssdInv'
  <2> DEFINE r == [s EXCEPT !.attached = TRUE, !.watched = fd]
  <2>1. s \in Sockets
    BY <1>1, SocketFacts
  <2>2. /\ r \in Sockets /\ r.addr = s.addr /\ r.fd = s.fd /\ r.watched \in {s.fd, NoFd}
        /\ r.attached /\ r.flags = s.flags
    <3>1. s.fd \in Nat /\ fd \in Nat
      BY <2>1 DEF Sockets, NoFd
    <3> HIDE DEF s
    <3> QED
      BY <2>1, <3>1 DEF Sockets
  <2>3. msockets' = [msockets EXCEPT ![at[c]] = r]
    BY <1>3
  <2>4. ASSUME Serial PROVE OwnInv(r, "watched")
    <3>1. OwnInv(s, "watch")
      BY <1>1, <2>4, OwnSocket
    <3> HIDE DEF r, s
    <3> QED
      BY <3>1, <1>3, <2>2 DEF OwnInv, TestedInv
  <2>5. (\E m \in Nat : fds' = 1 .. m) /\ fds \subseteq fds' /\ r.fd \in fds' \cup {NoFd}
    BY <1>1, <2>2 DEF DnssdInv, DnssdTypeOK, FdInv
  <2>6. \A f \in fds' : f = r.fd \/ (f \in fds /\ f # s.fd)
    BY <1>1, <2>2
  <2>7. "watched" \in Stages /\ pc' = [pc EXCEPT ![c] = "watched"]
    BY <1>3 DEF Stages
  <2> HIDE DEF r
  <2> QED
    BY <1>1, <1>2, <2>2, <2>3, <2>4, <2>5, <2>6, <2>7, ChangeKeeps
<1>4. CASE /\ UNCHANGED msockets
           /\ \/ "eventloop" \notin s.flags /\ pc' = [pc EXCEPT ![c] = "error"]
              \/ pc' = [pc EXCEPT ![c] = "send"]
  <2>1. PICK stage \in {"error", "send"} :
          /\ pc' = [pc EXCEPT ![c] = stage] /\ TestedInv(s, stage)
    BY <1>4 DEF TestedInv
  <2>2. stage \in Stages
    BY DEF Stages
  <2>3. at' \in [Threads -> Nat]
    BY <1>1 DEF DnssdInv, DnssdTypeOK
  <2> QED
    BY <1>1, <1>2, <1>4, <2>1, <2>2, <2>3, MoveKeeps
<1> QED
  BY <1>3, <1>4 DEF MDNS_socket_add_to_eventloop, Attach, Has, Socket, Goto

LEMMA SendKeeps ==
    ASSUME DnssdInv, NEW c \in scene.callers, MDNS_discovery_send(c)
    PROVE  DnssdInv'
<1>1. /\ pc[c] = "send"
      /\ UNCHANGED <<scene, locked, msockets, fds, todo, present, at>>
  BY DEF MDNS_discovery_send, Walks, manage
<1>2. PICK stage \in {"next", "sent"} : pc' = [pc EXCEPT ![c] = stage]
  BY DEF MDNS_discovery_send, Goto
<1>3. pc[c] \notin Addrs /\ stage \in Stages
  BY <1>1, AddrAssumption DEF Stages
<1>4. at' \in [Threads -> Nat]
  BY <1>1 DEF DnssdInv, DnssdTypeOK
<1> QED
  BY <1>1, <1>2, <1>3, <1>4, MoveKeeps DEF TestedInv

LEMMA TestKeeps ==
    ASSUME DnssdInv, NEW c \in scene.callers, TestError(c) \/ TestOpen(c)
    PROVE  DnssdInv'
<1> DEFINE s == msockets[at[c]]
<1>1. /\ pc[c] \in {"walk", "isopen"} /\ at[c] \in Entries
      /\ UNCHANGED <<scene, locked, msockets, fds, todo, present, at>>
  BY SocketFacts DEF TestError, TestOpen, Test, Walks, manage
<1>2. PICK stage \in {"next", "isopen", "watch", "open"} :
        /\ pc' = [pc EXCEPT ![c] = stage]
        /\ stage = "isopen" => "error" \notin s.flags
        /\ stage = "watch" => pc[c] = "isopen" /\ "open" \in s.flags
        /\ stage = "open" => pc[c] = "isopen" /\ "open" \notin s.flags
  BY DEF TestError, TestOpen, Test, Walks, Goto, Has, Socket
<1>3. pc[c] \notin Addrs /\ stage \in Stages
  BY <1>1, AddrAssumption DEF Stages
<1>4. at' \in [Threads -> Nat]
  BY <1>1 DEF DnssdInv, DnssdTypeOK
<1>5. ASSUME Serial PROVE TestedInv(s, stage)
  BY <1>1, <1>2, <1>5, OwnSocket DEF OwnInv, TestedInv
<1> QED
  BY <1>1, <1>2, <1>3, <1>4, <1>5, MoveKeeps

LEMMA NextKeeps ==
    ASSUME DnssdInv, NEW c \in scene.callers, NextSocket(c)
    PROVE  DnssdInv'
<1>1. /\ pc[c] \in {"walk", "next"}
      /\ UNCHANGED <<scene, locked, msockets, fds, todo, present>>
  BY DEF NextSocket, manage
<1>2. PICK stage \in {"walk", "idle"}, k \in {0, at[c] + 1} :
        pc' = [pc EXCEPT ![c] = stage] /\ at' = [at EXCEPT ![c] = k]
  BY DEF NextSocket, Goto
<1>3. pc[c] \notin Addrs /\ stage \in Stages
  BY <1>1, AddrAssumption DEF Stages
<1>4. at' \in [Threads -> Nat] /\ \A d \in Threads \ {c} : at'[d] = at[d]
  <2>1. at \in [Threads -> Nat] /\ k \in Nat
    BY SocketFacts DEF DnssdInv, DnssdTypeOK
  <2> QED
    BY <1>2, <2>1
<1> QED
  BY <1>1, <1>2, <1>3, <1>4, MoveKeeps DEF TestedInv

LEMMA StartKeeps ==
    ASSUME DnssdInv, NEW c \in scene.callers, DNSSD_init(c) \/ Fill(c) \/ DNSSD_start(c)
    PROVE  DnssdInv'
<1>1. /\ pc[c] \in {"new", "fill", "signal", "idle"}
      /\ UNCHANGED <<scene, locked, msockets, fds, todo, present, at>>
  BY DEF DNSSD_init, Fill, DNSSD_start, manage
<1>2. PICK stage \in {"fill", "signal", "idle", "lock"} : pc' = [pc EXCEPT ![c] = stage]
  BY DEF DNSSD_init, Fill, DNSSD_start, Goto
<1>3. pc[c] \notin Addrs /\ stage \in Stages
  BY <1>1, AddrAssumption DEF Stages
<1>4. at' \in [Threads -> Nat]
  BY <1>1 DEF DnssdInv, DnssdTypeOK
<1> QED
  BY <1>1, <1>2, <1>3, <1>4, MoveKeeps DEF TestedInv

-----------------------------------------------------------------------------
(* The list of sockets.                                                    *)

\* A caller is at the list of sockets, and has not been at a socket.
LEMMA ScanKeeps ==
    ASSUME DnssdInv, NEW c \in scene.callers, NEW stage \in Stages \cup Addrs,
           pc' = [pc EXCEPT ![c] = stage],
           UNCHANGED <<scene, msockets, fds, present>>,
           todo' \in [Threads -> SUBSET Addrs], locked' \in BOOLEAN,
           at' \in [Threads -> Nat], \A d \in Threads \ {c} : at'[d] = at[d],
           Inside(c) \/ ~locked, locked' \/ stage \in {"walk", "idle"},
           pc[c] \notin {"opened", "watched"},
           \/ stage \in {"scan", "giveup", "walk", "idle"}
           \/ stage \in Addrs /\ ~Skip(stage) /\ ~Listed(stage)
    PROVE  DnssdInv'
<1>1. /\ c \in Threads /\ \A d \in scene.callers : d \in Threads
      /\ pc'[c] = stage /\ \A d \in Threads \ {c} : pc'[d] = pc[d]
  BY SocketFacts DEF DnssdInv, DnssdTypeOK
<1>2. \A d \in Threads \ {c} : ~Inside(d)
  BY <1>1 DEF DnssdInv, LockInv
<1>3. DnssdTypeOK'
  BY DEF DnssdInv, DnssdTypeOK
<1>4. LockInv'
  <2>1. \A d \in Threads : Inside(d)' => d = c
    BY <1>1, <1>2 DEF Inside
  <2>2. Inside(c)' => locked'
    BY <1>1, AddrAssumption DEF Inside, Stages
  <2>3. pc'[c] \in Addrs => ~Skip(pc'[c]) /\ ~Listed(pc'[c])
    BY <1>1, AddrAssumption DEF Stages
  <2>4. \A d \in Threads : pc'[d] \in Addrs => d = c
    BY <2>1 DEF Inside
  <2> QED
    BY <2>1, <2>2, <2>3, <2>4 DEF LockInv, Listed
<1>5. OneSocketPerAddress' /\ FdInv'
  BY DEF DnssdInv, OneSocketPerAddress, FdInv, Entries
<1>6. SerialInv'
  <2> SUFFICES ASSUME Serial PROVE /\ \A i \in Entries : SocketInv(i)'
                                   /\ \A d \in scene.callers : at'[d] \in Entries =>
                                         TestedInv(msockets[at'[d]], pc'[d])
    BY DEF DnssdInv, SerialInv, Serial, Entries, TestedInv
  <2>1. \A d \in scene.callers : d = c
    BY SerialOne
  <2>2. \A i : ~Stays(i, "opened") /\ ~Stays(i, "watched")
    BY <2>1 DEF Stays
  <2>3. \A i \in Entries : SocketInv(i)'
    BY <2>2 DEF DnssdInv, SerialInv, SocketInv, Entries
  <2>4. \A s : TestedInv(s, stage)
    BY AddrAssumption DEF TestedInv, Stages
  <2> QED
    BY <2>1, <2>3, <2>4, <1>1
<1> QED
  BY <1>3, <1>4, <1>5, <1>6 DEF DnssdInv

LEMMA LockKeeps ==
    ASSUME DnssdInv, NEW c \in scene.callers, ScanLock(c)
    PROVE  DnssdInv'
<1>1. /\ pc[c] = "lock" /\ UNCHANGED <<scene, msockets, fds, present, at>>
  BY DEF ScanLock, manage
<1>2. CASE TakeLock(c)
  <2>1. PICK stage \in {"scan", "giveup"} : pc' = [pc EXCEPT ![c] = stage]
    BY <1>2 DEF TakeLock, Goto
  <2>2. todo' \in [Threads -> SUBSET Addrs] /\ ~locked /\ locked'
    BY <1>2 DEF TakeLock, DnssdInv, DnssdTypeOK
  <2>3. locked' \in BOOLEAN
    BY <1>2, Zenon DEF TakeLock
  <2>4. at' \in [Threads -> Nat] /\ stage \in Stages
    BY <1>1 DEF DnssdInv, DnssdTypeOK, Stages
  <2> QED
    BY <1>1, <2>1, <2>2, <2>3, <2>4, ScanKeeps
<1>3. CASE UNCHANGED <<pc, todo, locked>>
  BY <1>1, <1>3, StillKeeps DEF DnssdInv, DnssdTypeOK
<1> QED
  BY <1>2, <1>3 DEF ScanLock

LEMMA CompareKeeps ==
    ASSUME DnssdInv, NEW c \in scene.callers, NEW a \in Addrs, Compare(c, a)
    PROVE  DnssdInv'
<1>1. /\ pc[c] = "scan" /\ UNCHANGED <<scene, locked, msockets, fds, present, at>>
      /\ todo' \in [Threads -> SUBSET Addrs]
  BY DEF Compare, manage, DnssdInv, DnssdTypeOK
<1>2. c \in Threads /\ Inside(c) /\ locked
  BY <1>1, SocketFacts DEF Inside, DnssdInv, LockInv
<1>3. PICK stage \in {"scan", a} :
        /\ pc' = [pc EXCEPT ![c] = stage]
        /\ stage = "scan" \/ (stage = a /\ ~Skip(a) /\ ~Listed(a))
  BY <1>1, <1>2 DEF Compare, Goto, DnssdInv, DnssdTypeOK
<1>4. at' \in [Threads -> Nat] /\ stage \in Stages \cup Addrs /\ locked' \in BOOLEAN
  BY <1>1, <1>3 DEF DnssdInv, DnssdTypeOK, Stages
<1> QED
  BY <1>1, <1>2, <1>3, <1>4, ScanKeeps

LEMMA UnlockKeeps ==
    ASSUME DnssdInv, NEW c \in scene.callers, ScanUnlock(c)
    PROVE  DnssdInv'
<1>1. /\ pc[c] \in {"scan", "giveup"} /\ UNCHANGED <<scene, msockets, fds, present, todo>>
      /\ at' = at \/ at' = [at EXCEPT ![c] = 1]
  BY DEF ScanUnlock, manage
<1>2. PICK stage \in {"walk", "idle"} : pc' = [pc EXCEPT ![c] = stage]
  BY DEF ScanUnlock, Goto
<1>3. Inside(c)
  BY <1>1 DEF Inside
<1>4. locked' \in BOOLEAN
  BY Zenon DEF ScanUnlock
<1>5. /\ at' \in [Threads -> Nat] /\ \A d \in Threads \ {c} : at'[d] = at[d]
      /\ stage \in Stages \cup Addrs /\ todo' \in [Threads -> SUBSET Addrs]
  BY <1>1 DEF DnssdInv, DnssdTypeOK, Stages
<1> QED
  BY <1>1, <1>2, <1>3, <1>4, <1>5, ScanKeeps

LEMMA AddKeeps ==
    ASSUME DnssdInv, NEW c \in scene.callers, MDNS_socket_add(c)
    PROVE  DnssdInv'
<1> DEFINE a == pc[c]
           r == NewSocket(a)
<1>1. /\ a \in Addrs /\ UNCHANGED <<scene, locked, fds, present, at>>
      /\ todo' \in [Threads -> SUBSET Addrs]
      /\ pc' = [pc EXCEPT ![c] = "scan"]
  BY DEF MDNS_socket_add, Goto, manage, DnssdInv, DnssdTypeOK
<1>2. /\ c \in Threads /\ a \notin Stages /\ \A d \in scene.callers : d \in Threads
      /\ "scan" \in Stages /\ Inside(c) /\ locked
  BY <1>1, SocketFacts DEF Inside, Stages, DnssdInv, LockInv
<1>3. CASE msockets' = msockets
  <2>1. at' \in [Threads -> Nat] /\ locked' \in BOOLEAN
    BY <1>1 DEF DnssdInv, DnssdTypeOK
  <2>2. pc[c] \notin {"opened", "watched"}
    BY <1>2 DEF Stages
  <2> HIDE DEF a
  <2> QED
    BY <1>1, <1>2, <1>3, <2>1, <2>2, ScanKeeps
<1>4. CASE msockets' = Append(msockets, r)
  <2>0. PICK n \in Nat : n = Len(msockets) + 1
    BY SocketFacts
  <2>1. /\ r \in Sockets /\ r.addr = a /\ r.fd = NoFd /\ r.watched = NoFd /\ r.flags = {}
        /\ ~r.attached
    BY <1>1 DEF NewSocket, Sockets, NoFd
  <2>2. /\ msockets' \in Seq(Sockets) /\ Len(msockets') = n /\ Len(msockets) \in Nat
        /\ DOMAIN msockets = Entries
        /\ msockets'[n] = r /\ \A i \in Entries : msockets'[i] = msockets[i]
    BY <1>4, <2>0, <2>1 DEF DnssdInv, DnssdTypeOK, Entries
  <2> HIDE DEF r
  <2>3. /\ Entries' = Entries \cup {n} /\ DOMAIN msockets' = Entries' /\ n \notin Entries
    BY <2>0, <2>2 DEF Entries
  <2>4. /\ pc'[c] = "scan" /\ \A d \in Threads \ {c} : pc'[d] = pc[d]
        /\ "scan" \notin Addrs
    BY <1>1, <1>2, AddrAssumption DEF DnssdInv, DnssdTypeOK
  <2>5. DnssdTypeOK'
    BY <1>1, <1>2, <2>2 DEF DnssdInv, DnssdTypeOK
  <2>6. LockInv'
    <3>1. \A d \in Threads : Inside(d)' => d = c
      BY <1>2, <2>4 DEF Inside, DnssdInv, LockInv
    <3>2. locked'
      BY <1>1, <1>2
    <3>3. \A d \in Threads : pc'[d] \notin Addrs
      BY <2>4, <3>1 DEF Inside
    <3> QED
      BY <3>1, <3>2, <3>3 DEF LockInv
  <2>7. OneSocketPerAddress'
    <3>1. ~Skip(a) /\ \A i \in Entries : msockets[i].addr # a
      BY <1>1, <1>2, <2>2 DEF DnssdInv, LockInv, Listed
    <3> HIDE DEF a
    <3> QED
      BY <3>1, <2>1, <2>2, <2>3 DEF DnssdInv, OneSocketPerAddress
  <2>8. FdInv'
    BY <1>1, <2>1, <2>2, <2>3 DEF DnssdInv, FdInv
  <2>9. SerialInv'
    <3> SUFFICES ASSUME Serial
                 PROVE  /\ \A f \in fds : \E i \in Entries' : msockets'[i].fd = f
                        /\ \A i \in Entries' : SocketInv(i)'
                        /\ \A d \in scene.callers : at[d] \in Entries' =>
                              TestedInv(msockets'[at[d]], pc'[d])
      BY <1>1 DEF SerialInv, Serial, TestedInv
    <3>1. \A d \in scene.callers : d = c
      BY SerialOne
    <3>2. \A i : ~Stays(i, "opened") /\ ~Stays(i, "watched")
      BY <3>1, <1>2 DEF Stays, Stages
    <3>3. \A f \in fds : \E i \in Entries' : msockets'[i].fd = f
      BY <2>2, <2>3 DEF DnssdInv, SerialInv
    <3>4. \A i \in Entries : SocketInv(i)'
      BY <3>2, <2>2 DEF DnssdInv, SerialInv, SocketInv
    <3>5. SocketInv(n)'
      BY <2>1, <2>2 DEF SocketInv
    <3>6. \A s : TestedInv(s, "scan")
      BY DEF TestedInv
    <3> QED
      BY <3>1, <3>3, <3>4, <3>5, <3>6, <2>3, <2>4
  <2> QED
    BY <2>5, <2>6, <2>7, <2>8, <2>9 DEF DnssdInv
<1> QED
  BY <1>3, <1>4 DEF MDNS_socket_add

-----------------------------------------------------------------------------
LEMMA CallerKeeps ==
    ASSUME DnssdInv, NEW c \in scene.callers, Caller(c)
    PROVE  DnssdInv'
<1>1. CASE DNSSD_finish(c)
  BY <1>1, StillKeeps DEF DNSSD_finish, manage, callers, DnssdInv, DnssdTypeOK
<1>2. CASE \E a \in Addrs : Compare(c, a)
  BY <1>2, CompareKeeps
<1>3. CASE DNSSD_init(c) \/ Fill(c) \/ DNSSD_start(c)
  BY <1>3, StartKeeps
<1>4. CASE TestError(c) \/ TestOpen(c)
  BY <1>4, TestKeeps
<1> QED
  BY <1>1, <1>2, <1>3, <1>4, LockKeeps, AddKeeps, UnlockKeeps, SetFlagsKeeps, NextKeeps,
     OpenKeeps, WatchKeeps, SendKeeps DEF Caller

LEMMA ReceiveKeeps ==
    ASSUME DnssdInv, NEW i, Receive(i) \/ RecvError(i) \/ NotServed(i) \/ ServedAgain(i)
    PROVE  DnssdInv'
<1>1. \E from, to \in {"idle", "lock", "recv", "leave", "unserved"} : Reader(i, from, to)
  BY DEF Receive, Readable, RecvLock, RecvUnlock, RecvEmpty, RecvQuery, RecvError, NotServed,
         ServedAgain
<1> QED
  BY <1>1, ReaderKeeps

LEMMA DnssdStep ==
    ASSUME DnssdInv, [DnssdNext]_dnssdvars
    PROVE  DnssdInv'
<1>1. CASE \E c \in scene.callers : Caller(c)
  BY <1>1, CallerKeeps
<1>2. CASE \E i \in 1 .. Cardinality(Addrs) :
              Receive(i) \/ RecvError(i) \/ NotServed(i) \/ ServedAgain(i)
  BY <1>2, ReceiveKeeps
<1>3. CASE \E a \in Addrs : Appear(a)
  BY <1>3, StillKeeps DEF Appear, manage, callers, DnssdInv, DnssdTypeOK
<1>4. CASE \E q \in asked : Respond(q) \/ Lose(q)
  BY <1>4, StillKeeps DEF Respond, Lose, manage, callers, DnssdInv, DnssdTypeOK
<1>5. CASE \E fd \in fds : SendEmpty(fd)
  BY <1>5, StillKeeps DEF SendEmpty, manage, callers, DnssdInv, DnssdTypeOK
<1>6. CASE UNCHANGED dnssdvars
  BY <1>6, StillKeeps DEF dnssdvars, manage, callers, DnssdInv, DnssdTypeOK
<1> QED
  BY <1>1, <1>2, <1>3, <1>4, <1>5, <1>6 DEF DnssdNext

\* What holds between the sockets, the lock of their list and the callers.
THEOREM DnssdInvariant == DnssdSpec => []DnssdInv
<1> QED
  BY DnssdInitInv, DnssdStep, PTL DEF DnssdSpec

\* Sockets are one per address whoever refreshes, and with one thread that calls
\* every open descriptor is that of one socket, and what is watched of a socket in
\* use is what is read of it, or nothing.
THEOREM SocketsOwnedHolds == DnssdSpec => []SocketsOwned
<1>1. ASSUME DnssdInv PROVE SocketsOwned
  <2>1. DOMAIN msockets = Entries
    BY <1>1, SocketFacts
  <2>2. NoFd \notin fds
    BY <1>1 DEF DnssdInv, DnssdTypeOK, NoFd
  <2>3. ASSUME Serial, NEW fd \in fds
        PROVE  Cardinality({i \in DOMAIN msockets : msockets[i].fd = fd}) = 1
    <3>1. PICK j \in Entries : msockets[j].fd = fd
      BY <1>1, <2>3 DEF DnssdInv, SerialInv
    <3>2. {i \in DOMAIN msockets : msockets[i].fd = fd} = {j}
      BY <1>1, <2>1, <2>2, <3>1 DEF DnssdInv, FdInv
    <3> QED
      BY <3>2, FS_Singleton
  <2>4. ASSUME Serial, NEW i \in DOMAIN msockets
        PROVE  /\ "open" \in msockets[i].flags => msockets[i].fd \in fds
               /\ "eventloop" \in msockets[i].flags =>
                     /\ msockets[i].attached
                     /\ msockets[i].watched \in {msockets[i].fd, NoFd}
                     /\ "error" \notin msockets[i].flags
    BY <1>1, <2>1, <2>4 DEF DnssdInv, SerialInv, SocketInv, FdInv
  <2> QED
    BY <1>1, <2>3, <2>4 DEF SocketsOwned, DescriptorsOwned, DnssdInv
<1> QED
  BY <1>1, DnssdInvariant, PTL

-----------------------------------------------------------------------------
(* The names in a record.                                                  *)

\* A set of numbers has a smallest one.
LEMMA Minimum ==
    ASSUME NEW S \in SUBSET Nat, S # {}
    PROVE  \E m \in S : \A k \in S : m <= k
<1> DEFINE R == {ss \in Nat \X Nat : ss[1] < ss[2]}
<1>1. IsWellFoundedOn(R, Nat)
  BY NatLessThanWellFounded, Zenon DEF OpToRel
<1>2. ASSUME NEW a \in Nat, NEW b \in Nat, a < b
      PROVE  <<a, b>> \in R
  BY <1>2
<1> HIDE DEF R
<1>3. PICK m \in S : \A k \in S : ~(<<k, m>> \in R)
  BY <1>1, WFMin, Zenon
<1>4. ASSUME NEW k \in S
      PROVE  m <= k
  <2>1. ~(k < m)
    BY <1>2, <1>3, Zenon
  <2> QED
    BY <2>1
<1> QED
  BY <1>4

\* Induction: the numbers for which something holds are all numbers.
LEMMA AllNumbers ==
    ASSUME NEW S, 0 \in S, \A n \in Nat : n \in S => n + 1 \in S
    PROVE  \A n \in Nat : n \in S
<1> DEFINE Bad == {n \in Nat : n \notin S}
<1> SUFFICES ASSUME Bad # {} PROVE FALSE
  OBVIOUS
<1>1. PICK n \in Bad : \A k \in Bad : n <= k
  <2>1. Bad \in SUBSET Nat
    OBVIOUS
  <2> HIDE DEF Bad
  <2> QED
    BY <2>1, Minimum
<1>2. n \in Nat /\ n # 0 /\ n \notin S
  OBVIOUS
<1>3. n - 1 \in Nat /\ ~(n <= n - 1) /\ n - 1 + 1 = n
  BY <1>2
<1>4. n - 1 \notin Bad
  <2> HIDE DEF Bad
  <2> QED
    BY <1>1, <1>3
<1>5. n - 1 \in S
  BY <1>3, <1>4
<1> QED
  BY <1>2, <1>3, <1>5

\* And one that is bounded a largest.
LEMMA Maximum ==
    ASSUME NEW n \in Nat, NEW S \in SUBSET (0 .. n), S # {}
    PROVE  \E m \in S : \A k \in S : k <= m
<1> DEFINE T == {k \in Nat : \A i \in S : i <= k}
<1>1. n \in T /\ T \in SUBSET Nat
  OBVIOUS
<1>2. PICK m \in T : \A k \in T : m <= k
  <2> HIDE DEF T
  <2> QED
    BY <1>1, Minimum
<1>3. m \in S
  <2> SUFFICES ASSUME m \notin S
               PROVE  FALSE
    OBVIOUS
  <2>1. m \in Nat /\ \A i \in S : i <= m
    BY <1>2
  <2>2. \A i \in S : i \in Nat /\ i # m
    OBVIOUS
  <2>3. PICK j : j \in S
    OBVIOUS
  <2>4. m - 1 \in Nat /\ \A i \in S : i <= m - 1
    BY <2>1, <2>2, <2>3
  <2>5. m - 1 \in T
    BY <2>4
  <2>6. m <= m - 1
    <3> HIDE DEF T
    <3> QED
      BY <1>2, <2>5
  <2> QED
    BY <2>1, <2>6
<1> QED
  BY <1>2, <1>3

\* Induction from the last number to the first.
LEMMA Backwards ==
    ASSUME NEW L \in Nat, NEW S,
           \A i \in 1 .. L : (\A j \in i + 1 .. L : j \in S) => i \in S
    PROVE  \A i \in 1 .. L : i \in S
<1> DEFINE Bad == {i \in 1 .. L : i \notin S}
<1> SUFFICES ASSUME Bad # {} PROVE FALSE
  OBVIOUS
<1>1. PICK n \in Bad : \A k \in Bad : k <= n
  <2>1. Bad \in SUBSET (0 .. L)
    OBVIOUS
  <2> HIDE DEF Bad
  <2> QED
    BY <2>1, Maximum
<1>2. n \in 1 .. L /\ n \notin S
  OBVIOUS
<1>3. ASSUME NEW j \in n + 1 .. L
      PROVE  j \in S
  <2>1. j \in 1 .. L /\ ~(j <= n)
    BY <1>2
  <2>2. j \notin Bad
    <3> HIDE DEF Bad
    <3> QED
      BY <1>1, <2>1
  <2> QED
    BY <2>1, <2>2
<1> QED
  BY <1>2, <1>3

\* The last dot at a place or before it.
IsLastDot(chars, n, d) ==
    /\ d \in 0 .. n
    /\ d > 0 => IsDot(chars[d])
    /\ \A i \in d + 1 .. n : ~IsDot(chars[i])

LEMMA LastDot ==
    ASSUME NEW chars, NEW n \in Nat
    PROVE  IsLastDot(chars, n, FindDotReverse(chars, n))
<1> DEFINE dots == {i \in 1 .. n : IsDot(chars[i])}
<1>1. CASE dots = {}
  BY <1>1 DEF FindDotReverse, IsLastDot
<1>2. CASE dots # {}
  <2>4. \E i \in dots : \A k \in dots : k <= i
    <3>1. dots \in SUBSET (0 .. n)
      OBVIOUS
    <3> HIDE DEF dots
    <3> QED
      BY <1>2, <3>1, Maximum
  <2> DEFINE d == CHOOSE i \in dots : \A k \in dots : k <= i
  <2>5. d \in dots /\ \A k \in dots : k <= d
    <3> HIDE DEF dots
    <3> QED
      BY <2>4
  <2>6. FindDotReverse(chars, n) = d
    BY <1>2 DEF FindDotReverse
  <2> HIDE DEF d
  <2>7. d \in 1 .. n /\ IsDot(chars[d]) /\ \A i \in d + 1 .. n : ~IsDot(chars[i])
    BY <2>5
  <2> QED
    BY <2>6, <2>7 DEF IsLastDot
<1> QED
  BY <1>1, <1>2

LEMMA LastDotUnique ==
    ASSUME NEW chars, NEW n \in Nat, NEW d, NEW e, IsLastDot(chars, n, d), IsLastDot(chars, n, e)
    PROVE  d = e
<1>1. d \in 0 .. n /\ e \in 0 .. n
  BY DEF IsLastDot
<1>2. ~(d < e)
  <2> SUFFICES ASSUME d < e PROVE FALSE
    OBVIOUS
  <2>1. e \in d + 1 .. n /\ e > 0
    BY <1>1
  <2> QED
    BY <2>1 DEF IsLastDot
<1>3. ~(e < d)
  <2> SUFFICES ASSUME e < d PROVE FALSE
    OBVIOUS
  <2>1. d \in e + 1 .. n /\ d > 0
    BY <1>1
  <2> QED
    BY <2>1 DEF IsLastDot
<1> QED
  BY <1>1, <1>2, <1>3

-----------------------------------------------------------------------------
\* The function of ScanBack.
Scanned(before, chars, ctr, index) ==
    LET dot == FindDotReverse(chars, index)
        name == CString(SubSeq(chars, dot + 1, index))
    IN IF ctr = 1 THEN <<name>>
       ELSE IF dot <= 1 \/ before[dot - 1] = NoNames THEN NoNames
       ELSE Append(before[dot - 1], name)

IsScan(f, chars, count, end) ==
    f = [ctr \in 1 .. count |->
            [index \in 0 .. end |-> Scanned(f[ctr - 1], chars, ctr, index)]]

LEMMA ScanExists ==
    ASSUME NEW chars, NEW count \in Nat, NEW end
    PROVE  \E f : IsScan(f, chars, count, end)
<1> DEFINE Row(before, ctr) == [index \in 0 .. end |-> Scanned(before, chars, ctr, index)]
           Good == {k \in Nat : \E f : IsScan(f, chars, k, end)}
<1>0. \A a, b : Row(a, 1) = Row(b, 1)
  BY DEF Scanned
<1>1. 0 \in Good
  <2> DEFINE f == [ctr \in 1 .. 0 |-> 0]
  <2>1. IsScan(f, chars, 0, end)
    BY DEF IsScan
  <2> QED
    BY <2>1
<1>2. ASSUME NEW k \in Nat, k \in Good
      PROVE  k + 1 \in Good
  <2>1. PICK f : IsScan(f, chars, k, end)
    BY <1>2
  <2>2. f = [n \in 1 .. k |-> Row(f[n - 1], n)]
    BY <2>1 DEF IsScan
  <2> DEFINE g == [n \in 1 .. k + 1 |-> IF n = k + 1 THEN Row(f[k], k + 1) ELSE f[n]]
  <2>3. ASSUME NEW n \in 1 .. k + 1
        PROVE  g[n] = Row(g[n - 1], n)
    <3>1. n = 1 \/ g[n - 1] = f[n - 1]
      OBVIOUS
    <3>2. Row(g[n - 1], n) = Row(f[n - 1], n)
      <4>1. CASE n = 1
        BY <1>0, <4>1
      <4>2. CASE g[n - 1] = f[n - 1]
        <5> HIDE DEF Row, g
        <5> QED
          BY <4>2, Zenon
      <4> QED
        BY <3>1, <4>1, <4>2
    <3> HIDE DEF Row
    <3>3. CASE n = k + 1
      <4>1. n - 1 = k
        BY <3>3
      <4> QED
        BY <3>2, <3>3, <4>1
    <3>4. CASE n # k + 1
      <4>1. n \in 1 .. k
        BY <3>4
      <4>2. f[n] = Row(f[n - 1], n)
        BY <2>2, <4>1
      <4>3. g[n] = f[n]
        BY <3>4
      <4> QED
        BY <3>2, <4>2, <4>3
    <3> QED
      BY <3>3, <3>4
  <2>4. g = [n \in 1 .. k + 1 |-> Row(g[n - 1], n)]
    <3> HIDE DEF Row
    <3> QED
      BY <2>3
  <2>5. IsScan(g, chars, k + 1, end)
    BY <2>4, Zenon DEF IsScan
  <2> QED
    BY <2>5
<1> HIDE DEF Good
<1>3. \A k \in Nat : k \in Good
  BY <1>1, <1>2, AllNumbers
<1> QED
  BY <1>3 DEF Good

\* What comes of a text in which the characters are of a set.
Chars(C) == [c : C \cup {Dot, "?", Nul}, escaped : BOOLEAN]

LEMMA OctalDigitsAre ==
    ASSUME NEW text, Len(text) \in Nat, NEW i \in 1 .. Len(text)
    PROVE  /\ OctalDigits(text, i) \in 0 .. Len(text) - i
           /\ \A j \in i .. i + OctalDigits(text, i) - 1 : IsOctal(text[j])
<1> DEFINE most == IF Len(text) - i < 3 THEN Len(text) - i ELSE 3
           ends == {k \in 0 .. most : \A j \in i .. i + k - 1 : IsOctal(text[j])}
<1>1. most \in Nat /\ most <= Len(text) - i
  OBVIOUS
<1>2. ends \in SUBSET (0 .. most) /\ 0 \in ends
  <2> HIDE DEF most
  <2> QED
    BY <1>1
<1>3. OctalDigits(text, i) = CHOOSE k \in ends : \A other \in ends : other <= k
  BY Zenon DEF OctalDigits
<1> HIDE DEF most
<1>4. \E k \in ends : \A other \in ends : other <= k
  <2> HIDE DEF ends
  <2> QED
    BY <1>1, <1>2, Maximum
<1>5. OctalDigits(text, i) \in ends
  <2> HIDE DEF ends
  <2> QED
    BY <1>3, <1>4, Zenon
<1>6. OctalDigits(text, i) \in 0 .. most
  BY <1>2, <1>5
<1>7. \A j \in i .. i + OctalDigits(text, i) - 1 : IsOctal(text[j])
  BY <1>5
<1> HIDE DEF ends
<1> QED
  BY <1>1, <1>6, <1>7

LEMMA DotIsNoDigit == ~IsOctal(Dot) /\ Dot \notin Controls /\ Dot # Nul /\ Dot # Escape
<1>1. Range(Octal) = {"0", "1", "2", "3", "4", "5", "6", "7"}
  <2>1. DOMAIN Octal = 1 .. 8
    BY DEF Octal
  <2>2. \A n \in 1 .. 8 : Octal[n] \in {"0", "1", "2", "3", "4", "5", "6", "7"}
    <3>1. \A n \in 1 .. 8 : n \in {1, 2, 3, 4, 5, 6, 7, 8}
      OBVIOUS
    <3> QED
      BY <3>1 DEF Octal
  <2>3. Octal[1] = "0" /\ Octal[2] = "1" /\ Octal[3] = "2" /\ Octal[4] = "3"
        /\ Octal[5] = "4" /\ Octal[6] = "5" /\ Octal[7] = "6" /\ Octal[8] = "7"
    BY DEF Octal
  <2> HIDE DEF Octal
  <2>4. Range(Octal) = {Octal[n] : n \in 1 .. 8}
    BY <2>1 DEF Range
  <2> QED
    BY <2>2, <2>3, <2>4
<1> QED
  BY <1>1 DEF IsOctal, Dot, Controls, Nul, Escape

\* What comes of a piece is one character or none, and it is a dot that counts
\* only if the piece ends with a dot.
PieceOK(text, i, C) ==
    LET p == Piece(text, i) IN
    /\ p.chars \in Seq(Chars(C)) /\ Len(p.chars) <= 1
    /\ p.read \in 1 .. (Len(text) + 1) - i
    /\ text[i + p.read - 1] = Dot => p.chars = <<Char(Dot, FALSE)>>
    /\ text[i + p.read - 1] # Dot => \A k \in 1 .. Len(p.chars) : ~IsDot(p.chars[k])

LEMMA PieceType ==
    ASSUME NEW C, NEW text \in Seq(C), NEW i \in 1 .. Len(text)
    PROVE  PieceOK(text, i, C)
<1> DEFINE W(s, n) == [chars |-> s, read |-> n]
           p == Piece(text, i)
           digits == OctalDigits(text, i + 1)
           code == Char(Chr(OctalValue(text, i + 1, digits)), TRUE)
<1>1. Len(text) \in Nat /\ text[i] \in C /\ (i # Len(text) => text[i + 1] \in C)
  OBVIOUS
<1>2. \A c \in C : Char(c, FALSE) \in Chars(C) /\ (c # Dot => ~IsDot(Char(c, FALSE)))
  BY DEF Char, Chars, IsDot
<1>3. code \in Chars(C) /\ ~IsDot(code)
  BY DEF Char, Chars, Chr, IsDot
<1>4. \A c \in {"?", Nul} : Char(c, TRUE) \in Chars(C) /\ ~IsDot(Char(c, TRUE))
  BY DEF Char, Chars, IsDot
<1>5. ~IsOctal(Dot) /\ Dot \notin Controls /\ Dot # Nul /\ Dot # Escape
  BY DotIsNoDigit
<1>6. i # Len(text) => /\ digits \in 0 .. Len(text) - (i + 1)
                       /\ digits > 0 => IsOctal(text[i + digits])
  <2> SUFFICES ASSUME i # Len(text)
               PROVE  /\ digits \in 0 .. Len(text) - (i + 1)
                      /\ digits > 0 => IsOctal(text[i + digits])
    OBVIOUS
  <2>1. i + 1 \in 1 .. Len(text)
    OBVIOUS
  <2>2. digits \in 0 .. Len(text) - (i + 1) /\ \A j \in i + 1 .. (i + 1) + digits - 1 : IsOctal(text[j])
    BY <1>1, <2>1, OctalDigitsAre
  <2> HIDE DEF digits
  <2> QED
    BY <2>2
<1>7. \/ text[i] # Escape /\ p = W(<<Char(text[i], FALSE)>>, 1)
      \/ text[i] = Escape /\ p = W(<<>>, 1)
      \/ text[i] = Escape /\ i # Len(text) /\ p = W(<<code>>, 1 + digits)
      \/ i # Len(text) /\ text[i + 1] \in Controls /\ p = W(<<Char("?", TRUE)>>, 2)
      \/ i # Len(text) /\ text[i + 1] = Nul /\ p = W(<<Char(Nul, TRUE)>>, 2)
      \/ i # Len(text) /\ p = W(<<Char(text[i + 1], FALSE)>>, 2)
  BY Zenon DEF Piece
<1> HIDE DEF p, code, Nul, Dot, Escape, Controls
<1>8. ASSUME NEW e \in Chars(C), NEW n \in 1 .. (Len(text) + 1) - i, p = W(<<e>>, n),
             text[i + n - 1] = Dot => e = Char(Dot, FALSE),
             text[i + n - 1] # Dot => ~IsDot(e)
      PROVE  PieceOK(text, i, C)
  <2> DEFINE s == <<e>>
  <2>1. s \in Seq(Chars(C)) /\ Len(s) = 1 /\ \A k \in 1 .. Len(s) : s[k] = e
    OBVIOUS
  <2>2. p.read = n /\ p.chars = s
    BY <1>8
  <2>3. text[i + n - 1] = Dot => s = <<Char(Dot, FALSE)>>
    BY <1>8
  <2>4. text[i + n - 1] # Dot => \A k \in 1 .. Len(s) : ~IsDot(s[k])
    BY <1>8, <2>1
  <2> HIDE DEF s
  <2>5. Len(s) <= 1
    BY <2>1
  <2> QED
    BY <2>1, <2>2, <2>3, <2>4, <2>5, Zenon DEF PieceOK, p
<1>9. ASSUME text[i] = Escape, p = W(<<>>, 1)
      PROVE  PieceOK(text, i, C)
  <2> DEFINE s == <<>>
  <2>1. s \in Seq(Chars(C)) /\ Len(s) <= 1 /\ \A k \in 1 .. Len(s) : FALSE
    OBVIOUS
  <2>2. p.read = 1 /\ p.chars = s
    BY <1>9
  <2>3. 1 \in 1 .. (Len(text) + 1) - i /\ i + 1 - 1 = i
    OBVIOUS
  <2> HIDE DEF s
  <2> QED
    BY <1>5, <1>9, <2>1, <2>2, <2>3, Zenon DEF PieceOK, p
<1>10. 1 \in 1 .. (Len(text) + 1) - i /\ i + 1 - 1 = i /\ i + 2 - 1 = i + 1
  OBVIOUS
<1>11. i # Len(text) => 2 \in 1 .. (Len(text) + 1) - i
  OBVIOUS
<1>12. i # Len(text) => /\ 1 + digits \in 1 .. (Len(text) + 1) - i
                        /\ text[i] = Escape => text[i + (1 + digits) - 1] # Dot
  <2> SUFFICES ASSUME i # Len(text)
               PROVE  /\ 1 + digits \in 1 .. (Len(text) + 1) - i
                      /\ text[i] = Escape => text[i + (1 + digits) - 1] # Dot
    OBVIOUS
  <2>1. digits \in 0 .. Len(text) - (i + 1) /\ (digits > 0 => IsOctal(text[i + digits]))
    BY <1>6
  <2> HIDE DEF digits
  <2>2. 1 + digits \in 1 .. (Len(text) + 1) - i /\ i + (1 + digits) - 1 = i + digits
    BY <2>1
  <2>3. digits = 0 => i + digits = i
    OBVIOUS
  <2>4. digits = 0 \/ digits > 0
    BY <2>1
  <2> QED
    BY <1>5, <2>1, <2>2, <2>3, <2>4
<1> HIDE DEF W, digits
<1>13. CASE text[i] # Escape /\ p = W(<<Char(text[i], FALSE)>>, 1)
  BY <1>1, <1>2, <1>8, <1>10, <1>13
<1>14. CASE text[i] = Escape /\ i # Len(text) /\ p = W(<<code>>, 1 + digits)
  BY <1>3, <1>8, <1>12, <1>14, Zenon
<1>15. CASE i # Len(text) /\ text[i + 1] \in Controls /\ p = W(<<Char("?", TRUE)>>, 2)
  BY <1>4, <1>5, <1>8, <1>10, <1>11, <1>15
<1>16. CASE i # Len(text) /\ text[i + 1] = Nul /\ p = W(<<Char(Nul, TRUE)>>, 2)
  BY <1>4, <1>5, <1>8, <1>10, <1>11, <1>16
<1>17. CASE i # Len(text) /\ p = W(<<Char(text[i + 1], FALSE)>>, 2)
  BY <1>1, <1>2, <1>8, <1>10, <1>11, <1>17
<1> QED
  BY <1>7, <1>9, <1>13, <1>14, <1>15, <1>16, <1>17, Zenon

\* The function of Unescape, from a place on.
IsUnescaped(f, text, first) ==
    f = [i \in first .. Len(text) + 1 |->
            IF i > Len(text) THEN <<>>
            ELSE Piece(text, i).chars \o f[i + Piece(text, i).read]]

LEMMA UnescapedExists ==
    ASSUME NEW C, NEW text \in Seq(C)
    PROVE  \E f : IsUnescaped(f, text, 1)
<1> DEFINE L == Len(text)
           Row(f, i) == IF i > Len(text) THEN <<>>
                        ELSE Piece(text, i).chars \o f[i + Piece(text, i).read]
           Good == {k \in Nat : k <= L => \E f : IsUnescaped(f, text, (L + 1) - k)}
<1>1. L \in Nat
  OBVIOUS
<1>2. \A i \in 1 .. L : i + Piece(text, i).read \in i + 1 .. L + 1
  <2> TAKE i \in 1 .. L
  <2>1. Piece(text, i).read \in 1 .. (L + 1) - i
    BY PieceType DEF PieceOK
  <2> HIDE DEF L
  <2> QED
    BY <1>1, <2>1
<1>3. 0 \in Good
  <2> DEFINE f == [i \in L + 1 .. L + 1 |-> <<>>]
  <2>1. \A i \in L + 1 .. L + 1 : Row(f, i) = <<>>
    BY <1>1
  <2>2. (L + 1) - 0 = L + 1
    BY <1>1
  <2>3. IsUnescaped(f, text, L + 1)
    BY <2>1 DEF IsUnescaped
  <2> HIDE DEF f, L
  <2> QED
    BY <2>2, <2>3
<1>4. ASSUME NEW k \in Nat, k \in Good
      PROVE  k + 1 \in Good
  <2> SUFFICES ASSUME k + 1 <= L
               PROVE  \E f : IsUnescaped(f, text, (L + 1) - (k + 1))
    OBVIOUS
  <2> DEFINE first == (L + 1) - (k + 1)
  <2>1. first \in 1 .. L /\ (L + 1) - k = first + 1
    BY <1>1
  <2>2. PICK f : IsUnescaped(f, text, first + 1)
    BY <1>1, <1>4, <2>1
  <2> DEFINE g == [i \in first .. L + 1 |-> IF i = first THEN Row(f, i) ELSE f[i]]
  <2>3. ASSUME NEW i \in first .. L + 1
        PROVE  g[i] = Row(g, i)
    <3>1. i \in Nat /\ i \in 1 .. L + 1
      BY <2>1
    <3>2. i <= L => g[i + Piece(text, i).read] = f[i + Piece(text, i).read]
      <4> SUFFICES ASSUME i <= L PROVE g[i + Piece(text, i).read] = f[i + Piece(text, i).read]
        OBVIOUS
      <4> DEFINE next == i + Piece(text, i).read
      <4>1. next \in i + 1 .. L + 1
        BY <1>2, <3>1
      <4> HIDE DEF next, first, L
      <4>2. next \in first .. L + 1 /\ next # first
        BY <1>1, <2>1, <4>1
      <4>3. g[next] = f[next]
        BY <4>2
      <4> QED
        BY <4>3 DEF next
    <3>3. Row(g, i) = Row(f, i)
      <4>1. i <= L \/ i > L
        BY <1>1, <3>1
      <4> HIDE DEF g
      <4> QED
        BY <3>2, <4>1
    <3>4. g[i] = Row(f, i)
      <4> HIDE DEF Row
      <4>1. CASE i = first
        BY <4>1
      <4>2. CASE i # first
        <5>1. i \in first + 1 .. L + 1
          BY <1>1, <2>1, <4>2
        <5>2. f[i] = Row(f, i)
          BY <2>2, <5>1, Zenon DEF IsUnescaped, Row
        <5> QED
          BY <4>2, <5>2
      <4> QED
        BY <4>1, <4>2
    <3> HIDE DEF g, Row
    <3> QED
      BY <3>3, <3>4
  <2>4. g = [i \in first .. L + 1 |-> Row(g, i)]
    <3> HIDE DEF Row, first, L
    <3> QED
      BY <2>3
  <2>5. IsUnescaped(g, text, first)
    BY <2>4, Zenon DEF IsUnescaped
  <2> QED
    BY <2>5
<1> HIDE DEF Good
<1>5. \A k \in Nat : k \in Good
  BY <1>3, <1>4, AllNumbers
<1>6. (L + 1) - L = 1 /\ L <= L /\ L \in Good
  BY <1>1, <1>5
<1> QED
  BY <1>6 DEF Good

From(text) == CHOOSE f : IsUnescaped(f, text, 1)

LEMMA FromRows ==
    ASSUME NEW C, NEW text \in Seq(C)
    PROVE  /\ Unescape(text) = From(text)[1]
           /\ From(text)[Len(text) + 1] = <<>>
           /\ \A i \in 1 .. Len(text) :
                 From(text)[i] = Piece(text, i).chars \o From(text)[i + Piece(text, i).read]
<1>1. Unescape(text) = From(text)[1]
  BY Zenon DEF Unescape, IsUnescaped, From
<1>2. IsUnescaped(From(text), text, 1)
  BY UnescapedExists, Zenon DEF From
<1>3. \A i \in 1 .. Len(text) + 1 :
         From(text)[i] = IF i > Len(text) THEN <<>>
                         ELSE Piece(text, i).chars \o From(text)[i + Piece(text, i).read]
  BY <1>2, Zenon DEF IsUnescaped
<1>4. /\ Len(text) + 1 \in 1 .. Len(text) + 1 /\ Len(text) + 1 > Len(text)
      /\ \A i \in 1 .. Len(text) : i \in 1 .. Len(text) + 1 /\ ~(i > Len(text))
  OBVIOUS
<1> QED
  BY <1>1, <1>3, <1>4, Zenon

LEMMA UnescapeType ==
    ASSUME NEW C, NEW text \in Seq(C)
    PROVE  \A i \in 1 .. Len(text) + 1 : From(text)[i] \in Seq(Chars(C))
<1> DEFINE L == Len(text)
           Good == {i \in 1 .. L + 1 : From(text)[i] \in Seq(Chars(C))}
<1>1. ASSUME NEW i \in 1 .. L + 1, \A j \in i + 1 .. L + 1 : j \in Good
      PROVE  i \in Good
  <2>1. CASE i = L + 1
    <3>1. <<>> \in Seq(Chars(C))
      OBVIOUS
    <3> QED
      BY <2>1, <3>1, FromRows
  <2>2. CASE i # L + 1
    <3>1. i \in 1 .. L
      BY <2>2
    <3> DEFINE next == i + Piece(text, i).read
    <3>2. Piece(text, i).chars \in Seq(Chars(C)) /\ Piece(text, i).read \in 1 .. (L + 1) - i
      BY <3>1, PieceType DEF PieceOK
    <3>3. next \in i + 1 .. L + 1
      <4> DEFINE n == Piece(text, i).read
      <4>1. n \in 1 .. (L + 1) - i /\ L \in Nat
        BY <3>2
      <4> HIDE DEF n, L
      <4> QED
        BY <3>1, <4>1 DEF n
    <3>4. From(text)[next] \in Seq(Chars(C))
      BY <1>1, <3>3
    <3>5. From(text)[i] = Piece(text, i).chars \o From(text)[next]
      BY <3>1, FromRows
    <3> DEFINE x == Piece(text, i).chars
               y == From(text)[next]
               S == Seq(Chars(C))
    <3>6. x \o y \in S
      <4>1. x \in S /\ y \in S
        BY <3>2, <3>4
      <4> HIDE DEF x, y
      <4> QED
        BY <4>1
    <3> HIDE DEF next
    <3> QED
      BY <3>5, <3>6
  <2> QED
    BY <2>1, <2>2
<1> HIDE DEF Good
<1>2. L + 1 \in Nat
  OBVIOUS
<1> HIDE DEF L
<1>3. \A i \in 1 .. L + 1 : i \in Good
  BY <1>1, <1>2, Backwards
<1> QED
  BY <1>3 DEF Good, L


\* The dots that count come where the dots of the text are: at the end when the text
\* ends with one, and nowhere else when there are no others.
DotsOK(text, i) ==
    LET x == From(text)[i] IN
    /\ i <= Len(text) /\ text[Len(text)] = Dot => Len(x) > 0 /\ IsDot(x[Len(x)])
    /\ (\A j \in i .. Len(text) - 1 : text[j] # Dot) => \A k \in 1 .. Len(x) - 1 : ~IsDot(x[k])
    /\ (\A j \in i .. Len(text) : text[j] # Dot) => \A k \in 1 .. Len(x) : ~IsDot(x[k])

LEMMA DotsOf ==
    ASSUME NEW C, NEW text \in Seq(C)
    PROVE  \A i \in 1 .. Len(text) + 1 : DotsOK(text, i)
<1> DEFINE L == Len(text)
           Good == {i \in 1 .. L + 1 : DotsOK(text, i)}
<1>1. ASSUME NEW i \in 1 .. L + 1, \A j \in i + 1 .. L + 1 : j \in Good
      PROVE  i \in Good
  <2>1. CASE i = L + 1
    <3>0. From(text)[Len(text) + 1] = <<>>
      BY FromRows
    <3>1. From(text)[i] = <<>> /\ ~(i <= Len(text)) /\ Len(<<>>) = 0
      BY <2>1, <3>0
    <3>2. DotsOK(text, i)
      BY <3>1 DEF DotsOK
    <3> QED
      BY <3>2
  <2>2. CASE i # L + 1
    <3>0. i \in 1 .. L /\ L \in Nat
      BY <2>2
    <3> DEFINE p == Piece(text, i).chars
               n == Piece(text, i).read
               y == From(text)[i + n]
               x == From(text)[i]
               S == Chars(C)
    <3>1. /\ p \in Seq(S) /\ Len(p) <= 1 /\ n \in 1 .. (L + 1) - i
          /\ text[i + n - 1] = Dot => p = <<Char(Dot, FALSE)>>
          /\ text[i + n - 1] # Dot => \A k \in 1 .. Len(p) : ~IsDot(p[k])
      BY <3>0, PieceType DEF PieceOK
    <3>2. x = p \o y
      BY <3>0, FromRows
    <3>3. i + n \in i + 1 .. L + 1 /\ i + n \in 1 .. L + 1 /\ i + n - 1 \in i .. L
      <4> HIDE DEF n, L
      <4> QED
        BY <3>0, <3>1
    <3>4. y \in Seq(S) /\ DotsOK(text, i + n)
      <4>1. i + n \in Good
        BY <1>1, <3>3
      <4>2. \A j \in 1 .. L + 1 : From(text)[j] \in Seq(S)
        BY UnescapeType
      <4> QED
        BY <3>3, <4>1, <4>2
    <3>5. /\ i + n <= L /\ text[L] = Dot => Len(y) > 0 /\ IsDot(y[Len(y)])
          /\ (\A j \in i + n .. L - 1 : text[j] # Dot) => \A k \in 1 .. Len(y) - 1 : ~IsDot(y[k])
          /\ (\A j \in i + n .. L : text[j] # Dot) => \A k \in 1 .. Len(y) : ~IsDot(y[k])
      BY <3>4, Zenon DEF DotsOK
    <3>6. i + n = L + 1 => y = <<>>
      BY FromRows
    <3> HIDE DEF p, y, n, x, S, L
    <3>7. /\ Len(x) = Len(p) + Len(y) /\ Len(p) \in Nat /\ Len(y) \in Nat
          /\ \A k \in 1 .. Len(p) : x[k] = p[k]
          /\ \A k \in 1 .. Len(y) : x[Len(p) + k] = y[k]
      BY <3>1, <3>2, <3>4
    <3>8. CASE i + n = L + 1
      <4>1. Len(x) = Len(p) /\ i + n - 1 = L
        <5>1. n \in Int /\ i \in Int
          BY <3>0, <3>1
        <5>2. y = <<>> /\ Len(<<>>) = 0
          BY <3>6, <3>8
        <5>3. Len(y) = 0
          BY <5>2
        <5> QED
          BY <3>0, <3>7, <3>8, <5>1, <5>3
      <4>2. text[L] = Dot => Len(x) > 0 /\ IsDot(x[Len(x)])
        <5> SUFFICES ASSUME text[L] = Dot
                     PROVE  Len(x) > 0 /\ IsDot(x[Len(x)])
          OBVIOUS
        <5>1. p = <<Char(Dot, FALSE)>>
          BY <3>1, <4>1
        <5>2. Len(p) = 1 /\ p[1] = Char(Dot, FALSE)
          BY <5>1
        <5>3. x[1] = p[1]
          <6>1. 1 \in 1 .. Len(p)
            BY <5>2
          <6> QED
            BY <3>7, <6>1
        <5> QED
          BY <4>1, <5>2, <5>3 DEF IsDot
      <4>3. \A k \in 1 .. Len(x) - 1 : FALSE
        BY <3>1, <3>7, <4>1
      <4>4. text[L] # Dot => \A k \in 1 .. Len(x) : ~IsDot(x[k])
        BY <3>1, <3>7, <4>1
      <4>5. L \in i .. L
        BY <3>0
      <4>6. DotsOK(text, i)
        BY <4>2, <4>3, <4>4, <4>5 DEF DotsOK, x, L
      <4> QED
        BY <3>0, <4>6 DEF L
    <3>9. CASE i + n # L + 1
      <4>1. i + n <= L /\ i + n - 1 \in i .. L - 1
        BY <3>0, <3>1, <3>3, <3>9
      <4>2. text[L] = Dot => Len(x) > 0 /\ IsDot(x[Len(x)])
        <5> SUFFICES ASSUME text[L] = Dot
                     PROVE  Len(x) > 0 /\ IsDot(x[Len(x)])
          OBVIOUS
        <5>1. Len(y) > 0 /\ IsDot(y[Len(y)])
          BY <3>5, <4>1
        <5>2. x[Len(p) + Len(y)] = y[Len(y)]
          BY <3>7, <5>1
        <5> QED
          BY <3>7, <5>1, <5>2
      <4>3. ASSUME \A j \in i .. L - 1 : text[j] # Dot
            PROVE  \A k \in 1 .. Len(x) - 1 : ~IsDot(x[k])
        <5>1. \A k \in 1 .. Len(p) : ~IsDot(p[k])
          BY <3>1, <4>1, <4>3
        <5>2. \A j \in i + n .. L - 1 : text[j] # Dot
          BY <3>0, <3>1, <4>3
        <5>3. \A k \in 1 .. Len(y) - 1 : ~IsDot(y[k])
          BY <3>5, <5>2
        <5> TAKE k \in 1 .. Len(x) - 1
        <5>4. CASE k <= Len(p)
          <6>1. k \in 1 .. Len(p)
            BY <3>7, <5>4
          <6> QED
            BY <3>7, <5>1, <6>1
        <5>5. CASE ~(k <= Len(p))
          <6>1. k - Len(p) \in 1 .. Len(y) - 1 /\ k - Len(p) \in 1 .. Len(y)
            BY <3>7, <5>5
          <6>2. Len(p) + (k - Len(p)) = k
            BY <3>7
          <6> QED
            BY <3>7, <5>3, <6>1, <6>2
        <5> QED
          BY <5>4, <5>5
      <4>4. ASSUME \A j \in i .. L : text[j] # Dot
            PROVE  \A k \in 1 .. Len(x) : ~IsDot(x[k])
        <5>1. \A k \in 1 .. Len(p) : ~IsDot(p[k])
          BY <3>1, <3>3, <4>4
        <5>2. \A j \in i + n .. L : text[j] # Dot
          BY <3>0, <3>1, <4>4
        <5>3. \A k \in 1 .. Len(y) : ~IsDot(y[k])
          BY <3>5, <5>2
        <5> TAKE k \in 1 .. Len(x)
        <5>4. CASE k <= Len(p)
          <6>1. k \in 1 .. Len(p)
            BY <3>7, <5>4
          <6> QED
            BY <3>7, <5>1, <6>1
        <5>5. CASE ~(k <= Len(p))
          <6>1. k - Len(p) \in 1 .. Len(y)
            BY <3>7, <5>5
          <6>2. Len(p) + (k - Len(p)) = k
            BY <3>7
          <6> QED
            BY <3>7, <5>3, <6>1, <6>2
        <5> QED
          BY <5>4, <5>5
      <4>5. DotsOK(text, i)
        BY <4>2, <4>3, <4>4 DEF DotsOK, x, L
      <4> QED
        BY <3>0, <4>5 DEF L
    <3> QED
      BY <3>8, <3>9
  <2> QED
    BY <2>1, <2>2
<1> HIDE DEF Good
<1>2. L + 1 \in Nat
  OBVIOUS
<1> HIDE DEF L
<1>3. \A i \in 1 .. L + 1 : i \in Good
  BY <1>1, <1>2, Backwards
<1> QED
  BY <1>3 DEF Good, L

-----------------------------------------------------------------------------
\* What comes of a part of a text that ends with a dot is the same in that part.
LEMMA PartFacts ==
    ASSUME NEW C, NEW text \in Seq(C), NEW a \in Nat, NEW b \in 1 .. Len(text), a < b
    PROVE  /\ SubSeq(text, a + 1, b) \in Seq(C) /\ Len(SubSeq(text, a + 1, b)) = b - a
           /\ \A i \in 1 .. b - a : SubSeq(text, a + 1, b)[i] = text[a + i]
<1>1. \A i \in a + 1 .. b : text[i] \in C
  OBVIOUS
<1>2. a + 1 \in Int /\ b \in Int
  OBVIOUS
<1>3. /\ SubSeq(text, a + 1, b) \in Seq(C)
      /\ Len(SubSeq(text, a + 1, b)) = IF a + 1 <= b THEN b - (a + 1) + 1 ELSE 0
      /\ \A i \in 1 .. b - (a + 1) + 1 : SubSeq(text, a + 1, b)[i] = text[(a + 1) + i - 1]
  BY <1>1, <1>2, SubSeqProperties
<1>4. a + 1 <= b /\ b - (a + 1) + 1 = b - a /\ \A i \in 1 .. b - a : (a + 1) + i - 1 = a + i
  OBVIOUS
<1> QED
  BY <1>3, <1>4

LEMMA SubSeqOf ==
    ASSUME NEW S, NEW s, NEW m \in Int, NEW n \in Nat, \A j \in m .. m + n - 1 : s[j] \in S
    PROVE  /\ SubSeq(s, m, m + n - 1) \in Seq(S) /\ Len(SubSeq(s, m, m + n - 1)) = n
           /\ \A j \in 1 .. n : SubSeq(s, m, m + n - 1)[j] = s[m + j - 1]
<1> DEFINE x == SubSeq(s, m, m + n - 1)
           e == m + n - 1
<1>1. e \in Int /\ e - m + 1 = n /\ (m <= e <=> n > 0)
  OBVIOUS
<1>2. x = SubSeq(s, m, e) /\ \A j \in m .. e : s[j] \in S
  OBVIOUS
<1> HIDE DEF e
<1>3. /\ x \in Seq(S) /\ Len(x) = IF m <= e THEN e - m + 1 ELSE 0
      /\ \A j \in 1 .. e - m + 1 : x[j] = s[m + j - 1]
  BY <1>1, <1>2, SubSeqProperties
<1> HIDE DEF x
<1>4. x \in Seq(S) /\ Len(x) = n /\ \A j \in 1 .. n : x[j] = s[m + j - 1]
  BY <1>1, <1>3
<1> QED
  BY <1>4 DEF x

LEMMA OctalWithin ==
    ASSUME NEW C, NEW text \in Seq(C), NEW a \in Nat, NEW b \in 1 .. Len(text), a < b,
           ~IsOctal(text[b]), NEW i \in 1 .. b - a
    PROVE  /\ OctalDigits(SubSeq(text, a + 1, b), i) = OctalDigits(text, a + i)
           /\ OctalValue(SubSeq(text, a + 1, b), i, OctalDigits(text, a + i))
                 = OctalValue(text, a + i, OctalDigits(text, a + i))
<1> DEFINE s == SubSeq(text, a + 1, b)
           mosts == IF Len(s) - i < 3 THEN Len(s) - i ELSE 3
           most == IF Len(text) - (a + i) < 3 THEN Len(text) - (a + i) ELSE 3
           ends == {k \in 0 .. mosts : \A j \in i .. i + k - 1 : IsOctal(s[j])}
           endt == {k \in 0 .. most : \A j \in a + i .. (a + i) + k - 1 : IsOctal(text[j])}
<1>1. s \in Seq(C) /\ Len(s) = b - a /\ \A j \in 1 .. b - a : s[j] = text[a + j]
  BY PartFacts
<1>2. Len(text) \in Nat /\ b <= Len(text)
  OBVIOUS
<1> HIDE DEF s
<1>3. /\ mosts \in Nat /\ mosts <= most /\ i + mosts <= b - a
      /\ \A k \in 0 .. most : k <= mosts \/ (a + i) + k > b
  BY <1>1, <1>2
<1> HIDE DEF mosts, most
<1>4. ends = endt
  <2>1. ASSUME NEW k \in ends PROVE k \in endt
    <3>1. k \in 0 .. mosts /\ \A j \in i .. i + k - 1 : IsOctal(s[j])
      BY <2>1
    <3>2. k \in 0 .. most
      <4>1. most \in Int
        BY <1>2 DEF most
      <4> QED
        BY <1>3, <3>1, <4>1
    <3>3. ASSUME NEW j \in a + i .. (a + i) + k - 1
          PROVE  IsOctal(text[j])
      <4>1. j - a \in i .. i + k - 1 /\ j - a \in 1 .. b - a /\ a + (j - a) = j
        BY <1>3, <3>1
      <4> QED
        BY <1>1, <3>1, <4>1
    <3> QED
      BY <3>2, <3>3
  <2>2. ASSUME NEW k \in endt PROVE k \in ends
    <3>1. k \in 0 .. most /\ \A j \in a + i .. (a + i) + k - 1 : IsOctal(text[j])
      BY <2>2
    <3>2. most \in Int
      BY <1>2 DEF most
    <3>3. k \in Nat
      BY <3>1, <3>2
    <3>4. k <= mosts
      <4> SUFFICES ASSUME ~(k <= mosts) PROVE FALSE
        OBVIOUS
      <4>1. b \in a + i .. (a + i) + k - 1
        BY <1>3, <3>1, <3>3
      <4> QED
        BY <3>1, <4>1
    <3>5. ASSUME NEW j \in i .. i + k - 1
          PROVE  IsOctal(s[j])
      <4>1. a + j \in a + i .. (a + i) + k - 1 /\ j \in 1 .. b - a
        BY <1>3, <3>3, <3>4
      <4> QED
        BY <1>1, <3>1, <4>1
    <3> QED
      BY <1>3, <3>3, <3>4, <3>5
  <2> HIDE DEF ends, endt
  <2> QED
    BY <2>1, <2>2
<1>5. OctalDigits(s, i) = CHOOSE k \in ends : \A other \in ends : other <= k
  BY Zenon DEF OctalDigits, mosts
<1>6. OctalDigits(text, a + i) = CHOOSE k \in endt : \A other \in endt : other <= k
  BY Zenon DEF OctalDigits, most
<1> HIDE DEF ends, endt
<1>7. OctalDigits(s, i) = OctalDigits(text, a + i)
  BY <1>4, <1>5, <1>6, Zenon
<1>8. OctalDigits(s, i) \in 0 .. (b - a) - i
  <2>1. Len(s) \in Nat /\ i \in 1 .. Len(s)
    BY <1>1
  <2>2. OctalDigits(s, i) \in 0 .. Len(s) - i
    BY <2>1, OctalDigitsAre
  <2> QED
    BY <1>1, <2>2
<1> DEFINE n == OctalDigits(text, a + i)
<1>9. n \in 0 .. (b - a) - i
  BY <1>7, <1>8
<1> HIDE DEF n
<1>10. SubSeq(s, i, i + n - 1) = SubSeq(text, a + i, (a + i) + n - 1)
  <2> DEFINE x == SubSeq(s, i, i + n - 1)
             y == SubSeq(text, a + i, (a + i) + n - 1)
  <2>1. \A j \in i .. i + n - 1 : s[j] \in C
    BY <1>1, <1>9
  <2>2. \A j \in a + i .. (a + i) + n - 1 : text[j] \in C
    BY <1>2, <1>9
  <2>3. i \in Int /\ a + i \in Int /\ n \in Nat
    BY <1>9
  <2>4. /\ x \in Seq(C) /\ Len(x) = n /\ \A j \in 1 .. n : x[j] = s[i + j - 1]
    BY <2>1, <2>3, SubSeqOf
  <2>5. /\ y \in Seq(C) /\ Len(y) = n /\ \A j \in 1 .. n : y[j] = text[(a + i) + j - 1]
    BY <2>2, <2>3, SubSeqOf
  <2>6. ASSUME NEW j \in 1 .. n
        PROVE  s[i + j - 1] = text[(a + i) + j - 1]
    <3>1. i + j - 1 \in 1 .. b - a /\ a + (i + j - 1) = (a + i) + j - 1
      BY <1>9
    <3> QED
      BY <1>1, <3>1
  <2> HIDE DEF x, y
  <2>7. x = y
    BY <2>4, <2>5, <2>6, SeqEqual
  <2> QED
    BY <2>7 DEF x, y
<1>11. OctalValue(s, i, n) = OctalValue(text, a + i, n)
  BY <1>10, Zenon DEF OctalValue
<1> QED
  BY <1>7, <1>11 DEF s, n

LEMMA PieceWithin ==
    ASSUME NEW C, NEW text \in Seq(C), NEW a \in Nat, NEW b \in 1 .. Len(text), a < b,
           text[b] = Dot, NEW i \in 1 .. b - a
    PROVE  Piece(SubSeq(text, a + 1, b), i) = Piece(text, a + i)
<1> DEFINE s == SubSeq(text, a + 1, b)
<1>1. s \in Seq(C) /\ Len(s) = b - a /\ \A j \in 1 .. b - a : s[j] = text[a + j]
  BY PartFacts
<1>2. ~IsOctal(Dot) /\ Dot # Escape
  BY DotIsNoDigit
<1> SUFFICES Piece(s, i) = Piece(text, a + i)
  OBVIOUS
<1> HIDE DEF s
<1>3. s[i] = text[a + i]
  BY <1>1
<1>4. CASE text[a + i] # Escape
  BY <1>3, <1>4 DEF Piece
<1>5. CASE text[a + i] = Escape
  <2>1. i # b - a /\ a + i # Len(text) /\ i + 1 \in 1 .. b - a /\ a + (i + 1) = (a + i) + 1
    <3>1. i # b - a
      <4> SUFFICES ASSUME i = b - a PROVE FALSE
        OBVIOUS
      <4>1. a + i = b
        OBVIOUS
      <4> QED
        BY <1>2, <1>5, <4>1
    <3> QED
      BY <3>1
  <2>2. i # Len(s) /\ s[i + 1] = text[(a + i) + 1]
    BY <1>1, <2>1
  <2> DEFINE digits == OctalDigits(s, i + 1)
             digitt == OctalDigits(text, (a + i) + 1)
  <2>3. digits = digitt /\ OctalValue(s, i + 1, digits) = OctalValue(text, (a + i) + 1, digitt)
    <3>1. /\ OctalDigits(s, i + 1) = OctalDigits(text, a + (i + 1))
          /\ OctalValue(s, i + 1, OctalDigits(text, a + (i + 1)))
                = OctalValue(text, a + (i + 1), OctalDigits(text, a + (i + 1)))
      BY <1>2, <2>1, OctalWithin DEF s
    <3> QED
      BY <2>1, <3>1
  <2> HIDE DEF digits, digitt
  <2> DEFINE R(c, code, n) ==
           IF IsOctal(c) THEN [chars |-> <<Char(Chr(code), TRUE)>>, read |-> 1 + n]
           ELSE IF c \in Controls THEN [chars |-> <<Char("?", TRUE)>>, read |-> 2]
           ELSE IF c = Nul THEN [chars |-> <<Char(Nul, TRUE)>>, read |-> 2]
           ELSE [chars |-> <<Char(c, FALSE)>>, read |-> 2]
  <2>4. Piece(s, i) = R(s[i + 1], OctalValue(s, i + 1, digits), digits)
    BY <1>3, <1>5, <2>2, Zenon DEF Piece, digits
  <2>5. Piece(text, a + i) = R(text[(a + i) + 1], OctalValue(text, (a + i) + 1, digitt), digitt)
    BY <1>5, <2>1, Zenon DEF Piece, digitt
  <2> HIDE DEF R
  <2> QED
    BY <2>2, <2>3, <2>4, <2>5
<1> QED
  BY <1>4, <1>5

LEMMA FromWithin ==
    ASSUME NEW C, NEW text \in Seq(C), NEW a \in Nat, NEW b \in 1 .. Len(text), a < b,
           text[b] = Dot
    PROVE  From(text)[a + 1] = Unescape(SubSeq(text, a + 1, b)) \o From(text)[b + 1]
<1> DEFINE s == SubSeq(text, a + 1, b)
           L == b - a
           y == From(text)[b + 1]
           S == Chars(C)
           Good == {i \in 1 .. L + 1 : From(text)[a + i] = From(s)[i] \o y}
<1>1. s \in Seq(C) /\ Len(s) = L /\ L \in Nat \ {0}
  BY PartFacts
<1>2. \A i \in 1 .. L : Piece(s, i) = Piece(text, a + i)
  BY PieceWithin
<1> HIDE DEF s
<1>3. Unescape(s) = From(s)[1] /\ From(s)[L + 1] = <<>>
  BY <1>1, FromRows
<1>4. \A i \in 1 .. L + 1 : From(s)[i] \in Seq(S)
  <2>1. \A i \in 1 .. Len(s) + 1 : From(s)[i] \in Seq(S)
    BY <1>1, UnescapeType
  <2> QED
    BY <1>1, <2>1
<1>5. y \in Seq(S)
  <2>1. b + 1 \in 1 .. Len(text) + 1
    OBVIOUS
  <2> QED
    BY <2>1, UnescapeType
<1> HIDE DEF S, y
<1>6. ASSUME NEW i \in 1 .. L + 1, \A j \in i + 1 .. L + 1 : j \in Good
      PROVE  i \in Good
  <2>1. CASE i = L + 1
    <3>1. a + i = b + 1
      BY <2>1
    <3>2. <<>> \o y = y
      BY <1>5, ConcatEmptySeq
    <3>3. From(text)[a + i] = y
      BY <3>1 DEF y
    <3>4. From(s)[i] = <<>>
      BY <1>3, <2>1
    <3> QED
      BY <3>2, <3>3, <3>4
  <2>2. CASE i # L + 1
    <3>0. i \in 1 .. L /\ i \in 1 .. Len(s)
      BY <1>1, <2>2
    <3> DEFINE p == Piece(s, i).chars
               n == Piece(s, i).read
    <3>1. p \in Seq(S) /\ n \in 1 .. (L + 1) - i
      BY <1>1, <3>0, PieceType DEF PieceOK, S
    <3>2. From(s)[i] = p \o From(s)[i + n]
      BY <1>1, <3>0, FromRows
    <3>3. From(text)[a + i] = p \o From(text)[a + i + n]
      <4>1. a + i \in 1 .. Len(text)
        BY <3>0
      <4>2. From(text)[a + i] = Piece(text, a + i).chars \o From(text)[(a + i) + Piece(text, a + i).read]
        BY <4>1, FromRows
      <4> QED
        BY <1>2, <3>0, <4>2, Zenon
    <3> HIDE DEF p, n, L
    <3>4. i + n \in i + 1 .. L + 1 /\ i + n \in 1 .. L + 1 /\ a + (i + n) = a + i + n
      BY <1>1, <3>0, <3>1
    <3>5. From(text)[a + i + n] = From(s)[i + n] \o y
      BY <1>6, <3>4
    <3>6. (p \o From(s)[i + n]) \o y = p \o (From(s)[i + n] \o y)
      <4> DEFINE q == From(s)[i + n]
      <4>1. q \in Seq(S) /\ p \in Seq(S)
        BY <1>4, <3>1, <3>4
      <4> HIDE DEF q
      <4>2. (p \o q) \o y = p \o (q \o y)
        BY <1>5, <4>1, ConcatAssociative
      <4> QED
        BY <4>2 DEF q
    <3>7. From(text)[a + i] = From(s)[i] \o y
      BY <3>2, <3>3, <3>5, <3>6
    <3> QED
      BY <3>7
  <2> QED
    BY <2>1, <2>2
<1> HIDE DEF Good, L
<1>7. \A i \in 1 .. L + 1 : i \in Good
  <2>1. L + 1 \in Nat
    BY <1>1
  <2> QED
    BY <1>6, <2>1, Backwards
<1>8. 1 \in Good
  BY <1>1, <1>7
<1> QED
  BY <1>3, <1>8 DEF Good, s, y

\* How many characters come of a text up to a place.
At(text, d) == Len(Unescape(SubSeq(text, 1, d)))

\* All that comes of a text is what comes up to a dot and what comes behind it.
DividesAt(text, d) ==
    LET chars == Unescape(text)
        rest == From(text)[d + 1]
    IN /\ At(text, d) \in Nat /\ Len(chars) = At(text, d) + Len(rest)
       /\ \A k \in 1 .. Len(rest) : chars[At(text, d) + k] = rest[k]
       /\ d = 0 => At(text, d) = 0
       /\ d > 0 => At(text, d) > 0 /\ IsDot(chars[At(text, d)])

LEMMA Divided ==
    ASSUME NEW C, NEW text \in Seq(C), NEW d \in {0} \cup Dots(text)
    PROVE  DividesAt(text, d)
<1> DEFINE S == Chars(C)
           chars == Unescape(text)
           front == Unescape(SubSeq(text, 1, d))
           rest == From(text)[d + 1]
<1>1. d \in 0 .. Len(text) /\ (d > 0 => text[d] = Dot) /\ Len(text) \in Nat
  BY DEF Dots
<1>2. chars \in Seq(S) /\ rest \in Seq(S) /\ chars = From(text)[1]
  <2>1. 1 \in 1 .. Len(text) + 1 /\ d + 1 \in 1 .. Len(text) + 1
    BY <1>1
  <2> QED
    BY <2>1, UnescapeType, FromRows
<1>3. CASE d = 0
  <2>1. SubSeq(text, 1, 0) = <<>> /\ <<>> \in Seq(C) /\ Len(<<>>) = 0 /\ 0 + 1 = 1
    OBVIOUS
  <2> DEFINE none == <<>>
  <2>2. none \in Seq(C) /\ Len(none) = 0
    OBVIOUS
  <2>3. Unescape(none) = From(none)[1] /\ From(none)[Len(none) + 1] = <<>>
    <3> HIDE DEF none
    <3> QED
      BY <2>2, FromRows
  <2>4. Unescape(none) = <<>>
    BY <2>1, <2>2, <2>3
  <2>5. At(text, d) = 0
    BY <1>3, <2>1, <2>4 DEF At
  <2>6. rest = chars
    BY <1>2, <1>3, <2>1
  <2> HIDE DEF rest, chars
  <2>7. /\ At(text, d) \in Nat /\ Len(chars) = At(text, d) + Len(rest)
        /\ \A k \in 1 .. Len(rest) : chars[At(text, d) + k] = rest[k]
    BY <1>2, <2>5, <2>6
  <2> QED
    BY <1>3, <2>5, <2>7 DEF DividesAt, rest, chars
<1>4. CASE d # 0
  <2>1. d \in 1 .. Len(text) /\ text[d] = Dot /\ 0 < d /\ 0 \in Nat /\ 0 + 1 = 1 /\ d - 0 = d
    BY <1>1, <1>4
  <2>2. From(text)[0 + 1] = Unescape(SubSeq(text, 0 + 1, d)) \o From(text)[d + 1]
    BY <2>1, FromWithin
  <2>3. chars = front \o rest
    BY <1>2, <2>1, <2>2
  <2> DEFINE part == SubSeq(text, 1, d)
  <2>4. part \in Seq(C) /\ Len(part) = d /\ part[d] = text[d]
    <3>1. /\ SubSeq(text, 0 + 1, d) \in Seq(C) /\ Len(SubSeq(text, 0 + 1, d)) = d - 0
          /\ \A i \in 1 .. d - 0 : SubSeq(text, 0 + 1, d)[i] = text[0 + i]
      BY <2>1, PartFacts
    <3>2. d \in 1 .. d - 0 /\ 0 + d = d
      BY <2>1
    <3> HIDE DEF part
    <3>3. part \in Seq(C) /\ Len(part) = d - 0 /\ \A i \in 1 .. d - 0 : part[i] = text[0 + i]
      BY <2>1, <3>1 DEF part
    <3> QED
      BY <2>1, <3>2, <3>3
  <2> HIDE DEF part
  <2>5. front = From(part)[1] /\ front \in Seq(S) /\ DotsOK(part, 1)
    <3>1. 1 \in 1 .. Len(part) + 1
      BY <2>1, <2>4
    <3>2. From(part)[1] \in Seq(S) /\ DotsOK(part, 1)
      BY <2>4, <3>1, UnescapeType, DotsOf
    <3>3. Unescape(part) = From(part)[1]
      BY <2>4, FromRows
    <3> QED
      BY <3>2, <3>3 DEF part
  <2>6. Len(front) > 0 /\ IsDot(front[Len(front)])
    <3>1. 1 <= Len(part) /\ part[Len(part)] = Dot
      BY <2>1, <2>4
    <3> QED
      BY <2>5, <3>1 DEF DotsOK
  <2>7. At(text, d) = Len(front)
    BY DEF At
  <2> HIDE DEF front, chars, rest
  <2>8. /\ Len(chars) = Len(front) + Len(rest) /\ Len(front) \in Nat /\ Len(rest) \in Nat
        /\ \A k \in 1 .. Len(front) : chars[k] = front[k]
        /\ \A k \in 1 .. Len(rest) : chars[Len(front) + k] = rest[k]
    BY <1>2, <2>3, <2>5
  <2>9. IsDot(chars[Len(front)])
    <3>1. Len(front) \in 1 .. Len(front)
      BY <2>6, <2>8
    <3> QED
      BY <2>6, <2>8, <3>1
  <2> QED
    BY <1>4, <2>1, <2>6, <2>7, <2>8, <2>9 DEF DividesAt, rest, chars
<1> QED
  BY <1>3, <1>4

\* The label between two dots with none in between.
LabelOK(text, d, e, C) ==
    LET chars == Unescape(text)
        label == Unescape(SubSeq(text, d + 1, e))
    IN /\ label \in Seq(Chars(C)) /\ Len(label) > 0
       /\ At(text, e) = At(text, d) + Len(label) /\ At(text, e) <= Len(chars)
       /\ FindDotReverse(chars, At(text, e) - 1) = At(text, d)
       /\ SubSeq(chars, At(text, d) + 1, At(text, e) - 1) = Front(label)

LEMMA LabelFound ==
    ASSUME NEW C, NEW text \in Seq(C), NEW d \in {0} \cup Dots(text), NEW e \in Dots(text),
           d < e, \A j \in d + 1 .. e - 1 : text[j] # Dot
    PROVE  LabelOK(text, d, e, C)
<1> DEFINE S == Chars(C)
           chars == Unescape(text)
           part == SubSeq(text, d + 1, e)
           label == Unescape(part)
           restd == From(text)[d + 1]
           reste == From(text)[e + 1]
           D == At(text, d)
           E == At(text, e)
<1>1. d \in Nat /\ e \in 1 .. Len(text) /\ text[e] = Dot /\ Len(text) \in Nat
  BY DEF Dots
<1>2. /\ part \in Seq(C) /\ Len(part) = e - d /\ \A i \in 1 .. e - d : part[i] = text[d + i]
  BY <1>1, PartFacts
<1> HIDE DEF part
<1>3. label \in Seq(S) /\ label = From(part)[1] /\ DotsOK(part, 1)
  <2>1. 1 \in 1 .. Len(part) + 1
    BY <1>2
  <2> QED
    BY <1>2, <2>1, UnescapeType, DotsOf, FromRows
<1>4. chars \in Seq(S) /\ restd \in Seq(S) /\ reste \in Seq(S)
  <2>1. 1 \in 1 .. Len(text) + 1 /\ d + 1 \in 1 .. Len(text) + 1 /\ e + 1 \in 1 .. Len(text) + 1
    BY <1>1
  <2> QED
    BY <2>1, UnescapeType, FromRows
<1>5. restd = label \o reste
  BY <1>1, FromWithin DEF part
<1>6. /\ Len(label) > 0 /\ IsDot(label[Len(label)])
      /\ \A k \in 1 .. Len(label) - 1 : ~IsDot(label[k])
  <2>1. 1 <= Len(part) /\ part[Len(part)] = Dot
    <3>1. e - d \in 1 .. e - d /\ d + (e - d) = e
      BY <1>1
    <3> QED
      BY <1>1, <1>2, <3>1
  <2>2. \A j \in 1 .. Len(part) - 1 : part[j] # Dot
    <3> TAKE j \in 1 .. Len(part) - 1
    <3>1. j \in 1 .. e - d /\ d + j \in d + 1 .. e - 1
      BY <1>1, <1>2
    <3> QED
      BY <1>2, <3>1
  <2> QED
    BY <1>3, <2>1, <2>2 DEF DotsOK
<1>7. /\ D \in Nat /\ Len(chars) = D + Len(restd)
      /\ \A k \in 1 .. Len(restd) : chars[D + k] = restd[k]
      /\ d = 0 => D = 0
      /\ d > 0 => D > 0 /\ IsDot(chars[D])
  <2>1. DividesAt(text, d)
    BY Divided
  <2> QED
    BY <2>1, Zenon DEF DividesAt
<1>8. E \in Nat /\ Len(chars) = E + Len(reste)
  <2>1. DividesAt(text, e)
    BY Divided
  <2> QED
    BY <2>1, Zenon DEF DividesAt
<1> HIDE DEF chars, label, restd, reste, D, E, S
<1>9. /\ Len(restd) = Len(label) + Len(reste) /\ Len(label) \in Nat /\ Len(reste) \in Nat
      /\ \A k \in 1 .. Len(label) : restd[k] = label[k]
  BY <1>3, <1>4, <1>5
<1>10. E = D + Len(label) /\ E <= Len(chars) /\ D <= E - 1 /\ E - 1 \in Nat
  <2>1. Len(chars) = D + (Len(label) + Len(reste))
    BY <1>7, <1>9, Zenon
  <2> DEFINE a == Len(label)
             b == Len(reste)
             c == Len(chars)
  <2>2. a \in Nat /\ b \in Nat /\ D \in Nat /\ E \in Nat /\ a > 0 /\ c = D + (a + b) /\ c = E + b
    BY <1>6, <1>7, <1>8, <1>9, <2>1, Zenon
  <2> HIDE DEF a, b, c
  <2>3. E = D + a /\ E <= c /\ D <= E - 1 /\ E - 1 \in Nat
    BY <2>2
  <2> QED
    BY <2>3 DEF a, c
<1>11. \A k \in 1 .. Len(label) : chars[D + k] = label[k]
  <2> TAKE k \in 1 .. Len(label)
  <2>1. k \in 1 .. Len(restd)
    BY <1>9
  <2> QED
    BY <1>7, <1>9, <2>1
<1>12. FindDotReverse(chars, E - 1) = D
  <2>1. D > 0 => IsDot(chars[D])
    BY <1>1, <1>7
  <2>2. \A i \in D + 1 .. E - 1 : ~IsDot(chars[i])
    <3> TAKE i \in D + 1 .. E - 1
    <3>1. i - D \in 1 .. Len(label) - 1 /\ i - D \in 1 .. Len(label) /\ D + (i - D) = i
      BY <1>7, <1>9, <1>10
    <3> QED
      BY <1>6, <1>11, <3>1
  <2>3. IsLastDot(chars, E - 1, D)
    BY <1>7, <1>10, <2>1, <2>2 DEF IsLastDot
  <2> QED
    BY <1>10, <2>3, LastDot, LastDotUnique
<1>13. SubSeq(chars, D + 1, E - 1) = Front(label)
  <2> DEFINE n == Len(label) - 1
             x == SubSeq(chars, D + 1, E - 1)
             y == SubSeq(label, 1, n)
  <2>1. n \in Nat /\ E - 1 = (D + 1) + n - 1 /\ n = 1 + n - 1 /\ D + 1 \in Int /\ 1 \in Int
    BY <1>6, <1>7, <1>9, <1>10
  <2>2. \A j \in D + 1 .. (D + 1) + n - 1 : chars[j] \in S
    <3> TAKE j \in D + 1 .. (D + 1) + n - 1
    <3>1. j \in 1 .. Len(chars)
      BY <1>7, <1>10, <2>1
    <3> QED
      BY <1>4, <3>1
  <2>3. \A j \in 1 .. 1 + n - 1 : label[j] \in S
    <3> TAKE j \in 1 .. 1 + n - 1
    <3>1. j \in 1 .. Len(label)
      BY <1>9, <2>1
    <3> QED
      BY <1>3, <3>1
  <2>4. x \in Seq(S) /\ Len(x) = n /\ \A j \in 1 .. n : x[j] = chars[(D + 1) + j - 1]
    <3>1. x = SubSeq(chars, D + 1, (D + 1) + n - 1)
      BY <2>1, Zenon
    <3> HIDE DEF x, n
    <3> QED
      BY <2>1, <2>2, <3>1, SubSeqOf
  <2>5. y \in Seq(S) /\ Len(y) = n /\ \A j \in 1 .. n : y[j] = label[1 + j - 1]
    <3>1. y = SubSeq(label, 1, 1 + n - 1)
      BY <2>1, Zenon
    <3> HIDE DEF y, n
    <3> QED
      BY <2>1, <2>3, <3>1, SubSeqOf
  <2>6. \A j \in 1 .. n : (D + 1) + j - 1 = D + j /\ 1 + j - 1 = j /\ j \in 1 .. Len(label)
    BY <1>7, <1>9, <2>1
  <2>7. Front(label) = y
    BY DEF Front
  <2> HIDE DEF x, y, n
  <2>8. \A j \in 1 .. n : x[j] = y[j]
    BY <1>11, <2>4, <2>5, <2>6
  <2>9. x = y
    BY <2>4, <2>5, <2>8, SeqEqual
  <2> QED
    BY <2>7, <2>9 DEF x
<1> QED
  BY <1>3, <1>6, <1>10, <1>12, <1>13 DEF LabelOK, chars, label, part, D, E, S

-----------------------------------------------------------------------------
\* How many cuts are behind a place.
Behind(text, i) == Cardinality({k \in Cuts(text) : k > i})

LEMMA CutsFinite ==
    ASSUME NEW C, NEW text \in Seq(C)
    PROVE  /\ Cuts(text) \in SUBSET (0 .. Len(text)) /\ 0 \in Cuts(text)
           /\ \A i : /\ IsFiniteSet({k \in Cuts(text) : k > i})
                     /\ Behind(text, i) \in Nat
<1>1. Cuts(text) \in SUBSET (0 .. Len(text)) /\ 0 \in Cuts(text) /\ Len(text) \in Nat
  BY DEF Cuts, Dots
<1>2. IsFiniteSet(Cuts(text))
  <2>1. IsFiniteSet(0 .. Len(text))
    BY <1>1, FS_Interval
  <2> QED
    BY <1>1, <2>1, FS_Subset
<1>3. ASSUME NEW i
      PROVE  IsFiniteSet({k \in Cuts(text) : k > i}) /\ Behind(text, i) \in Nat
  <2> DEFINE T == {k \in Cuts(text) : k > i}
  <2>1. T \in SUBSET Cuts(text)
    OBVIOUS
  <2> HIDE DEF T
  <2>2. IsFiniteSet(T) /\ Cardinality(T) \in Nat
    BY <1>2, <2>1, FS_Subset, FS_CardinalityType
  <2> QED
    BY <2>2 DEF T, Behind
<1> QED
  BY <1>1, <1>3

\* Cuts are told apart by what is behind them ...
LEMMA CutAtBehind ==
    ASSUME NEW C, NEW text \in Seq(C), NEW e \in Cuts(text)
    PROVE  CutAt(text, Behind(text, e)) = e
<1>1. ASSUME NEW i \in Cuts(text), NEW j \in Cuts(text), i < j
      PROVE  Behind(text, i) # Behind(text, j)
  <2> DEFINE Ti == {k \in Cuts(text) : k > i}
             Tj == {k \in Cuts(text) : k > j}
  <2>1. i \in Nat /\ j \in Nat /\ \A k \in Cuts(text) : k \in Nat
    BY CutsFinite
  <2>2. Tj \in SUBSET Ti /\ j \in Ti /\ j \notin Tj
    <3>1. \A k \in Cuts(text) : k > j => k > i
      BY <1>1, <2>1
    <3>2. j > i /\ ~(j > j)
      BY <1>1, <2>1
    <3> QED
      BY <3>1, <3>2
  <2>3. IsFiniteSet(Ti)
    BY CutsFinite
  <2> HIDE DEF Ti, Tj
  <2>4. Cardinality(Ti) # Cardinality(Tj)
    BY <2>2, <2>3, FS_Subset
  <2> QED
    BY <2>4 DEF Behind, Ti, Tj
<1>2. ASSUME NEW i \in Cuts(text), Behind(text, i) = Behind(text, e)
      PROVE  i = e
  <2>1. i \in Nat /\ e \in Nat
    BY CutsFinite
  <2>2. ~(i < e) /\ ~(e < i)
    BY <1>1, <1>2
  <2> QED
    BY <2>1, <2>2
<1>3. CutAt(text, Behind(text, e)) = CHOOSE i \in Cuts(text) : Behind(text, i) = Behind(text, e)
  BY Zenon DEF CutAt, Behind
<1> QED
  BY <1>2, <1>3, Zenon

\* ... and every cut but the first has one before it.
LEMMA CutBefore ==
    ASSUME NEW C, NEW text \in Seq(C), NEW e \in Cuts(text), e > 0
    PROVE  \E d \in Cuts(text) : /\ d < e /\ \A k \in Cuts(text) : k <= d \/ k >= e
                                 /\ Behind(text, d) = Behind(text, e) + 1
<1> DEFINE T == {k \in Cuts(text) : k < e}
<1>1. /\ Cuts(text) \in SUBSET (0 .. Len(text)) /\ 0 \in Cuts(text) /\ Len(text) \in Nat
      /\ \A k \in Cuts(text) : k \in Nat
  BY CutsFinite
<1>2. PICK d \in T : \A k \in T : k <= d
  <2>1. T \in SUBSET (0 .. Len(text)) /\ 0 \in T
    BY <1>1
  <2> HIDE DEF T
  <2> QED
    BY <1>1, <2>1, Maximum
<1>3. d \in Cuts(text) /\ d < e
  OBVIOUS
<1>4. ASSUME NEW k \in Cuts(text), ~(k <= d)
      PROVE  k >= e
  <2>1. k \notin T
    <3> HIDE DEF T
    <3> QED
      BY <1>2, <1>4
  <2> QED
    BY <1>1, <2>1
<1> HIDE DEF T
<1>5. Behind(text, d) = Behind(text, e) + 1
  <2> DEFINE Td == {k \in Cuts(text) : k > d}
             Te == {k \in Cuts(text) : k > e}
  <2>1. Td = Te \cup {e} /\ e \notin Te
    BY <1>1, <1>3, <1>4
  <2>2. IsFiniteSet(Te)
    BY CutsFinite
  <2> HIDE DEF Td, Te
  <2>3. Cardinality(Td) = Cardinality(Te) + 1
    BY <2>1, <2>2, FS_AddElement
  <2> QED
    BY <2>3 DEF Behind, Td, Te
<1> QED
  BY <1>3, <1>4, <1>5

LEMMA AllCuts ==
    ASSUME NEW C, NEW text \in Seq(C)
    PROVE  /\ Cardinality(Cuts(text)) = Behind(text, 0) + 1
           /\ \A d \in Cuts(text) : Behind(text, d) <= Behind(text, 0)
<1> DEFINE T == {k \in Cuts(text) : k > 0}
<1>1. IsFiniteSet(T) /\ 0 \in Cuts(text) /\ \A k \in Cuts(text) : k \in Nat
  BY CutsFinite
<1>2. Cuts(text) = T \cup {0} /\ 0 \notin T
  BY <1>1
<1> HIDE DEF T
<1>3. Cardinality(Cuts(text)) = Cardinality(T) + 1
  BY <1>1, <1>2, FS_AddElement
<1>4. ASSUME NEW d \in Cuts(text)
      PROVE  Behind(text, d) <= Behind(text, 0)
  <2> DEFINE Td == {k \in Cuts(text) : k > d}
  <2>1. Td \in SUBSET T
    BY <1>1 DEF T
  <2> HIDE DEF Td
  <2>2. Cardinality(Td) <= Cardinality(T)
    BY <1>1, <2>1, FS_Subset
  <2> QED
    BY <2>2 DEF Behind, Td, T
<1> QED
  BY <1>3, <1>4 DEF Behind, T

-----------------------------------------------------------------------------
\* A name is a label, or a part of it up to a zero byte.
IsPart(name, label) ==
    \/ name = label
    \/ Nul \in Range(label) /\ IsPrefix(name, label)

LEMMA CStringOf ==
    ASSUME NEW S, NEW chars \in Seq(S)
    PROVE  /\ \E n \in Nat : DOMAIN CString(chars) = 1 .. n
           /\ IsPart(CString(chars), [i \in DOMAIN chars |-> chars[i].c])
<1> DEFINE L == Len(chars)
           zeros == {i \in DOMAIN chars : chars[i].c = Nul}
           least == CHOOSE i \in zeros : \A k \in zeros : i <= k
           length == IF zeros = {} THEN Len(chars) ELSE least - 1
           label == [i \in DOMAIN chars |-> chars[i].c]
           name == CString(chars)
<1>1. name = [i \in 1 .. length |-> chars[i].c]
  BY Zenon DEF CString
<1>2. L \in Nat /\ DOMAIN chars = 1 .. L
  OBVIOUS
<1> SUFFICES (\E n \in Nat : DOMAIN name = 1 .. n) /\ IsPart(name, label)
  OBVIOUS
<1> HIDE DEF name
<1>3. CASE zeros = {}
  <2>1. name = label
    BY <1>1, <1>2, <1>3
  <2>2. DOMAIN name = 1 .. L
    BY <1>1, <1>3
  <2> QED
    BY <1>2, <2>1, <2>2 DEF IsPart
<1>4. CASE zeros # {}
  <2>1. \E i \in zeros : \A k \in zeros : i <= k
    <3>1. zeros \in SUBSET Nat
      BY <1>2
    <3> HIDE DEF zeros
    <3> QED
      BY <1>4, <3>1, Minimum
  <2>2. least \in zeros
    <3> HIDE DEF zeros
    <3> QED
      BY <2>1
  <2>3. least \in 1 .. L /\ chars[least].c = Nul
    <3> HIDE DEF least
    <3> QED
      BY <1>2, <2>2
  <2> HIDE DEF least, zeros
  <2>4. length = least - 1 /\ length \in Nat /\ length <= L
    BY <1>4, <2>3
  <2> HIDE DEF length
  <2>5. DOMAIN name = 1 .. length /\ \A i \in 1 .. length : name[i] = chars[i].c
    BY <1>1
  <2> DEFINE T == {chars[i].c : i \in 1 .. L}
  <2>6. label \in Seq(T) /\ Len(label) = L /\ \A i \in 1 .. L : label[i] = chars[i].c
    <3>1. label \in [1 .. L -> T]
      BY <1>2
    <3> QED
      BY <1>2, <3>1
  <2>7. name \in Seq(T) /\ Len(name) = length
    <3>1. name \in [1 .. length -> T]
      <4>1. \A i \in 1 .. length : chars[i].c \in T
        BY <1>2, <2>4
      <4> HIDE DEF T
      <4> QED
        BY <1>1, <4>1
    <3> HIDE DEF T
    <3> QED
      BY <2>4, <3>1
  <2>8. Nul \in Range(label)
    <3>1. least \in DOMAIN label /\ label[least] = Nul
      BY <1>2, <2>3
    <3> HIDE DEF label
    <3> QED
      BY <3>1 DEF Range
  <2> HIDE DEF T, label
  <2>9. SubSeq(name, 1, length) = name
    BY <2>7, SubSeqFull
  <2>10. SubSeq(label, 1, length) = name
    <3> DEFINE x == SubSeq(label, 1, length)
    <3>1. 1 + length - 1 = length /\ 1 \in Int /\ \A i \in 1 .. length : 1 + i - 1 = i /\ i \in 1 .. L
      BY <1>2, <2>4
    <3>2. \A j \in 1 .. 1 + length - 1 : label[j] \in T
      BY <2>6, <3>1
    <3>3. x \in Seq(T) /\ Len(x) = length /\ \A j \in 1 .. length : x[j] = label[1 + j - 1]
      <4>1. x = SubSeq(label, 1, 1 + length - 1)
        BY <3>1, Zenon
      <4> HIDE DEF x
      <4> QED
        BY <2>4, <3>1, <3>2, <4>1, SubSeqOf
    <3> HIDE DEF x
    <3>4. \A j \in 1 .. length : x[j] = name[j]
      BY <2>5, <2>6, <3>1, <3>3
    <3>5. x = name
      BY <2>7, <3>3, <3>4, SeqEqual
    <3> QED
      BY <3>5 DEF x
  <2>11. IsPrefix(name, label)
    BY <2>4, <2>6, <2>7, <2>9, <2>10 DEF IsPrefix
  <2> QED
    BY <2>4, <2>5, <2>8, <2>11 DEF IsPart
<1> QED
  BY <1>3, <1>4

-----------------------------------------------------------------------------
\* The names found from a dot on, back to the front, are the labels there.
Labels(text, count, n) ==
    LabelBetween(text, CutAt(text, count - n + 1), CutAt(text, count - n))

FindsSome(text, f, count, k) ==
    \A e \in Dots(text) :
        Behind(text, e) = count - k /\ f[k][At(text, e) - 1] # NoNames =>
            LET names == f[k][At(text, e) - 1] IN
            /\ Len(names) = k /\ \E T : names \in Seq(T)
            /\ Behind(text, 0) >= count
            /\ \A n \in 1 .. k : IsPart(names[n], Labels(text, count, n))

LEMMA SomeMore ==
    ASSUME NEW T, NEW names \in Seq(T), NEW name
    PROVE  /\ Len(Append(names, name)) = Len(names) + 1
           /\ Append(names, name) \in Seq(T \cup {name})
           /\ \A n \in 1 .. Len(names) : Append(names, name)[n] = names[n]
           /\ Append(names, name)[Len(names) + 1] = name
<1>1. names \in Seq(T \cup {name}) /\ name \in T \cup {name}
  OBVIOUS
<1> QED
  BY <1>1

LEMMA ScanFinds ==
    ASSUME NEW C, NEW text \in Seq(C), EscapedDots(text) = {}, NEW count \in Nat, NEW f,
           IsScan(f, Unescape(text), count, Len(Unescape(text)) - 1)
    PROVE  \A k \in 1 .. count : FindsSome(text, f, count, k)
<1> DEFINE chars == Unescape(text)
           end == Len(chars) - 1
           Good == {k \in Nat : k \in 1 .. count => FindsSome(text, f, count, k)}
<1>1. Cuts(text) = {0} \cup Dots(text)
  BY DEF Cuts
<1>2. ASSUME NEW e \in Dots(text)
      PROVE  \E d \in {0} \cup Dots(text) :
                /\ d < e /\ Behind(text, d) = Behind(text, e) + 1 /\ CutAt(text, Behind(text, d)) = d
                /\ CutAt(text, Behind(text, e)) = e /\ Behind(text, d) <= Behind(text, 0)
                /\ LabelOK(text, d, e, C)
  <2>1. e \in Cuts(text) /\ e > 0
    BY <1>1 DEF Dots
  <2>2. PICK d \in Cuts(text) : /\ d < e /\ \A k \in Cuts(text) : k <= d \/ k >= e
                                /\ Behind(text, d) = Behind(text, e) + 1
    BY <2>1, CutBefore
  <2>3. \A j \in d + 1 .. e - 1 : text[j] # Dot
    <3> SUFFICES ASSUME NEW j \in d + 1 .. e - 1, text[j] = Dot
                 PROVE  FALSE
      OBVIOUS
    <3>1. d \in 0 .. Len(text) /\ e \in 1 .. Len(text) /\ Len(text) \in Nat
      BY <1>1 DEF Dots
    <3>2. j \in DOMAIN text /\ ~(j <= d) /\ ~(j >= e)
      BY <3>1
    <3>3. j \in Cuts(text)
      BY <1>1, <3>2 DEF Dots
    <3> QED
      BY <2>2, <3>2, <3>3
  <2>4. LabelOK(text, d, e, C)
    BY <1>1, <2>2, <2>3, LabelFound
  <2>5. CutAt(text, Behind(text, d)) = d /\ CutAt(text, Behind(text, e)) = e
    BY <2>1, CutAtBehind
  <2>6. Behind(text, d) <= Behind(text, 0)
    BY AllCuts
  <2> QED
    BY <1>1, <2>2, <2>4, <2>5, <2>6
<1>3. ASSUME NEW k \in 1 .. count, NEW n \in 0 .. end
      PROVE  f[k][n] = Scanned(f[k - 1], chars, k, n)
  <2>1. f[k] = [index \in 0 .. end |-> Scanned(f[k - 1], chars, k, index)]
    BY Zenon DEF IsScan
  <2> QED
    BY <2>1, Zenon
<1>4. 0 \in Good
  OBVIOUS
<1>5. ASSUME NEW k \in Nat, k \in Good
      PROVE  k + 1 \in Good
  <2> SUFFICES ASSUME k + 1 \in 1 .. count
               PROVE  FindsSome(text, f, count, k + 1)
    OBVIOUS
  <2> SUFFICES ASSUME NEW e \in Dots(text), Behind(text, e) = count - (k + 1),
                      f[k + 1][At(text, e) - 1] # NoNames
               PROVE  LET names == f[k + 1][At(text, e) - 1] IN
                      /\ Len(names) = k + 1 /\ \E T : names \in Seq(T)
                      /\ Behind(text, 0) >= count
                      /\ \A n \in 1 .. k + 1 : IsPart(names[n], Labels(text, count, n))
    BY DEF FindsSome
  <2>1. PICK d \in {0} \cup Dots(text) :
                /\ d < e /\ Behind(text, d) = Behind(text, e) + 1 /\ CutAt(text, Behind(text, d)) = d
                /\ CutAt(text, Behind(text, e)) = e /\ Behind(text, d) <= Behind(text, 0)
                /\ LabelOK(text, d, e, C)
    BY <1>2
  <2> DEFINE D == At(text, d)
             E == At(text, e)
             label == Unescape(SubSeq(text, d + 1, e))
             name == CString(Front(label))
             names == f[k + 1][E - 1]
             before == f[k][D - 1]
  <2>2. /\ label \in Seq(Chars(C)) /\ Len(label) > 0
        /\ E = D + Len(label) /\ E <= Len(chars)
        /\ FindDotReverse(chars, E - 1) = D
        /\ SubSeq(chars, D + 1, E - 1) = Front(label)
    BY <2>1, Zenon DEF LabelOK
  <2>3. /\ D \in Nat /\ (d = 0 => D = 0)
    <3>1. DividesAt(text, d)
      BY Divided
    <3> QED
      BY <3>1, Zenon DEF DividesAt
  <2>4. Behind(text, 0) \in Nat /\ Behind(text, d) = count - k
    <3>1. Behind(text, 0) \in Nat
      BY CutsFinite
    <3> QED
      BY <2>1, <3>1
  <2>5. Labels(text, count, k + 1) = [i \in DOMAIN Front(label) |-> Front(label)[i].c]
    <3>1. count - (k + 1) + 1 = count - k
      OBVIOUS
    <3>2. CutAt(text, count - (k + 1) + 1) = d /\ CutAt(text, count - (k + 1)) = e
      BY <2>1, <2>4, <3>1
    <3> QED
      BY <3>2, Zenon DEF Labels, LabelBetween
  <2>6. IsPart(name, Labels(text, count, k + 1))
    <3>1. Front(label) \in Seq(Chars(C))
      <4> HIDE DEF label
      <4>1. /\ SubSeq(label, 1, Len(label) - 1) \in Seq(Chars(C))
        BY <2>2
      <4> QED
        BY <4>1, Zenon DEF Front
    <3> HIDE DEF label
    <3>2. IsPart(name, [i \in DOMAIN Front(label) |-> Front(label)[i].c])
      BY <3>1, CStringOf
    <3> QED
      BY <2>5, <3>2
  <2> HIDE DEF label, D, E, chars
  <2>7. names = IF k + 1 = 1 THEN <<name>>
                ELSE IF D <= 1 \/ before = NoNames THEN NoNames
                ELSE Append(before, name)
    <3>1. E - 1 \in 0 .. end
      <4> DEFINE l == Len(label)
                 c == Len(chars)
      <4>1. l \in Nat /\ c \in Int
        <5>1. 1 \in 1 .. Len(text) + 1
          OBVIOUS
        <5>2. chars \in Seq(Chars(C))
          BY <5>1, UnescapeType, FromRows DEF chars
        <5> QED
          BY <2>2, <5>2
      <4>2. l > 0 /\ E = D + l /\ E <= c
        BY <2>2
      <4> HIDE DEF l, c
      <4>3. E - 1 \in 0 .. c - 1
        BY <2>3, <4>1, <4>2
      <4> QED
        BY <4>3 DEF c
    <3>2. k + 1 - 1 = k
      OBVIOUS
    <3>3. names = Scanned(f[k], chars, k + 1, E - 1)
      <4>1. names = Scanned(f[k + 1 - 1], chars, k + 1, E - 1)
        <5> DEFINE K == k + 1
                   x == E - 1
        <5>1. K \in 1 .. count /\ x \in 0 .. end
          BY <3>1
        <5> HIDE DEF K, x
        <5>2. f[K][x] = Scanned(f[K - 1], chars, K, x)
          BY <1>3, <5>1
        <5> QED
          BY <5>2 DEF K, x
      <4> QED
        BY <3>2, <4>1, Zenon
    <3> QED
      BY <2>2, <3>3, Zenon DEF Scanned
  <2>8. names # NoNames
    BY DEF E
  <2> SUFFICES /\ Len(names) = k + 1 /\ \E T : names \in Seq(T)
               /\ Behind(text, 0) >= count
               /\ \A n \in 1 .. k + 1 : IsPart(names[n], Labels(text, count, n))
    BY DEF E
  <2> HIDE DEF name, names
  <2>9. CASE k = 0
    <3>1. names = <<name>>
      BY <2>7, <2>9
    <3>2. Behind(text, 0) >= count
      BY <2>1, <2>4, <2>9
    <3>3. Len(names) = 1 /\ names[1] = name /\ names \in Seq({name})
      BY <3>1
    <3>4. \A n \in 1 .. k + 1 : n = k + 1 /\ n = 1
      BY <2>9
    <3>5. \A n \in 1 .. k + 1 : IsPart(names[n], Labels(text, count, n))
      BY <2>6, <3>3, <3>4
    <3> QED
      BY <2>9, <3>2, <3>3, <3>5
  <2>10. CASE k # 0
    <3>1. ~(D <= 1) /\ before # NoNames /\ names = Append(before, name)
      <4>1. k + 1 # 1
        BY <2>10
      <4> QED
        BY <2>7, <2>8, <4>1, Zenon
    <3>2. d \in Dots(text)
      BY <2>3, <3>1
    <3>3. FindsSome(text, f, count, k)
      <4>1. k \in 1 .. count
        BY <2>10
      <4> QED
        BY <1>5, <4>1, Zenon
    <3>4. /\ Len(before) = k /\ \E T : before \in Seq(T)
          /\ Behind(text, 0) >= count
          /\ \A n \in 1 .. k : IsPart(before[n], Labels(text, count, n))
      BY <2>4, <3>1, <3>2, <3>3, Zenon DEF FindsSome, D
    <3> HIDE DEF before
    <3>5. PICK T : before \in Seq(T)
      BY <3>4
    <3>6. /\ Len(names) = k + 1 /\ names \in Seq(T \cup {name})
          /\ \A n \in 1 .. k : names[n] = before[n]
          /\ names[k + 1] = name
      <4>1. /\ Len(names) = Len(before) + 1 /\ names \in Seq(T \cup {name})
            /\ \A n \in 1 .. Len(before) : names[n] = before[n]
            /\ names[Len(before) + 1] = name
        BY <3>1, <3>5, SomeMore
      <4> QED
        BY <3>4, <4>1
    <3>7. \A n \in 1 .. k + 1 : n \in 1 .. k \/ n = k + 1
      OBVIOUS
    <3>8. \A n \in 1 .. k + 1 : IsPart(names[n], Labels(text, count, n))
      BY <2>6, <3>4, <3>6, <3>7, Zenon
    <3> QED
      BY <3>4, <3>6, <3>8
  <2> QED
    BY <2>9, <2>10
<1> HIDE DEF Good
<1>6. \A k \in Nat : k \in Good
  BY <1>4, <1>5, AllNumbers
<1> QED
  BY <1>6 DEF Good

\* The names mdns_scan_names finds, when it finds enough and no dot is escaped, are
\* the last labels, or parts of them.
LEMMA NamesAreLabels ==
    ASSUME NEW C, NEW text \in Seq(C), EscapedDots(text) = {}, NEW count \in Nat \ {0},
           mdns_scan_names(text, count) # NoNames
    PROVE  AreLabels(mdns_scan_names(text, count), LastLabels(text, count))
<1> DEFINE chars == Unescape(text)
           end == Len(chars) - 1
           f == CHOOSE g : IsScan(g, chars, count, end)
           names == mdns_scan_names(text, count)
<1>1. names = ScanBack(chars, count, end) /\ ~(end < MinIndex) /\ IsDot(chars[Len(chars)])
  BY Zenon DEF mdns_scan_names
<1>2. names = f[count][end]
  BY <1>1, Zenon DEF ScanBack, IsScan, Scanned
<1>3. IsScan(f, chars, count, end)
  BY ScanExists, Zenon
<1> HIDE DEF f
<1>4. \A k \in 1 .. count : FindsSome(text, f, count, k)
  <2>1. count \in Nat
    OBVIOUS
  <2> QED
    BY <1>3, <2>1, ScanFinds
<1>5. Cuts(text) = {0} \cup Dots(text) /\ Len(text) \in Nat
  BY DEF Cuts
<1>6. PICK e \in Cuts(text) : \A k \in Cuts(text) : k <= e
  <2>1. Cuts(text) \in SUBSET (0 .. Len(text)) /\ Cuts(text) # {}
    BY CutsFinite
  <2> QED
    BY <1>5, <2>1, Maximum
<1>7. Behind(text, e) = 0
  <2>1. \A k \in Cuts(text) : k \in Nat
    BY CutsFinite
  <2>2. {k \in Cuts(text) : k > e} = {}
    BY <1>6, <2>1
  <2> QED
    BY <2>2, FS_EmptySet DEF Behind
<1> DEFINE rest == From(text)[e + 1]
           E == At(text, e)
<1>8. /\ E \in Nat /\ Len(chars) = E + Len(rest)
      /\ \A k \in 1 .. Len(rest) : chars[E + k] = rest[k]
      /\ e = 0 => E = 0
  <2>1. DividesAt(text, e)
    BY <1>5, Divided
  <2> QED
    BY <2>1, Zenon DEF DividesAt
<1>9. rest \in Seq(Chars(C)) /\ \A k \in 1 .. Len(rest) : ~IsDot(rest[k])
  <2>1. e \in 0 .. Len(text) /\ e + 1 \in 1 .. Len(text) + 1
    BY <1>5, CutsFinite
  <2>2. DotsOK(text, e + 1) /\ rest \in Seq(Chars(C))
    BY <2>1, DotsOf, UnescapeType
  <2>3. \A j \in e + 1 .. Len(text) : text[j] # Dot
    <3> SUFFICES ASSUME NEW j \in e + 1 .. Len(text), text[j] = Dot
                 PROVE  FALSE
      OBVIOUS
    <3>1. j \in DOMAIN text /\ ~(j <= e)
      BY <2>1
    <3>2. j \in Cuts(text)
      BY <1>5, <3>1 DEF Dots
    <3> QED
      BY <1>6, <3>1, <3>2
  <2> QED
    BY <2>2, <2>3 DEF DotsOK
<1> HIDE DEF rest, E, chars
<1>10. Len(chars) = E /\ e # 0
  <2>1. Len(rest) \in Nat
    BY <1>9
  <2>2. Len(rest) = 0
    <3> SUFFICES ASSUME Len(rest) # 0 PROVE FALSE
      OBVIOUS
    <3>1. Len(rest) \in 1 .. Len(rest)
      BY <2>1
    <3>2. chars[Len(chars)] = rest[Len(rest)]
      BY <1>8, <3>1
    <3> QED
      BY <1>1, <1>9, <3>1, <3>2
  <2>3. Len(chars) = E
    <3> DEFINE n == Len(rest)
    <3>1. n = 0 /\ Len(chars) = E + n
      BY <1>8, <2>2
    <3> HIDE DEF n
    <3> QED
      BY <1>8, <3>1
  <2>4. e # 0
    <3> SUFFICES ASSUME e = 0 PROVE FALSE
      OBVIOUS
    <3>1. end = 0 - 1
      BY <1>8, <2>3
    <3> QED
      BY <1>1, <3>1, IndexAssumption
  <2> QED
    BY <2>3, <2>4
<1>11. e \in Dots(text) /\ count \in 1 .. count /\ Behind(text, e) = count - count
  BY <1>5, <1>7, <1>10
<1>12. names = f[count][E - 1]
  BY <1>2, <1>10
<1> HIDE DEF names
<1>13. /\ Len(names) = count /\ \E T : names \in Seq(T)
       /\ Behind(text, 0) >= count
       /\ \A n \in 1 .. count : IsPart(names[n], Labels(text, count, n))
  <2>1. FindsSome(text, f, count, count)
    BY <1>4, <1>11
  <2>2. f[count][At(text, e) - 1] # NoNames
    BY <1>12 DEF names, E
  <2> QED
    BY <1>11, <1>12, <2>1, <2>2, Zenon DEF FindsSome, E
<1>14. ~(Cardinality(Cuts(text)) <= count)
  <2>1. Cardinality(Cuts(text)) = Behind(text, 0) + 1
    BY AllCuts
  <2>2. Behind(text, 0) \in Nat
    BY CutsFinite
  <2> QED
    BY <1>13, <2>1, <2>2
<1>15. LastLabels(text, count) = [n \in 1 .. count |-> Labels(text, count, n)]
  BY <1>14, Zenon DEF LastLabels, Labels
<1>16. DOMAIN names = 1 .. count
  BY <1>13
<1> DEFINE labels == LastLabels(text, count)
<1>17. DOMAIN names = DOMAIN labels /\ \A n \in DOMAIN names : IsPart(names[n], labels[n])
  BY <1>13, <1>15, <1>16
<1> HIDE DEF labels
<1>18. AreLabels(names, labels)
  BY <1>17, Zenon DEF AreLabels, IsPart
<1> QED
  BY <1>18 DEF names, labels

-----------------------------------------------------------------------------
(* What is told.                                                           *)

\* The records a host can send.
AnyRecord == [kind : {"service"}, text : STRING] \cup [kind : Kinds \cup {"cut"}, text : Texts]

\* The network carries records of the hosts, and what was told are their names.
NetworkInv ==
    /\ fds \subseteq Fds
    /\ \A q \in asked : q.host \in Hosts
    /\ inbox \in [Fds -> Seq(Seq(AnyRecord))]
    /\ \A r \in told : /\ r.kind \in Kinds /\ r.text \in Texts
                       /\ r.names = Names[r.kind][r.text] /\ r.names # NoNames

LEMMA HostTexts ==
    ASSUME NEW h \in Hosts
    PROVE  Answers[h].records \in Seq(AnyRecord)
<1> DEFINE records == Answers[h].records
           R == [kind : Kinds \cup {"cut"}, text : Seq(STRING)]
<1>1. records \in Seq(R)
  BY AnswerAssumption
<1>2. ASSUME NEW i \in 1 .. Len(records)
      PROVE  records[i] \in AnyRecord
  <2>1. records[i] \in R
    <3> HIDE DEF records, R
    <3> QED
      BY <1>1, <1>2
  <2>2. records[i] \in Range(records)
    <3> HIDE DEF R
    <3> QED
      BY <1>1, <1>2 DEF Range
  <2>3. records[i].text \in Texts
    BY <2>2 DEF Texts
  <2> QED
    BY <2>1, <2>3 DEF AnyRecord
<1> HIDE DEF records, R
<1>3. records \in Seq(AnyRecord)
  BY <1>1, <1>2
<1> QED
  BY <1>3 DEF records

LEMMA AnswerType ==
    ASSUME NEW q, q.host \in Hosts
    PROVE  Answer(q) \in Seq(AnyRecord)
<1> DEFINE services == Answers[q.host].services
           list == [k \in DOMAIN services |-> ServiceRecord(services[k])]
<1>1. services \in Seq(STRING)
  BY AnswerAssumption
<1>2. list \in Seq(AnyRecord)
  <2> HIDE DEF services
  <2>1. Len(services) \in Nat /\ DOMAIN services = 1 .. Len(services)
        /\ \A k \in 1 .. Len(services) : services[k] \in STRING
    BY <1>1
  <2>2. \A k \in 1 .. Len(services) : ServiceRecord(services[k]) \in AnyRecord
    BY <2>1 DEF ServiceRecord, AnyRecord
  <2> QED
    BY <2>1, <2>2
<1>3. <<>> \in Seq(AnyRecord)
  OBVIOUS
<1>4. Answers[q.host].records \in Seq(AnyRecord)
  BY HostTexts
<1> QED
  BY <1>2, <1>3, <1>4, Zenon DEF Answer

\* Of a datagram only what comes before the record that is cut short is used.
LEMMA RecordsType ==
    ASSUME NEW d \in Seq(AnyRecord)
    PROVE  \A r \in Range(Records(d)) : r \in AnyRecord /\ r.kind # "cut"
<1> DEFINE I == {i \in 1 .. Len(d) : d[i].kind = "cut"}
           cut == SelectInSeq(d, LAMBDA r : r.kind = "cut")
<1>1. cut = IF I # {} THEN CHOOSE x \in I : \A y \in I : x <= y ELSE 0
  BY Zenon DEF SelectInSeq, Min
<1>2. Records(d) = IF cut = 0 THEN d ELSE SubSeq(d, 1, cut - 1)
  BY Zenon DEF Records
<1> HIDE DEF cut
<1>3. CASE I = {}
  <2>1. Records(d) = d
    BY <1>1, <1>2, <1>3, Zenon
  <2>2. \A i \in 1 .. Len(d) : d[i] \in AnyRecord /\ d[i].kind # "cut"
    BY <1>3
  <2> QED
    BY <2>1, <2>2 DEF Range
<1>4. CASE I # {}
  <2>1. I \in SUBSET Nat
    OBVIOUS
  <2>2. \E x \in I : \A y \in I : x <= y
    <3> HIDE DEF I
    <3> QED
      BY <1>4, <2>1, Minimum
  <2>3. cut \in I /\ \A y \in I : cut <= y
    <3> HIDE DEF I
    <3> QED
      BY <1>1, <1>4, <2>2, Zenon
  <2>4. cut \in 1 .. Len(d)
    BY <2>3
  <2>5. ASSUME NEW i \in 1 .. cut - 1
        PROVE  d[i] \in AnyRecord /\ d[i].kind # "cut"
    <3>1. i \in 1 .. Len(d) /\ ~(cut <= i)
      BY <2>4
    <3>2. i \notin I
      <4> HIDE DEF I
      <4> QED
        BY <2>3, <3>1
    <3> QED
      BY <3>1, <3>2
  <2> DEFINE s == SubSeq(d, 1, cut - 1)
  <2>6. Records(d) = s
    <3>1. cut # 0
      BY <2>4
    <3> QED
      BY <1>2, <3>1, Zenon
  <2>7. DOMAIN s = 1 .. cut - 1 /\ \A i \in 1 .. cut - 1 : s[i] = d[i]
    BY <2>4
  <2> HIDE DEF s
  <2>8. \A r \in Range(s) : \E i \in 1 .. cut - 1 : r = d[i]
    BY <2>7 DEF Range
  <2> QED
    BY <2>5, <2>6, <2>8
<1> QED
  BY <1>3, <1>4

\* The names that are reported of a record.
LEMMA ReportNames ==
    ASSUME NEW d \in Seq(AnyRecord), NEW r \in Reports(Records(d))
    PROVE  r.kind \in Kinds /\ r.text \in Texts /\ r.names = Names[r.kind][r.text]
<1>1. PICK x \in Range(Records(d)) : ~IsService(x) /\ r = ReportOf(x)
  BY DEF Reports
<1>2. x \in AnyRecord /\ x.kind # "cut" /\ x.kind # "service"
  BY <1>1, RecordsType DEF IsService
<1>3. x.kind \in Kinds /\ x.text \in Texts
  BY <1>2 DEF AnyRecord
<1> QED
  BY <1>1, <1>3 DEF ReportOf

\* A step that leaves the network alone, but may ask hosts more.
LEMMA NetworkKept ==
    ASSUME NetworkInv, UNCHANGED <<fds, inbox, told>>, \A q \in asked' : q \in asked \/ q.host \in Hosts
    PROVE  NetworkInv'
BY DEF NetworkInv

LEMMA AskedHosts ==
    ASSUME DnssdInv, NEW fd, NEW name, NEW q \in Multicast(fd, name)
    PROVE  q.host \in Hosts
BY SceneAssumption DEF DnssdInv, DnssdTypeOK, Multicast, Question

LEMMA ExceptType ==
    ASSUME NEW A, NEW B, NEW f \in [A -> B], NEW a, NEW v, a \in A => v \in B
    PROVE  [f EXCEPT ![a] = v] \in [A -> B]
OBVIOUS

\* An answer or an empty datagram comes in.
LEMMA InboxGrows ==
    ASSUME inbox \in [Fds -> Seq(Seq(AnyRecord))], NEW d \in Seq(AnyRecord), NEW fd
    PROVE  [inbox EXCEPT ![fd] = Append(@, d)] \in [Fds -> Seq(Seq(AnyRecord))]
<1> DEFINE S == Seq(AnyRecord)
<1> HIDE DEF S
<1>1. inbox \in [Fds -> Seq(S)] /\ d \in S
  BY DEF S
<1>2. fd \in Fds => Append(inbox[fd], d) \in Seq(S)
  BY <1>1
<1>3. [inbox EXCEPT ![fd] = Append(@, d)] \in [Fds -> Seq(S)]
  BY <1>1, <1>2, ExceptType, Zenon
<1> QED
  BY <1>3 DEF S

LEMMA CallerNetwork ==
    ASSUME DnssdInv, NetworkInv, NEW c \in scene.callers, Caller(c)
    PROVE  NetworkInv'
<1>1. CASE MDNS_socket_open(c)
  <2>1. UNCHANGED network /\ \E fd \in Fds \cup {NoFd} : fds' = fds \cup ({fd} \ {NoFd})
    BY <1>1 DEF MDNS_socket_open
  <2>2. fds' \subseteq Fds
    BY <2>1 DEF NetworkInv
  <2> QED
    BY <2>1, <2>2 DEF NetworkInv, network
<1>2. CASE MDNS_discovery_send(c)
  <2>1. /\ UNCHANGED <<fds, inbox, told>>
        /\ \/ asked' = asked
           \/ asked' = asked \cup Multicast(Socket(c).fd, ServicesName)
    BY <1>2 DEF MDNS_discovery_send
  <2> QED
    BY <2>1, NetworkKept, AskedHosts
<1>3. CASE UNCHANGED <<fds, network>>
  BY <1>3, NetworkKept DEF network
<1>4. ASSUME DNSSD_init(c) \/ Fill(c) \/ DNSSD_finish(c) \/ DNSSD_start(c)
      PROVE  UNCHANGED <<fds, network>>
  BY <1>4 DEF DNSSD_init, Fill, DNSSD_finish, DNSSD_start
<1>5. ASSUME ScanLock(c) \/ MDNS_socket_add(c) \/ ScanUnlock(c) \/ \E a \in Addrs : Compare(c, a)
      PROVE  UNCHANGED <<fds, network>>
  BY <1>5 DEF ScanLock, MDNS_socket_add, ScanUnlock, Compare
<1>6. ASSUME \/ TestError(c) \/ TestOpen(c) \/ SetFlags(c) \/ NextSocket(c)
             \/ MDNS_socket_add_to_eventloop(c)
      PROVE  UNCHANGED <<fds, network>>
  BY <1>6 DEF TestError, TestOpen, Test, SetFlags, SetFlag, NextSocket,
     MDNS_socket_add_to_eventloop
<1> QED
  BY <1>1, <1>2, <1>3, <1>4, <1>5, <1>6 DEF Caller

\* A message that is read.
LEMMA QueryNetwork ==
    ASSUME DnssdInv, NetworkInv, NEW i, RecvQuery(i)
    PROVE  NetworkInv'
<1> DEFINE fd == msockets[i].fd
           d == Head(inbox[fd])
           S == Seq(AnyRecord)
<1>1. /\ fd # NoFd /\ inbox[fd] # <<>> /\ i \in DOMAIN msockets
      /\ inbox' = [inbox EXCEPT ![fd] = Tail(@)]
      /\ told' = told \cup {r \in Reports(Records(d)) : r.names # NoNames}
      /\ asked' = asked \cup Queries(fd, Records(d))
      /\ UNCHANGED fds
  BY Zenon DEF RecvQuery, Reader
<1>2. fd \in Fds
  <2>1. i \in Entries
    BY <1>1, SocketFacts
  <2> QED
    BY <1>1, <2>1 DEF DnssdInv, FdInv, NetworkInv
<1> HIDE DEF S
<1>3. inbox \in [Fds -> Seq(S)]
  BY DEF NetworkInv, S
<1> HIDE DEF fd
<1>4. d \in S /\ inbox' \in [Fds -> Seq(S)]
  BY <1>1, <1>2, <1>3
<1> HIDE DEF d
<1>5. \A r \in told' : /\ r.kind \in Kinds /\ r.text \in Texts
                       /\ r.names = Names[r.kind][r.text] /\ r.names # NoNames
  <2> TAKE r \in told'
  <2>1. CASE r \in told
    BY <2>1 DEF NetworkInv
  <2>2. CASE r \in Reports(Records(d)) /\ r.names # NoNames
    BY <1>4, <2>2, ReportNames, Zenon DEF S
  <2> QED
    BY <1>1, <2>1, <2>2
<1>6. \A q \in asked' : q.host \in Hosts
  <2> TAKE q \in asked'
  <2>1. q \in asked \/ \E name : q \in Multicast(fd, name)
    BY <1>1 DEF Queries
  <2> QED
    BY <2>1, AskedHosts DEF NetworkInv
<1> QED
  BY <1>1, <1>4, <1>5, <1>6 DEF NetworkInv, S

LEMMA NetworkStep ==
    ASSUME DnssdInv, NetworkInv, [DnssdNext]_dnssdvars
    PROVE  NetworkInv'
<1>1. CASE \E c \in scene.callers : Caller(c)
  BY <1>1, CallerNetwork
<1>2. ASSUME NEW i, Receive(i) \/ RecvError(i) \/ NotServed(i) \/ ServedAgain(i)
      PROVE  NetworkInv'
  <2>1. CASE RecvQuery(i)
    BY <2>1, QueryNetwork
  <2>2. CASE \/ Readable(i) \/ RecvLock(i) \/ RecvEmpty(i) \/ RecvUnlock(i)
             \/ RecvError(i) \/ NotServed(i) \/ ServedAgain(i)
    BY <2>2, NetworkKept
    DEF Readable, RecvLock, RecvEmpty, RecvUnlock, RecvError, NotServed, ServedAgain, Reader
  <2> QED
    BY <1>2, <2>1, <2>2 DEF Receive
<1>3. CASE \E a \in Addrs : Appear(a)
  BY <1>3, NetworkKept DEF Appear, network
<1>4. ASSUME NEW q \in asked, Respond(q) \/ Lose(q)
      PROVE  NetworkInv'
  <2>1. UNCHANGED <<fds, told>> /\ asked' \subseteq asked
    BY <1>4 DEF Respond, Lose
  <2>2. inbox' = inbox \/ inbox' = [inbox EXCEPT ![q.fd] = Append(@, Answer(q))]
    BY <1>4, Zenon DEF Respond, Lose
  <2>3. Answer(q) \in Seq(AnyRecord)
    <3>1. q.host \in Hosts
      BY DEF NetworkInv
    <3> QED
      BY <3>1, AnswerType
  <2>4. inbox \in [Fds -> Seq(Seq(AnyRecord))]
    BY DEF NetworkInv
  <2>5. inbox' \in [Fds -> Seq(Seq(AnyRecord))]
    <3> DEFINE grown == [inbox EXCEPT ![q.fd] = Append(@, Answer(q))]
    <3>1. grown \in [Fds -> Seq(Seq(AnyRecord))]
      BY <2>3, <2>4, InboxGrows
    <3> HIDE DEF grown
    <3>2. inbox' = inbox \/ inbox' = grown
      BY <2>2 DEF grown
    <3> QED
      BY <2>4, <3>1, <3>2, Zenon
  <2> QED
    BY <2>1, <2>5 DEF NetworkInv
<1>5. ASSUME NEW fd \in fds, SendEmpty(fd)
      PROVE  NetworkInv'
  <2>1. UNCHANGED <<fds, asked, told>> /\ inbox' = [inbox EXCEPT ![fd] = Append(@, <<>>)]
    BY <1>5 DEF SendEmpty
  <2>2. <<>> \in Seq(AnyRecord)
    OBVIOUS
  <2>3. inbox' \in [Fds -> Seq(Seq(AnyRecord))]
    BY <2>1, <2>2, InboxGrows DEF NetworkInv
  <2> QED
    BY <2>1, <2>3 DEF NetworkInv
<1>6. CASE UNCHANGED dnssdvars
  BY <1>6, NetworkKept DEF dnssdvars, network
<1> QED
  BY <1>1, <1>2, <1>3, <1>4, <1>5, <1>6 DEF DnssdNext

LEMMA NetworkInit == DnssdInit => NetworkInv
<1> SUFFICES ASSUME DnssdInit PROVE NetworkInv
  OBVIOUS
<1>1. \A f \in Fds : <<>> \in Seq(Seq(AnyRecord))
  OBVIOUS
<1>2. inbox = [f \in Fds |-> <<>>] /\ fds = {} /\ asked = {} /\ told = {}
  BY DEF DnssdInit
<1> QED
  BY <1>1, <1>2 DEF NetworkInv

\* The callbacks get the last labels of a name in a record, each of them up to a zero
\* byte in it, when no dot of the name is written with a backslash.
THEOREM ToldIsLabelsHolds == DnssdSpec => []ToldIsLabels
<1>1. ASSUME NetworkInv PROVE ToldIsLabels
  <2> SUFFICES ASSUME NEW r \in told, EscapedDots(r.text) = {}
               PROVE  AreLabels(r.names, Reference[r.kind][r.text])
    BY DEF ToldIsLabels
  <2> DEFINE kind == r.kind
             text == r.text
  <2>1. kind \in Kinds /\ text \in Texts /\ r.names = Names[kind][text] /\ r.names # NoNames
    BY <1>1 DEF NetworkInv
  <2> HIDE DEF kind, text
  <2>2. r.names = mdns_scan_names(text, Count(kind))
    BY <2>1, Zenon DEF Names
  <2>3. Reference[kind][text] = LastLabels(text, Count(kind))
    BY <2>1, Zenon DEF Reference
  <2>4. text \in Seq(STRING)
    <3>1. PICK h \in Hosts : \E x \in Range(Answers[h].records) : text = x.text
      BY <2>1 DEF Texts
    <3>2. Answers[h].records \in Seq([kind : Kinds \cup {"cut"}, text : Seq(STRING)])
      BY AnswerAssumption
    <3> DEFINE records == Answers[h].records
               R == [kind : Kinds \cup {"cut"}, text : Seq(STRING)]
    <3>3. records \in Seq(R) /\ \E i \in DOMAIN records : text = records[i].text
      BY <3>1, <3>2 DEF Range
    <3> HIDE DEF records, R
    <3>4. \E x \in R : text = x.text
      BY <3>3
    <3> QED
      BY <3>4 DEF R
  <2>5. Count(kind) \in Nat \ {0}
    BY DEF Count
  <2>6. EscapedDots(text) = {}
    BY DEF text
  <2>7. AreLabels(mdns_scan_names(text, Count(kind)), LastLabels(text, Count(kind)))
    BY <2>1, <2>2, <2>4, <2>5, <2>6, NamesAreLabels
  <2> QED
    BY <2>2, <2>3, <2>7, Zenon DEF kind, text
<1>2. DnssdInit => DnssdInv /\ NetworkInv
  BY DnssdInitInv, NetworkInit
<1>3. DnssdInv /\ NetworkInv /\ [DnssdNext]_dnssdvars => (DnssdInv /\ NetworkInv)'
  BY DnssdStep, NetworkStep
<1> QED
  BY <1>1, <1>2, <1>3, PTL DEF DnssdSpec
=============================================================================
