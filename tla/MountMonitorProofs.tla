------------------------- MODULE MountMonitorProofs -------------------------
(***************************************************************************)
(* Proofs about MountMonitor: any mount table, any number of changes, of   *)
(* threads that are called for them and of threads that export.            *)
(***************************************************************************)
EXTENDS MountMonitor, FiniteSetTheorems, TLAPS

Entries == [id : Ids, in : {0, 1}, at : Nat]

\* The types of the monitor, of the merge and of the threads around it.
TypeOK ==
    /\ file \in Seq(Lines) /\ changes \in Nat /\ ignore \in BOOLEAN
    /\ buffer \in [{0, 1} -> Seq(Lines)]
    /\ current \in {0, 1} /\ previous \in {-1, 1 - current}
    /\ table \in Seq(Entries)
    /\ pc \in [Threads -> {"idle", "read", "lock", "merge", "end"}]
    /\ thread \in BOOLEAN /\ changed \in BOOLEAN
    /\ list \in Nat /\ ctr \in Nat
    /\ export \in [Exporters -> SUBSET Entries]
    /\ sysflag \in BOOLEAN /\ muted \subseteq Ids
    /\ told \subseteq Ids /\ due \in Nat /\ tried \in Nat
    /\ skipped \in BOOLEAN /\ broken \in BOOLEAN

\* One thread is in MOUNTINFO_read_mount_table, and it has read the file after
\* the last call, or is about to, or finds CHANGED set.
ThreadInv ==
    /\ \A t, u \in Threads : pc[t] # "idle" /\ pc[u] # "idle" => t = u
    /\ thread <=> \E t \in Threads : pc[t] # "idle"
    /\ due <= changes
    /\ changed \/ tried >= due \/ \E t \in Threads : pc[t] = "read"
    /\ changed => thread

Sorted(s) == \A i, j \in DOMAIN s : i < j => s[i].id < s[j].id

\* The file and both buffers have their lines in the order of the ids.
OrderInv == Sorted(file) /\ \A b \in {0, 1} : Sorted(buffer[b])

\* Where the merge is, and that nobody copies a line meanwhile.
PlaceInv ==
    /\ AtRest => list = 0
    /\ ~AtRest => /\ list \in 1 .. Len(table) + 1
                  /\ ctr \in 0 .. Len(buffer[current])
                  /\ \A x \in Exporters : export[x] = {}
    /\ \A x \in Exporters : export[x] \subseteq Range(table)

\* Entry k of the table is at home: what the merge has passed is in the current
\* buffer, among the lines that are read, and the rest in the previous one.
AtHome(k) ==
    LET l == table[k] IN
    /\ l.in = IF k < list THEN current ELSE previous
    /\ k < list => l.at <= ctr
    /\ l.at \in DOMAIN buffer[l.in] /\ buffer[l.in][l.at].id = l.id

TableInv == ~broken => Sorted(table) /\ \A k \in DOMAIN table : AtHome(k)

\* Without a line lost to a removal the merge is as far on the table as in the
\* buffer, and what it has passed are the lines it has read.
ExactInv == ~broken /\ ~skipped =>
    /\ ~AtRest => /\ ctr = list - 1
                  /\ \A k \in 1 .. list - 1 : table[k].id = buffer[current][k].id
    /\ AtRest /\ previous # -1 =>
          /\ Len(table) = Len(buffer[previous])
          /\ \A k \in DOMAIN table : table[k].id = buffer[previous][k].id

MountInv ==
    TypeOK /\ ThreadInv /\ OrderInv /\ PlaceInv /\ TableInv /\ ExactInv /\ ToldIsTable

-----------------------------------------------------------------------------
(* Sequences: what InsertAt and RemoveAt give, and what they keep.         *)

LEMMA InsertSeq ==
    ASSUME NEW S, NEW s \in Seq(S), NEW e \in S, NEW k \in 1 .. Len(s) + 1
    PROVE  /\ InsertAt(s, k, e) \in Seq(S)
           /\ Len(InsertAt(s, k, e)) = Len(s) + 1
           /\ \A i \in 1 .. Len(s) + 1 :
                 InsertAt(s, k, e)[i] = IF i < k THEN s[i] ELSE IF i = k THEN e ELSE s[i - 1]
<1> DEFINE a == SubSeq(s, 1, k - 1)
           b == SubSeq(s, k, Len(s))
           c == a \o <<e>>
           r == InsertAt(s, k, e)
<1>1. Len(s) \in Nat /\ DOMAIN s = 1 .. Len(s) /\ k \in Nat \ {0} /\ k <= Len(s) + 1
  OBVIOUS
<1>2. a \in Seq(S) /\ b \in Seq(S) /\ Len(a) = k - 1 /\ Len(b) = Len(s) + 1 - k
  BY <1>1
<1>3. /\ \A i \in 1 .. k - 1 : a[i] = s[i]
      /\ \A i \in 1 .. Len(s) + 1 - k : b[i] = s[k + i - 1]
  BY <1>1
<1>4. r = c \o b
  BY DEF InsertAt
<1> HIDE DEF a, b, r
<1>5. c \in Seq(S) /\ Len(c) = k /\ c[k] = e /\ \A i \in 1 .. k - 1 : c[i] = a[i]
  <2> HIDE DEF c
  <2>1. c = Append(a, e)
    BY <1>2 DEF c
  <2> QED
    BY <2>1, <1>1, <1>2
<1> HIDE DEF c
<1>6. r \in Seq(S) /\ Len(r) = Len(s) + 1
  BY <1>1, <1>2, <1>4, <1>5
<1>7. ASSUME NEW i \in 1 .. Len(s) + 1
      PROVE  r[i] = IF i < k THEN s[i] ELSE IF i = k THEN e ELSE s[i - 1]
  <2>1. CASE i < k
    <3>1. i \in 1 .. k - 1 /\ r[i] = c[i]
      BY <1>1, <1>2, <1>4, <1>5, <2>1
    <3> QED
      BY <3>1, <2>1, <1>3, <1>5
  <2>2. CASE i = k
    <3>1. r[i] = c[i]
      BY <1>1, <1>2, <1>4, <1>5, <2>2
    <3> QED
      BY <3>1, <2>2, <1>5, <1>1
  <2>3. CASE i > k
    <3>1. i - k \in 1 .. Len(s) + 1 - k /\ r[i] = b[i - k]
      BY <1>1, <1>2, <1>4, <1>5, <2>3
    <3>2. b[i - k] = s[k + (i - k) - 1] /\ k + (i - k) - 1 = i - 1
      BY <3>1, <1>1, <1>3
    <3>3. ~(i < k) /\ i # k
      BY <2>3, <1>1
    <3> QED
      BY <3>1, <3>2, <3>3
  <2> QED
    BY <1>1, <2>1, <2>2, <2>3
<1> QED
  BY <1>6, <1>7 DEF r

LEMMA RemoveSeq ==
    ASSUME NEW S, NEW s \in Seq(S), NEW k \in 1 .. Len(s)
    PROVE  /\ RemoveAt(s, k) \in Seq(S)
           /\ Len(RemoveAt(s, k)) = Len(s) - 1
           /\ \A i \in 1 .. Len(s) - 1 :
                 RemoveAt(s, k)[i] = IF i < k THEN s[i] ELSE s[i + 1]
<1> DEFINE a == SubSeq(s, 1, k - 1)
           b == SubSeq(s, k + 1, Len(s))
           r == RemoveAt(s, k)
<1>1. Len(s) \in Nat /\ DOMAIN s = 1 .. Len(s) /\ k \in 1 .. Len(s) /\ k \in DOMAIN s
  OBVIOUS
<1>2. a \in Seq(S) /\ b \in Seq(S) /\ Len(a) = k - 1 /\ Len(b) = Len(s) - k
  BY <1>1
<1>3. /\ \A i \in 1 .. k - 1 : a[i] = s[i]
      /\ \A i \in 1 .. Len(s) - k : b[i] = s[k + i]
  BY <1>1
<1>4. r = a \o b
  BY DEF RemoveAt
<1>5. r \in Seq(S) /\ Len(r) = Len(s) - 1
  BY <1>1 DEF RemoveAt
<1> HIDE DEF a, b, r
<1>6. ASSUME NEW i \in 1 .. Len(s) - 1
      PROVE  r[i] = IF i < k THEN s[i] ELSE s[i + 1]
  <2>1. CASE i < k
    <3>1. i \in 1 .. k - 1 /\ r[i] = a[i]
      BY <1>1, <1>2, <1>4, <2>1
    <3> QED
      BY <3>1, <2>1, <1>3
  <2>2. CASE i >= k
    <3>1. i + 1 - k \in 1 .. Len(s) - k /\ r[i] = b[i + 1 - k]
      BY <1>1, <1>2, <1>4, <2>2
    <3>2. b[i + 1 - k] = s[k + (i + 1 - k)] /\ k + (i + 1 - k) = i + 1
      BY <3>1, <1>1, <1>3
    <3>3. ~(i < k)
      BY <2>2, <1>1
    <3> QED
      BY <3>1, <3>2, <3>3
  <2> QED
    BY <1>1, <2>1, <2>2
<1> QED
  BY <1>5, <1>6 DEF r

LEMMA SortedInsert ==
    ASSUME NEW S, \A e \in S : e.id \in Nat,
           NEW s \in Seq(S), NEW e \in S, NEW k \in 1 .. Len(s) + 1, Sorted(s),
           \A i \in DOMAIN s : IF i < k THEN s[i].id < e.id ELSE e.id < s[i].id
    PROVE  Sorted(InsertAt(s, k, e))
<1> DEFINE r == InsertAt(s, k, e)
<1>1. /\ r \in Seq(S) /\ Len(r) = Len(s) + 1
      /\ \A i \in 1 .. Len(s) + 1 : r[i] = IF i < k THEN s[i] ELSE IF i = k THEN e ELSE s[i - 1]
  BY InsertSeq
<1> HIDE DEF r
<1>2. \A i \in DOMAIN s : s[i].id \in Nat
  OBVIOUS
<1>3. ASSUME NEW i \in DOMAIN r, NEW j \in DOMAIN r, i < j
      PROVE  r[i].id < r[j].id
  <2>1. i \in 1 .. Len(s) + 1 /\ j \in 1 .. Len(s) + 1 /\ DOMAIN s = 1 .. Len(s) /\ Len(s) \in Nat
    BY <1>1
  <2>2. CASE j < k
    BY <1>1, <1>2, <1>3, <2>1, <2>2 DEF Sorted
  <2>3. CASE j = k
    <3>1. i \in DOMAIN s /\ i < k /\ r[i] = s[i] /\ r[j] = e
      BY <1>1, <1>3, <2>1, <2>3
    <3> QED
      BY <3>1
  <2>4. CASE j > k /\ i = k
    <3>1. j - 1 \in DOMAIN s /\ ~(j - 1 < k) /\ r[j] = s[j - 1] /\ r[i] = e
      BY <1>1, <1>3, <2>1, <2>4
    <3> QED
      BY <3>1
  <2>5. CASE j > k /\ i < k
    <3>1. j - 1 \in DOMAIN s /\ ~(j - 1 < k) /\ r[j] = s[j - 1] /\ i \in DOMAIN s /\ r[i] = s[i]
      BY <1>1, <1>3, <2>1, <2>5
    <3> QED
      BY <3>1, <2>5, <1>2
  <2>6. CASE j > k /\ i > k
    <3>1. /\ j - 1 \in DOMAIN s /\ r[j] = s[j - 1] /\ i - 1 \in DOMAIN s /\ r[i] = s[i - 1]
          /\ i - 1 < j - 1
      BY <1>1, <1>3, <2>1, <2>6
    <3> QED
      BY <3>1 DEF Sorted
  <2> QED
    BY <2>1, <2>2, <2>3, <2>4, <2>5, <2>6
<1> QED
  BY <1>3 DEF Sorted, r

LEMMA SortedRemove ==
    ASSUME NEW S, NEW s \in Seq(S), NEW k \in 1 .. Len(s), Sorted(s)
    PROVE  Sorted(RemoveAt(s, k))
<1> DEFINE r == RemoveAt(s, k)
<1>1. /\ r \in Seq(S) /\ Len(r) = Len(s) - 1
      /\ \A i \in 1 .. Len(s) - 1 : r[i] = IF i < k THEN s[i] ELSE s[i + 1]
  BY RemoveSeq
<1> HIDE DEF r
<1>2. ASSUME NEW i \in DOMAIN r, NEW j \in DOMAIN r, i < j
      PROVE  r[i].id < r[j].id
  <2> DEFINE p(n) == IF n < k THEN n ELSE n + 1
  <2>1. /\ i \in 1 .. Len(s) - 1 /\ j \in 1 .. Len(s) - 1 /\ DOMAIN s = 1 .. Len(s)
        /\ Len(s) \in Nat
    BY <1>1
  <2>2. p(i) \in DOMAIN s /\ p(j) \in DOMAIN s /\ p(i) < p(j)
    BY <2>1, <1>2
  <2>3. r[i] = s[p(i)] /\ r[j] = s[p(j)]
    BY <2>1, <1>1
  <2> QED
    BY <2>2, <2>3 DEF Sorted
<1> QED
  BY <1>2 DEF Sorted, r

LEMMA IdsInsert ==
    ASSUME NEW S, NEW s \in Seq(S), NEW e \in S, NEW k \in 1 .. Len(s) + 1
    PROVE  IdsOf(InsertAt(s, k, e)) = IdsOf(s) \cup {e.id}
<1> DEFINE r == InsertAt(s, k, e)
<1>1. /\ r \in Seq(S) /\ Len(r) = Len(s) + 1
      /\ \A i \in 1 .. Len(s) + 1 : r[i] = IF i < k THEN s[i] ELSE IF i = k THEN e ELSE s[i - 1]
  BY InsertSeq
<1> HIDE DEF r
<1>2. DOMAIN r = 1 .. Len(s) + 1 /\ DOMAIN s = 1 .. Len(s) /\ Len(s) \in Nat
  BY <1>1
<1>3. ASSUME NEW i \in DOMAIN r
      PROVE  r[i].id \in IdsOf(s) \cup {e.id}
  <2>1. i = k \/ (i < k /\ i \in DOMAIN s) \/ (i > k /\ i - 1 \in DOMAIN s)
    BY <1>2
  <2> QED
    BY <2>1, <1>1, <1>2 DEF IdsOf
<1>4. ASSUME NEW i \in DOMAIN s
      PROVE  s[i].id \in IdsOf(r)
  <2> DEFINE j == IF i < k THEN i ELSE i + 1
  <2>1. j \in DOMAIN r /\ r[j] = s[i]
    BY <1>1, <1>2
  <2> QED
    BY <2>1 DEF IdsOf
<1>5. e.id \in IdsOf(r)
  <2>1. k \in DOMAIN r /\ r[k] = e
    BY <1>1, <1>2
  <2> QED
    BY <2>1 DEF IdsOf
<1>6. IdsOf(r) \subseteq IdsOf(s) \cup {e.id}
  BY <1>3 DEF IdsOf
<1>7. IdsOf(s) \subseteq IdsOf(r)
  BY <1>4 DEF IdsOf
<1> QED
  BY <1>5, <1>6, <1>7 DEF r

LEMMA IdsRemove ==
    ASSUME NEW S, \A e \in S : e.id \in Nat,
           NEW s \in Seq(S), NEW k \in 1 .. Len(s), Sorted(s)
    PROVE  IdsOf(RemoveAt(s, k)) = IdsOf(s) \ {s[k].id}
<1> DEFINE r == RemoveAt(s, k)
<1>1. /\ r \in Seq(S) /\ Len(r) = Len(s) - 1
      /\ \A i \in 1 .. Len(s) - 1 : r[i] = IF i < k THEN s[i] ELSE s[i + 1]
  BY RemoveSeq
<1> HIDE DEF r
<1>2. DOMAIN r = 1 .. Len(s) - 1 /\ DOMAIN s = 1 .. Len(s) /\ Len(s) \in Nat
  BY <1>1
<1>3. \A i \in DOMAIN s : i # k => s[i].id # s[k].id
  <2>1. \A i \in DOMAIN s : s[i].id \in Nat
    OBVIOUS
  <2> QED
    BY <1>2, <2>1 DEF Sorted
<1>4. ASSUME NEW i \in DOMAIN r
      PROVE  r[i].id \in IdsOf(s) \ {s[k].id}
  <2> DEFINE j == IF i < k THEN i ELSE i + 1
  <2>1. j \in DOMAIN s /\ j # k /\ r[i] = s[j]
    BY <1>1, <1>2
  <2> QED
    BY <2>1, <1>3 DEF IdsOf
<1>5. ASSUME NEW i \in DOMAIN s, s[i].id # s[k].id
      PROVE  s[i].id \in IdsOf(r)
  <2> DEFINE j == IF i < k THEN i ELSE i - 1
  <2>1. i # k
    BY <1>5
  <2>2. j \in DOMAIN r /\ r[j] = s[i]
    BY <1>1, <1>2, <2>1
  <2> QED
    BY <2>2 DEF IdsOf
<1>6. IdsOf(r) \subseteq IdsOf(s) \ {s[k].id}
  BY <1>4 DEF IdsOf
<1>7. IdsOf(s) \ {s[k].id} \subseteq IdsOf(r)
  BY <1>5 DEF IdsOf
<1> QED
  BY <1>6, <1>7 DEF r

LEMMA SortedCount ==
    ASSUME NEW S, \A e \in S : e.id \in Nat, NEW s \in Seq(S), Sorted(s)
    PROVE  Cardinality(IdsOf(s)) = Len(s)
<1> DEFINE f == [i \in 1 .. Len(s) |-> s[i].id]
<1>1. Len(s) \in Nat /\ DOMAIN s = 1 .. Len(s) /\ \A i \in DOMAIN s : s[i].id \in Nat
  OBVIOUS
<1>2. \A i, j \in 1 .. Len(s) : f[i] = f[j] => i = j
  BY <1>1 DEF Sorted
<1>3. f \in [1 .. Len(s) -> IdsOf(s)] /\ \A v \in IdsOf(s) : \E i \in 1 .. Len(s) : f[i] = v
  BY <1>1 DEF IdsOf
<1>4. f \in Bijection(1 .. Len(s), IdsOf(s))
  BY <1>2, <1>3 DEF Bijection, Injection, Surjection, IsInjective
<1>5. ExistsBijection(1 .. Len(s), IdsOf(s))
  BY <1>4 DEF ExistsBijection
<1> QED
  BY <1>1, <1>5, FS_CountingElements

LEMMA IdsAreNumbers == (\A e \in Lines : e.id \in Nat) /\ (\A e \in Entries : e.id \in Nat)
  BY MountAssumption DEF Lines, Entries

-----------------------------------------------------------------------------
(* The kernel.                                                             *)

LEMMA KernelKeeps ==
    ASSUME MountInv, NEW newfile \in Seq(Lines), Sorted(newfile), Kernel(newfile)
    PROVE  MountInv'
<1> USE DEF MountInv
<1>1. /\ file' = newfile /\ changes' = changes + 1
      /\ UNCHANGED <<ignore, buffer, current, previous, table, pc, thread, changed, list, ctr,
                     export, sysflag, told, muted, due, tried, skipped, broken>>
  BY DEF Kernel, monitor, merge, flags
<1>2. TypeOK'
  BY <1>1 DEF TypeOK
<1>3. ThreadInv'
  BY <1>1 DEF ThreadInv, TypeOK
<1>4. OrderInv'
  BY <1>1 DEF OrderInv
<1>5. PlaceInv'
  BY <1>1 DEF PlaceInv, AtRest, Merging
<1>6. TableInv'
  BY <1>1 DEF TableInv, AtHome
<1>7. ExactInv'
  BY <1>1 DEF ExactInv, AtRest, Merging
<1>8. ToldIsTable'
  BY <1>1 DEF ToldIsTable
<1> QED
  BY <1>2, <1>3, <1>4, <1>5, <1>6, <1>7, <1>8

LEMMA MountKeeps ==
    ASSUME MountInv, NEW line \in Lines, Mount(line)
    PROVE  MountInv'
<1>1. PICK k \in 1 .. Len(file) + 1 :
         /\ \A i \in DOMAIN file : IF i < k THEN file[i].id < line.id ELSE file[i].id > line.id
         /\ Kernel(InsertAt(file, k, line))
  BY DEF Mount
<1>2. file \in Seq(Lines) /\ Sorted(file)
  BY DEF MountInv, TypeOK, OrderInv
<1>3. InsertAt(file, k, line) \in Seq(Lines)
  BY <1>2, InsertSeq
<1>4. \A i \in DOMAIN file : IF i < k THEN file[i].id < line.id ELSE line.id < file[i].id
  <2>1. \A i \in DOMAIN file : file[i].id \in Nat /\ line.id \in Nat
    BY <1>2, IdsAreNumbers
  <2> QED
    BY <1>1, <2>1
<1>5. Sorted(InsertAt(file, k, line))
  BY <1>2, <1>4, SortedInsert, IdsAreNumbers
<1> QED
  BY <1>1, <1>3, <1>5, KernelKeeps

LEMMA UmountKeeps ==
    ASSUME MountInv, NEW k \in DOMAIN file, Umount(k)
    PROVE  MountInv'
<1>1. file \in Seq(Lines) /\ Sorted(file) /\ k \in 1 .. Len(file)
  BY DEF MountInv, TypeOK, OrderInv
<1>2. RemoveAt(file, k) \in Seq(Lines) /\ Sorted(RemoveAt(file, k))
  BY <1>1, RemoveSeq, SortedRemove
<1> QED
  BY <1>2, KernelKeeps DEF Umount

LEMMA RemountKeeps ==
    ASSUME MountInv, NEW k \in DOMAIN file, Remount(k)
    PROVE  MountInv'
<1> DEFINE f == [file EXCEPT ![k].text = 1 - @]
<1>1. file \in Seq(Lines) /\ Sorted(file) /\ k \in 1 .. Len(file) /\ file[k] \in Lines
  BY DEF MountInv, TypeOK, OrderInv
<1>2. [file[k] EXCEPT !.text = 1 - @] \in Lines /\ [file[k] EXCEPT !.text = 1 - @].id = file[k].id
  BY <1>1 DEF Lines
<1>3. f \in Seq(Lines) /\ DOMAIN f = DOMAIN file /\ \A i \in DOMAIN file : f[i].id = file[i].id
  BY <1>1, <1>2
<1>4. Sorted(f)
  BY <1>1, <1>3 DEF Sorted
<1> QED
  BY <1>3, <1>4, KernelKeeps DEF Remount

-----------------------------------------------------------------------------
(* The thread that reads.                                                  *)

\* One thread at most is not idle: it decides whether a merge is going on, before
\* and after a step that moves it.
LEMMA OneReader ==
    ASSUME TypeOK, ThreadInv, NEW t \in Threads, pc[t] # "idle"
    PROVE  /\ \A u \in Threads : u # t => pc[u] = "idle"
           /\ AtRest <=> pc[t] # "merge"
           /\ thread
  BY DEF TypeOK, ThreadInv, AtRest, Merging

LEMMA ReaderMoves ==
    ASSUME TypeOK, ThreadInv, NEW t \in Threads, pc[t] # "idle",
           NEW stage \in {"read", "lock", "merge", "end"}, Goto(t, stage)
    PROVE  /\ AtRest' <=> stage # "merge"
           /\ pc' \in [Threads -> {"idle", "read", "lock", "merge", "end"}]
           /\ pc'[t] = stage
           /\ \A u \in Threads : u # t => pc'[u] = "idle"
<1>1. \A u \in Threads : u # t => pc[u] = "idle"
  BY OneReader
<1>2. pc' = [pc EXCEPT ![t] = stage] /\ pc \in [Threads -> {"idle", "read", "lock", "merge", "end"}]
  BY DEF Goto, TypeOK
<1> QED
  BY <1>1, <1>2 DEF AtRest, Merging

LEMMA EnterKeeps ==
    ASSUME MountInv, NEW t \in Threads, Enter(t)
    PROVE  MountInv'
<1> USE DEF MountInv
<1>1. /\ due' = changes /\ pc[t] = "idle"
      /\ UNCHANGED <<file, changes, ignore, buffer, current, previous, table, list, ctr, export,
                     told, muted, tried, skipped, broken>>
  BY DEF Enter, monitor
<1>2. AtRest' = AtRest
  <2>1. CASE UNCHANGED pc
    BY <2>1 DEF AtRest, Merging
  <2>2. CASE ~thread /\ Goto(t, "read")
    <3>1. \A u \in Threads : pc[u] = "idle" /\ pc'[u] \in {"idle", "read"}
      BY <2>2 DEF ThreadInv, TypeOK, Goto
    <3> QED
      BY <3>1 DEF AtRest, Merging
  <2> QED
    BY <2>1, <2>2 DEF Enter
<1>3. TypeOK' /\ ThreadInv'
  <2>1. CASE thread /\ changed' = TRUE /\ UNCHANGED <<thread, pc, sysflag>>
    <3>1. changed' \in BOOLEAN
      BY <2>1, Zenon
    <3>2. TypeOK'
      BY <1>1, <2>1, <3>1 DEF TypeOK
    <3> QED
      BY <1>1, <2>1, <3>2 DEF TypeOK, ThreadInv
  <2>2. CASE /\ ~thread /\ thread' = TRUE /\ Goto(t, "read")
             /\ sysflag' \in BOOLEAN /\ UNCHANGED changed
    <3>1. thread' \in BOOLEAN
      BY <2>2, Zenon
    <3>2. pc' = [pc EXCEPT ![t] = "read"]
      BY <2>2 DEF Goto
    <3>3. TypeOK'
      BY <1>1, <2>2, <3>1, <3>2 DEF TypeOK
    <3>4. \A u \in Threads : pc[u] = "idle" /\ pc'[u] = IF u = t THEN "read" ELSE "idle"
      BY <2>2, <3>2 DEF ThreadInv, TypeOK
    <3>5. changes \in Nat
      BY DEF TypeOK
    <3> QED
      BY <1>1, <2>2, <3>3, <3>4, <3>5 DEF ThreadInv
  <2> QED
    BY <2>1, <2>2 DEF Enter
<1>4. OrderInv'
  BY <1>1 DEF OrderInv
<1>5. PlaceInv'
  BY <1>1, <1>2 DEF PlaceInv
<1>6. TableInv'
  BY <1>1 DEF TableInv, AtHome
<1>7. ExactInv'
  BY <1>1, <1>2 DEF ExactInv
<1>8. ToldIsTable'
  BY <1>1 DEF ToldIsTable
<1> QED
  BY <1>3, <1>4, <1>5, <1>6, <1>7, <1>8

LEMMA ReadFileKeeps ==
    ASSUME MountInv, NEW t \in Threads, ReadFile(t)
    PROVE  MountInv'
<1> USE DEF MountInv
<1>1. /\ pc[t] = "read" /\ tried' = changes
      /\ UNCHANGED <<file, changes, ignore, current, previous, table, thread, changed, list, ctr,
                     export, sysflag, told, muted, due, skipped, broken>>
  BY DEF ReadFile, flags, merge
<1>2. PICK stage \in {"end", "lock"} : Goto(t, stage)
  BY DEF ReadFile
<1>3. PICK lines \in {buffer[current], <<>>, file} : buffer' = [buffer EXCEPT ![current] = lines]
  <2>1. buffer = [buffer EXCEPT ![current] = buffer[current]]
    BY DEF TypeOK
  <2> QED
    BY <2>1 DEF ReadFile, Fill
<1>4. AtRest /\ AtRest' /\ thread
  BY <1>1, <1>2, OneReader, ReaderMoves
<1>5. lines \in Seq(Lines) /\ Sorted(lines)
  <2>1. <<>> \in Seq(Lines) /\ Sorted(<<>>)
    BY DEF Sorted
  <2>2. buffer[current] \in Seq(Lines) /\ Sorted(buffer[current])
    BY DEF TypeOK, OrderInv
  <2> QED
    BY <2>1, <2>2 DEF TypeOK, OrderInv
<1>6. /\ buffer' \in [{0, 1} -> Seq(Lines)] /\ buffer'[current] = lines
      /\ \A b \in {0, 1} : b # current => buffer'[b] = buffer[b]
  BY <1>3, <1>5 DEF TypeOK
<1>7. TypeOK'
  BY <1>1, <1>2, <1>6, ReaderMoves DEF TypeOK
<1>8. ThreadInv'
  <2>1. pc'[t] = stage /\ \A u \in Threads : u # t => pc'[u] = "idle"
    BY <1>1, <1>2, ReaderMoves
  <2> QED
    BY <1>1, <1>4, <2>1 DEF ThreadInv, TypeOK
<1>9. OrderInv'
  BY <1>1, <1>5, <1>6 DEF OrderInv
<1>10. PlaceInv'
  BY <1>1, <1>4 DEF PlaceInv
<1>11. TableInv'
  <2>1. list = 0
    BY <1>4 DEF PlaceInv
  <2>2. ASSUME ~broken, NEW k \in DOMAIN table
        PROVE  AtHome(k)'
    <3>1. AtHome(k) /\ ~(k < list)
      BY <2>1, <2>2 DEF TableInv, TypeOK
    <3>2. table[k].in = previous /\ table[k].in \in {0, 1}
      <4>1. table[k] \in Entries
        BY <2>2 DEF TypeOK
      <4> QED
        BY <4>1, <3>1 DEF AtHome, Entries
    <3>3. buffer'[table[k].in] = buffer[table[k].in]
      BY <3>2, <1>6 DEF TypeOK
    <3> QED
      BY <3>1, <3>3, <1>1 DEF AtHome
  <2> QED
    BY <2>2, <1>1 DEF TableInv
<1>12. ExactInv'
  <2>1. previous # -1 => buffer'[previous] = buffer[previous]
    BY <1>6 DEF TypeOK
  <2> QED
    BY <1>1, <1>4, <2>1 DEF ExactInv
<1>13. ToldIsTable'
  BY <1>1 DEF ToldIsTable
<1> QED
  BY <1>7, <1>8, <1>9, <1>10, <1>11, <1>12, <1>13

LEMMA MergeStartKeeps ==
    ASSUME MountInv, NEW t \in Threads, MergeStart(t)
    PROVE  MountInv'
<1> USE DEF MountInv
<1>1. /\ pc[t] = "lock" /\ Goto(t, "merge") /\ \A x \in Exporters : export[x] = {}
      /\ list' = 1 /\ ctr' = 0 /\ skipped' = FALSE
      /\ UNCHANGED <<file, changes, ignore, buffer, current, previous, table, thread, changed,
                     export, sysflag, told, muted, due, tried, broken>>
  BY DEF MergeStart, monitor, flags
<1>2. AtRest /\ ~AtRest' /\ thread
  BY <1>1, OneReader, ReaderMoves
<1>3. TypeOK'
  <2>1. skipped' \in BOOLEAN
    BY <1>1, Zenon
  <2> QED
    BY <1>1, <2>1, ReaderMoves DEF TypeOK
<1>4. ThreadInv'
  <2>1. pc'[t] = "merge" /\ \A u \in Threads : u # t => pc'[u] = "idle" /\ pc[u] = "idle"
    BY <1>1, ReaderMoves, OneReader
  <2> QED
    BY <1>1, <1>2, <2>1 DEF ThreadInv
<1>5. OrderInv'
  BY <1>1 DEF OrderInv
<1>6. Len(table) \in Nat /\ Len(buffer[current]) \in Nat
  BY DEF TypeOK
<1>7. PlaceInv'
  BY <1>1, <1>2, <1>6 DEF PlaceInv
<1>8. TableInv'
  <2>1. list = 0
    BY <1>2 DEF PlaceInv
  <2>2. \A k \in DOMAIN table : ~(k < list) /\ ~(k < list')
    BY <2>1, <1>1 DEF TypeOK
  <2> QED
    BY <2>2, <1>1 DEF TableInv, AtHome
<1>9. ExactInv'
  BY <1>1, <1>2 DEF ExactInv
<1>10. ToldIsTable'
  BY <1>1 DEF ToldIsTable
<1> QED
  BY <1>3, <1>4, <1>5, <1>7, <1>8, <1>9, <1>10

-----------------------------------------------------------------------------
(* The rounds of the merge.                                                *)

\* What a thread in the merge finds.
LEMMA InMerge ==
    ASSUME MountInv, NEW t \in Threads, Merging(t)
    PROVE  /\ ~AtRest
           /\ Len(table) \in Nat /\ DOMAIN table = 1 .. Len(table)
           /\ list \in 1 .. Len(table) + 1 /\ ctr \in 0 .. Len(buffer[current])
           /\ buffer[current] \in Seq(Lines) /\ Sorted(buffer[current])
           /\ \A x \in Exporters : export[x] = {}
           /\ Listed => list \in DOMAIN table /\ mlist \in Entries
           /\ ~eof => ctr + 1 \in DOMAIN buffer[current] /\ mline \in Lines
<1> USE DEF MountInv
<1>1. ~AtRest
  BY DEF AtRest
<1>2. Len(table) \in Nat /\ DOMAIN table = 1 .. Len(table) /\ table \in Seq(Entries)
  BY DEF TypeOK
<1>3. buffer[current] \in Seq(Lines) /\ Sorted(buffer[current])
  BY DEF TypeOK, OrderInv
<1>4. /\ list \in 1 .. Len(table) + 1 /\ ctr \in 0 .. Len(buffer[current])
      /\ \A x \in Exporters : export[x] = {}
  BY <1>1 DEF PlaceInv
<1>5. Listed => list \in DOMAIN table
  BY <1>2, <1>4 DEF Listed
<1>6. Listed => mlist \in Entries
  BY <1>2, <1>5 DEF mlist
<1>7. ~eof => ctr + 1 \in DOMAIN buffer[current]
  BY <1>3, <1>4 DEF eof
<1>8. ~eof => mline \in Lines
  BY <1>3, <1>7 DEF mline
<1> QED
  BY <1>1, <1>2, <1>3, <1>4, <1>5, <1>6, <1>7, <1>8

LEMMA RoundKeeps ==
    ASSUME MountInv, NEW t \in Threads, Merging(t), Round,
           table' \in Seq(Entries), list' \in 1 .. Len(table') + 1,
           ctr' \in 0 .. Len(buffer[current]), told' \subseteq Ids, skipped' \in BOOLEAN,
           sysflag' \in BOOLEAN, muted' \subseteq Ids
    PROVE  TypeOK' /\ ThreadInv' /\ OrderInv' /\ PlaceInv' /\ ~AtRest'
<1> USE DEF MountInv
<1>1. UNCHANGED <<file, changes, ignore, buffer, current, previous, pc, thread, changed, export,
                  due, tried, broken>>
  BY DEF Round, flags
<1>2. ~AtRest' /\ \A x \in Exporters : export[x] = {}
  BY <1>1, InMerge DEF AtRest, Merging
<1>3. list' \in Nat /\ ctr' \in Nat
  BY DEF TypeOK
<1>4. TypeOK'
  BY <1>1, <1>3 DEF TypeOK
<1>5. ThreadInv'
  BY <1>1 DEF ThreadInv
<1>6. OrderInv'
  BY <1>1 DEF OrderInv
<1>7. PlaceInv'
  BY <1>1, <1>2 DEF PlaceInv
<1> QED
  BY <1>2, <1>4, <1>5, <1>6, <1>7

LEMMA RemoveListedKeeps ==
    ASSUME MountInv, NEW t \in Threads, Merging(t), Listed, RemoveListed, Round,
           ctr' \in 0 .. Len(buffer[current]), ctr <= ctr', skipped' \in BOOLEAN,
           sysflag' \in BOOLEAN
    PROVE  /\ TypeOK' /\ ThreadInv' /\ OrderInv' /\ PlaceInv' /\ ~AtRest' /\ TableInv'
           /\ ToldIsTable'
           /\ \A k \in 1 .. list - 1 : table'[k] = table[k]
<1> USE DEF MountInv
<1>1. /\ UNCHANGED <<buffer, current, previous, broken, ignore, list>>
      /\ table' = RemoveAt(table, list) /\ told' = told \ {mlist.id}
      /\ muted' = muted \ {mlist.id}
  BY DEF Round, RemoveListed
<1>2. /\ Len(table) \in Nat /\ DOMAIN table = 1 .. Len(table) /\ list \in 1 .. Len(table)
      /\ table \in Seq(Entries)
  BY InMerge DEF Listed, TypeOK
<1>3. /\ table' \in Seq(Entries) /\ Len(table') = Len(table) - 1
      /\ \A i \in 1 .. Len(table) - 1 : table'[i] = IF i < list THEN table[i] ELSE table[i + 1]
  BY <1>1, <1>2, RemoveSeq
<1>4. TypeOK' /\ ThreadInv' /\ OrderInv' /\ PlaceInv' /\ ~AtRest'
  <2>1. list' \in 1 .. Len(table') + 1 /\ told' \subseteq Ids /\ muted' \subseteq Ids
    BY <1>1, <1>2, <1>3 DEF TypeOK
  <2> QED
    BY <2>1, <1>3, RoundKeeps
<1>5. \A k \in 1 .. list - 1 : table'[k] = table[k]
  BY <1>2, <1>3
<1>6. TableInv'
  <2>1. ASSUME ~broken
        PROVE  Sorted(table')
    BY <1>1, <1>2, <2>1, SortedRemove DEF TableInv
  <2>2. ASSUME ~broken, NEW k \in DOMAIN table'
        PROVE  AtHome(k)'
    <3> DEFINE j == IF k < list THEN k ELSE k + 1
    <3>1. k \in 1 .. Len(table) - 1
      BY <1>3
    <3>2. j \in DOMAIN table /\ table'[k] = table[j] /\ (k < list <=> j < list)
      BY <3>1, <1>2, <1>3
    <3>3. AtHome(j)
      BY <3>2, <2>2 DEF TableInv
    <3>4. table[j].at \in Nat /\ ctr \in Nat /\ ctr' \in Nat
      <4>1. table[j] \in Entries
        BY <3>2, <1>2
      <4> QED
        BY <4>1, <1>4 DEF Entries, TypeOK
    <3>5. k < list' => table[j].at <= ctr'
      BY <3>2, <3>3, <3>4, <1>1 DEF AtHome
    <3> QED
      BY <3>2, <3>3, <3>5, <1>1 DEF AtHome
  <2> QED
    BY <2>1, <2>2, <1>1 DEF TableInv
<1>7. ToldIsTable'
  <2>1. ASSUME ~broken
        PROVE  IdsOf(table') = IdsOf(table) \ {mlist.id}
    BY <1>1, <1>2, <2>1, IdsRemove, IdsAreNumbers DEF TableInv, mlist
  <2> QED
    BY <2>1, <1>1 DEF ToldIsTable
<1> QED
  BY <1>4, <1>5, <1>6, <1>7

LEMMA MergeRemoveRestKeeps ==
    ASSUME MountInv, NEW t \in Threads, MergeRemoveRest(t)
    PROVE  MountInv'
<1>1. /\ Merging(t) /\ Listed /\ RemoveListed /\ Round /\ UNCHANGED <<ctr, sysflag, skipped, list>>
      /\ UNCHANGED <<buffer, current, broken>>
  BY DEF MergeRemoveRest, RemoveListed, Round
<1>2. /\ ctr' \in 0 .. Len(buffer[current]) /\ ctr <= ctr' /\ skipped' \in BOOLEAN
      /\ sysflag' \in BOOLEAN
  BY <1>1, InMerge DEF MountInv, TypeOK
<1>3. /\ TypeOK' /\ ThreadInv' /\ OrderInv' /\ PlaceInv' /\ ~AtRest' /\ TableInv' /\ ToldIsTable'
      /\ \A k \in 1 .. list - 1 : table'[k] = table[k]
  BY <1>1, <1>2, RemoveListedKeeps
<1>4. ExactInv'
  BY <1>1, <1>3, InMerge DEF MountInv, ExactInv
<1> QED
  BY <1>3, <1>4 DEF MountInv

LEMMA MergeRemoveKeeps ==
    ASSUME MountInv, NEW t \in Threads, MergeRemove(t)
    PROVE  MountInv'
<1>1. /\ Merging(t) /\ Listed /\ RemoveListed /\ Round /\ ctr' = ctr + 1 /\ skipped' = TRUE
      /\ ~eof
  BY DEF MergeRemove
<1>2. ctr' \in 0 .. Len(buffer[current]) /\ ctr <= ctr'
  BY <1>1, InMerge
<1>3. skipped' \in BOOLEAN /\ sysflag' \in BOOLEAN
  BY <1>1, Zenon DEF FlagLine, MergeRemove
<1>4. /\ TypeOK' /\ ThreadInv' /\ OrderInv' /\ PlaceInv' /\ ~AtRest' /\ TableInv' /\ ToldIsTable'
  BY <1>1, <1>2, <1>3, RemoveListedKeeps
<1>5. ExactInv'
  BY <1>1 DEF ExactInv
<1> QED
  BY <1>4, <1>5 DEF MountInv

\* A line of the table at its own text, and the line that is read: what Diff says
\* of the two is the order of their ids.
LEMMA DiffIsOrder ==
    ASSUME MountInv, NEW t \in Threads, Merging(t), Listed, ~eof, ~broken
    PROVE  /\ Diff = 0 => mlist.id = mline.id
           /\ Diff = 1 => mline.id < mlist.id
<1>1. list \in DOMAIN table /\ mlist \in Entries /\ mline \in Lines
  BY InMerge
<1>2. AtHome(list)
  BY <1>1 DEF MountInv, TableInv
<1>3. Text(mlist) = {buffer[mlist.in][mlist.at]} /\ buffer[mlist.in][mlist.at].id = mlist.id
  BY <1>2 DEF AtHome, Text, mlist
<1>4. SameText => mlist.id = mline.id
  <2>1. SameText => buffer[mlist.in][mlist.at] = mline
    BY <1>3, Zenon DEF SameText
  <2> QED
    BY <1>3, <2>1
<1>5. mlist.id \in Nat /\ mline.id \in Nat
  BY <1>1, IdsAreNumbers
<1> QED
  BY <1>4, <1>5 DEF Diff

LEMMA MergeSameKeeps ==
    ASSUME MountInv, NEW t \in Threads, MergeSame(t)
    PROVE  MountInv'
<1> USE DEF MountInv
<1> DEFINE e == [id |-> mlist.id, in |-> current, at |-> ctr + 1]
<1>1. /\ Merging(t) /\ Listed /\ ~eof /\ Diff = 0 /\ Round
      /\ table' = [table EXCEPT ![list] = e] /\ list' = list + 1 /\ ctr' = ctr + 1
      /\ UNCHANGED <<buffer, current, previous, broken, ignore, told, muted, skipped>>
  BY DEF MergeSame, Round
<1>2. /\ Len(table) \in Nat /\ DOMAIN table = 1 .. Len(table) /\ list \in 1 .. Len(table)
      /\ table \in Seq(Entries) /\ mlist \in Entries /\ mline \in Lines
      /\ ctr \in Nat /\ ctr + 1 \in DOMAIN buffer[current] /\ ~AtRest
      /\ ctr + 1 \in 0 .. Len(buffer[current])
  BY <1>1, InMerge DEF Listed, TypeOK
<1>3. e \in Entries /\ e.id = table[list].id /\ e.in = current /\ e.at = ctr + 1
  BY <1>2 DEF Entries, TypeOK, mlist
<1> HIDE DEF e
<1>4. /\ table' \in Seq(Entries) /\ Len(table') = Len(table) /\ DOMAIN table' = DOMAIN table
      /\ table'[list] = e /\ \A k \in DOMAIN table : k # list => table'[k] = table[k]
  BY <1>1, <1>2, <1>3
<1>5. \A k \in DOMAIN table : table'[k].id = table[k].id
  BY <1>3, <1>4
<1>6. TypeOK' /\ ThreadInv' /\ OrderInv' /\ PlaceInv' /\ ~AtRest'
  <2>1. list' \in 1 .. Len(table') + 1 /\ ctr' \in 0 .. Len(buffer[current])
    BY <1>1, <1>2, <1>4
  <2>2. told' \subseteq Ids /\ muted' \subseteq Ids /\ skipped' \in BOOLEAN
    BY <1>1 DEF TypeOK
  <2>3. sysflag' \in BOOLEAN
    BY Zenon DEF MergeSame, FlagLine, TypeOK
  <2> QED
    BY <2>1, <2>2, <2>3, <1>1, <1>4, RoundKeeps
<1>7. ~broken => mlist.id = mline.id
  BY <1>1, DiffIsOrder
<1>8. TableInv'
  <2>1. ASSUME ~broken
        PROVE  Sorted(table')
    BY <2>1, <1>4, <1>5 DEF TableInv, Sorted
  <2>2. ASSUME ~broken, NEW k \in DOMAIN table
        PROVE  AtHome(k)'
    <3>1. AtHome(k)
      BY <2>2 DEF TableInv
    <3>2. CASE k = list
      <4>1. k < list' /\ e.at <= ctr'
        BY <3>2, <1>1, <1>2, <1>3
      <4>2. buffer[current][ctr + 1].id = e.id
        BY <2>2, <1>7, <1>3 DEF mline, mlist
      <4> QED
        BY <3>2, <4>1, <4>2, <1>1, <1>2, <1>3, <1>4 DEF AtHome
    <3>3. CASE k # list
      <4>1. table'[k] = table[k] /\ (k < list' <=> k < list)
        BY <3>3, <1>1, <1>2, <1>4
      <4>2. table[k].at \in Nat
        <5>1. table[k] \in Entries
          BY <1>2
        <5> QED
          BY <5>1 DEF Entries
      <4>3. k < list' => table[k].at <= ctr'
        BY <4>1, <4>2, <3>1, <1>1, <1>2 DEF AtHome
      <4> QED
        BY <4>1, <4>3, <3>1, <1>1 DEF AtHome
    <3> QED
      BY <3>2, <3>3
  <2> QED
    BY <2>1, <2>2, <1>1, <1>4 DEF TableInv
<1>9. ExactInv'
  <2>1. ASSUME ~broken, ~skipped
        PROVE  ctr' = list' - 1 /\ \A k \in 1 .. list' - 1 : table'[k].id = buffer'[current'][k].id
    <3>1. ctr = list - 1 /\ \A k \in 1 .. list - 1 : table[k].id = buffer[current][k].id
      BY <2>1, <1>2 DEF ExactInv
    <3>2. table[list].id = buffer[current][list].id
      BY <2>1, <3>1, <1>2, <1>7 DEF mline, mlist
    <3>3. list' - 1 = list
      BY <1>1, <1>2
    <3>4. ASSUME NEW k \in 1 .. list
          PROVE  table'[k].id = buffer[current][k].id
      <4>1. k \in DOMAIN table /\ (k = list \/ k \in 1 .. list - 1)
        BY <1>2
      <4> QED
        BY <4>1, <3>1, <3>2, <1>5
    <3> QED
      BY <3>1, <3>3, <3>4, <1>1, <1>2
  <2> QED
    BY <2>1, <1>1, <1>6 DEF ExactInv
<1>10. ToldIsTable'
  <2>1. IdsOf(table') = IdsOf(table)
    BY <1>4, <1>5 DEF IdsOf
  <2> QED
    BY <2>1, <1>1 DEF ToldIsTable
<1> QED
  BY <1>6, <1>8, <1>9, <1>10

LEMMA MergeAddKeeps ==
    ASSUME MountInv, NEW t \in Threads, MergeAdd(t)
    PROVE  MountInv'
<1> USE DEF MountInv
<1> DEFINE e == ListCreate
<1>1. /\ Merging(t) /\ ~eof /\ Round /\ (Listed => Diff = 1)
      /\ table' = InsertAt(table, list, e) /\ list' = list + 1 /\ ctr' = ctr + 1
      /\ sysflag' = (sysflag \/ SystemRelated(mline))
      /\ told' = IF ignore /\ sysflag' THEN told ELSE told \cup {mline.id}
      /\ muted' = IF sysflag /\ ignore THEN muted \cup {mline.id} ELSE muted
      /\ UNCHANGED <<buffer, current, previous, broken, ignore, skipped>>
  BY DEF MergeAdd, AddMLine, FlagLine, Round
<1>2. /\ Len(table) \in Nat /\ DOMAIN table = 1 .. Len(table) /\ list \in 1 .. Len(table) + 1
      /\ table \in Seq(Entries) /\ mline \in Lines
      /\ ctr \in Nat /\ ctr + 1 \in DOMAIN buffer[current] /\ ~AtRest
      /\ ctr + 1 \in 0 .. Len(buffer[current])
      /\ buffer[current] \in Seq(Lines) /\ Sorted(buffer[current])
  BY <1>1, InMerge DEF TypeOK
<1>3. e \in Entries /\ e.id = mline.id /\ e.in = current /\ e.at = ctr + 1
  BY <1>2 DEF ListCreate, Entries, Lines, TypeOK
<1> HIDE DEF e
<1>4. /\ table' \in Seq(Entries) /\ Len(table') = Len(table) + 1
      /\ DOMAIN table' = 1 .. Len(table) + 1
      /\ \A i \in 1 .. Len(table) + 1 :
            table'[i] = IF i < list THEN table[i] ELSE IF i = list THEN e ELSE table[i - 1]
  <2>1. /\ InsertAt(table, list, e) \in Seq(Entries)
        /\ Len(InsertAt(table, list, e)) = Len(table) + 1
        /\ \A i \in 1 .. Len(table) + 1 :
              InsertAt(table, list, e)[i]
                 = IF i < list THEN table[i] ELSE IF i = list THEN e ELSE table[i - 1]
    BY <1>2, <1>3, InsertSeq
  <2> QED
    BY <2>1, <1>1
<1>5. TypeOK' /\ ThreadInv' /\ OrderInv' /\ PlaceInv' /\ ~AtRest'
  <2>1. list' \in 1 .. Len(table') + 1 /\ ctr' \in 0 .. Len(buffer[current])
    BY <1>1, <1>2, <1>4
  <2>2. told' \subseteq Ids /\ muted' \subseteq Ids /\ skipped' \in BOOLEAN
    BY <1>1, <1>2 DEF TypeOK, Lines
  <2>3. sysflag' \in BOOLEAN
    BY <1>1, Zenon
  <2> QED
    BY <2>1, <2>2, <2>3, <1>1, <1>4, RoundKeeps
<1>6. ASSUME ~broken, NEW k \in DOMAIN table
      PROVE  IF k < list THEN table[k].id < e.id ELSE e.id < table[k].id
  <2>1. AtHome(k) /\ table[k] \in Entries
    BY <1>6, <1>2 DEF TableInv
  <2>2. CASE k < list
    <3>1. /\ table[k].at \in DOMAIN buffer[current] /\ table[k].at < ctr + 1
          /\ buffer[current][table[k].at].id = table[k].id
      BY <2>1, <2>2, <1>2 DEF AtHome, Entries
    <3> QED
      BY <3>1, <2>2, <1>2, <1>3 DEF Sorted, mline
  <2>3. CASE ~(k < list)
    <3>1. Listed /\ list \in DOMAIN table
      BY <2>3, <1>2 DEF Listed
    <3>2. e.id < table[list].id
      BY <3>1, <1>6, <1>1, <1>3, DiffIsOrder DEF mlist
    <3>3. k = list \/ list < k
      BY <2>3, <3>1, <1>2
    <3>4. list < k => table[list].id < table[k].id
      BY <3>1, <1>6 DEF TableInv, Sorted
    <3>5. e.id \in Nat /\ table[list].id \in Nat /\ table[k].id \in Nat
      BY <3>1, <2>1, <1>2, <1>3, IdsAreNumbers
    <3> QED
      BY <2>3, <3>2, <3>3, <3>4, <3>5
  <2> QED
    BY <2>2, <2>3
<1>7. TableInv'
  <2>1. ASSUME ~broken
        PROVE  Sorted(table')
    <3>1. Sorted(table)
      BY <2>1 DEF TableInv
    <3> QED
      BY <2>1, <3>1, <1>1, <1>2, <1>3, <1>6, SortedInsert, IdsAreNumbers
  <2>2. ASSUME ~broken, NEW k \in 1 .. Len(table) + 1
        PROVE  AtHome(k)'
    <3>1. CASE k = list
      <4>1. k < list' /\ e.at <= ctr' /\ table'[k] = e
        BY <3>1, <1>1, <1>2, <1>3, <1>4
      <4>2. buffer[current][ctr + 1].id = e.id
        BY <1>3 DEF mline
      <4> QED
        BY <4>1, <4>2, <1>1, <1>2, <1>3 DEF AtHome
    <3>2. CASE k # list
      <4> DEFINE j == IF k < list THEN k ELSE k - 1
      <4>1. /\ j \in DOMAIN table /\ table'[k] = table[j]
            /\ (k < list' <=> k < list) /\ (j < list <=> k < list)
        BY <3>2, <1>1, <1>2, <1>4
      <4>2. AtHome(j) /\ table[j] \in Entries
        BY <4>1, <2>2, <1>2 DEF TableInv
      <4>3. k < list' => table[j].at <= ctr'
        BY <4>1, <4>2, <1>1, <1>2 DEF AtHome, Entries
      <4> HIDE DEF j
      <4> QED
        BY <4>1, <4>2, <4>3, <1>1 DEF AtHome
    <3> QED
      BY <3>1, <3>2
  <2> QED
    BY <2>1, <2>2, <1>1, <1>4 DEF TableInv
<1>8. ExactInv'
  <2>1. ASSUME ~broken, ~skipped
        PROVE  ctr' = list' - 1 /\ \A k \in 1 .. list' - 1 : table'[k].id = buffer'[current'][k].id
    <3>1. ctr = list - 1 /\ \A k \in 1 .. list - 1 : table[k].id = buffer[current][k].id
      BY <2>1, <1>2 DEF ExactInv
    <3>2. e.id = buffer[current][list].id
      BY <3>1, <1>2, <1>3 DEF mline
    <3>3. list' - 1 = list
      BY <1>1, <1>2
    <3>4. ASSUME NEW k \in 1 .. list
          PROVE  table'[k].id = buffer[current][k].id
      <4>1. k \in 1 .. Len(table) + 1 /\ (k = list \/ (k < list /\ k \in 1 .. list - 1))
        BY <1>2
      <4>2. k = list => table'[k] = e
        BY <4>1, <1>4
      <4>3. k < list => table'[k] = table[k]
        BY <4>1, <1>4
      <4> QED
        BY <4>1, <4>2, <4>3, <3>1, <3>2
    <3> QED
      BY <3>1, <3>3, <3>4, <1>1, <1>2
  <2> QED
    BY <2>1, <1>1, <1>5 DEF ExactInv
<1>9. ToldIsTable'
  <2>1. IdsOf(table') = IdsOf(table) \cup {mline.id}
    BY <1>1, <1>2, <1>3, IdsInsert
  <2>2. CASE ignore /\ sysflag'
    <3>1. mline.id \in System \/ sysflag
      BY <2>2, <1>1 DEF SystemRelated
    <3>2. IdsOf(table') \ (System \cup muted') \subseteq IdsOf(table) \ (System \cup muted)
      BY <2>1, <2>2, <3>1, <1>1
    <3> QED
      BY <2>1, <2>2, <3>2, <1>1 DEF ToldIsTable
  <2>3. CASE ignore /\ ~sysflag'
    <3>1. mline.id \notin System /\ muted' = muted
      BY <2>3, <1>1 DEF SystemRelated
    <3> QED
      BY <2>1, <2>3, <3>1, <1>1 DEF ToldIsTable
  <2>4. CASE ~ignore
    BY <2>1, <2>4, <1>1 DEF ToldIsTable
  <2> QED
    BY <2>2, <2>3, <2>4
<1> QED
  BY <1>5, <1>7, <1>8, <1>9

-----------------------------------------------------------------------------
(* The end of the merge, the end of the read, and the export.              *)

\* The buffers are switched.  The lines of the table are those of the buffer that
\* is kept, unless the merge was broken off.
LEMMA LeaveKeeps ==
    ASSUME MountInv, NEW t \in Threads, Merging(t), Leave(t), broken' \in BOOLEAN,
           broken' \/ (UNCHANGED broken /\ ~Listed /\ eof)
    PROVE  MountInv'
<1> USE DEF MountInv
<1>1. /\ previous' = current /\ current' = 1 - current /\ list' = 0 /\ ctr' = 0
      /\ Goto(t, "end")
      /\ UNCHANGED <<file, changes, ignore, buffer, table, thread, changed, sysflag, told, muted,
                     skipped, export, due, tried>>
  BY DEF Leave, flags
<1>2. /\ pc[t] = "merge" /\ ~AtRest /\ AtRest' /\ thread
      /\ pc'[t] = "end" /\ \A u \in Threads : u # t => pc'[u] = "idle" /\ pc[u] = "idle"
  BY <1>1, OneReader, ReaderMoves DEF Merging
<1>3. TypeOK'
  <2>1. current' \in {0, 1} /\ previous' \in {-1, 1 - current'}
    BY <1>1 DEF TypeOK
  <2>2. pc' \in [Threads -> {"idle", "read", "lock", "merge", "end"}]
    BY <1>1, <1>2, ReaderMoves
  <2> QED
    BY <1>1, <2>1, <2>2 DEF TypeOK
<1>4. ThreadInv'
  BY <1>1, <1>2 DEF ThreadInv
<1>5. OrderInv'
  BY <1>1 DEF OrderInv
<1>6. PlaceInv'
  BY <1>1, <1>2 DEF PlaceInv
<1>7. ASSUME ~broken'
      PROVE  /\ ~broken /\ eof /\ list = Len(table) + 1
             /\ \A k \in DOMAIN table : k < list
  <2>1. ~broken /\ ~Listed /\ eof
    BY <1>7
  <2> QED
    BY <2>1, InMerge DEF Listed
<1>8. TableInv'
  <2>1. ASSUME ~broken', NEW k \in DOMAIN table
        PROVE  AtHome(k)'
    <3>1. AtHome(k) /\ k < list /\ ~(k < list')
      BY <2>1, <1>1, <1>7 DEF TableInv, TypeOK
    <3> QED
      BY <3>1, <1>1 DEF AtHome
  <2> QED
    BY <2>1, <1>1, <1>7 DEF TableInv
<1>9. ExactInv'
  <2>1. ASSUME ~broken', ~skipped
        PROVE  /\ Len(table) = Len(buffer[current])
               /\ \A k \in DOMAIN table : table[k].id = buffer[current][k].id
    <3>1. ctr = list - 1 /\ \A k \in 1 .. list - 1 : table[k].id = buffer[current][k].id
      BY <2>1, <1>2, <1>7 DEF ExactInv
    <3>2. list - 1 = Len(table) /\ DOMAIN table = 1 .. list - 1
      BY <2>1, <1>7, InMerge
    <3> QED
      BY <2>1, <3>1, <3>2, <1>7 DEF eof
  <2> QED
    BY <2>1, <1>1, <1>2 DEF ExactInv
<1>10. ToldIsTable'
  BY <1>1, <1>7 DEF ToldIsTable
<1> QED
  BY <1>3, <1>4, <1>5, <1>6, <1>8, <1>9, <1>10

LEMMA MergeBreakKeeps ==
    ASSUME MountInv, NEW t \in Threads, MergeBreak(t)
    PROVE  MountInv'
<1>1. broken' \in BOOLEAN /\ broken'
  BY Zenon DEF MergeBreak
<1> QED
  BY <1>1, LeaveKeeps DEF MergeBreak

LEMMA MergeEndKeeps ==
    ASSUME MountInv, NEW t \in Threads, MergeEnd(t)
    PROVE  MountInv'
  BY LeaveKeeps DEF MergeEnd, MountInv, TypeOK

LEMMA EndKeeps ==
    ASSUME MountInv, NEW t \in Threads, End(t)
    PROVE  MountInv'
<1> USE DEF MountInv
<1>1. /\ pc[t] = "end" /\ changed' = FALSE
      /\ UNCHANGED <<file, changes, ignore, buffer, current, previous, table, list, ctr, export,
                     told, muted, due, tried, skipped, broken>>
  BY DEF End, monitor
<1>2. /\ thread /\ AtRest /\ \A u \in Threads : u # t => pc[u] = "idle"
      /\ changed \/ tried >= due
  BY <1>1, OneReader DEF ThreadInv
<1>3. PICK stage \in {"read", "idle"} :
         /\ pc' = [pc EXCEPT ![t] = stage]
         /\ stage = "read" => UNCHANGED thread
         /\ stage = "idle" => thread' = FALSE /\ ~changed
  BY DEF End, Goto
<1>4. AtRest' /\ pc'[t] = stage /\ \A u \in Threads : u # t => pc'[u] = "idle"
  BY <1>1, <1>2, <1>3 DEF TypeOK, AtRest, Merging
<1>5. TypeOK'
  <2>1. changed' \in BOOLEAN
    BY <1>1, Zenon
  <2>2. thread' \in BOOLEAN
    <3>1. CASE stage = "read"
      BY <3>1, <1>3 DEF TypeOK
    <3>2. CASE stage = "idle"
      BY <3>2, <1>3, Zenon
    <3> QED
      BY <3>1, <3>2
  <2>3. sysflag' \in BOOLEAN
    BY Zenon DEF End, TypeOK
  <2> QED
    BY <1>1, <1>3, <2>1, <2>2, <2>3 DEF TypeOK
<1>6. ThreadInv'
  BY <1>1, <1>2, <1>3, <1>4 DEF ThreadInv
<1>7. OrderInv'
  BY <1>1 DEF OrderInv
<1>8. PlaceInv'
  BY <1>1, <1>2, <1>4 DEF PlaceInv
<1>9. TableInv'
  BY <1>1 DEF TableInv, AtHome
<1>10. ExactInv'
  BY <1>1, <1>2, <1>4 DEF ExactInv
<1>11. ToldIsTable'
  BY <1>1 DEF ToldIsTable
<1> QED
  BY <1>5, <1>6, <1>7, <1>8, <1>9, <1>10, <1>11

\* mountinfo_export_mount changes only what is copied: nothing while a merge is
\* going on, and only lines of the table.
LEMMA ExportKeeps ==
    ASSUME MountInv, NEW x \in Exporters,
           ExportCopy(x) \/ \E i \in Ids : ExportFind(x, i)
    PROVE  MountInv'
<1> USE DEF MountInv
<1>1. UNCHANGED <<file, changes, ignore, buffer, current, previous, table, pc, thread, changed,
                  list, ctr, sysflag, told, muted, due, tried, skipped, broken>>
  BY DEF ExportCopy, ExportFind, monitor, merge, flags
<1>2. AtRest' = AtRest
  BY <1>1 DEF AtRest, Merging
<1>3. PICK lines \in SUBSET Entries :
         /\ export' = [export EXCEPT ![x] = lines]
         /\ lines \subseteq Range(table)
         /\ lines = {} \/ AtRest
  <2>1. CASE ExportCopy(x)
    BY <2>1 DEF ExportCopy
  <2>2. ASSUME NEW i \in Ids, ExportFind(x, i)
        PROVE  \E lines \in SUBSET Entries :
                  /\ export' = [export EXCEPT ![x] = lines]
                  /\ lines \subseteq Range(table)
                  /\ lines = {} \/ AtRest
    <3>1. PICK k \in DOMAIN table : export' = [export EXCEPT ![x] = {table[k]}]
      BY <2>2 DEF ExportFind
    <3>2. table[k] \in Entries /\ table[k] \in Range(table)
      BY DEF TypeOK, Range
    <3>3. AtRest
      BY <2>2 DEF ExportFind, AtRest
    <3>4. {table[k]} \in SUBSET Entries /\ {table[k]} \subseteq Range(table)
      BY <3>2
    <3> QED
      BY <3>1, <3>3, <3>4, Zenon
  <2> QED
    BY <2>1, <2>2
<1>4. TypeOK'
  BY <1>1, <1>3 DEF TypeOK
<1>5. ThreadInv'
  BY <1>1 DEF ThreadInv
<1>6. OrderInv'
  BY <1>1 DEF OrderInv
<1>7. PlaceInv'
  BY <1>1, <1>2, <1>3 DEF PlaceInv, TypeOK
<1>8. TableInv'
  BY <1>1 DEF TableInv, AtHome
<1>9. ExactInv'
  BY <1>1, <1>2 DEF ExactInv
<1>10. ToldIsTable'
  BY <1>1 DEF ToldIsTable
<1> QED
  BY <1>4, <1>5, <1>6, <1>7, <1>8, <1>9, <1>10

-----------------------------------------------------------------------------
LEMMA InitInv == Init => MountInv
<1> SUFFICES ASSUME Init PROVE MountInv
  OBVIOUS
<1> USE DEF Init
<1>1. FALSE \in BOOLEAN
  BY Zenon
<1>2. TypeOK
  BY <1>1 DEF TypeOK
<1>3. AtRest /\ ThreadInv
  BY DEF ThreadInv, AtRest, Merging
<1>4. OrderInv
  BY DEF OrderInv, Sorted
<1>5. PlaceInv
  BY <1>3 DEF PlaceInv
<1>6. TableInv
  BY DEF TableInv, Sorted
<1>7. ExactInv
  BY <1>3 DEF ExactInv
<1>8. ToldIsTable
  <2>1. IdsOf(table) = {}
    BY DEF IdsOf
  <2> QED
    BY <2>1 DEF ToldIsTable
<1> QED
  BY <1>2, <1>3, <1>4, <1>5, <1>6, <1>7, <1>8 DEF MountInv

LEMMA NextInv == MountInv /\ [Next]_vars => MountInv'
<1> SUFFICES ASSUME MountInv, [Next]_vars PROVE MountInv'
  OBVIOUS
<1>1. ASSUME NEW l \in Lines, Mount(l) PROVE MountInv'
  BY <1>1, MountKeeps
<1>2. ASSUME NEW k \in DOMAIN file, Umount(k) \/ Remount(k) PROVE MountInv'
  BY <1>2, UmountKeeps, RemountKeeps
<1>3. ASSUME NEW t \in Threads, Enter(t) \/ ReadFile(t) \/ End(t) PROVE MountInv'
  BY <1>3, EnterKeeps, ReadFileKeeps, EndKeeps
<1>4. ASSUME NEW t \in Threads, Merge(t) PROVE MountInv'
  BY <1>4, MergeStartKeeps, MergeRemoveRestKeeps, MergeRemoveKeeps, MergeSameKeeps,
     MergeAddKeeps, MergeBreakKeeps, MergeEndKeeps DEF Merge
<1>5. ASSUME NEW x \in Exporters, ExportCopy(x) \/ \E i \in Ids : ExportFind(x, i)
      PROVE  MountInv'
  BY <1>5, ExportKeeps
<1>6. CASE UNCHANGED vars
  BY <1>6 DEF vars, MountInv, TypeOK, ThreadInv, OrderInv, PlaceInv, TableInv, AtHome, ExactInv,
              ToldIsTable, AtRest, Merging
<1> QED
  BY <1>1, <1>2, <1>3, <1>4, <1>5, <1>6 DEF Next

\* In every reachable state the monitor is typed, one thread reads, the file, the
\* buffers and the table are in the order of the ids, and every line of the table
\* points to its own text in the buffer that is kept.
THEOREM MountInvariant == Spec => []MountInv
  BY InitInv, NextInv, PTL DEF Spec

\* No call for a change is lost, however many threads are called and whenever the
\* table changes: MOUNTINFO_read_mount_table ends only after a read of the file
\* that followed the last call.
THEOREM NoMissedChangeHolds == Spec => []NoMissedChange
<1>1. MountInv => NoMissedChange
  BY DEF MountInv, TypeOK, ThreadInv, NoMissedChange
<1> QED
  BY <1>1, MountInvariant, PTL

\* A line that is exported is in the table, and a line of the table never points
\* to the text of another mount, until a line of the file cannot be parsed.
THEOREM TextIsOwnHolds == Spec => []TextIsOwn
<1>1. MountInv => TextIsOwn
  <2> SUFFICES ASSUME MountInv PROVE TextIsOwn
    OBVIOUS
  <2>1. ASSUME ~broken, NEW k \in DOMAIN table
        PROVE  \E c \in Text(table[k]) : c.id = table[k].id
    BY <2>1 DEF MountInv, TableInv, AtHome, Text
  <2>2. ~broken => \A l \in Range(table) : \E c \in Text(l) : c.id = l.id
    BY <2>1 DEF Range
  <2> QED
    BY <2>2 DEF MountInv, PlaceInv, TextIsOwn
<1> QED
  BY <1>1, MountInvariant, PTL

\* Between merges the table has only mounts of the file that was merged, none of
\* them twice, and all of them in order when no removal was followed by another
\* line of the file.
THEOREM MergeExactHolds == Spec => []MergeExact
<1>1. MountInv => MergeExact
  <2> SUFFICES ASSUME MountInv, AtRest, previous # -1, ~broken
               PROVE  /\ IdsOf(table) \subseteq IdsOf(buffer[previous])
                      /\ Cardinality(IdsOf(table)) = Len(table)
                      /\ ~skipped => [k \in DOMAIN table |-> table[k].id]
                            = [k \in DOMAIN buffer[previous] |-> buffer[previous][k].id]
    BY DEF MergeExact
  <2>1. table \in Seq(Entries) /\ buffer[previous] \in Seq(Lines) /\ list = 0
    BY DEF MountInv, TypeOK, PlaceInv
  <2>2. ASSUME NEW k \in DOMAIN table
        PROVE  table[k].id \in IdsOf(buffer[previous])
    <3>1. AtHome(k) /\ ~(k < list)
      BY <2>1 DEF MountInv, TableInv
    <3> QED
      BY <3>1 DEF AtHome, IdsOf
  <2>3. IdsOf(table) \subseteq IdsOf(buffer[previous])
    BY <2>2 DEF IdsOf
  <2>4. Cardinality(IdsOf(table)) = Len(table)
    BY <2>1, SortedCount, IdsAreNumbers DEF MountInv, TableInv
  <2>5. ASSUME ~skipped
        PROVE  [k \in DOMAIN table |-> table[k].id]
                  = [k \in DOMAIN buffer[previous] |-> buffer[previous][k].id]
    <3>1. DOMAIN table = DOMAIN buffer[previous]
      BY <2>1, <2>5 DEF MountInv, ExactInv
    <3>2. \A k \in DOMAIN table : table[k].id = buffer[previous][k].id
      BY <2>5 DEF MountInv, ExactInv
    <3> QED
      BY <3>1, <3>2
  <2> QED
    BY <2>3, <2>4, <2>5
<1> QED
  BY <1>1, MountInvariant, PTL

\* At every step of a merge the callbacks add up to the table; when system
\* filesystems are ignored no such mount is told, and no other mount is missed unless the
\* flag SYSTEM of mline was left of another line when it was added.
THEOREM ToldIsTableHolds == Spec => []ToldIsTable
<1>1. MountInv => ToldIsTable
  BY DEF MountInv
<1> QED
  BY <1>1, MountInvariant, PTL
=============================================================================
