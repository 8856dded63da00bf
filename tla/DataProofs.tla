----------------------------- MODULE DataProofs -----------------------------
(***************************************************************************)
(* Theorems about what the library keeps in memory.  lib/list: for any     *)
(* number of headers and elements, whatever is inserted and removed, the   *)
(* links stay each other's inverse, stay on one list, and the header's     *)
(* count is the number of its elements; and a list is the sequence that    *)
(* ListSeq promises, walked either way.  lib/path: for all strings,        *)
(* buffers of any size and every sequence of operations.                   *)
(* lib/datatypes/dstr.c: for any number of strings, blocks and bytes.      *)
(***************************************************************************)
EXTENDS List, Path, Dstr, FiniteSetTheorems, SequenceTheorems, WellFoundedInduction, TLAPS

ListInv == TypeOK /\ LinksInverse /\ CountExact

\* Head and tail of a list are nodes of it, and no element is one of them.
LEMMA NodeFacts ==
    /\ \A l \in Lists : head[l] \in Nodes /\ tail[l] \in Nodes
    /\ \A e \in Elems : e \in Nodes /\ e \notin Ends
    /\ \A x \in Nodes : x \notin Ends => x \in Elems
    /\ Null \notin Nodes
  BY NodeAssumption DEF Nodes, Ends

\* A set of elements is finite, and an element more or less counts for one.
LEMMA CountFacts ==
    ASSUME NEW S \in SUBSET Elems, NEW e \in Elems
    PROVE  /\ Cardinality(S) \in Nat
           /\ e \notin S => Cardinality(S \cup {e}) = Cardinality(S) + 1
           /\ e \in S => Cardinality(S \ {e}) = Cardinality(S) - 1
<1>1. IsFiniteSet(S)
  BY ElemsFinite, FS_Subset
<1> QED
  BY <1>1, FS_AddElement, FS_RemoveElement, FS_CardinalityType

\* LIST_header_init makes a ring of head and tail, with nothing on it.
LEMMA InitCorrect == Init => ListInv
<1> SUFFICES ASSUME Init PROVE ListInv
    OBVIOUS
<1> DEFINE Of(x) == CHOOSE l \in Lists : x \in {head[l], tail[l]}
<1>1. \A l \in Lists : Of(head[l]) = l /\ Of(tail[l]) = l
  BY NodeAssumption
<1>2. \A x \in Ends : Of(x) \in Lists /\ x \in {head[Of(x)], tail[Of(x)]}
  BY <1>1 DEF Ends
<1>3. h = [x \in Nodes |-> IF x \in Ends THEN Of(x) ELSE Null]
  BY DEF Init
<1>4. /\ n = [x \in Nodes |-> IF x \in Elems THEN Null
                              ELSE IF x = head[Of(x)] THEN tail[Of(x)] ELSE head[Of(x)]]
      /\ p = n
  BY DEF Init
<1> HIDE DEF Of
<1>5. \A l \in Lists : /\ h[head[l]] = l /\ h[tail[l]] = l
                       /\ n[head[l]] = tail[l] /\ n[tail[l]] = head[l]
  BY <1>1, <1>3, <1>4, NodeFacts, NodeAssumption DEF Ends
<1>6. \A e \in Elems : h[e] = Null /\ n[e] = Null
  BY <1>3, <1>4, NodeFacts
<1>7. TypeOK
  <2>1. h \in [Nodes -> Lists \cup {Null}]
    BY <1>2, <1>3
  <2>2. \A x \in Nodes : x \in Elems \/ \E l \in Lists : x = head[l] \/ x = tail[l]
    BY DEF Nodes, Ends
  <2>3. n \in [Nodes -> Nodes \cup {Null}]
    BY <1>4, <1>5, <1>6, <2>2, NodeFacts
  <2>4. \A x \in Nodes : h[x] = Null => n[x] = Null
    BY <1>5, <1>6, <2>2, NodeAssumption
  <2>5. count \in [Lists -> Int]
    BY DEF Init
  <2> QED
    BY <1>4, <2>1, <2>3, <2>4, <2>5 DEF TypeOK
<1>8. LinksInverse
  <2>1. \A x \in Nodes : h[x] # Null => \E l \in Lists : x = head[l] \/ x = tail[l]
    BY <1>6 DEF Nodes, Ends
  <2> QED
    BY <1>4, <1>5, <2>1, NodeFacts DEF LinksInverse
<1>9. CountExact
  <2>1. \A l \in Lists : Listed(l) = {}
    BY <1>6, NodeAssumption DEF Listed
  <2>2. \A l \in Lists : count[l] = 0
    BY DEF Init
  <2> QED
    BY <2>1, <2>2, FS_EmptySet DEF CountExact
<1> QED
  BY <1>7, <1>8, <1>9 DEF ListInv

\* Linking an unlisted element between two neighbours keeps the invariant.
LEMMA LinkCorrect ==
    ASSUME ListInv, NEW l \in Lists, NEW prev \in Nodes, NEW next \in Nodes, NEW e \in Elems,
           h[prev] = l, n[prev] = next, p[next] = prev, h[next] = l, h[e] = Null,
           prev # tail[l], next # head[l],
           Link(l, prev, e, next)
    PROVE  ListInv'
<1> USE NodeFacts
<1>1. TypeOK'
  BY NodeAssumption DEF ListInv, TypeOK, Link
<1>2. e # prev /\ e # next
  BY NodeAssumption
<1>3. LinksInverse'
  <2>1. \A x \in Nodes : h[x] # Null => n[x] # e /\ p[x] # e
    BY DEF ListInv, LinksInverse
  <2>2. /\ \A x \in Nodes : h'[x] = IF x = e THEN l ELSE h[x]
        /\ \A x \in Nodes : n'[x] = IF x = e THEN next ELSE IF x = prev THEN e ELSE n[x]
        /\ \A x \in Nodes : p'[x] = IF x = e THEN prev ELSE IF x = next THEN e ELSE p[x]
    BY <1>2 DEF ListInv, TypeOK, Link
  <2>3. \A x \in Nodes : h[x] # Null =>
           /\ n[x] = next => x = prev
           /\ p[x] = prev => x = next
    BY DEF ListInv, LinksInverse
  <2>4. ASSUME NEW x \in Nodes, h'[x] # Null
        PROVE  /\ n'[x] \in Nodes /\ p'[x] \in Nodes
               /\ p'[n'[x]] = x /\ n'[p'[x]] = x
               /\ h'[n'[x]] = h'[x] /\ h'[p'[x]] = h'[x]
    <3>1. CASE x = e
      BY <1>2, <2>2, <3>1
    <3>2. CASE x # e
      BY <1>2, <2>1, <2>2, <2>3, <2>4, <3>2 DEF ListInv, LinksInverse
    <3> QED
      BY <3>1, <3>2
  <2>5. ASSUME NEW k \in Lists
        PROVE  /\ h'[head[k]] = k /\ h'[tail[k]] = k
               /\ p'[head[k]] = tail[k] /\ n'[tail[k]] = head[k]
    <3>1. head[k] # e /\ tail[k] # e
      BY NodeAssumption
    <3>2. head[k] # next /\ tail[k] # prev
      BY NodeAssumption DEF ListInv, LinksInverse
    <3> QED
      BY <2>2, <3>1, <3>2 DEF ListInv, LinksInverse
  <2> QED
    BY <2>4, <2>5 DEF LinksInverse
<1>4. CountExact'
  <2>1. Listed(l)' = Listed(l) \cup {e} /\ e \notin Listed(l)
    BY NodeAssumption DEF Listed, Link, ListInv, TypeOK
  <2>2. \A k \in Lists : k # l => Listed(k)' = Listed(k)
    BY NodeAssumption DEF Listed, Link, ListInv, TypeOK
  <2>3. Cardinality(Listed(l)') = Cardinality(Listed(l)) + 1
    BY <2>1, CountFacts DEF Listed
  <2>4. count' = [count EXCEPT ![l] = @ + 1]
    BY DEF Link
  <2> QED
    BY <2>2, <2>3, <2>4 DEF CountExact, ListInv, TypeOK
<1> QED
  BY <1>1, <1>3, <1>4 DEF ListInv

\* Taking an element out keeps the invariant.
LEMMA RemoveCorrect ==
    ASSUME ListInv, NEW e \in Elems, remove(e)
    PROVE  ListInv'
<1> USE NodeFacts
<1>1. PICK l \in Lists, next \in Nodes, prev \in Nodes :
        /\ h[e] = l /\ n[e] = next /\ p[e] = prev
        /\ n[prev] = e /\ p[next] = e /\ h[prev] = l /\ h[next] = l
  BY DEF ListInv, TypeOK, LinksInverse, remove
<1>2. /\ \A x \in Nodes : h'[x] = IF x = e THEN Null ELSE h[x]
      /\ \A x \in Nodes : n'[x] = IF x = e THEN Null ELSE IF x = prev THEN next ELSE n[x]
      /\ \A x \in Nodes : p'[x] = IF x = e THEN Null ELSE IF x = next THEN prev ELSE p[x]
  BY <1>1 DEF ListInv, TypeOK, remove
<1>3. TypeOK'
  <2>1. \A x \in Nodes : h'[x] = Null => n'[x] = Null /\ p'[x] = Null
    BY <1>1, <1>2, NodeAssumption DEF ListInv, TypeOK
  <2>2. /\ h' \in [Nodes -> Lists \cup {Null}]
        /\ n' \in [Nodes -> Nodes \cup {Null}]
        /\ p' \in [Nodes -> Nodes \cup {Null}]
    BY <1>1 DEF ListInv, TypeOK, remove
  <2>3. count' \in [Lists -> Int]
    BY <1>1 DEF ListInv, TypeOK, remove
  <2> QED
    BY <2>1, <2>2, <2>3 DEF TypeOK
<1>4. LinksInverse'
  <2>1. ASSUME NEW x \in Nodes, h'[x] # Null
        PROVE  /\ n'[x] \in Nodes /\ p'[x] \in Nodes
               /\ p'[n'[x]] = x /\ n'[p'[x]] = x
               /\ h'[n'[x]] = h'[x] /\ h'[p'[x]] = h'[x]
    <3>1. x # e /\ h[x] # Null
      BY <1>2, <2>1
    <3>2. /\ n[x] \in Nodes /\ p[x] \in Nodes
          /\ p[n[x]] = x /\ n[p[x]] = x
          /\ h[n[x]] = h[x] /\ h[p[x]] = h[x]
      BY <3>1 DEF ListInv, LinksInverse
    <3>3. n[x] = e => x = prev
      BY <1>1, <3>2
    <3>4. p[x] = e => x = next
      BY <1>1, <3>2
    <3>5. n[x] = next => x = e
      BY <1>1, <3>2
    <3>6. p[x] = prev => x = e
      BY <1>1, <3>2
    <3>7. (x = prev => next # e) /\ (x = next => prev # e)
      BY <1>1, <3>1
    <3> QED
      BY <1>1, <1>2, <3>1, <3>2, <3>3, <3>4, <3>5, <3>6, <3>7
  <2>2. ASSUME NEW k \in Lists
        PROVE  /\ h'[head[k]] = k /\ h'[tail[k]] = k
               /\ p'[head[k]] = tail[k] /\ n'[tail[k]] = head[k]
    <3>1. head[k] # e /\ tail[k] # e
      BY NodeAssumption
    <3>2. /\ h[head[k]] = k /\ h[tail[k]] = k
          /\ p[head[k]] = tail[k] /\ n[tail[k]] = head[k]
      BY DEF ListInv, LinksInverse
    <3>3. head[k] # next /\ tail[k] # prev
      BY <1>1, <3>1, <3>2
    <3> QED
      BY <1>2, <3>1, <3>2, <3>3
  <2> QED
    BY <2>1, <2>2 DEF LinksInverse
<1>5. CountExact'
  <2>1. Listed(l)' = Listed(l) \ {e} /\ e \in Listed(l)
    BY <1>1, <1>2, NodeAssumption DEF Listed
  <2>2. \A k \in Lists : k # l => Listed(k)' = Listed(k)
    BY <1>1, <1>2, NodeAssumption DEF Listed
  <2>3. Cardinality(Listed(l)') = Cardinality(Listed(l)) - 1
    BY <2>1, CountFacts DEF Listed
  <2>4. count' = [count EXCEPT ![l] = @ - 1]
    BY <1>1 DEF remove
  <2> QED
    BY <1>1, <2>2, <2>3, <2>4 DEF CountExact, ListInv, TypeOK
<1> QED
  BY <1>3, <1>4, <1>5 DEF ListInv

\* insert_after any node but a tail.
LEMMA InsertAfterCorrect ==
    ASSUME ListInv, NEW prev \in Nodes, NEW e \in Elems, insert_after(prev, e)
    PROVE  ListInv'
<1>1. h[prev] \in Lists /\ n[prev] \in Nodes
  BY DEF ListInv, TypeOK, LinksInverse, insert_after
<1>2. p[n[prev]] = prev /\ h[n[prev]] = h[prev] /\ prev # tail[h[prev]]
  BY <1>1 DEF ListInv, LinksInverse, insert_after
<1>3. n[prev] # head[h[prev]]
  BY <1>1, <1>2 DEF ListInv, LinksInverse
<1> QED
  BY <1>1, <1>2, <1>3, LinkCorrect DEF insert_after, Unlisted

\* insert_before any node but a head.
LEMMA InsertBeforeCorrect ==
    ASSUME ListInv, NEW next \in Nodes, NEW e \in Elems, insert_before(next, e)
    PROVE  ListInv'
<1>1. h[next] \in Lists /\ p[next] \in Nodes
  BY DEF ListInv, TypeOK, LinksInverse, insert_before
<1>2. n[p[next]] = next /\ h[p[next]] = h[next] /\ next # head[h[next]]
  BY <1>1 DEF ListInv, LinksInverse, insert_before
<1>3. p[next] # tail[h[next]]
  BY <1>1, <1>2 DEF ListInv, LinksInverse
<1> QED
  BY <1>1, <1>2, <1>3, LinkCorrect DEF insert_before, Unlisted

\* What get_first and get_last return is an element, never a head or tail.
LEMMA FirstLastElems ==
    ASSUME ListInv, NEW l \in Lists
    PROVE  /\ LIST_header_get_first(l) # Null => LIST_header_get_first(l) \in Elems
           /\ LIST_header_get_last(l) # Null => LIST_header_get_last(l) \in Elems
<1>1. h[head[l]] # Null /\ h[tail[l]] # Null
  BY NodeAssumption DEF ListInv, LinksInverse
<1>2. n[head[l]] \in Nodes /\ p[tail[l]] \in Nodes
  BY <1>1, NodeFacts DEF ListInv, LinksInverse
<1> QED
  BY <1>1, <1>2, NodeFacts DEF LIST_header_get_first, LIST_header_get_last, get_next, get_prev

\* Links and count are right in every reachable state.
THEOREM ListCorrect == Spec => [](TypeOK /\ LinksInverse /\ CountExact)
<1>1. ListInv /\ [Next]_vars => ListInv'
  <2> SUFFICES ASSUME ListInv, [Next]_vars
               PROVE  ListInv'
      OBVIOUS
  <2> USE NodeFacts
  <2>1. CASE UNCHANGED vars
    BY <2>1 DEF vars, ListInv, TypeOK, LinksInverse, CountExact, Listed
  <2>2. ASSUME NEW x \in Elems, NEW e \in Elems, insert_after(x, e) \/ insert_before(x, e)
        PROVE  ListInv'
    BY <2>2, InsertAfterCorrect, InsertBeforeCorrect
  <2>3. ASSUME NEW e \in Elems, remove(e)
        PROVE  ListInv'
    BY <2>3, RemoveCorrect
  <2>4. ASSUME NEW l \in Lists, NEW e \in Elems,
               LIST_header_add_first(l, e) \/ LIST_header_add_last(l, e)
        PROVE  ListInv'
    BY <2>4, InsertAfterCorrect, InsertBeforeCorrect DEF LIST_header_add_first, LIST_header_add_last
  <2>5. ASSUME NEW l \in Lists, LIST_header_remove_first(l) \/ LIST_header_remove_last(l)
        PROVE  ListInv'
    BY <2>5, FirstLastElems, RemoveCorrect DEF LIST_header_remove_first, LIST_header_remove_last
  <2> QED
    BY <2>1, <2>2, <2>3, <2>4, <2>5 DEF Next
<1> QED
  BY InitCorrect, <1>1, PTL DEF Spec, ListInv

\* Types, on their own.
THEOREM ListTypeCorrect == Spec => []TypeOK
  BY ListCorrect, PTL

\* The links of a list are each other's inverse.
THEOREM LinksCorrect == Spec => []LinksInverse
  BY ListCorrect, PTL

\* h->count is the number of elements on the list.
THEOREM CountCorrect == Spec => []CountExact
  BY ListCorrect, PTL

-----------------------------------------------------------------------------
(* A list is a sequence: what a walk over links visits.                    *)

\* A set of numbers has a smallest one.
LEMMA Minimum ==
    ASSUME NEW S \in SUBSET Nat, S # {}
    PROVE  \E m \in S : \A k \in S : m <= k
<1> DEFINE R == {ss \in Nat \X Nat : ss[1] < ss[2]}
<1>1. IsWellFoundedOn(R, Nat)
  BY NatLessThanWellFounded, Zenon DEF OpToRel
<1>2. ASSUME NEW a \in Nat, NEW b \in Nat, a < b
      PROVE  <<a, b>> \in R
  BY <1>2
<1> HIDE DEF R
<1>3. PICK m \in S : \A k \in S : ~(<<k, m>> \in R)
  BY <1>1, WFMin, Zenon
<1>4. ASSUME NEW k \in S
      PROVE  m <= k
  <2>1. ~(k < m)
    BY <1>2, <1>3, Zenon
  <2> QED
    BY <2>1
<1> QED
  BY <1>4

\* The first k nodes of a walk along next.
Walk(a, next, m, k) ==
    LET at[i \in 0 .. m] == IF i = 0 THEN a ELSE next[at[i - 1]]
    IN  [i \in 1 .. k |-> at[i]]

Along(f, a, next, m) == f = [i \in 0 .. m |-> IF i = 0 THEN a ELSE next[f[i - 1]]]

\* The recursive function of a walk is there: extend it by one node at a time.
LEMMA WalkExists ==
    ASSUME NEW a, NEW next, NEW m \in Nat
    PROVE  \E f : Along(f, a, next, m)
<1> DEFINE Bad == {k \in Nat : ~\E f : Along(f, a, next, k)}
<1> SUFFICES ASSUME Bad # {} PROVE FALSE
  OBVIOUS
<1>1. PICK k \in Bad : \A j \in Bad : k <= j
  <2> Bad \in SUBSET Nat
    OBVIOUS
  <2> HIDE DEF Bad
  <2> QED
    BY Minimum
<1>2. CASE k = 0
  <2> DEFINE f == [i \in 0 .. 0 |-> a]
  <2>1. Along(f, a, next, 0)
    BY DEF Along
  <2> QED
    BY <1>1, <1>2, <2>1
<1>3. CASE k # 0
  <2>1. k \in Nat /\ k - 1 \in Nat /\ k - 1 \notin Bad
    <3>1. k \in Nat /\ k - 1 \in Nat /\ ~(k <= k - 1)
      BY <1>3
    <3> HIDE DEF Bad
    <3> QED
      BY <1>1, <3>1
  <2>2. PICK f : Along(f, a, next, k - 1)
    BY <2>1
  <2> DEFINE g == [i \in 0 .. k |-> IF i = k THEN next[f[k - 1]] ELSE f[i]]
  <2>3. \A i \in 0 .. k - 1 : f[i] = IF i = 0 THEN a ELSE next[f[i - 1]]
    BY <2>2 DEF Along
  <2>4. ASSUME NEW i \in 0 .. k PROVE g[i] = IF i = 0 THEN a ELSE next[g[i - 1]]
    BY <1>3, <2>1, <2>3
  <2>5. Along(g, a, next, k)
    BY <2>4 DEF Along
  <2> QED
    BY <1>1, <2>5
<1> QED
  BY <1>2, <1>3

\* The links from a on are those of s.
Linked(a, next, s, k) ==
    /\ s = [i \in 1 .. k |-> s[i]]
    /\ k > 0 => next[a] = s[1]
    /\ \A i \in 1 .. k - 1 : next[s[i]] = s[i + 1]

\* A walk along the links of s is s.
LEMMA WalkIs ==
    ASSUME NEW a, NEW next, NEW m \in Nat, NEW k \in 0 .. m, NEW s, Linked(a, next, s, k)
    PROVE  Walk(a, next, m, k) = s
<1>1. /\ s = [i \in 1 .. k |-> s[i]]
      /\ k > 0 => next[a] = s[1]
      /\ \A i \in 1 .. k - 1 : next[s[i]] = s[i + 1]
  BY DEF Linked
<1> DEFINE at == CHOOSE f : f = [i \in 0 .. m |-> IF i = 0 THEN a ELSE next[f[i - 1]]]
<1>2. Walk(a, next, m, k) = [i \in 1 .. k |-> at[i]]
  BY Zenon DEF Walk
<1>3. at = [i \in 0 .. m |-> IF i = 0 THEN a ELSE next[at[i - 1]]]
  <2>1. \E f : f = [i \in 0 .. m |-> IF i = 0 THEN a ELSE next[f[i - 1]]]
    <3>1. \E f : Along(f, a, next, m)
      BY WalkExists
    <3> QED
      BY <3>1, Zenon DEF Along
  <2> QED
    BY <2>1, Zenon
<1> HIDE DEF at
<1>4. at[0] = a /\ \A i \in 1 .. m : at[i] = next[at[i - 1]]
  <2>1. \A i \in 0 .. m : at[i] = IF i = 0 THEN a ELSE next[at[i - 1]]
    BY <1>3
  <2> QED
    BY <2>1
<1> DEFINE Bad == {i \in Nat : i \in 1 .. k /\ at[i] # s[i]}
<1>5. Bad = {}
  <2> SUFFICES ASSUME Bad # {} PROVE FALSE
    OBVIOUS
  <2>1. PICK i \in Bad : \A j \in Bad : i <= j
    <3> Bad \in SUBSET Nat
      OBVIOUS
    <3> HIDE DEF Bad
    <3> QED
      BY Minimum
  <2>2. i \in 1 .. k /\ i \in 0 .. m /\ at[i] = next[at[i - 1]] /\ at[0] = a /\ at[i] # s[i]
    BY <1>4, <2>1
  <2>3. CASE i = 1
    BY <1>1, <2>2, <2>3
  <2>4. CASE i # 1
    <3>1. i - 1 \in 1 .. k - 1 /\ i - 1 \in Nat /\ ~(i <= i - 1)
      BY <2>2, <2>4
    <3>2. i - 1 \notin Bad
      <4> HIDE DEF Bad
      <4> QED
        BY <2>1, <3>1
    <3>3. at[i - 1] = s[i - 1] /\ i - 1 + 1 = i
      BY <3>1, <3>2
    <3>4. next[s[i - 1]] = s[i]
      BY <1>1, <3>1, <3>3
    <3> QED
      BY <2>2, <3>3, <3>4
  <2> QED
    BY <2>3, <2>4
<1>6. \A i \in 1 .. k : at[i] = s[i]
  BY <1>5
<1> HIDE DEF Bad
<1> QED
  BY <1>2, <1>6, <1>1

\* A sequence behind another one.
LEMMA Behind ==
    ASSUME NEW S, NEW a \in Seq(S), NEW b \in Seq(S)
    PROVE  /\ a \o b \in Seq(S) /\ Len(a \o b) = Len(a) + Len(b)
           /\ \A j \in 1 .. Len(a) : (a \o b)[j] = a[j]
           /\ \A j \in 1 .. Len(b) : (a \o b)[Len(a) + j] = b[j]
<1> Len(a) \in Nat /\ Len(b) \in Nat
  OBVIOUS
<1>1. /\ a \o b \in Seq(S) /\ Len(a \o b) = Len(a) + Len(b)
      /\ \A j \in 1 .. Len(a) + Len(b) : (a \o b)[j] = IF j <= Len(a) THEN a[j] ELSE b[j - Len(a)]
  BY ConcatProperties
<1>2. ASSUME NEW j \in 1 .. Len(b) PROVE (a \o b)[Len(a) + j] = b[j]
  <2>1. Len(a) + j \in 1 .. Len(a) + Len(b) /\ ~(Len(a) + j <= Len(a)) /\ Len(a) + j - Len(a) = j
    OBVIOUS
  <2> QED
    BY <1>1, <2>1
<1> QED
  BY <1>1, <1>2

\* Place j of a sequence when an element is inserted, and when one is removed.
LEMMA InsertFacts ==
    ASSUME NEW S, NEW s \in Seq(S), NEW i \in 1 .. Len(s) + 1, NEW e \in S
    PROVE  /\ Forw!InsertAt(s, i, e) \in Seq(S) /\ Len(Forw!InsertAt(s, i, e)) = Len(s) + 1
           /\ \A j \in 1 .. Len(s) + 1 : Forw!InsertAt(s, i, e)[j] =
                 IF j < i THEN s[j] ELSE IF j = i THEN e ELSE s[j - 1]
<1>1. PICK a, b, c : a = SubSeq(s, 1, i - 1) /\ b = SubSeq(s, i, Len(s)) /\ c = a \o <<e>>
  OBVIOUS
<1>2. Forw!InsertAt(s, i, e) = c \o b
  BY <1>1 DEF Forw!InsertAt
<1>3. Len(s) \in Nat /\ i - 1 \in Nat /\ Len(s) + 1 - i \in Nat
  OBVIOUS
<1>4. a \in Seq(S) /\ Len(a) = i - 1 /\ \A j \in 1 .. i - 1 : a[j] = s[j]
  BY <1>1
<1>5. /\ b \in Seq(S) /\ Len(b) = Len(s) + 1 - i
      /\ \A j \in 1 .. Len(s) + 1 - i : b[j] = s[i + j - 1]
  BY <1>1
<1>6. /\ c \in Seq(S) /\ Len(c) = i
      /\ \A j \in 1 .. i - 1 : c[j] = a[j]
      /\ c[i] = e
  BY <1>1, <1>4
<1>7. /\ c \o b \in Seq(S) /\ Len(c \o b) = Len(s) + 1
      /\ \A j \in 1 .. i : (c \o b)[j] = c[j]
      /\ \A j \in 1 .. Len(s) + 1 - i : (c \o b)[i + j] = b[j]
  <2>1. /\ c \o b \in Seq(S) /\ Len(c \o b) = Len(c) + Len(b)
        /\ \A j \in 1 .. Len(c) : (c \o b)[j] = c[j]
        /\ \A j \in 1 .. Len(b) : (c \o b)[Len(c) + j] = b[j]
    <3>1. b \in Seq(S) /\ c \in Seq(S)
      BY <1>5, <1>6
    <3> QED
      BY <3>1, Behind
  <2> QED
    BY <1>3, <1>5, <1>6, <2>1
<1>8. ASSUME NEW j \in 1 .. Len(s) + 1
      PROVE  (c \o b)[j] = IF j < i THEN s[j] ELSE IF j = i THEN e ELSE s[j - 1]
  <2>1. CASE j < i
    <3>1. j \in 1 .. i - 1 /\ j \in 1 .. i
      BY <1>3, <2>1
    <3> QED
      BY <1>4, <1>6, <1>7, <2>1, <3>1
  <2>2. CASE j = i
    BY <1>3, <1>6, <1>7, <2>2
  <2>3. CASE j > i
    <3>1. j - i \in 1 .. Len(s) + 1 - i /\ i + (j - i) = j /\ i + (j - i) - 1 = j - 1
      BY <1>3, <2>3
    <3>2. (c \o b)[j] = b[j - i] /\ b[j - i] = s[j - 1]
      BY <1>5, <1>7, <3>1
    <3> QED
      BY <1>3, <2>3, <3>2
  <2>4. j < i \/ j = i \/ j > i
    BY <1>3
  <2> QED
    BY <2>1, <2>2, <2>3, <2>4, Zenon
<1> QED
  BY <1>2, <1>7, <1>8

LEMMA RemoveFacts ==
    ASSUME NEW S, NEW s \in Seq(S), NEW i \in 1 .. Len(s)
    PROVE  /\ Forw!RemoveAt(s, i) \in Seq(S) /\ Len(Forw!RemoveAt(s, i)) = Len(s) - 1
           /\ \A j \in 1 .. Len(s) - 1 : Forw!RemoveAt(s, i)[j] =
                 IF j < i THEN s[j] ELSE s[j + 1]
<1>1. PICK a, b : a = SubSeq(s, 1, i - 1) /\ b = SubSeq(s, i + 1, Len(s))
  OBVIOUS
<1>2. Forw!RemoveAt(s, i) = a \o b
  BY <1>1 DEF Forw!RemoveAt
<1>3. Len(s) \in Nat /\ i - 1 \in Nat /\ Len(s) - i \in Nat
  OBVIOUS
<1>4. a \in Seq(S) /\ Len(a) = i - 1 /\ \A j \in 1 .. i - 1 : a[j] = s[j]
  BY <1>1
<1>5. /\ b \in Seq(S) /\ Len(b) = Len(s) - i
      /\ \A j \in 1 .. Len(s) - i : b[j] = s[i + j]
  BY <1>1
<1>6. /\ a \o b \in Seq(S) /\ Len(a \o b) = Len(s) - 1
      /\ \A j \in 1 .. i - 1 : (a \o b)[j] = a[j]
      /\ \A j \in 1 .. Len(s) - i : (a \o b)[(i - 1) + j] = b[j]
  <2>1. /\ a \o b \in Seq(S) /\ Len(a \o b) = Len(a) + Len(b)
        /\ \A j \in 1 .. Len(a) : (a \o b)[j] = a[j]
        /\ \A j \in 1 .. Len(b) : (a \o b)[Len(a) + j] = b[j]
    <3>1. a \in Seq(S) /\ b \in Seq(S)
      BY <1>4, <1>5
    <3> QED
      BY <3>1, Behind
  <2> QED
    BY <1>3, <1>4, <1>5, <2>1
<1>7. ASSUME NEW j \in 1 .. Len(s) - 1
      PROVE  (a \o b)[j] = IF j < i THEN s[j] ELSE s[j + 1]
  <2>1. CASE j < i
    <3>1. j \in 1 .. i - 1
      BY <1>3, <2>1
    <3> QED
      BY <1>4, <1>6, <2>1, <3>1
  <2>2. CASE j >= i
    <3>1. /\ j + 1 - i \in 1 .. Len(s) - i /\ (i - 1) + (j + 1 - i) = j
          /\ i + (j + 1 - i) = j + 1
      BY <1>3, <2>2
    <3>2. (a \o b)[j] = b[j + 1 - i] /\ b[j + 1 - i] = s[j + 1]
      BY <1>5, <1>6, <3>1
    <3> QED
      BY <1>3, <2>2, <3>2
  <2>3. j < i \/ j >= i
    BY <1>3
  <2> QED
    BY <2>1, <2>2, <2>3, Zenon
<1> QED
  BY <1>2, <1>6, <1>7

-----------------------------------------------------------------------------
\* The nodes of list l, from head to tail, when its elements are s.
RingAt(l, s, i) == IF i = 0 THEN head[l] ELSE IF i = Len(s) + 1 THEN tail[l] ELSE s[i]

\* The links of list l are those of sequence s, and no listed element is elsewhere.
Chain(l, s, on, next, prev, k) ==
    /\ s \in Seq(Elems) /\ Len(s) = k
    /\ \A i \in 0 .. k : /\ next[RingAt(l, s, i)] = RingAt(l, s, i + 1)
                         /\ prev[RingAt(l, s, i + 1)] = RingAt(l, s, i)
    /\ \A e \in Elems : on[e] = l <=> \E i \in 1 .. k : s[i] = e
    /\ \A i, j \in 1 .. k : s[i] = s[j] => i = j

Chains(s) == /\ s \in [Lists -> Seq(Elems)]
             /\ \A l \in Lists : Chain(l, s[l], h, n, p, count[l])

\* A ring of its own beside that of head and tail would satisfy LinksInverse.
RingInv == \E s : Chains(s)

\* The nodes of a chain are different ones, with the elements between the ends.
LEMMA RingFacts ==
    ASSUME NEW l \in Lists, NEW s, NEW on, NEW next, NEW prev, NEW k \in Nat,
           Chain(l, s, on, next, prev, k)
    PROVE  /\ \A i \in 0 .. k + 1 : RingAt(l, s, i) \in Nodes
           /\ \A i \in 1 .. k : RingAt(l, s, i) = s[i] /\ s[i] \in Elems /\ on[s[i]] = l
           /\ RingAt(l, s, 0) = head[l] /\ RingAt(l, s, k + 1) = tail[l]
           /\ \A i, j \in 0 .. k + 1 : RingAt(l, s, i) = RingAt(l, s, j) => i = j
<1>1. \A i \in 1 .. k : RingAt(l, s, i) = s[i] /\ s[i] \in Elems /\ on[s[i]] = l
  BY DEF Chain, RingAt
<1>2. RingAt(l, s, 0) = head[l] /\ RingAt(l, s, k + 1) = tail[l]
  BY DEF Chain, RingAt
<1>3. \A i \in 0 .. k + 1 : i = 0 \/ i \in 1 .. k \/ i = k + 1
  OBVIOUS
<1>4. ASSUME NEW i \in 0 .. k + 1, NEW j \in 0 .. k + 1, RingAt(l, s, i) = RingAt(l, s, j)
      PROVE  i = j
  <2>1. head[l] \notin Elems /\ tail[l] \notin Elems /\ head[l] # tail[l]
    BY NodeAssumption
  <2>2. \A a, b \in 1 .. k : s[a] = s[b] => a = b
    BY DEF Chain
  <2> QED
    BY <1>1, <1>2, <1>3, <1>4, <2>1, <2>2
<1>5. \A i \in 0 .. k + 1 : RingAt(l, s, i) \in Nodes
  BY <1>1, <1>2, <1>3, NodeFacts
<1> QED
  BY <1>1, <1>2, <1>4, <1>5

\* A node of the list is somewhere in the ring.
LEMMA RingPlace ==
    ASSUME ListInv, NEW l \in Lists, NEW s, Chain(l, s, h, n, p, count[l]), count[l] \in Nat,
           NEW x \in Nodes, h[x] = l
    PROVE  \E i \in 0 .. count[l] + 1 : x = RingAt(l, s, i)
<1>1. CASE x \in Elems
  <2>1. PICK i \in 1 .. count[l] : s[i] = x
    BY <1>1 DEF Chain
  <2> QED
    BY <2>1, RingFacts
<1>2. CASE x \notin Elems
  <2>1. PICK k \in Lists : x = head[k] \/ x = tail[k]
    BY <1>2 DEF Nodes, Ends
  <2>2. x = head[l] \/ x = tail[l]
    BY <2>1 DEF ListInv, LinksInverse
  <2> QED
    BY <2>2, RingFacts
<1> QED
  BY <1>1, <1>2

\* What happens on other lists leaves a list alone.
LEMMA ChainStays ==
    ASSUME ListInv, NEW l \in Lists, NEW s, Chain(l, s, h, n, p, count[l]), count[l] \in Nat,
           \A x \in Nodes : h[x] = l => n'[x] = n[x] /\ p'[x] = p[x],
           \A x \in Nodes : h'[x] = l <=> h[x] = l, count'[l] = count[l]
    PROVE  Chain(l, s, h', n', p', count'[l])
<1>1. \A i \in 0 .. count[l] + 1 : RingAt(l, s, i) \in Nodes /\ h[RingAt(l, s, i)] = l
  <2>1. \A i \in 0 .. count[l] + 1 : i = 0 \/ i \in 1 .. count[l] \/ i = count[l] + 1
    OBVIOUS
  <2>2. h[head[l]] = l /\ h[tail[l]] = l
    BY DEF ListInv, LinksInverse
  <2> QED
    BY <2>1, <2>2, RingFacts
<1>2. \A i \in 0 .. count[l] : i \in 0 .. count[l] + 1 /\ i + 1 \in 0 .. count[l] + 1
  OBVIOUS
<1>3. \A i \in 0 .. count[l] : /\ n'[RingAt(l, s, i)] = RingAt(l, s, i + 1)
                               /\ p'[RingAt(l, s, i + 1)] = RingAt(l, s, i)
  BY <1>1, <1>2 DEF Chain
<1> QED
  BY <1>3, NodeFacts DEF Chain

\* Linking e between place i - 1 and place i inserts it in the sequence.
LEMMA ChainInsert ==
    ASSUME ListInv, NEW l \in Lists, NEW s, Chain(l, s, h, n, p, count[l]), count[l] \in Nat,
           NEW i \in 1 .. count[l] + 1, NEW e \in Elems, h[e] = Null,
           Link(l, RingAt(l, s, i - 1), e, RingAt(l, s, i))
    PROVE  Chain(l, Forw!InsertAt(s, i, e), h', n', p', count'[l])
<1> DEFINE k == count[l]
           prev == RingAt(l, s, i - 1)
           next == RingAt(l, s, i)
<1>1. PICK t : t = Forw!InsertAt(s, i, e)
  OBVIOUS
<1>2. s \in Seq(Elems) /\ Len(s) = k
  BY DEF Chain
<1>3. /\ t \in Seq(Elems) /\ Len(t) = k + 1
      /\ \A j \in 1 .. k + 1 : t[j] = IF j < i THEN s[j] ELSE IF j = i THEN e ELSE s[j - 1]
  <2>1. i \in 1 .. Len(s) + 1
    BY <1>2
  <2>2. s \in Seq(Elems)
    BY <1>2
  <2>3. /\ t \in Seq(Elems) /\ Len(t) = Len(s) + 1
        /\ \A j \in 1 .. Len(s) + 1 : t[j] = IF j < i THEN s[j] ELSE IF j = i THEN e ELSE s[j - 1]
    <3>1. /\ Forw!InsertAt(s, i, e) \in Seq(Elems)
          /\ Len(Forw!InsertAt(s, i, e)) = Len(s) + 1
          /\ \A j \in 1 .. Len(s) + 1 : Forw!InsertAt(s, i, e)[j] =
                IF j < i THEN s[j] ELSE IF j = i THEN e ELSE s[j - 1]
      BY <2>1, <2>2, InsertFacts
    <3> QED
      BY <1>1, <3>1
  <2> QED
    BY <1>2, <2>3
<1>4. /\ \A j \in 0 .. i - 1 : RingAt(l, t, j) = RingAt(l, s, j)
      /\ RingAt(l, t, i) = e
      /\ \A j \in i + 1 .. k + 2 : RingAt(l, t, j) = RingAt(l, s, j - 1)
  <2>1. /\ \A j : RingAt(l, s, j) = IF j = 0 THEN head[l] ELSE IF j = k + 1 THEN tail[l] ELSE s[j]
        /\ \A j : RingAt(l, t, j) = IF j = 0 THEN head[l] ELSE IF j = k + 2 THEN tail[l] ELSE t[j]
    BY <1>2, <1>3 DEF RingAt
  <2>2. ASSUME NEW j \in 0 .. i - 1 PROVE RingAt(l, t, j) = RingAt(l, s, j)
    <3>1. j # k + 1 /\ j # k + 2 /\ (j # 0 => j \in 1 .. k + 1 /\ j < i)
      OBVIOUS
    <3> QED
      BY <1>3, <2>1, <3>1
  <2>3. RingAt(l, t, i) = e
    <3>1. i # 0 /\ i # k + 2 /\ ~(i < i)
      OBVIOUS
    <3> QED
      BY <1>3, <2>1, <3>1
  <2>4. ASSUME NEW j \in i + 1 .. k + 2 PROVE RingAt(l, t, j) = RingAt(l, s, j - 1)
    <3>1. j # 0 /\ j - 1 # 0 /\ (j = k + 2 <=> j - 1 = k + 1)
      OBVIOUS
    <3>2. j # k + 2 => j \in 1 .. k + 1 /\ ~(j < i) /\ j # i
      OBVIOUS
    <3> QED
      BY <1>3, <2>1, <3>1, <3>2
  <2> QED
    BY <2>2, <2>3, <2>4
<1>5. /\ \A j \in 0 .. k + 1 : RingAt(l, s, j) \in Nodes /\ RingAt(l, s, j) # e
      /\ \A a, b \in 0 .. k + 1 : RingAt(l, s, a) = RingAt(l, s, b) => a = b
  <2>1. \A j \in 0 .. k + 1 : j = 0 \/ j \in 1 .. k \/ j = k + 1
    OBVIOUS
  <2>2. Null # l /\ head[l] # e /\ tail[l] # e
    BY NodeAssumption
  <2> QED
    BY <2>1, <2>2, RingFacts
<1>6. prev \in Nodes /\ next \in Nodes /\ e \in Nodes
  BY <1>5, NodeFacts
<1>7. /\ \A x \in Nodes : h'[x] = IF x = e THEN l ELSE h[x]
      /\ \A x \in Nodes : n'[x] = IF x = e THEN next ELSE IF x = prev THEN e ELSE n[x]
      /\ \A x \in Nodes : p'[x] = IF x = e THEN prev ELSE IF x = next THEN e ELSE p[x]
      /\ count'[l] = k + 1
  <2>1. prev # e /\ next # e
    BY <1>5
  <2> QED
    BY <1>6, <2>1 DEF ListInv, TypeOK, Link
<1>8. \A j \in 0 .. k : /\ n[RingAt(l, s, j)] = RingAt(l, s, j + 1)
                        /\ p[RingAt(l, s, j + 1)] = RingAt(l, s, j)
  BY DEF Chain
<1> HIDE DEF prev, next
<1>9. ASSUME NEW j \in 0 .. k + 1
      PROVE  /\ n'[RingAt(l, t, j)] = RingAt(l, t, j + 1)
             /\ p'[RingAt(l, t, j + 1)] = RingAt(l, t, j)
  <2>1. CASE j < i - 1
    <3>1. j \in 0 .. i - 1 /\ j + 1 \in 0 .. i - 1 /\ j \in 0 .. k /\ j + 1 \in 0 .. k + 1
          /\ i - 1 \in 0 .. k + 1 /\ i \in 0 .. k + 1 /\ j # i - 1 /\ j + 1 # i
      BY <2>1
    <3>2. /\ RingAt(l, s, j) \in Nodes /\ RingAt(l, s, j) # e /\ RingAt(l, s, j) # prev
          /\ RingAt(l, s, j + 1) \in Nodes /\ RingAt(l, s, j + 1) # e /\ RingAt(l, s, j + 1) # next
      BY <1>5, <3>1 DEF prev, next
    <3> QED
      BY <1>4, <1>7, <1>8, <3>1, <3>2
  <2>2. CASE j = i - 1
    <3>1. j + 1 = i /\ j \in 0 .. i - 1
      BY <2>2
    <3>2. RingAt(l, t, j) = prev /\ RingAt(l, t, j + 1) = e /\ prev # e
      BY <1>4, <1>5, <2>2, <3>1 DEF prev
    <3> QED
      BY <1>6, <1>7, <3>2
  <2>3. CASE j = i
    <3>1. j + 1 \in i + 1 .. k + 2 /\ j + 1 - 1 = i /\ i \in 0 .. k + 1
      BY <2>3
    <3>2. RingAt(l, t, j) = e /\ RingAt(l, t, j + 1) = next /\ next # e
      BY <1>4, <1>5, <2>3, <3>1 DEF next
    <3> QED
      BY <1>6, <1>7, <3>2
  <2>4. CASE j > i
    <3>1. j \in i + 1 .. k + 2 /\ j + 1 \in i + 1 .. k + 2 /\ j - 1 \in 0 .. k /\ j + 1 - 1 = j
          /\ j - 1 + 1 = j /\ i - 1 \in 0 .. k + 1 /\ i \in 0 .. k + 1 /\ j - 1 # i - 1 /\ j # i
          /\ j - 1 \in 0 .. k + 1
      BY <2>4
    <3>2. /\ RingAt(l, s, j - 1) \in Nodes /\ RingAt(l, s, j - 1) # e /\ RingAt(l, s, j - 1) # prev
          /\ RingAt(l, s, j) \in Nodes /\ RingAt(l, s, j) # e /\ RingAt(l, s, j) # next
      BY <1>5, <3>1 DEF prev, next
    <3> QED
      BY <1>4, <1>7, <1>8, <3>1, <3>2
  <2>5. j < i - 1 \/ j = i - 1 \/ j = i \/ j > i
    OBVIOUS
  <2> QED
    BY <2>1, <2>2, <2>3, <2>4, <2>5, Zenon
<1>10. ASSUME NEW x \in Elems
       PROVE  h'[x] = l <=> \E j \in 1 .. k + 1 : t[j] = x
  <2>1. ASSUME NEW j \in 1 .. k, s[j] = x PROVE \E m \in 1 .. k + 1 : t[m] = x
    <3>1. CASE j < i
      <4>1. j \in 1 .. k + 1 /\ t[j] = x
        BY <1>3, <2>1, <3>1
      <4> QED
        BY <4>1
    <3>2. CASE j >= i
      <4>1. j + 1 \in 1 .. k + 1 /\ t[j + 1] = x
        BY <1>3, <2>1, <3>2
      <4> QED
        BY <4>1
    <3>3. j < i \/ j >= i
      OBVIOUS
    <3> QED
      BY <3>1, <3>2, <3>3
  <2>2. ASSUME NEW j \in 1 .. k + 1, t[j] = x, x # e PROVE \E m \in 1 .. k : s[m] = x
    <3>1. CASE j < i
      <4>1. j \in 1 .. k /\ s[j] = x
        BY <1>3, <2>2, <3>1
      <4> QED
        BY <4>1
    <3>2. CASE j > i
      <4>1. j - 1 \in 1 .. k /\ s[j - 1] = x
        BY <1>3, <2>2, <3>2
      <4> QED
        BY <4>1
    <3>3. j < i \/ j = i \/ j > i
      OBVIOUS
    <3>4. j # i
      BY <1>3, <2>2
    <3> QED
      BY <3>1, <3>2, <3>3, <3>4
  <2>3. h[x] = l <=> \E j \in 1 .. k : s[j] = x
    BY DEF Chain
  <2>4. t[i] = e
    BY <1>3
  <2>5. h'[x] = IF x = e THEN l ELSE h[x]
    BY <1>7, NodeFacts
  <2> QED
    BY <2>1, <2>2, <2>3, <2>4, <2>5
<1>11. ASSUME NEW a \in 1 .. k + 1, NEW b \in 1 .. k + 1, t[a] = t[b]
       PROVE  a = b
  <2>1. \A j \in 1 .. k : s[j] # e
    BY <1>5, RingFacts
  <2>2. \A c, d \in 1 .. k : s[c] = s[d] => c = d
    BY DEF Chain
  <2> DEFINE at(j) == IF j < i THEN j ELSE j - 1
  <2>3. \A j \in 1 .. k + 1 : j # i => at(j) \in 1 .. k /\ t[j] = s[at(j)]
    BY <1>3
  <2>4. \A c, d \in 1 .. k + 1 : c # i /\ d # i /\ at(c) = at(d) => c = d
    OBVIOUS
  <2>5. t[i] = e
    BY <1>3
  <2> HIDE DEF at
  <2> QED
    BY <1>11, <2>1, <2>2, <2>3, <2>4, <2>5
<1> HIDE DEF k
<1>12. Chain(l, t, h', n', p', k + 1)
  BY <1>3, <1>9, <1>10, <1>11 DEF Chain
<1> QED
  BY <1>1, <1>7, <1>12

\* Taking out the element at place i removes it from the sequence.
LEMMA ChainRemove ==
    ASSUME ListInv, NEW l \in Lists, NEW s, Chain(l, s, h, n, p, count[l]), count[l] \in Nat,
           NEW i \in 1 .. count[l], remove(s[i])
    PROVE  Chain(l, Forw!RemoveAt(s, i), h', n', p', count'[l])
<1> DEFINE k == count[l]
           e == s[i]
           prev == RingAt(l, s, i - 1)
           next == RingAt(l, s, i + 1)
<1>1. PICK t : t = Forw!RemoveAt(s, i)
  OBVIOUS
<1>2. s \in Seq(Elems) /\ Len(s) = k
  BY DEF Chain
<1>3. /\ t \in Seq(Elems) /\ Len(t) = k - 1
      /\ \A j \in 1 .. k - 1 : t[j] = IF j < i THEN s[j] ELSE s[j + 1]
  <2>1. i \in 1 .. Len(s)
    BY <1>2
  <2>2. s \in Seq(Elems)
    BY <1>2
  <2>3. /\ Forw!RemoveAt(s, i) \in Seq(Elems)
        /\ Len(Forw!RemoveAt(s, i)) = Len(s) - 1
        /\ \A j \in 1 .. Len(s) - 1 : Forw!RemoveAt(s, i)[j] = IF j < i THEN s[j] ELSE s[j + 1]
    BY <2>1, <2>2, RemoveFacts
  <2> QED
    BY <1>1, <1>2, <2>3
<1>4. /\ \A j \in 0 .. i - 1 : RingAt(l, t, j) = RingAt(l, s, j)
      /\ \A j \in i .. k : RingAt(l, t, j) = RingAt(l, s, j + 1)
  <2>1. /\ \A j : RingAt(l, s, j) = IF j = 0 THEN head[l] ELSE IF j = k + 1 THEN tail[l] ELSE s[j]
        /\ \A j : RingAt(l, t, j) = IF j = 0 THEN head[l] ELSE IF j = k THEN tail[l] ELSE t[j]
    BY <1>2, <1>3 DEF RingAt
  <2>2. ASSUME NEW j \in 0 .. i - 1 PROVE RingAt(l, t, j) = RingAt(l, s, j)
    <3>1. j # k + 1 /\ j # k /\ (j # 0 => j \in 1 .. k - 1 /\ j < i)
      OBVIOUS
    <3> QED
      BY <1>3, <2>1, <3>1
  <2>3. ASSUME NEW j \in i .. k PROVE RingAt(l, t, j) = RingAt(l, s, j + 1)
    <3>1. j # 0 /\ j + 1 # 0 /\ (j = k <=> j + 1 = k + 1)
      OBVIOUS
    <3>2. j # k => j \in 1 .. k - 1 /\ ~(j < i)
      OBVIOUS
    <3> QED
      BY <1>3, <2>1, <3>1, <3>2
  <2> QED
    BY <2>2, <2>3
<1>5. /\ \A j \in 0 .. k + 1 : RingAt(l, s, j) \in Nodes
      /\ \A a, b \in 0 .. k + 1 : RingAt(l, s, a) = RingAt(l, s, b) => a = b
      /\ e = RingAt(l, s, i) /\ e \in Elems /\ h[e] = l
  BY RingFacts
<1>6. \A j \in 0 .. k : /\ n[RingAt(l, s, j)] = RingAt(l, s, j + 1)
                        /\ p[RingAt(l, s, j + 1)] = RingAt(l, s, j)
  BY DEF Chain
<1>7. n[e] = next /\ p[e] = prev /\ prev \in Nodes /\ next \in Nodes /\ e \in Nodes
  <2>1. i \in 0 .. k /\ i - 1 \in 0 .. k /\ i - 1 + 1 = i
        /\ i - 1 \in 0 .. k + 1 /\ i + 1 \in 0 .. k + 1 /\ i \in 0 .. k + 1
    OBVIOUS
  <2> QED
    BY <1>5, <1>6, <2>1
<1> HIDE DEF prev, next, e
<1>8. /\ \A x \in Nodes : h'[x] = IF x = e THEN Null ELSE h[x]
      /\ \A x \in Nodes : n'[x] = IF x = e THEN Null ELSE IF x = prev THEN next ELSE n[x]
      /\ \A x \in Nodes : p'[x] = IF x = e THEN Null ELSE IF x = next THEN prev ELSE p[x]
      /\ count'[l] = k - 1
  <2>1. remove(e)
    BY DEF e
  <2> QED
    BY <1>5, <1>7, <2>1 DEF ListInv, TypeOK, remove
<1>9. ASSUME NEW j \in 0 .. k - 1
      PROVE  /\ n'[RingAt(l, t, j)] = RingAt(l, t, j + 1)
             /\ p'[RingAt(l, t, j + 1)] = RingAt(l, t, j)
  <2>1. CASE j < i - 1
    <3>1. /\ j \in 0 .. i - 1 /\ j + 1 \in 0 .. i - 1
          /\ j \in 0 .. k /\ j \in 0 .. k + 1 /\ j + 1 \in 0 .. k + 1
          /\ i - 1 \in 0 .. k + 1 /\ i \in 0 .. k + 1 /\ i + 1 \in 0 .. k + 1
          /\ j # i - 1 /\ j # i /\ j + 1 # i /\ j + 1 # i + 1
      BY <2>1
    <3>2. /\ RingAt(l, s, j) \in Nodes /\ RingAt(l, s, j) # e /\ RingAt(l, s, j) # prev
          /\ RingAt(l, s, j + 1) \in Nodes /\ RingAt(l, s, j + 1) # e /\ RingAt(l, s, j + 1) # next
      BY <1>5, <3>1 DEF prev, next
    <3> QED
      BY <1>4, <1>6, <1>8, <3>1, <3>2
  <2>2. CASE j = i - 1
    <3>1. j + 1 = i /\ j \in 0 .. i - 1 /\ i \in i .. k /\ i - 1 \in 0 .. k + 1
          /\ i + 1 \in 0 .. k + 1 /\ i \in 0 .. k + 1 /\ i - 1 # i /\ i + 1 # i
      BY <2>2
    <3>2. RingAt(l, t, j) = prev /\ RingAt(l, t, j + 1) = next /\ prev # e /\ next # e
      BY <1>4, <1>5, <2>2, <3>1 DEF prev, next
    <3> QED
      BY <1>7, <1>8, <3>2
  <2>3. CASE j >= i
    <3>1. j \in i .. k /\ j + 1 \in i .. k /\ j + 1 \in 0 .. k /\ j + 1 \in 0 .. k + 1
          /\ j + 1 + 1 \in 0 .. k + 1
          /\ i - 1 \in 0 .. k + 1 /\ i \in 0 .. k + 1 /\ i + 1 \in 0 .. k + 1
          /\ j + 1 # i - 1 /\ j + 1 # i /\ j + 1 + 1 # i /\ j + 1 + 1 # i + 1
      BY <2>3
    <3>2. /\ RingAt(l, s, j + 1) \in Nodes /\ RingAt(l, s, j + 1) # e /\ RingAt(l, s, j + 1) # prev
          /\ RingAt(l, s, j + 1 + 1) \in Nodes /\ RingAt(l, s, j + 1 + 1) # e
          /\ RingAt(l, s, j + 1 + 1) # next
      BY <1>5, <3>1 DEF prev, next
    <3> QED
      BY <1>4, <1>6, <1>8, <3>1, <3>2
  <2>4. j < i - 1 \/ j = i - 1 \/ j >= i
    OBVIOUS
  <2> QED
    BY <2>1, <2>2, <2>3, <2>4, Zenon
<1>10. \A c, d \in 1 .. k : s[c] = s[d] => c = d
  BY DEF Chain
<1> DEFINE at(j) == IF j < i THEN j ELSE j + 1
<1>11. /\ \A j \in 1 .. k - 1 : at(j) \in 1 .. k /\ at(j) # i /\ t[j] = s[at(j)]
       /\ \A c, d \in 1 .. k - 1 : at(c) = at(d) => c = d
  <2>1. /\ \A j \in 1 .. k - 1 : at(j) \in 1 .. k /\ at(j) # i
        /\ \A c, d \in 1 .. k - 1 : at(c) = at(d) => c = d
    OBVIOUS
  <2>2. ASSUME NEW j \in 1 .. k - 1 PROVE t[j] = s[at(j)]
    BY <1>3
  <2> QED
    BY <2>1, <2>2
<1>12. ASSUME NEW x \in Elems
       PROVE  h'[x] = l <=> \E j \in 1 .. k - 1 : t[j] = x
  <2>1. ASSUME NEW j \in 1 .. k, j # i PROVE \E m \in 1 .. k - 1 : t[m] = s[j]
    <3>1. CASE j < i
      <4>1. j \in 1 .. k - 1 /\ t[j] = s[j]
        BY <1>3, <3>1
      <4> QED
        BY <4>1
    <3>2. CASE j > i
      <4>1. j - 1 \in 1 .. k - 1 /\ ~(j - 1 < i) /\ j - 1 + 1 = j
        BY <3>2
      <4>2. t[j - 1] = s[j]
        BY <1>3, <4>1
      <4> QED
        BY <4>1, <4>2
    <3>3. j < i \/ j > i
      BY <2>1
    <3> QED
      BY <3>1, <3>2, <3>3
  <2>2. h[x] = l <=> \E j \in 1 .. k : s[j] = x
    BY DEF Chain
  <2>3. h'[x] = IF x = e THEN Null ELSE h[x]
    BY <1>8, NodeFacts
  <2>4. e = s[i] /\ Null # l
    BY NodeAssumption DEF e
  <2>5. i \in 1 .. k
    OBVIOUS
  <2> HIDE DEF at
  <2>6. ASSUME NEW j \in 1 .. k - 1 PROVE t[j] # e /\ \E m \in 1 .. k : s[m] = t[j]
    BY <1>10, <1>11, <2>4, <2>5
  <2> QED
    BY <2>1, <2>2, <2>3, <2>4, <2>6
<1>13. ASSUME NEW a \in 1 .. k - 1, NEW b \in 1 .. k - 1, t[a] = t[b]
       PROVE  a = b
  <2> HIDE DEF at
  <2> QED
    BY <1>10, <1>11, <1>13
<1> HIDE DEF k
<1>14. Chain(l, t, h', n', p', k - 1)
  BY <1>3, <1>9, <1>12, <1>13 DEF Chain
<1> QED
  BY <1>1, <1>8, <1>14

\* The two walks along a chain.
LEMMA ChainWalks ==
    ASSUME NEW l \in Lists, NEW s, NEW on, NEW next, NEW prev, NEW m \in Nat, NEW k \in 0 .. m,
           Chain(l, s, on, next, prev, k)
    PROVE  /\ Walk(head[l], next, m, k) = s
           /\ \A i \in 1 .. k : Walk(tail[l], prev, m, k)[k + 1 - i] = s[i]
<1>1. s \in Seq(Elems) /\ Len(s) = k /\ s = [i \in 1 .. k |-> s[i]]
  BY DEF Chain
<1>2. /\ RingAt(l, s, 0) = head[l] /\ RingAt(l, s, k + 1) = tail[l]
      /\ \A i \in 1 .. k : RingAt(l, s, i) = s[i]
  BY RingFacts
<1>3. \A i \in 0 .. k : /\ next[RingAt(l, s, i)] = RingAt(l, s, i + 1)
                        /\ prev[RingAt(l, s, i + 1)] = RingAt(l, s, i)
  BY DEF Chain
<1>4. Walk(head[l], next, m, k) = s
  <2>1. k > 0 => next[head[l]] = s[1]
    <3>1. k > 0 => 0 \in 0 .. k /\ 0 + 1 = 1 /\ 1 \in 1 .. k
      OBVIOUS
    <3> QED
      BY <1>2, <1>3, <3>1
  <2>2. \A i \in 1 .. k - 1 : next[s[i]] = s[i + 1]
    <3>1. \A i \in 1 .. k - 1 : i \in 0 .. k /\ i \in 1 .. k /\ i + 1 \in 1 .. k
      OBVIOUS
    <3> QED
      BY <1>2, <1>3, <3>1
  <2>3. Linked(head[l], next, s, k)
    BY <1>1, <2>1, <2>2 DEF Linked
  <2> QED
    BY <2>3, WalkIs
<1>5. \A i \in 1 .. k : Walk(tail[l], prev, m, k)[k + 1 - i] = s[i]
  <2> DEFINE r == [i \in 1 .. k |-> s[k + 1 - i]]
  <2>1. r = [i \in 1 .. k |-> r[i]]
    OBVIOUS
  <2>2. k > 0 => prev[tail[l]] = r[1]
    <3>1. k > 0 => k \in 0 .. k /\ k \in 1 .. k /\ k + 1 - 1 = k /\ 1 \in 1 .. k
      OBVIOUS
    <3> QED
      BY <1>2, <1>3, <3>1
  <2>3. ASSUME NEW i \in 1 .. k - 1 PROVE prev[r[i]] = r[i + 1]
    <3>1. /\ i \in 1 .. k /\ i + 1 \in 1 .. k /\ k - i \in 0 .. k /\ k - i \in 1 .. k
          /\ k - i + 1 = k + 1 - i /\ k + 1 - i \in 1 .. k /\ k + 1 - (i + 1) = k - i
      OBVIOUS
    <3>2. r[i] = s[k + 1 - i] /\ r[i + 1] = s[k - i]
      BY <3>1
    <3> HIDE DEF r
    <3> QED
      BY <1>2, <1>3, <3>1, <3>2
  <2>4. \A i \in 1 .. k : k + 1 - i \in 1 .. k /\ k + 1 - (k + 1 - i) = i
    OBVIOUS
  <2>5. \A i \in 1 .. k : r[k + 1 - i] = s[i]
    BY <2>4
  <2> HIDE DEF r
  <2>6. Linked(tail[l], prev, r, k)
    BY <2>1, <2>2, <2>3 DEF Linked
  <2>7. Walk(tail[l], prev, m, k) = r
    BY <2>6, WalkIs
  <2> QED
    BY <1>1, <2>5, <2>7
<1> QED
  BY <1>4, <1>5

-----------------------------------------------------------------------------
(* Every step of List is a step of ListSeq, whichever way a list is walked. *)

\* What ListSeq allows the sequences to become.
SeqStep(s, t) == \E l \in Lists :
    \/ \E i \in 1 .. Len(s[l]) + 1, e \in Elems :
          /\ \A k \in Lists : e \notin Forw!Range(s[k])
          /\ t = [s EXCEPT ![l] = Forw!InsertAt(s[l], i, e)]
    \/ \E i \in 1 .. Len(s[l]) : t = [s EXCEPT ![l] = Forw!RemoveAt(s[l], i)]

\* No list is longer than there are elements.
LEMMA CountNat == ASSUME ListInv, NEW l \in Lists PROVE count[l] \in 0 .. Cardinality(Elems)
<1>1. IsFiniteSet(Elems) /\ Listed(l) \subseteq Elems
  BY ElemsFinite DEF Listed
<1>2. /\ Cardinality(Listed(l)) \in Nat /\ Cardinality(Elems) \in Nat
      /\ Cardinality(Listed(l)) <= Cardinality(Elems)
  BY <1>1, FS_Subset, FS_CardinalityType
<1> QED
  BY <1>2 DEF ListInv, CountExact

\* The ring of head and tail is the empty sequence.
LEMMA InitRing == Init => Chains([l \in Lists |-> <<>>])
<1> SUFFICES ASSUME Init, NEW l \in Lists PROVE Chain(l, <<>>, h, n, p, count[l])
  BY DEF Chains
<1>1. ListInv /\ count[l] = 0
  BY InitCorrect DEF Init
<1>2. p[head[l]] = tail[l] /\ n[tail[l]] = head[l] /\ h[head[l]] = l /\ h[tail[l]] = l
  BY <1>1 DEF ListInv, LinksInverse
<1>3. n[head[l]] = tail[l] /\ p[tail[l]] = head[l]
  BY <1>2 DEF Init
<1>4. \A e \in Elems : h[e] # l
  BY NodeFacts, NodeAssumption DEF Init
<1>5. \A i \in 0 .. 0 : i = 0
  OBVIOUS
<1>6. RingAt(l, <<>>, 0) = head[l] /\ RingAt(l, <<>>, 0 + 1) = tail[l]
  BY DEF RingAt
<1> QED
  BY <1>1, <1>3, <1>4, <1>5, <1>6 DEF Chain

\* One list changes, and the others stay what they are.
LEMMA InsertSeq ==
    ASSUME ListInv, NEW s, Chains(s), NEW l \in Lists, NEW i \in 1 .. count[l] + 1, NEW e \in Elems,
           h[e] = Null, Link(l, RingAt(l, s[l], i - 1), e, RingAt(l, s[l], i))
    PROVE  \E t : Chains(t)' /\ SeqStep(s, t)
<1> DEFINE prev == RingAt(l, s[l], i - 1)
           next == RingAt(l, s[l], i)
           t == [s EXCEPT ![l] = Forw!InsertAt(s[l], i, e)]
<1>1. \A k \in Lists : /\ s[k] \in Seq(Elems) /\ Len(s[k]) = count[k]
                       /\ Chain(k, s[k], h, n, p, count[k]) /\ count[k] \in Nat
  BY CountNat DEF Chains, Chain
<1>2. Chain(l, Forw!InsertAt(s[l], i, e), h', n', p', count'[l])
  BY <1>1, ChainInsert
<1>3. Forw!InsertAt(s[l], i, e) \in Seq(Elems)
  BY <1>2 DEF Chain
<1>4. /\ t \in [Lists -> Seq(Elems)]
      /\ \A k \in Lists : t[k] = IF k = l THEN Forw!InsertAt(s[l], i, e) ELSE s[k]
  BY <1>3 DEF Chains
<1>5. prev \in Nodes /\ next \in Nodes /\ h[prev] = l /\ h[next] = l /\ e \in Nodes
  <2>1. h[head[l]] = l /\ h[tail[l]] = l
    BY DEF ListInv, LinksInverse
  <2>2. i - 1 \in 0 .. count[l] + 1 /\ i \in 0 .. count[l] + 1
    BY <1>1
  <2>3. \A j \in 0 .. count[l] + 1 : j = 0 \/ j \in 1 .. count[l] \/ j = count[l] + 1
    BY <1>1
  <2> QED
    BY <1>1, <2>1, <2>2, <2>3, RingFacts, NodeFacts
<1> HIDE DEF prev, next
<1>6. ASSUME NEW k \in Lists, k # l PROVE Chain(k, s[k], h', n', p', count'[k])
  <2>1. Link(l, prev, e, next)
    BY DEF prev, next
  <2>2. /\ \A x \in Nodes : h'[x] = IF x = e THEN l ELSE h[x]
        /\ \A x \in Nodes : h[x] = k => x # e /\ x # prev /\ x # next
    BY <1>5, <1>6, <2>1, NodeAssumption DEF ListInv, TypeOK, Link
  <2>3. \A x \in Nodes : h[x] = k => n'[x] = n[x] /\ p'[x] = p[x]
    BY <1>5, <2>1, <2>2 DEF ListInv, TypeOK, Link
  <2>4. \A x \in Nodes : h'[x] = k <=> h[x] = k
    BY <2>2, <1>6, NodeAssumption
  <2>5. count'[k] = count[k]
    BY <1>6, <2>1 DEF ListInv, TypeOK, Link
  <2> QED
    BY <1>1, <2>3, <2>4, <2>5, ChainStays
<1>7. Chains(t)'
  BY <1>2, <1>4, <1>6 DEF Chains
<1>8. \A k \in Lists : e \notin Forw!Range(s[k])
  <2>1. \A k \in Lists : Null # k
    BY NodeAssumption
  <2>2. ASSUME NEW k \in Lists, NEW j \in 1 .. Len(s[k]) PROVE s[k][j] # e
    BY <1>1, <2>1, RingFacts
  <2> QED
    BY <1>1, <2>2 DEF Forw!Range
<1>9. SeqStep(s, t)
  <2>1. i \in 1 .. Len(s[l]) + 1
    BY <1>1
  <2> QED
    BY <1>8, <2>1 DEF SeqStep
<1> QED
  BY <1>7, <1>9

LEMMA RemoveSeq ==
    ASSUME ListInv, NEW s, Chains(s), NEW e \in Elems, remove(e)
    PROVE  \E t : Chains(t)' /\ SeqStep(s, t)
<1>1. \A k \in Lists : /\ s[k] \in Seq(Elems) /\ Len(s[k]) = count[k]
                       /\ Chain(k, s[k], h, n, p, count[k]) /\ count[k] \in Nat
  BY CountNat DEF Chains, Chain
<1>2. PICK l \in Lists : h[e] = l
  BY NodeFacts DEF remove, ListInv, TypeOK
<1>3. PICK i \in 1 .. count[l] : s[l][i] = e
  BY <1>1, <1>2 DEF Chain
<1> DEFINE t == [s EXCEPT ![l] = Forw!RemoveAt(s[l], i)]
<1>4. Chain(l, Forw!RemoveAt(s[l], i), h', n', p', count'[l])
  BY <1>1, <1>3, ChainRemove
<1>5. Forw!RemoveAt(s[l], i) \in Seq(Elems)
  BY <1>4 DEF Chain
<1>6. /\ t \in [Lists -> Seq(Elems)]
      /\ \A k \in Lists : t[k] = IF k = l THEN Forw!RemoveAt(s[l], i) ELSE s[k]
  BY <1>5 DEF Chains
<1>7. ASSUME NEW k \in Lists, k # l PROVE Chain(k, s[k], h', n', p', count'[k])
  <2>1. n[e] \in Nodes /\ p[e] \in Nodes /\ h[n[e]] = l /\ h[p[e]] = l /\ e \in Nodes
    BY <1>2, NodeFacts, NodeAssumption DEF ListInv, LinksInverse
  <2>2. /\ \A x \in Nodes : h'[x] = IF x = e THEN Null ELSE h[x]
        /\ \A x \in Nodes : h[x] = k => x # e /\ x # p[e] /\ x # n[e]
    BY <1>2, <1>7, <2>1 DEF ListInv, TypeOK, remove
  <2>3. \A x \in Nodes : h[x] = k => n'[x] = n[x] /\ p'[x] = p[x]
    BY <2>1, <2>2 DEF ListInv, TypeOK, remove
  <2>4. \A x \in Nodes : h'[x] = k <=> h[x] = k
    BY <1>2, <1>7, <2>2, NodeAssumption
  <2>5. count'[k] = count[k]
    BY <1>2, <1>7 DEF ListInv, TypeOK, remove
  <2> QED
    BY <1>1, <2>3, <2>4, <2>5, ChainStays
<1>8. Chains(t)'
  BY <1>4, <1>6, <1>7 DEF Chains
<1>9. SeqStep(s, t)
  <2>1. i \in 1 .. Len(s[l])
    BY <1>1
  <2> QED
    BY <2>1 DEF SeqStep
<1> QED
  BY <1>8, <1>9

\* A node with a header has a place in its sequence, and so has what is put next
\* to it.
LEMMA AfterSeq ==
    ASSUME ListInv, NEW s, Chains(s), NEW x \in Nodes, NEW e \in Elems, insert_after(x, e)
    PROVE  \E t : Chains(t)' /\ SeqStep(s, t)
<1>1. PICK l \in Lists : h[x] = l
  BY DEF insert_after, ListInv, TypeOK
<1>2. /\ Chain(l, s[l], h, n, p, count[l]) /\ count[l] \in Nat
      /\ x # tail[l] /\ h[e] = Null /\ Link(l, x, e, n[x])
  BY <1>1, CountNat DEF Chains, insert_after, Unlisted
<1>3. PICK j \in 0 .. count[l] + 1 : x = RingAt(l, s[l], j)
  BY <1>1, <1>2, RingPlace
<1>4. j # count[l] + 1
  BY <1>2, <1>3, RingFacts
<1>5. j \in 0 .. count[l] /\ j + 1 \in 1 .. count[l] + 1 /\ j + 1 - 1 = j
  BY <1>2, <1>4
<1>6. n[x] = RingAt(l, s[l], j + 1)
  BY <1>2, <1>3, <1>5 DEF Chain
<1> QED
  BY <1>2, <1>3, <1>5, <1>6, InsertSeq

LEMMA BeforeSeq ==
    ASSUME ListInv, NEW s, Chains(s), NEW x \in Nodes, NEW e \in Elems, insert_before(x, e)
    PROVE  \E t : Chains(t)' /\ SeqStep(s, t)
<1>1. PICK l \in Lists : h[x] = l
  BY DEF insert_before, ListInv, TypeOK
<1>2. /\ Chain(l, s[l], h, n, p, count[l]) /\ count[l] \in Nat
      /\ x # head[l] /\ h[e] = Null /\ Link(l, p[x], e, x)
  BY <1>1, CountNat DEF Chains, insert_before, Unlisted
<1>3. PICK j \in 0 .. count[l] + 1 : x = RingAt(l, s[l], j)
  BY <1>1, <1>2, RingPlace
<1>4. j # 0
  BY <1>2, <1>3, RingFacts
<1>5. j \in 1 .. count[l] + 1 /\ j - 1 \in 0 .. count[l] /\ j - 1 + 1 = j
  BY <1>2, <1>4
<1>6. p[x] = RingAt(l, s[l], j - 1)
  BY <1>2, <1>3, <1>5 DEF Chain
<1> QED
  BY <1>2, <1>3, <1>5, <1>6, InsertSeq

LEMMA NextSeq ==
    ASSUME ListInv, NEW s, Chains(s), [Next]_vars
    PROVE  \E t : Chains(t)' /\ (t = s \/ SeqStep(s, t))
<1> USE NodeFacts
<1>1. CASE UNCHANGED vars
  <2>1. Chains(s)'
    BY <1>1 DEF vars, Chains
  <2> QED
    BY <2>1
<1>2. ASSUME NEW x \in Elems, NEW e \in Elems, insert_after(x, e) \/ insert_before(x, e)
      PROVE  \E t : Chains(t)' /\ SeqStep(s, t)
  BY <1>2, AfterSeq, BeforeSeq
<1>3. ASSUME NEW e \in Elems, remove(e)
      PROVE  \E t : Chains(t)' /\ SeqStep(s, t)
  BY <1>3, RemoveSeq
<1>4. ASSUME NEW l \in Lists, NEW e \in Elems,
             LIST_header_add_first(l, e) \/ LIST_header_add_last(l, e)
      PROVE  \E t : Chains(t)' /\ SeqStep(s, t)
  BY <1>4, AfterSeq, BeforeSeq DEF LIST_header_add_first, LIST_header_add_last
<1>5. ASSUME NEW l \in Lists, LIST_header_remove_first(l) \/ LIST_header_remove_last(l)
      PROVE  \E t : Chains(t)' /\ SeqStep(s, t)
  BY <1>5, FirstLastElems, RemoveSeq DEF LIST_header_remove_first, LIST_header_remove_last
<1> QED
  BY <1>1, <1>2, <1>3, <1>4, <1>5 DEF Next

\* The sequences that ListSeq is instantiated with.
ForwSeqs == [l \in Lists |-> WalkForw(l)]
BackSeqs == [l \in Lists |-> [i \in 1 .. count[l] |-> WalkBack(l)[count[l] + 1 - i]]]

\* Both walks find the sequence.
LEMMA Views == \A s : ListInv /\ Chains(s) => ForwSeqs = s /\ BackSeqs = s
<1> SUFFICES ASSUME NEW s, ListInv, Chains(s) PROVE ForwSeqs = s /\ BackSeqs = s
  OBVIOUS
<1>1. ASSUME NEW l \in Lists
      PROVE  WalkForw(l) = s[l] /\ [i \in 1 .. count[l] |-> WalkBack(l)[count[l] + 1 - i]] = s[l]
  <2>1. PICK m \in Nat : m = Cardinality(Elems) + 1
    BY ElemsFinite, FS_CardinalityType
  <2>2. WalkForw(l) = Walk(head[l], n, m, count[l]) /\ WalkBack(l) = Walk(tail[l], p, m, count[l])
    <3>1. /\ WalkForw(l) = Walk(head[l], n, Cardinality(Elems) + 1, count[l])
          /\ WalkBack(l) = Walk(tail[l], p, Cardinality(Elems) + 1, count[l])
      BY Zenon DEF WalkForw, WalkBack, Walk
    <3> QED
      BY <2>1, <3>1
  <2>3. count[l] \in 0 .. m
    BY <2>1, CountNat, ElemsFinite, FS_CardinalityType
  <2>4. Chain(l, s[l], h, n, p, count[l])
    BY DEF Chains
  <2>5. /\ Walk(head[l], n, m, count[l]) = s[l]
        /\ \A i \in 1 .. count[l] : Walk(tail[l], p, m, count[l])[count[l] + 1 - i] = s[l][i]
    <3>1. \A q, on, next, prev : \A k \in 0 .. m : Chain(l, q, on, next, prev, k) =>
             /\ Walk(head[l], next, m, k) = q
             /\ \A i \in 1 .. k : Walk(tail[l], prev, m, k)[k + 1 - i] = q[i]
      BY ChainWalks
    <3> QED
      BY <2>3, <2>4, <3>1
  <2>6. s[l] = [i \in 1 .. count[l] |-> s[l][i]]
    BY <2>4 DEF Chain
  <2> QED
    BY <2>2, <2>5, <2>6
<1>2. s = [l \in Lists |-> s[l]]
  BY DEF Chains
<1> QED
  BY <1>1, <1>2 DEF ForwSeqs, BackSeqs

\* The step of ListSeq, in terms of the one walk and of the other.
LEMMA ForwStep == ASSUME NEW s, NEW t, ForwSeqs = s, ForwSeqs' = t, t = s \/ SeqStep(s, t)
                  PROVE  [Forw!Next]_ForwSeqs
<1>1. CASE t = s
  BY <1>1
<1>2. CASE SeqStep(s, t)
  <2>1. SeqStep(ForwSeqs, ForwSeqs')
    BY <1>2
  <2> QED
    BY <2>1, Zenon DEF SeqStep, ForwSeqs, Forw!Next, Forw!Insert, Forw!Delete
<1> QED
  BY <1>1, <1>2

BackSeqStep(s, t) == \E l \in Lists :
    \/ \E i \in 1 .. Len(s[l]) + 1, e \in Elems :
          /\ \A k \in Lists : e \notin Back!Range(s[k])
          /\ t = [s EXCEPT ![l] = Back!InsertAt(s[l], i, e)]
    \/ \E i \in 1 .. Len(s[l]) : t = [s EXCEPT ![l] = Back!RemoveAt(s[l], i)]

LEMMA BackStep == ASSUME NEW s, NEW t, BackSeqs = s, BackSeqs' = t, t = s \/ SeqStep(s, t)
                  PROVE  [Back!Next]_BackSeqs
<1>1. CASE t = s
  BY <1>1
<1>2. CASE SeqStep(s, t)
  <2>1. /\ \A q, i, e : Forw!InsertAt(q, i, e) = Back!InsertAt(q, i, e)
        /\ \A q, i : Forw!RemoveAt(q, i) = Back!RemoveAt(q, i)
        /\ \A q : Forw!Range(q) = Back!Range(q)
    BY DEF Back!InsertAt, Forw!InsertAt, Back!RemoveAt, Forw!RemoveAt, Back!Range, Forw!Range
  <2>2. BackSeqStep(s, t)
    BY <1>2, <2>1 DEF SeqStep, BackSeqStep
  <2>3. BackSeqStep(BackSeqs, BackSeqs')
    BY <2>2
  <2> QED
    BY <2>3, Zenon DEF BackSeqStep, BackSeqs, Back!Next, Back!Insert, Back!Delete
<1> QED
  BY <1>1, <1>2

\* A list is one ring through its head and tail, and all its elements are on it.
THEOREM RingCorrect == Spec => []RingInv
<1>1. Init => RingInv
  BY InitRing DEF RingInv
<1>2. ListInv /\ RingInv /\ [Next]_vars => RingInv'
  BY NextSeq DEF RingInv
<1>3. Spec => []ListInv
  BY ListCorrect, PTL DEF ListInv
<1> QED
  BY <1>1, <1>2, <1>3, PTL DEF Spec

\* Walked forwards and backwards, a list is the sequence ListSeq says it is,
\* whatever is inserted and removed.
THEOREM ImplementsListSeqHolds == Spec => ImplementsListSeq
<1>1. (\A s : ListInv /\ Chains(s) => ForwSeqs = s /\ BackSeqs = s)'
  BY Views, PTL
<1>2. Init => Forw!Init /\ Back!Init
  <2> SUFFICES ASSUME Init PROVE Forw!Init /\ Back!Init
    OBVIOUS
  <2>1. ForwSeqs = [l \in Lists |-> <<>>] /\ BackSeqs = [l \in Lists |-> <<>>]
    BY InitCorrect, InitRing, Views
  <2> QED
    BY <2>1, Zenon DEF ForwSeqs, BackSeqs, Forw!Init, Back!Init
<1>3. ListInv /\ ListInv' /\ RingInv /\ [Next]_vars => [Forw!Next]_ForwSeqs /\ [Back!Next]_BackSeqs
  <2> SUFFICES ASSUME ListInv, ListInv', RingInv, [Next]_vars
               PROVE  [Forw!Next]_ForwSeqs /\ [Back!Next]_BackSeqs
    OBVIOUS
  <2>1. PICK s : Chains(s)
    BY DEF RingInv
  <2>2. PICK t : Chains(t)' /\ (t = s \/ SeqStep(s, t))
    BY <2>1, NextSeq
  <2>3. ForwSeqs = s /\ BackSeqs = s
    BY <2>1, Views
  <2>4. ForwSeqs' = t /\ BackSeqs' = t
    BY <1>1, <2>2
  <2> QED
    BY <2>2, <2>3, <2>4, ForwStep, BackStep
<1>4. Spec => []ListInv
  BY ListCorrect, PTL DEF ListInv
<1> QED
  BY <1>2, <1>3, <1>4, RingCorrect, PTL
     DEF Spec, ImplementsListSeq, Forw!Spec, Back!Spec, ForwSeqs, BackSeqs

-----------------------------------------------------------------------------
(* Paths.                                                                  *)

\* Every byte there can be in a buffer.
Bytes == {Sep, Byte, NulByte} \cup UNION {Range(d) : d \in Data}

WriteFunctions == {"nowrite", "static", "dynamic"}

PathTypeOK ==
    /\ buffer \in Seq(Bytes) /\ start \in Nat /\ length \in Nat /\ text \in Seq(Bytes)
    /\ alloc \in BOOLEAN /\ heap \in BOOLEAN /\ broken \in BOOLEAN
    /\ append \in WriteFunctions /\ prepend \in WriteFunctions

\* The window begins at the first byte of the buffer, whatever is prepended, and
\* what is in it is the text.
WindowInv ==
    /\ start = 0 /\ length = Len(text) /\ length <= Len(buffer)
    /\ \A i \in 1 .. length : buffer[i] = text[i]
    /\ ~broken

PathInv == PathTypeOK /\ WindowInv /\ FreesOwn

\* A set of numbers that are not beyond a bound has a largest one.
LEMMA Maximum ==
    ASSUME NEW num \in Nat, NEW S \in SUBSET (1 .. num), S # {}
    PROVE  \E m \in S : \A k \in S : k <= m
<1> DEFINE T == {num - i : i \in S}
<1>1. T \in SUBSET Nat /\ T # {}
  <2>1. \A i \in S : num - i \in Nat
    OBVIOUS
  <2>2. T \subseteq Nat
    BY <2>1
  <2>3. PICK i \in S : TRUE
    OBVIOUS
  <2>4. num - i \in T
    OBVIOUS
  <2> QED
    BY <2>2, <2>4
<1>2. PICK m \in T : \A k \in T : m <= k
  BY <1>1, Minimum
<1>3. PICK i \in S : m = num - i
  BY <1>2
<1>4. \A k \in S : num - k \in T
  OBVIOUS
<1> HIDE DEF T
<1>5. \A k \in S : num - i <= num - k
  BY <1>2, <1>3, <1>4
<1>6. \A k \in S : k <= i
  BY <1>5
<1> QED
  BY <1>6

\* One sequence behind the other.
LEMMA Joined ==
    ASSUME NEW S, NEW s \in Seq(S), NEW t \in Seq(S)
    PROVE  /\ s \o t \in Seq(S) /\ Len(s \o t) = Len(s) + Len(t)
           /\ \A i \in 1 .. Len(s) + Len(t) :
                 (s \o t)[i] = IF i <= Len(s) THEN s[i] ELSE t[i - Len(s)]
OBVIOUS

\* memrchr finds the last separator.
LEMMA LastSepIsLast ==
    ASSUME NEW t \in Seq(Bytes), LastSep(t) # 0
    PROVE  /\ LastSep(t) \in 1 .. Len(t) /\ t[LastSep(t)] = Sep
           /\ \A i \in 1 .. Len(t) : i > LastSep(t) => t[i] # Sep
<1>1. Separators(t) # {} /\ Separators(t) \in SUBSET (1 .. Len(t)) /\ Len(t) \in Nat
  BY DEF LastSep, Separators
<1>2. \E i \in Separators(t) : \A k \in Separators(t) : k <= i
  BY <1>1, Maximum
<1>3. LastSep(t) = CHOOSE i \in Separators(t) : \A k \in Separators(t) : k <= i
  BY <1>1 DEF LastSep
<1>4. LastSep(t) \in Separators(t) /\ \A k \in Separators(t) : k <= LastSep(t)
  BY <1>2, <1>3
<1>5. LastSep(t) \in 1 .. Len(t) /\ t[LastSep(t)] = Sep
  BY <1>1, <1>4 DEF Separators
<1>6. \A i \in 1 .. Len(t) : t[i] = Sep => i \in Separators(t)
  BY DEF Separators
<1>7. \A i \in 1 .. Len(t) : i > LastSep(t) => t[i] # Sep
  BY <1>1, <1>4, <1>5, <1>6
<1> QED
  BY <1>5, <1>7

\* The window of a path whose window is its text.
LEMMA WindowText == PathTypeOK /\ WindowInv => Window = text
<1> SUFFICES ASSUME PathTypeOK, WindowInv PROVE Window = text
  OBVIOUS
<1>1. /\ buffer \in Seq(Bytes) /\ text \in Seq(Bytes) /\ Len(text) \in Nat /\ Len(buffer) \in Nat
      /\ start = 0 /\ length = Len(text) /\ length <= Len(buffer)
      /\ \A i \in 1 .. length : buffer[i] = text[i]
  BY DEF PathTypeOK, WindowInv
<1>2. Window = SubSeq(buffer, 1, length)
  BY <1>1 DEF Window
<1> DEFINE w == SubSeq(buffer, 1, length)
<1>3. w \in Seq(Bytes) /\ Len(w) = length /\ \A i \in 1 .. length : w[i] = buffer[i]
  BY <1>1
<1> HIDE DEF w
<1>4. w = text
  BY <1>1, <1>3
<1> QED
  BY <1>2, <1>4 DEF w

\* A memcpy inside of the buffer.
LEMMA PutInside ==
    ASSUME NEW b \in Seq(Bytes), NEW at \in Nat, NEW d \in Seq(Bytes),
           Put(b, at, d), at + Len(d) <= Len(b), ~broken
    PROVE  /\ buffer' \in Seq(Bytes) /\ Len(buffer') = Len(b)
           /\ \A i \in 1 .. Len(b) : buffer'[i] = IF i - at \in 1 .. Len(d) THEN d[i - at] ELSE b[i]
           /\ ~broken' /\ broken' \in BOOLEAN
<1>1. Len(b) \in Nat /\ Len(d) \in Nat /\ DOMAIN b = 1 .. Len(b) /\ DOMAIN d = 1 .. Len(d)
  OBVIOUS
<1>2. buffer' = [i \in 1 .. Len(b) |-> IF i - at \in 1 .. Len(d) THEN d[i - at] ELSE b[i]]
  BY DEF Put
<1>3. \A i \in 1 .. Len(b) : (IF i - at \in 1 .. Len(d) THEN d[i - at] ELSE b[i]) \in Bytes
  BY <1>1
<1>4. buffer' \in Seq(Bytes) /\ Len(buffer') = Len(b)
  BY <1>1, <1>2, <1>3
<1>5. broken' = FALSE
  <2>1. ~(at < 0) /\ ~(at + Len(d) > Len(b))
    BY <1>1
  <2>2. broken' = (broken \/ at < 0 \/ at + Len(d) > Len(b))
    BY DEF Put
  <2> QED
    BY <2>1, <2>2, Zenon
<1>6. broken' \in BOOLEAN
  BY <1>5, Zenon
<1> QED
  BY <1>2, <1>4, <1>5, <1>6

LEMMA BytesAreSeq ==
    /\ Data \subseteq Seq(Bytes)
    /\ \A flag \in BOOLEAN : Separator(flag) \in Seq(Bytes)
    /\ \A num \in Nat : Fresh(num) \in Seq(Bytes) /\ Len(Fresh(num)) = num
<1>1. ASSUME NEW d \in Data
      PROVE  d \in Seq(Bytes)
  <2>1. d \in Seq(STRING) /\ Len(d) \in Nat /\ DOMAIN d = 1 .. Len(d)
    BY DataAssumption
  <2>2. \A i \in 1 .. Len(d) : d[i] \in Range(d)
    BY <2>1 DEF Range
  <2>3. Range(d) \subseteq Bytes
    BY DEF Bytes
  <2>4. \A i \in 1 .. Len(d) : d[i] \in Bytes
    BY <2>2, <2>3
  <2> QED
    BY <2>1, <2>4
<1>2. Sep \in Bytes /\ Byte \in Bytes /\ NulByte \in Bytes
  BY DEF Bytes
<1>3. \A flag \in BOOLEAN : Separator(flag) \in Seq(Bytes)
  BY <1>2, <<Sep>> \in Seq(Bytes), <<>> \in Seq(Bytes) DEF Separator
<1>4. \A num \in Nat : Fresh(num) \in Seq(Bytes) /\ Len(Fresh(num)) = num
  BY <1>2 DEF Fresh
<1> QED
  BY <1>1, <1>3, <1>4

-----------------------------------------------------------------------------
(* Growing.                                                                *)

\* Bytes are put behind the window, in a buffer b that has room and begins with
\* the buffer there was.
LEMMA AppendedKeeps ==
    ASSUME PathTypeOK, WindowInv, NEW b \in Seq(Bytes), NEW d \in Seq(Bytes), Appended(b, d),
           Len(buffer) <= Len(b), \A i \in 1 .. Len(buffer) : b[i] = buffer[i],
           length + Len(d) <= Len(b)
    PROVE  /\ buffer' \in Seq(Bytes) /\ start' \in Nat /\ length' \in Nat /\ text' \in Seq(Bytes)
           /\ broken' \in BOOLEAN /\ WindowInv' /\ Len(buffer') = Len(b)
<1>1. /\ Put(b, start + length, d) /\ length' = length + Len(d) /\ text' = text \o d
      /\ start' = start
  BY DEF Appended
<1>2. /\ start = 0 /\ length \in Nat /\ length = Len(text) /\ length <= Len(buffer) /\ ~broken
      /\ text \in Seq(Bytes) /\ buffer \in Seq(Bytes) /\ Len(d) \in Nat /\ Len(b) \in Nat
      /\ Len(buffer) \in Nat /\ start + length = length
      /\ \A i \in 1 .. length : buffer[i] = text[i]
  BY DEF PathTypeOK, WindowInv
<1>3. Put(b, length, d)
  BY <1>1, <1>2
<1>4. /\ buffer' \in Seq(Bytes) /\ Len(buffer') = Len(b) /\ ~broken' /\ broken' \in BOOLEAN
      /\ \A i \in 1 .. Len(b) :
            buffer'[i] = IF i - length \in 1 .. Len(d) THEN d[i - length] ELSE b[i]
  <2>1. length \in Nat /\ Put(b, length, d) /\ length + Len(d) <= Len(b) /\ ~broken
    BY <1>2, <1>3
  <2> QED
    BY <2>1, PutInside, Zenon
<1>5. /\ text' \in Seq(Bytes) /\ Len(text') = length + Len(d)
      /\ \A i \in 1 .. length + Len(d) : text'[i] = IF i <= length THEN text[i] ELSE d[i - length]
  BY <1>1, <1>2
<1>6. ASSUME NEW i \in 1 .. length'
      PROVE  buffer'[i] = text'[i]
  <2>1. i \in 1 .. length + Len(d) /\ i \in 1 .. Len(b)
    BY <1>1, <1>2
  <2>2. CASE i <= length
    <3>1. ~(i - length \in 1 .. Len(d)) /\ i \in 1 .. length /\ i \in 1 .. Len(buffer)
      BY <2>1, <2>2, <1>2
    <3> QED
      BY <3>1, <2>1, <2>2, <1>2, <1>4, <1>5
  <2>3. CASE ~(i <= length)
    <3>1. i - length \in 1 .. Len(d)
      BY <2>1, <2>3, <1>2
    <3> QED
      BY <3>1, <2>1, <2>3, <1>4, <1>5
  <2> QED
    BY <2>2, <2>3
<1>7. length' \in Nat /\ start' \in Nat
  BY <1>1, <1>2
<1> QED
  BY <1>1, <1>2, <1>4, <1>5, <1>6, <1>7 DEF WindowInv

LEMMA ClearedKeeps == Cleared /\ PathInv => PathInv'
<1> SUFFICES ASSUME Cleared, PathInv PROVE PathInv'
  OBVIOUS
<1>1. /\ buffer' = <<>> /\ start' = 0 /\ length' = 0 /\ text' = <<>>
      /\ alloc' = FALSE /\ heap' = FALSE /\ UNCHANGED broken
      /\ append' = "nowrite" /\ prepend' = "nowrite"
  BY DEF Cleared, Whole
<1>2. alloc' \in BOOLEAN /\ heap' \in BOOLEAN
  BY <1>1, Zenon
<1>3. PathTypeOK'
  BY <1>1, <1>2 DEF PathInv, PathTypeOK, WriteFunctions
<1>4. WindowInv'
  BY <1>1 DEF PathInv, WindowInv
<1>5. FreesOwn'
  BY <1>1 DEF FreesOwn
<1> QED
  BY <1>3, <1>4, <1>5 DEF PathInv

LEMMA AppendKeeps ==
    ASSUME PathInv, NEW d \in Data, NEW addpathsep \in BOOLEAN, FS_path_append(d, addpathsep)
    PROVE  PathInv'
<1> DEFINE e == Separator(addpathsep) \o d
<1>1. e \in Seq(Bytes) /\ Len(e) \in Nat
  BY BytesAreSeq
<1>2. AppendGrow(e) \/ AppendFits(e) \/ AppendLost(e)
  BY DEF FS_path_append
<1> HIDE DEF e
<1>3. /\ PathTypeOK /\ WindowInv /\ FreesOwn
      /\ buffer \in Seq(Bytes) /\ Len(buffer) \in Nat /\ start = 0 /\ length \in Nat
      /\ length <= Len(buffer) /\ Left = Len(buffer) - length
  BY DEF PathInv, PathTypeOK, WindowInv, Left, size
<1>4. CASE AppendGrow(e)
  <2> DEFINE num == Len(e) - Left
             b == buffer \o Fresh(num)
  <2>1. num \in Nat /\ num > 0 /\ Appended(b, e) /\ Realloc
    BY <1>1, <1>3, <1>4 DEF AppendGrow
  <2>2. Fresh(num) \in Seq(Bytes) /\ Len(Fresh(num)) = num
    BY <2>1, BytesAreSeq
  <2> HIDE DEF num
  <2>3. /\ b \in Seq(Bytes) /\ Len(b) = Len(buffer) + num
        /\ \A i \in 1 .. Len(buffer) : b[i] = buffer[i]
    BY <2>1, <2>2, <1>3
  <2> HIDE DEF b
  <2>4. Len(buffer) <= Len(b) /\ length + Len(e) <= Len(b)
    BY <2>1, <2>3, <1>1, <1>3 DEF num
  <2>5. /\ buffer' \in Seq(Bytes) /\ start' \in Nat /\ length' \in Nat /\ text' \in Seq(Bytes)
        /\ broken' \in BOOLEAN /\ WindowInv'
    BY <2>1, <2>3, <2>4, <1>1, <1>3, AppendedKeeps
  <2>6. heap' \in BOOLEAN /\ (heap' <=> heap \/ buffer = <<>>)
    BY <2>1, Zenon DEF Realloc
  <2>7. UNCHANGED <<alloc, append, prepend>>
    BY <2>1 DEF Appended
  <2>8. PathTypeOK'
    BY <2>5, <2>6, <2>7, <1>3 DEF PathTypeOK
  <2>9. FreesOwn'
    BY <2>6, <2>7, <1>3, Zenon DEF FreesOwn
  <2> QED
    BY <2>5, <2>8, <2>9 DEF PathInv
<1>5. CASE AppendFits(e)
  <2>1. Appended(buffer, e) /\ UNCHANGED <<heap, alloc, append, prepend>>
    BY <1>5 DEF AppendFits, Appended
  <2>2. length + Len(e) <= Len(buffer)
    BY <1>1, <1>3, <1>5 DEF AppendFits
  <2>3. /\ buffer' \in Seq(Bytes) /\ start' \in Nat /\ length' \in Nat /\ text' \in Seq(Bytes)
        /\ broken' \in BOOLEAN /\ WindowInv' /\ Len(buffer') = Len(buffer)
    BY <2>1, <2>2, <1>1, <1>3, AppendedKeeps
  <2>4. PathTypeOK'
    BY <2>1, <2>3, <1>3 DEF PathTypeOK
  <2>5. buffer = <<>> => buffer' = <<>>
    BY <2>3, <1>3
  <2>6. FreesOwn'
    BY <2>1, <2>5, <1>3 DEF FreesOwn
  <2> QED
    BY <2>3, <2>4, <2>6 DEF PathInv
<1>6. CASE AppendLost(e)
  BY <1>6, ClearedKeeps DEF AppendLost
<1> QED
  BY <1>2, <1>4, <1>5, <1>6

LEMMA PrependGrowKeeps ==
    ASSUME PathInv, NEW d \in Seq(Bytes), PrependGrow(d)
    PROVE  PathInv'
<1>1. /\ PathTypeOK /\ WindowInv /\ FreesOwn
      /\ buffer \in Seq(Bytes) /\ Len(buffer) \in Nat /\ DOMAIN buffer = 1 .. Len(buffer)
      /\ start = 0 /\ length \in Nat /\ length = Len(text) /\ length <= Len(buffer)
      /\ text \in Seq(Bytes) /\ ~broken /\ \A i \in 1 .. length : buffer[i] = text[i]
  BY DEF PathInv, PathTypeOK, WindowInv
<1> DEFINE num == Len(d)
           c == buffer \o Fresh(num)
           b == Moved(num)
<1>2. num \in Nat /\ num - start = num /\ start + num = num /\ num - num = 0
  BY <1>1
<1>3. Prepended(b, num, d) /\ buffer # <<>>
  BY <1>1, <1>2 DEF PrependGrow
<1>4. Fresh(num) \in Seq(Bytes) /\ Len(Fresh(num)) = num
  BY <1>2, BytesAreSeq
<1> HIDE DEF num
<1>5. /\ c \in Seq(Bytes) /\ Len(c) = Len(buffer) + num /\ DOMAIN c = 1 .. Len(buffer) + num
      /\ \A i \in 1 .. Len(buffer) : c[i] = buffer[i]
  <2>1. /\ c \in Seq(Bytes) /\ Len(c) = Len(buffer) + num
        /\ \A i \in 1 .. Len(buffer) : c[i] = buffer[i]
    <3>1. buffer \in Seq(Bytes) /\ num \in Nat
      BY <1>1, <1>2
    <3> QED
      BY <3>1, <1>4
  <2> HIDE DEF c
  <2> QED
    BY <2>1
<1> USE DEF num
<1>6. b = [i \in 1 .. Len(c) |-> IF i - num - start \in 1 .. length THEN c[i - num] ELSE c[i]]
  BY DEF Moved
<1> HIDE DEF b, c
<1>7. \A i \in 1 .. Len(c) : IF i - num - start \in 1 .. length
                             THEN i - num \in 1 .. length /\ i - num \in 1 .. Len(c)
                             ELSE ~(i - num \in 1 .. length)
  BY <1>1, <1>2, <1>5
<1>8. \A i \in 1 .. Len(c) : b[i] = IF i - num \in 1 .. length THEN c[i - num] ELSE c[i]
  BY <1>6, <1>7
<1>9. b \in Seq(Bytes) /\ Len(b) = Len(buffer) + num
  <2>1. \A i \in 1 .. Len(c) : b[i] \in Bytes
    BY <1>5, <1>7, <1>8
  <2>2. Len(c) \in Nat /\ DOMAIN b = 1 .. Len(c)
    BY <1>5, <1>6
  <2>3. b = [i \in 1 .. Len(c) |-> b[i]]
    BY <1>6
  <2> QED
    BY <2>1, <2>2, <2>3, <1>5
<1>10. /\ Put(b, 0, d) /\ start' = 0 /\ length' = length + num /\ text' = d \o text
       /\ UNCHANGED <<alloc, append, prepend, heap>>
  BY <1>2, <1>3 DEF Prepended
<1>11. /\ buffer' \in Seq(Bytes) /\ Len(buffer') = Len(b) /\ ~broken' /\ broken' \in BOOLEAN
       /\ \A i \in 1 .. Len(b) : buffer'[i] = IF i - 0 \in 1 .. Len(d) THEN d[i - 0] ELSE b[i]
  <2>1. 0 \in Nat /\ 0 + Len(d) <= Len(b)
    BY <1>1, <1>2, <1>9
  <2> QED
    BY <2>1, <1>1, <1>9, <1>10, PutInside
<1>12. /\ text' \in Seq(Bytes) /\ Len(text') = num + length
       /\ \A i \in 1 .. num + length : text'[i] = IF i <= num THEN d[i] ELSE text[i - num]
  BY <1>1, <1>2, <1>10
<1>13. ASSUME NEW i \in 1 .. length'
       PROVE  buffer'[i] = text'[i]
  <2>1. i \in 1 .. num + length /\ i \in 1 .. Len(b) /\ i \in 1 .. Len(c) /\ i - 0 = i
    BY <1>1, <1>2, <1>5, <1>9, <1>10
  <2>2. CASE i <= num
    <3>1. i \in 1 .. Len(d)
      BY <2>1, <2>2, <1>2
    <3> QED
      BY <3>1, <2>1, <2>2, <1>11, <1>12
  <2>3. CASE ~(i <= num)
    <3>1. ~(i \in 1 .. Len(d)) /\ i - num \in 1 .. length /\ i - num \in 1 .. Len(buffer)
      BY <2>1, <2>3, <1>1, <1>2
    <3>2. buffer'[i] = b[i] /\ b[i] = c[i - num] /\ c[i - num] = buffer[i - num]
      BY <3>1, <2>1, <1>5, <1>8, <1>11
    <3> QED
      BY <3>1, <3>2, <2>1, <2>3, <1>1, <1>12
  <2> QED
    BY <2>2, <2>3
<1>14. length' = Len(text') /\ length' <= Len(buffer') /\ length' \in Nat /\ start' \in Nat
  BY <1>1, <1>2, <1>9, <1>10, <1>11, <1>12
<1>15. WindowInv'
  BY <1>10, <1>11, <1>13, <1>14 DEF WindowInv
<1>16. PathTypeOK'
  BY <1>1, <1>10, <1>11, <1>12, <1>14 DEF PathTypeOK
<1>17. FreesOwn'
  BY <1>1, <1>3, <1>10 DEF FreesOwn
<1> QED
  BY <1>15, <1>16, <1>17 DEF PathInv

LEMMA PrependKeeps ==
    ASSUME PathInv, NEW d \in Data, NEW addpathsep \in BOOLEAN, FS_path_prepend(d, addpathsep)
    PROVE  PathInv'
<1> DEFINE e == d \o Separator(addpathsep)
<1>1. e \in Seq(Bytes)
  BY BytesAreSeq
<1>2. PrependGrow(e) \/ PrependLost(e)
  BY DEF FS_path_prepend
<1> HIDE DEF e
<1> QED
  BY <1>1, <1>2, PrependGrowKeeps, ClearedKeeps DEF PrependLost

-----------------------------------------------------------------------------
(* Setting.                                                                *)

\* The path becomes a buffer that begins with d and goes on with some bytes f.
LEMMA WholeKeeps ==
    ASSUME PathInv, NEW d \in Seq(Bytes), NEW f \in Seq(Bytes), Whole(d \o f, d), UNCHANGED broken
    PROVE  /\ buffer' \in Seq(Bytes) /\ start' \in Nat /\ length' \in Nat /\ text' \in Seq(Bytes)
           /\ broken' \in BOOLEAN /\ WindowInv'
           /\ Len(buffer') = Len(d) + Len(f)
<1>1. buffer' = d \o f /\ start' = 0 /\ length' = Len(d) /\ text' = d
  BY DEF Whole
<1>2. /\ buffer' \in Seq(Bytes) /\ Len(buffer') = Len(d) + Len(f) /\ Len(d) \in Nat /\ Len(f) \in Nat
      /\ \A i \in 1 .. Len(d) : buffer'[i] = d[i]
  BY <1>1
<1>3. broken' \in BOOLEAN /\ ~broken'
  BY DEF PathInv, PathTypeOK, WindowInv
<1> QED
  BY <1>1, <1>2, <1>3 DEF WindowInv

LEMMA Zeros == \A num \in Nat : LET f == [i \in 1 .. num |-> NulByte]
                              IN f \in Seq(Bytes) /\ Len(f) = num
<1>1. NulByte \in Bytes
  BY DEF Bytes
<1> QED
  BY <1>1

LEMMA SetKeeps ==
    ASSUME PathInv, NEW d \in Data, NEW num \in 1 .. MaxSize, NEW back \in BOOLEAN,
           FS_path_set_bytes(d, num, back)
    PROVE  PathInv'
<1>1. d \in Seq(Bytes) /\ num - Len(d) \in Nat
  <2>1. d \in Seq(Bytes) /\ Len(d) \in Nat
    BY BytesAreSeq
  <2> QED
    BY <2>1, DataAssumption DEF FS_path_set_bytes
<1>2. Fresh(num - Len(d)) \in Seq(Bytes)
  BY <1>1, BytesAreSeq
<1>3. /\ Whole(d \o Fresh(num - Len(d)), d) /\ UNCHANGED broken
      /\ alloc' = FALSE /\ heap' = FALSE
      /\ append' \in WriteFunctions /\ prepend' \in WriteFunctions
  BY DEF FS_path_set_bytes, WriteFunctions
<1>4. /\ buffer' \in Seq(Bytes) /\ start' \in Nat /\ length' \in Nat /\ text' \in Seq(Bytes)
      /\ broken' \in BOOLEAN /\ WindowInv'
  BY <1>1, <1>2, <1>3, WholeKeeps
<1>5. alloc' \in BOOLEAN /\ heap' \in BOOLEAN
  BY <1>3, Zenon
<1> QED
  BY <1>3, <1>4, <1>5 DEF PathInv, PathTypeOK, FreesOwn

LEMMA CopyKeeps ==
    ASSUME PathInv, NEW d \in Data, NEW own \in BOOLEAN, FS_path_copy(d, own)
    PROVE  PathInv'
<1>1. d \in Seq(Bytes) /\ <<>> \in Seq(Bytes) /\ d \o <<>> = d
  <2>1. d \in Seq(Bytes)
    BY BytesAreSeq
  <2> QED
    BY <2>1
<1>2. /\ Whole(d \o <<>>, d) /\ UNCHANGED broken /\ alloc' = own /\ heap' = own
      /\ append' \in WriteFunctions /\ prepend' \in WriteFunctions
  BY <1>1 DEF FS_path_copy, WriteFunctions
<1>3. /\ buffer' \in Seq(Bytes) /\ start' \in Nat /\ length' \in Nat /\ text' \in Seq(Bytes)
      /\ broken' \in BOOLEAN /\ WindowInv'
  BY <1>1, <1>2, WholeKeeps
<1> QED
  BY <1>2, <1>3 DEF PathInv, PathTypeOK, FreesOwn

LEMMA ImportKeeps ==
    ASSUME PathInv, NEW d \in Data, NEW endzero \in {0, 1}, FS_path_import(d, endzero)
    PROVE  PathInv'
<1>1. d \in Seq(Bytes) /\ Len(d) \in Nat /\ endzero \in Nat
  BY BytesAreSeq
<1>2. PathTypeOK /\ WindowInv /\ FreesOwn /\ buffer \in Seq(Bytes) /\ Len(buffer) \in Nat
  BY DEF PathInv, PathTypeOK
<1>3. CASE ImportFits(d, endzero)
  <2> DEFINE f == [i \in 1 .. size - Len(d) |-> NulByte]
  <2>1. size - Len(d) \in Nat
    BY <1>1, <1>2, <1>3 DEF ImportFits, size
  <2>2. f \in Seq(Bytes)
    BY <2>1, Zeros
  <2>3. Whole(d \o f, d) /\ UNCHANGED <<alloc, heap, broken, append, prepend>> /\ buffer # <<>>
    BY <1>3 DEF ImportFits, memory
  <2> HIDE DEF f
  <2>4. /\ buffer' \in Seq(Bytes) /\ start' \in Nat /\ length' \in Nat /\ text' \in Seq(Bytes)
        /\ broken' \in BOOLEAN /\ WindowInv'
    BY <2>2, <2>3, <1>1, WholeKeeps
  <2> QED
    BY <2>3, <2>4, <1>2 DEF PathInv, PathTypeOK, FreesOwn
<1>4. CASE ImportAllocates(d, endzero)
  <2> DEFINE f == [i \in 1 .. endzero |-> NulByte]
  <2>1. f \in Seq(Bytes)
    BY <1>1, Zeros
  <2>2. /\ Whole(d \o f, d) /\ UNCHANGED <<broken, append, prepend>> /\ alloc' = TRUE /\ Realloc
        /\ alloc \/ buffer = <<>>
    BY <1>4 DEF ImportAllocates, Allocated
  <2> HIDE DEF f
  <2>3. /\ buffer' \in Seq(Bytes) /\ start' \in Nat /\ length' \in Nat /\ text' \in Seq(Bytes)
        /\ broken' \in BOOLEAN /\ WindowInv'
    BY <2>1, <2>2, <1>1, WholeKeeps
  <2>4. heap' \in BOOLEAN /\ alloc' \in BOOLEAN /\ (heap' <=> heap \/ buffer = <<>>)
    BY <2>2, Zenon DEF Realloc
  <2>5. heap'
    BY <2>2, <2>4, <1>2 DEF FreesOwn
  <2>6. PathTypeOK'
    BY <2>2, <2>3, <2>4, <1>2 DEF PathTypeOK
  <2> QED
    BY <2>3, <2>5, <2>6 DEF PathInv, FreesOwn
<1>5. CASE ImportLost(d, endzero)
  <2>1. /\ buffer' = <<>> /\ start' = 0 /\ length' = 0 /\ text' = <<>>
        /\ alloc' = FALSE /\ heap' = FALSE /\ UNCHANGED <<broken, append, prepend>>
    BY <1>5 DEF ImportLost, Whole
  <2>2. alloc' \in BOOLEAN /\ heap' \in BOOLEAN
    BY <2>1, Zenon
  <2>3. PathTypeOK' /\ WindowInv'
    BY <2>1, <2>2, <1>2 DEF PathTypeOK, WindowInv
  <2> QED
    BY <2>1, <2>3 DEF PathInv, FreesOwn
<1> QED
  BY <1>3, <1>4, <1>5 DEF FS_path_import

LEMMA FunctionKeeps ==
    ASSUME PathInv, NEW flag \in BOOLEAN, FS_path_append_init(flag) \/ FS_path_prepend_init(flag)
    PROVE  PathInv'
<1>1. /\ UNCHANGED <<buffer, start, length, heap, broken, text>>
      /\ flag => buffer = <<>> \/ heap
      /\ alloc' = (alloc \/ flag)
  BY DEF FS_path_append_init, FS_path_prepend_init, window
<1>2. append' \in WriteFunctions /\ prepend' \in WriteFunctions
  BY DEF FS_path_append_init, FS_path_prepend_init, WriteFunction, WriteFunctions, PathInv, PathTypeOK
<1>3. alloc' \in BOOLEAN /\ (alloc' <=> alloc \/ flag)
  BY <1>1, Zenon
<1>4. PathTypeOK'
  BY <1>1, <1>2, <1>3 DEF PathInv, PathTypeOK
<1>5. WindowInv'
  BY <1>1 DEF PathInv, WindowInv
<1>6. FreesOwn'
  BY <1>1, <1>3 DEF PathInv, FreesOwn
<1> QED
  BY <1>4, <1>5, <1>6 DEF PathInv

LEMMA FilenameKeeps ==
    ASSUME PathInv, FS_path_get_filename
    PROVE  PathInv'
<1>1. /\ LastSep(Window) > 0 /\ length' = Directory(Window)
      /\ text' = SubSeq(text, 1, Directory(text))
      /\ UNCHANGED <<buffer, start, alloc, heap, broken, append, prepend>>
  BY DEF FS_path_get_filename, memory
<1>2. /\ Window = text /\ text \in Seq(Bytes) /\ Len(text) \in Nat /\ length = Len(text)
      /\ length <= Len(buffer) /\ Len(buffer) \in Nat /\ \A i \in 1 .. length : buffer[i] = text[i]
  BY WindowText DEF PathInv, PathTypeOK, WindowInv
<1>3. LastSep(text) \in 1 .. Len(text)
  <2>1. LastSep(text) # 0
    BY <1>1, <1>2
  <2> QED
    BY <2>1, <1>2, LastSepIsLast
<1>4. Directory(text) \in 0 .. Len(text)
  BY <1>2, <1>3 DEF Directory
<1> DEFINE num == Directory(text)
<1>5. length' = num /\ text' = SubSeq(text, 1, num)
  BY <1>1, <1>2
<1> HIDE DEF num
<1>6. num \in Nat /\ num <= Len(text)
  BY <1>2, <1>4 DEF num
<1>7. text' \in Seq(Bytes) /\ Len(text') = num /\ \A i \in 1 .. num : text'[i] = text[i]
  BY <1>2, <1>5, <1>6
<1>8. WindowInv'
  BY <1>1, <1>2, <1>5, <1>6, <1>7 DEF PathInv, WindowInv
<1>9. PathTypeOK'
  BY <1>1, <1>5, <1>6, <1>7 DEF PathInv, PathTypeOK
<1> QED
  BY <1>1, <1>8, <1>9 DEF PathInv, FreesOwn

-----------------------------------------------------------------------------
(* The specification of a path.                                            *)

LEMMA PathInitInv == PathInit => PathInv
<1> SUFFICES ASSUME PathInit PROVE PathInv
  OBVIOUS
<1>1. alloc \in BOOLEAN /\ heap \in BOOLEAN /\ broken \in BOOLEAN
  BY Zenon DEF PathInit
<1>2. PathTypeOK
  BY <1>1 DEF PathInit, PathTypeOK, WriteFunctions
<1>3. WindowInv /\ FreesOwn
  BY DEF PathInit, WindowInv, FreesOwn
<1> QED
  BY <1>2, <1>3 DEF PathInv

LEMMA PathStep == PathInv /\ [PathNext]_pathvars => PathInv'
<1> SUFFICES ASSUME PathInv, [PathNext]_pathvars PROVE PathInv'
  OBVIOUS
<1>1. CASE FS_path_clear
  BY <1>1, ClearedKeeps DEF FS_path_clear
<1>2. CASE FS_path_get_filename
  BY <1>2, FilenameKeeps
<1>3. ASSUME NEW flag \in BOOLEAN, FS_path_append_init(flag) \/ FS_path_prepend_init(flag)
      PROVE  PathInv'
  BY <1>3, FunctionKeeps
<1>4. ASSUME NEW d \in Data, NEW addpathsep \in BOOLEAN, FS_path_append(d, addpathsep)
      PROVE  PathInv'
  BY <1>4, AppendKeeps
<1>5. ASSUME NEW d \in Data, NEW addpathsep \in BOOLEAN, FS_path_prepend(d, addpathsep)
      PROVE  PathInv'
  BY <1>5, PrependKeeps
<1>6. ASSUME NEW d \in Data, NEW own \in BOOLEAN, FS_path_copy(d, own)
      PROVE  PathInv'
  BY <1>6, CopyKeeps
<1>7. ASSUME NEW d \in Data, NEW num \in 1 .. MaxSize, NEW back \in BOOLEAN,
             FS_path_set_bytes(d, num, back)
      PROVE  PathInv'
  BY <1>7, SetKeeps
<1>8. ASSUME NEW d \in Data, NEW endzero \in {0, 1}, FS_path_import(d, endzero)
      PROVE  PathInv'
  BY <1>8, ImportKeeps
<1>9. CASE UNCHANGED pathvars
  BY <1>9 DEF pathvars, PathInv, PathTypeOK, WindowInv, FreesOwn
<1> QED
  BY <1>1, <1>2, <1>3, <1>4, <1>5, <1>6, <1>7, <1>8, <1>9, Zenon DEF PathNext

\* Whatever is appended, prepended, copied or imported, and whichever realloc
\* fails, the text is at the first byte of the buffer, nothing is written outside
\* of the buffer, and the flag BUFFER_ALLOC is set for own memory only.
THEOREM PathInvariant == PathSpec => []PathInv
  BY PathInitInv, PathStep, PTL DEF PathSpec

\* What FS_path_get_filename takes apart fits together again.
LEMMA SplitExact ==
    ASSUME NEW t \in Seq(Bytes), LastSep(t) > 0
    PROVE  LET directory == SubSeq(t, 1, Directory(t))
           IN /\ directory \o <<Sep>> \o Filename(t) = t
              /\ Sep \notin Range(Filename(t))
              /\ directory # <<>> => Subdirectory(directory, t)
<1> DEFINE pos == LastSep(t)
           num == Len(t)
<1>1. pos # 0
  OBVIOUS
<1>2. /\ pos \in 1 .. num /\ t[pos] = Sep /\ num \in Nat
      /\ \A i \in 1 .. num : i > pos => t[i] # Sep
  BY <1>1, LastSepIsLast
<1>3. Directory(t) = pos - 1
  BY <1>2 DEF Directory
<1> DEFINE dir == SubSeq(t, 1, pos - 1)
           file == SubSeq(t, pos + 1, num)
<1>4. Filename(t) = file
  BY DEF Filename
<1> HIDE DEF pos, num
<1>5. /\ dir \in Seq(Bytes) /\ Len(dir) = pos - 1
      /\ \A i \in 1 .. pos - 1 : dir[i] = t[i]
  BY <1>2 DEF num
<1>6. /\ file \in Seq(Bytes) /\ Len(file) = num - pos
      /\ \A i \in 1 .. num - pos : file[i] = t[pos + i]
  BY <1>2 DEF num
<1> HIDE DEF dir, file
<1>7. dir \o <<Sep>> \o file = t
  <2>1. Sep \in Bytes
    BY DEF Bytes
  <2> DEFINE e == dir \o <<Sep>>
  <2>2. /\ e \in Seq(Bytes) /\ Len(e) = pos
        /\ \A i \in 1 .. pos : e[i] = IF i <= pos - 1 THEN dir[i] ELSE Sep
    <3>1. <<Sep>> \in Seq(Bytes) /\ Len(<<Sep>>) = 1 /\ <<Sep>>[1] = Sep
      BY <2>1
    <3> QED
      BY <1>2, <1>5, <3>1
  <2>3. \A i \in 1 .. pos : e[i] = t[i]
    <3>1. \A i \in 1 .. pos : i <= pos - 1 => i \in 1 .. pos - 1
      BY <1>2
    <3>2. \A i \in 1 .. pos : i <= pos - 1 => e[i] = t[i]
      BY <2>2, <1>5, <3>1
    <3>3. e[pos] = t[pos]
      BY <2>2, <1>2
    <3>4. \A i \in 1 .. pos : ~(i <= pos - 1) => i = pos
      BY <1>2
    <3> QED
      BY <3>2, <3>3, <3>4
  <2> HIDE DEF e
  <2> DEFINE w == e \o file
  <2>4. /\ w \in Seq(Bytes) /\ Len(w) = num
        /\ \A i \in 1 .. num : w[i] = IF i <= pos THEN e[i] ELSE file[i - pos]
    <3>1. e \in Seq(Bytes) /\ file \in Seq(Bytes) /\ Len(e) = pos /\ pos + Len(file) = num
      BY <2>2, <1>2, <1>6
    <3>2. /\ w \in Seq(Bytes) /\ Len(w) = Len(e) + Len(file)
          /\ \A i \in 1 .. Len(e) + Len(file) :
                w[i] = IF i <= Len(e) THEN e[i] ELSE file[i - Len(e)]
      BY <3>1, Joined
    <3> HIDE DEF w
    <3> QED
      BY <3>1, <3>2
  <2> HIDE DEF w
  <2>5. ASSUME NEW i \in 1 .. num PROVE w[i] = t[i]
    <3>1. CASE i <= pos
      <4>1. i \in 1 .. pos
        BY <3>1, <1>2
      <4> QED
        BY <4>1, <3>1, <2>3, <2>4
    <3>2. CASE ~(i <= pos)
      <4>1. i - pos \in 1 .. num - pos /\ pos + (i - pos) = i
        BY <3>2, <1>2
      <4> QED
        BY <4>1, <3>2, <2>4, <1>6
    <3> QED
      BY <3>1, <3>2
  <2>6. w = t
    BY <2>4, <2>5 DEF num
  <2> QED
    BY <2>6 DEF w, e
<1>8. Sep \notin Range(file)
  <2>1. \A i \in 1 .. num - pos : file[i] # Sep
    <3>1. \A i \in 1 .. num - pos : pos + i \in 1 .. num /\ pos + i > pos
      BY <1>2
    <3> QED
      BY <3>1, <1>2, <1>6
  <2>2. DOMAIN file = 1 .. num - pos
    BY <1>6
  <2> QED
    BY <2>1, <2>2 DEF Range
<1>9. ASSUME dir # <<>> PROVE Subdirectory(dir, t)
  <2>1. Len(dir) < Len(t) /\ Len(dir) + 1 = pos
    BY <1>2, <1>5 DEF num
  <2>2. SubSeq(t, 1, Len(dir)) = dir
    BY <1>5 DEF dir
  <2> QED
    BY <2>1, <2>2, <1>2, <1>9 DEF Subdirectory
<1> QED
  BY <1>3, <1>4, <1>7, <1>8, <1>9 DEF dir, num

\* A path is sound: its window is inside the buffer and holds exactly the text,
\* only own memory is freed, and directory and filename make up the path.
THEOREM PathSoundHolds == PathSpec => []PathSound
<1>1. PathInv => PathSound
  <2> SUFFICES ASSUME PathInv PROVE PathSound
    OBVIOUS
  <2>1. Window = text /\ text \in Seq(Bytes)
    BY WindowText DEF PathInv, PathTypeOK
  <2>2. WindowIsText
    BY <2>1 DEF PathInv, PathTypeOK, WindowInv, WindowIsText, size
  <2>3. SplitJoins
    BY <2>1, SplitExact DEF SplitJoins
  <2> QED
    BY <2>2, <2>3 DEF PathInv, PathSound
<1> QED
  BY <1>1, PathInvariant, PTL

-----------------------------------------------------------------------------
(* Strings.                                                                *)

\* Every byte there can be in a string.
Chars == STRING \cup {Mark, Nul}

\* The blocks a string can point to.
Kept == allocated \cup {"line", NoBlock}

Strs == [at : Blocks \cup {"line", NoBlock}, off : Nat, len : Nat, own : BOOLEAN]

DTypeOK ==
    /\ str \in [Strings -> Strs] /\ want \in [Strings -> Seq(Chars)]
    /\ bytes \in [Blocks \cup {"line"} -> Seq(Chars)] /\ bytes["line"] = Line
    /\ lost \subseteq allocated /\ allocated \subseteq Blocks

\* Memory that is not lost has one owner, who points to its beginning.
OwnerInv ==
    /\ ~badfree
    /\ \A s \in Strings : str[s].own => str[s].at \in allocated \ lost /\ str[s].off = 0
    /\ \A s, r \in Strings : str[s].own /\ str[r].own /\ str[s].at = str[r].at => s = r
    /\ \A k \in allocated \ lost : \E s \in Strings : str[s].own /\ str[s].at = k

\* x lies inside of a block that is there, and reads t.
Seen(x, t) ==
    /\ x.at \in Kept
    /\ x.off + x.len <= Len(Memory(x.at))
    /\ TextOf(x, Memory(x.at)) = t

SeenInv == \A s \in Strings : Seen(str[s], want[s])

DstrInv == DTypeOK /\ OwnerInv /\ SeenInv

\* The line of the caller, and a byte of it, as texts.
LEMMA LineText == Line \in Seq(Chars) /\ \A c \in Range(Line) : <<c>> \in Seq(Chars)
<1>1. ASSUME NEW S, NEW T, S \subseteq T, NEW q \in Seq(S)
      PROVE  q \in Seq(T) /\ \A c \in Range(q) : <<c>> \in Seq(T)
  BY <1>1 DEF Range
<1>2. Line \in Seq(STRING) /\ STRING \subseteq Chars
  BY StringAssumption DEF Chars
<1> QED
  BY <1>1, <1>2, Zenon

\* A piece of a piece, and the length of a piece.
LEMMA Inner ==
    ASSUME NEW m \in Seq(Chars), NEW o \in Nat, NEW l \in Nat, o + l <= Len(m),
           NEW i \in Nat, NEW j \in Nat, i + j <= l
    PROVE  /\ SubSeq(m, o + 1, o + l) \in Seq(Chars) /\ Len(SubSeq(m, o + 1, o + l)) = l
           /\ SubSeq(m, o + i + 1, o + i + j) = SubSeq(SubSeq(m, o + 1, o + l), i + 1, i + j)
<1> DEFINE w == SubSeq(m, o + 1, o + l)
<1>1. w \in Seq(Chars) /\ Len(w) = l /\ \A x \in 1 .. l : w[x] = m[o + x]
  OBVIOUS
<1> HIDE DEF w
<1>2. /\ SubSeq(w, i + 1, i + j) \in Seq(Chars) /\ Len(SubSeq(w, i + 1, i + j)) = j
      /\ \A x \in 1 .. j : SubSeq(w, i + 1, i + j)[x] = w[i + x] /\ i + x \in 1 .. l
  BY <1>1
<1>3. /\ SubSeq(m, o + i + 1, o + i + j) \in Seq(Chars)
      /\ Len(SubSeq(m, o + i + 1, o + i + j)) = j
      /\ \A x \in 1 .. j : SubSeq(m, o + i + 1, o + i + j)[x] = m[o + (i + x)]
  <2> DEFINE skip == o + i
  <2>1. skip \in Nat /\ skip + j <= Len(m) /\ \A x \in 1 .. j : o + (i + x) = skip + x
    OBVIOUS
  <2> HIDE DEF skip
  <2>2. /\ SubSeq(m, skip + 1, skip + j) \in Seq(Chars) /\ Len(SubSeq(m, skip + 1, skip + j)) = j
        /\ \A x \in 1 .. j : SubSeq(m, skip + 1, skip + j)[x] = m[skip + x]
    BY <2>1
  <2>3. QED
    BY <2>1, <2>2 DEF skip
<1>4. SubSeq(m, o + i + 1, o + i + j) = SubSeq(w, i + 1, i + j)
  <2> DEFINE u == SubSeq(m, o + i + 1, o + i + j)
             v == SubSeq(w, i + 1, i + j)
  <2>1. u \in Seq(Chars) /\ v \in Seq(Chars) /\ Len(u) = Len(v)
        /\ \A x \in 1 .. Len(u) : u[x] = v[x]
    BY <1>1, <1>2, <1>3
  <2> HIDE DEF u, v
  <2>2. u = v
    BY <2>1
  <2> QED
    BY <2>2 DEF u, v
<1> QED
  BY <1>1, <1>4 DEF w

\* Texts with the same bytes are the same.
LEMMA SameText ==
    ASSUME NEW t \in Seq(Chars), NEW u \in Seq(Chars), Len(t) = Len(u),
           \A i \in 1 .. Len(t) : t[i] = u[i]
    PROVE  t = u
OBVIOUS

\* Another place and length of a string.
LEMMA Moves ==
    ASSUME NEW x \in Strs, NEW o \in Nat, NEW l \in Nat
    PROVE  [x EXCEPT !.off = o, !.len = l] = [at |-> x.at, off |-> o, len |-> l, own |-> x.own]
<1> DEFINE y == [x EXCEPT !.off = o, !.len = l]
           z == [at |-> x.at, off |-> o, len |-> l, own |-> x.own]
<1>1. y \in Strs /\ z \in Strs
  BY DEF Strs
<1>2. y.at = z.at /\ y.off = z.off /\ y.len = z.len /\ y.own = z.own
  BY DEF Strs
<1> HIDE DEF y, z
<1>3. y = z
  BY <1>1, <1>2 DEF Strs
<1> QED
  BY <1>3 DEF y, z

LEMMA DInitInv == DInit => DstrInv
<1> SUFFICES ASSUME DInit PROVE DstrInv
  OBVIOUS
<1>1. bytes["line"] = Line /\ bytes \in [Blocks \cup {"line"} -> Seq(Chars)]
  <2>1. /\ bytes = [k \in Blocks \cup {"line"} |-> IF k = "line" THEN Line ELSE <<>>]
        /\ Line \in Seq(Chars) /\ <<>> \in Seq(Chars)
    BY StringAssumption, LineText DEF DInit
  <2>2. bytes["line"] = Line
    BY <2>1, Zenon
  <2>3. \A k \in Blocks \cup {"line"} : (IF k = "line" THEN Line ELSE <<>>) \in Seq(Chars)
    BY <2>1
  <2> QED
    BY <2>1, <2>2, <2>3, Zenon
<1>2. DTypeOK
  <2>1. Empty \in Strs /\ <<>> \in Seq(Chars)
    BY DEF Empty, Strs
  <2> QED
    BY <1>1, <2>1 DEF DInit, DTypeOK
<1>3. \A s \in Strings : str[s] = Empty /\ want[s] = <<>>
  BY DEF DInit
<1>4. OwnerInv
  BY <1>3 DEF DInit, OwnerInv, Empty
<1>5. Seen(Empty, <<>>)
  BY DEF Seen, Kept, Empty, Memory, TextOf
<1> QED
  BY <1>2, <1>3, <1>4, <1>5 DEF DstrInv, SeenInv

\* What the invariant says of one string.
LEMMA StringFacts ==
    ASSUME DstrInv, NEW s \in Strings
    PROVE  /\ str[s] \in Strs /\ want[s] \in Seq(Chars)
           /\ Memory(str[s].at) \in Seq(Chars)
           /\ str[s].off + str[s].len <= Len(Memory(str[s].at))
           /\ Text(s) = want[s] /\ Len(want[s]) = str[s].len
           /\ str[s].at \in Kept
           /\ str[s].own => /\ str[s].at \in allocated \ lost /\ str[s].at \in Blocks
                            /\ str[s].at # NoBlock /\ str[s].off = 0
<1>1. str[s] \in Strs /\ want[s] \in Seq(Chars)
  BY DEF DstrInv, DTypeOK
<1>2. /\ str[s].at \in Blocks \cup {"line", NoBlock} /\ str[s].off \in Nat /\ str[s].len \in Nat
  BY <1>1 DEF Strs
<1>3. Memory(str[s].at) \in Seq(Chars)
  <2>1. <<>> \in Seq(Chars) /\ \A k \in Blocks \cup {"line"} : bytes[k] \in Seq(Chars)
    BY DEF DstrInv, DTypeOK
  <2> QED
    BY <1>2, <2>1, Zenon DEF Memory
<1>4. Seen(str[s], want[s])
  BY DEF DstrInv, SeenInv
<1>5. Len(TextOf(str[s], Memory(str[s].at))) = str[s].len
  <2> DEFINE m == Memory(str[s].at)
  <2>1. m \in Seq(Chars) /\ str[s].off + str[s].len <= Len(m)
    BY <1>3, <1>4 DEF Seen
  <2> HIDE DEF m
  <2>2. ASSUME NEW o \in Nat, NEW l \in Nat, o + l <= Len(m)
        PROVE  Len(SubSeq(m, o + 1, o + l)) = l
    BY <2>1, <2>2
  <2> QED
    BY <1>2, <2>1, <2>2 DEF TextOf, m
<1>6. str[s].own => /\ str[s].at \in allocated \ lost /\ str[s].at \in Blocks
                    /\ str[s].at # NoBlock /\ str[s].off = 0
  BY StringAssumption DEF DstrInv, OwnerInv, DTypeOK
<1> QED
  BY <1>1, <1>3, <1>4, <1>5, <1>6 DEF Seen, Text

\* Nothing of the memory changes, nor who owns it.
LEMMA ViewsKeep ==
    ASSUME DstrInv, UNCHANGED <<bytes, allocated, lost, badfree>>,
           str' \in [Strings -> Strs], want' \in [Strings -> Seq(Chars)],
           \A s \in Strings :
              /\ str'[s].own <=> str[s].own
              /\ str[s].own => str'[s].at = str[s].at /\ str'[s].off = str[s].off
              /\ Seen(str'[s], want'[s])
    PROVE  DstrInv'
<1>1. DTypeOK'
  BY DEF DstrInv, DTypeOK
<1>2. OwnerInv'
  <2>1. ~badfree'
    BY Zenon DEF DstrInv, OwnerInv
  <2>2. \A s \in Strings : str'[s].own => str'[s].at \in allocated' \ lost' /\ str'[s].off = 0
    BY DEF DstrInv, OwnerInv
  <2>3. \A s, r \in Strings : str'[s].own /\ str'[r].own /\ str'[s].at = str'[r].at => s = r
    BY Zenon DEF DstrInv, OwnerInv
  <2>4. \A k \in allocated' \ lost' : \E s \in Strings : str'[s].own /\ str'[s].at = k
    BY Zenon DEF DstrInv, OwnerInv
  <2> QED
    BY <2>1, <2>2, <2>3, <2>4 DEF OwnerInv
<1>3. \A x, t : Seen(x, t) => Seen(x, t)'
  BY DEF Seen, Kept, Memory, TextOf
<1>4. SeenInv'
  BY <1>3 DEF SeenInv
<1> QED
  BY <1>1, <1>2, <1>4 DEF DstrInv

\* One string is set to something that owns only what it owned.
LEMMA ViewKeeps ==
    ASSUME DstrInv, NEW s \in Strings, NEW x \in Strs, NEW t \in Seq(Chars),
           Set(s, x, t), UNCHANGED <<bytes, allocated, lost, badfree>>,
           x.own <=> str[s].own, str[s].own => x.at = str[s].at /\ x.off = str[s].off,
           Seen(x, t)
    PROVE  DstrInv'
<1>1. str \in [Strings -> Strs] /\ want \in [Strings -> Seq(Chars)]
  BY DEF DstrInv, DTypeOK
<1>2. /\ str' \in [Strings -> Strs] /\ want' \in [Strings -> Seq(Chars)]
      /\ \A r \in Strings : str'[r] = (IF r = s THEN x ELSE str[r])
                            /\ want'[r] = (IF r = s THEN t ELSE want[r])
  BY <1>1 DEF Set
<1>3. \A r \in Strings : /\ str'[r].own <=> str[r].own
                         /\ str[r].own => str'[r].at = str[r].at /\ str'[r].off = str[r].off
                         /\ Seen(str'[r], want'[r])
  BY <1>2 DEF DstrInv, SeenInv
<1> QED
  BY <1>2, <1>3, ViewsKeep

\* A string without memory.
LEMMA EmptyFacts ==
    Empty \in Strs /\ ~Empty.own /\ Empty.at = NoBlock /\ Seen(Empty, <<>>) /\ <<>> \in Seq(Chars)
BY DEF Empty, Strs, Seen, Kept, Memory, TextOf

\* DSTR_init, and DSTR_clear of a view.
LEMMA EmptyKeeps ==
    ASSUME DstrInv, NEW s \in Strings, ~str[s].own, Set(s, Empty, <<>>),
           UNCHANGED <<bytes, allocated, lost, badfree>>
    PROVE  DstrInv'
BY EmptyFacts, ViewKeeps

\* Part of a string, from the front or the back.
LEMMA PartSeen ==
    ASSUME DstrInv, NEW s \in Strings, NEW i \in Nat, NEW j \in Nat, i + j <= str[s].len,
           NEW o \in BOOLEAN, NEW x, x = [at |-> str[s].at, off |-> str[s].off + i, len |-> j, own |-> o]
    PROVE  /\ x \in Strs /\ Seen(x, SubSeq(want[s], i + 1, i + j))
           /\ SubSeq(want[s], i + 1, i + j) \in Seq(Chars)
<1> DEFINE m == Memory(str[s].at)
           a == str[s].off
           l == str[s].len
<1>1. /\ m \in Seq(Chars) /\ a \in Nat /\ l \in Nat /\ a + l <= Len(m)
      /\ str[s].at \in Kept /\ str[s].at \in Blocks \cup {"line", NoBlock}
  BY StringFacts DEF Strs
<1>2. want[s] = SubSeq(m, a + 1, a + l)
  BY StringFacts DEF Text, TextOf
<1>3. /\ SubSeq(m, a + i + 1, a + i + j) = SubSeq(want[s], i + 1, i + j)
      /\ SubSeq(m, a + i + 1, a + i + j) \in Seq(Chars)
  <2> HIDE DEF m, a, l
  <2>1. i + j <= l
    BY DEF l
  <2>2. SubSeq(m, a + i + 1, a + i + j) = SubSeq(want[s], i + 1, i + j)
    <3>1. m \in Seq(Chars) /\ a \in Nat /\ l \in Nat /\ a + l <= Len(m)
      BY <1>1
    <3>2. SubSeq(m, a + i + 1, a + i + j) = SubSeq(SubSeq(m, a + 1, a + l), i + 1, i + j)
      BY <2>1, <3>1, Inner
    <3> QED
      BY <1>2, <3>2, Zenon
  <2>3. SubSeq(m, a + i + 1, a + i + j) \in Seq(Chars)
    <3>1. ASSUME NEW skip \in Nat, skip + j <= Len(m) PROVE SubSeq(m, skip + 1, skip + j) \in Seq(Chars)
      BY <1>1, <3>1
    <3>2. a + i \in Nat /\ (a + i) + j <= Len(m)
      BY <1>1, <2>1
    <3> QED
      BY <3>1, <3>2
  <2> QED
    BY <2>2, <2>3
<1>4. (a + i) + j <= Len(m) /\ a + i \in Nat
  BY <1>1
<1> QED
  BY <1>1, <1>3, <1>4 DEF Seen, TextOf, Strs

\* DSTR_set_bytes: a view of the line.
LEMMA SetBytesKeeps ==
    ASSUME DstrInv, NEW s \in Strings, NEW off \in 0 .. Len(Line), NEW many \in 0 .. Len(Line),
           DSTR_set_bytes(s, off, many)
    PROVE  DstrInv'
<1> DEFINE num == IF many = 0 THEN Len(Line) - off ELSE many
           x == [at |-> "line", off |-> off, len |-> num, own |-> FALSE]
           t == SubSeq(Line, off + 1, off + num)
<1>1. /\ Line \in Seq(Chars) /\ Memory("line") = Line /\ "line" \in Kept
  BY StringAssumption, LineText DEF DstrInv, DTypeOK, Memory, Kept
<1>2. off \in Nat /\ num \in Nat /\ off + num <= Len(Line)
  BY <1>1 DEF DSTR_set_bytes
<1>3. /\ Set(s, x, t) /\ UNCHANGED <<bytes, allocated, lost, badfree>> /\ ~str[s].own
  BY DEF DSTR_set_bytes
<1> HIDE DEF num
<1>4. x \in Strs /\ t \in Seq(Chars) /\ ~x.own
  BY <1>1, <1>2 DEF Strs
<1>5. Seen(x, t)
  BY <1>1, <1>2 DEF Seen, TextOf
<1> HIDE DEF x, t
<1> QED
  BY <1>3, <1>4, <1>5, ViewKeeps

\* DSTR_shift and DSTR_shrink.
LEMMA CutKeeps ==
    ASSUME DstrInv, NEW s \in Strings, NEW taken \in 1 .. Len(Line),
           DSTR_shift(s, taken) \/ DSTR_shrink(s, taken)
    PROVE  DstrInv'
<1> DEFINE num == Least(taken, str[s].len)
<1>1. /\ str[s] \in Strs /\ str[s].len \in Nat /\ str[s].off \in Nat
      /\ Len(want[s]) = str[s].len /\ want[s] \in Seq(Chars) /\ str[s].own \in BOOLEAN
  BY StringFacts DEF Strs
<1>2. num \in 0 .. str[s].len
  BY <1>1 DEF Least
<1>3. UNCHANGED <<bytes, allocated, lost, badfree>>
  BY DEF DSTR_shift, DSTR_shrink
<1> HIDE DEF num
<1>4. CASE DSTR_shift(s, taken)
  <2> DEFINE x == [at |-> str[s].at, off |-> str[s].off + num, len |-> str[s].len - num, own |-> str[s].own]
             t == SubSeq(want[s], num + 1, num + (str[s].len - num))
  <2>1. [str[s] EXCEPT !.off = @ + num, !.len = @ - num] = x
    <3>1. str[s].off + num \in Nat /\ str[s].len - num \in Nat
      BY <1>1, <1>2
    <3> QED
      BY <1>1, <3>1, Moves, Zenon
  <2>2. num + (str[s].len - num) = Len(want[s]) /\ str[s].len - num \in Nat /\ num \in Nat
    BY <1>1, <1>2
  <2>3. Set(s, x, t) /\ ~str[s].own
    BY <1>4, <2>1, <2>2 DEF DSTR_shift, num
  <2>4. x \in Strs /\ t \in Seq(Chars) /\ Seen(x, t) /\ x.own = str[s].own
    <3>1. x = [at |-> str[s].at, off |-> str[s].off + num, len |-> str[s].len - num, own |-> str[s].own]
      OBVIOUS
    <3>2. num + (str[s].len - num) <= str[s].len /\ x.own = str[s].own
      BY <1>1, <1>2
    <3> HIDE DEF x
    <3>3. x \in Strs /\ Seen(x, t) /\ t \in Seq(Chars)
      BY <1>1, <2>2, <3>1, <3>2, PartSeen
    <3> QED
      BY <3>2, <3>3
  <2> HIDE DEF x, t
  <2> QED
    BY <1>3, <2>3, <2>4, ViewKeeps
<1>5. CASE DSTR_shrink(s, taken)
  <2> DEFINE x == [at |-> str[s].at, off |-> str[s].off + 0, len |-> str[s].len - num, own |-> str[s].own]
             t == SubSeq(want[s], 0 + 1, 0 + (str[s].len - num))
  <2>1. [str[s] EXCEPT !.len = @ - num] = x
    BY <1>1 DEF Strs
  <2>2. 0 + (str[s].len - num) = Len(want[s]) - num /\ str[s].len - num \in Nat /\ 0 + 1 = 1
    BY <1>1, <1>2
  <2>3. Set(s, x, t)
    BY <1>5, <2>1, <2>2 DEF DSTR_shrink, num
  <2>4. x \in Strs /\ t \in Seq(Chars) /\ Seen(x, t) /\ x.own = str[s].own
    <3>1. x = [at |-> str[s].at, off |-> str[s].off + 0, len |-> str[s].len - num, own |-> str[s].own]
      OBVIOUS
    <3>2. 0 + (str[s].len - num) <= str[s].len /\ x.own = str[s].own
      BY <1>1, <1>2
    <3> HIDE DEF x
    <3>3. x \in Strs /\ Seen(x, t) /\ t \in Seq(Chars)
      BY <1>1, <2>2, <3>1, <3>2, PartSeen
    <3> QED
      BY <3>2, <3>3
  <2>5. x.at = str[s].at /\ x.off = str[s].off
    BY <1>1
  <2> HIDE DEF x, t
  <2> QED
    BY <1>3, <2>3, <2>4, <2>5, ViewKeeps
<1> QED
  BY <1>4, <1>5

\* DSTR_set_str: a second view, or ownership changes hands.
LEMMA GiveKeeps ==
    ASSUME DstrInv, NEW a \in Strings, NEW b \in Strings, a # b, NEW flag \in BOOLEAN,
           DSTR_set_str(a, b, flag)
    PROVE  DstrInv'
<1>1. /\ str \in [Strings -> Strs] /\ want \in [Strings -> Seq(Chars)]
      /\ str[a] \in Strs /\ str[b] \in Strs /\ want[b] \in Seq(Chars)
  BY DEF DstrInv, DTypeOK
<1>2. ~str[a].own /\ (flag => str[b].own) /\ UNCHANGED <<bytes, allocated, lost, badfree>>
  BY DEF DSTR_set_str
<1>3. PICK x \in Strs : x = [str[b] EXCEPT !.own = flag]
  BY <1>1 DEF Strs
<1>4. PICK y \in Strs : y = [str[b] EXCEPT !.own = str[b].own /\ ~flag]
  BY <1>1 DEF Strs
<1>5. /\ x.at = str[b].at /\ x.off = str[b].off /\ x.len = str[b].len /\ x.own = flag
      /\ y.at = str[b].at /\ y.off = str[b].off /\ y.len = str[b].len
      /\ y.own <=> str[b].own /\ ~flag
  BY <1>1, <1>3, <1>4 DEF Strs
<1>6. /\ str' = [str EXCEPT ![a] = x, ![b] = y]
      /\ want' = [want EXCEPT ![a] = want[b]]
  <2>1. str' = [str EXCEPT ![a] = [str[b] EXCEPT !.own = flag], ![b].own = @ /\ ~flag]
    BY DEF DSTR_set_str
  <2>2. [str EXCEPT ![a] = [str[b] EXCEPT !.own = flag], ![b].own = @ /\ ~flag]
        = [str EXCEPT ![a] = x, ![b] = y]
    BY <1>1, <1>3, <1>4
  <2> QED
    BY <2>1, <2>2, Zenon DEF DSTR_set_str
<1>7. /\ str' \in [Strings -> Strs] /\ want' \in [Strings -> Seq(Chars)]
      /\ str'[a] = x /\ str'[b] = y /\ want'[a] = want[b] /\ want'[b] = want[b]
      /\ \A r \in Strings \ {a, b} : str'[r] = str[r] /\ want'[r] = want[r]
  BY <1>1, <1>6
<1>8. DTypeOK'
  BY <1>2, <1>7 DEF DstrInv, DTypeOK
<1>9. OwnerInv'
  <2>1. ~badfree'
    BY <1>2, Zenon DEF DstrInv, OwnerInv
  <2>2. \A s \in Strings : str'[s].own =>
           str'[s].at = (IF s = a THEN str[b].at ELSE str[s].at) /\ str'[s].off = 0
           /\ (IF s = a THEN flag /\ str[b].own ELSE str[s].own)
           /\ ~(s = b /\ flag)
    BY <1>2, <1>5, <1>7 DEF DstrInv, OwnerInv
  <2>3. \A s \in Strings : str'[s].own => str'[s].at \in allocated' \ lost' /\ str'[s].off = 0
    BY <1>2, <2>2 DEF DstrInv, OwnerInv
  <2>4. \A s, r \in Strings : str'[s].own /\ str'[r].own /\ str'[s].at = str'[r].at => s = r
    BY <2>2 DEF DstrInv, OwnerInv
  <2>5. ASSUME NEW k \in allocated' \ lost' PROVE \E s \in Strings : str'[s].own /\ str'[s].at = k
    <3>1. PICK s \in Strings : str[s].own /\ str[s].at = k
      BY <1>2, <2>5 DEF DstrInv, OwnerInv
    <3>2. CASE s = b /\ flag
      BY <1>5, <1>7, <3>1, <3>2
    <3>3. CASE s = b /\ ~flag
      BY <1>5, <1>7, <3>1, <3>3
    <3>4. CASE s # b
      BY <1>2, <1>7, <3>1, <3>4
    <3> QED
      BY <3>2, <3>3, <3>4
  <2> QED
    BY <2>1, <2>3, <2>4, <2>5 DEF OwnerInv
<1>10. SeenInv'
  <2>1. \A z, t : Seen(z, t) => Seen(z, t)'
    BY <1>2 DEF Seen, Kept, Memory, TextOf
  <2>2. Seen(str[b], want[b]) /\ \A r \in Strings : Seen(str[r], want[r])
    BY DEF DstrInv, SeenInv
  <2>3. Seen(x, want[b]) /\ Seen(y, want[b])
    BY <1>5, <2>2 DEF Seen, TextOf
  <2>4. \A r \in Strings : Seen(str'[r], want'[r])
    BY <1>7, <2>2, <2>3
  <2> QED
    BY <2>1, <2>4 DEF SeenInv
<1> QED
  BY <1>8, <1>9, <1>10 DEF DstrInv

-----------------------------------------------------------------------------
(* Memory that comes and goes.                                             *)

\* A string that is as before, on memory that is still there as before.
LEMMA StillSeen ==
    ASSUME DstrInv, NEW r \in Strings, str'[r] = str[r], want'[r] = want[r],
           str[r].at \in allocated => str[r].at \in allocated',
           str[r].at # NoBlock => bytes'[str[r].at] = bytes[str[r].at]
    PROVE  Seen(str[r], want[r])'
<1>1. Seen(str[r], want[r])
  BY DEF DstrInv, SeenInv
<1>2. Memory(str[r].at)' = Memory(str[r].at)
  BY Zenon DEF Memory
<1>3. str[r].at \in Kept'
  BY <1>1 DEF Seen, Kept
<1> QED
  BY <1>1, <1>2, <1>3 DEF Seen, TextOf

\* DSTR_set_bytes with ownership of memory that is new.
LEMMA OwnKeeps ==
    ASSUME DstrInv, NEW s \in Strings, NEW k \in Blocks, NEW d \in Seq(Chars),
           DSTR_set_own(s, k, d)
    PROVE  DstrInv'
<1> DEFINE x == [at |-> k, off |-> 0, len |-> Len(d), own |-> TRUE]
<1>1. /\ x \in Strs /\ x.at = k /\ x.off = 0 /\ x.len = Len(d) /\ x.own
  BY DEF Strs
<1>2. /\ Set(s, x, d) /\ ~str[s].own /\ k \notin allocated /\ allocated' = allocated \cup {k}
      /\ bytes' = [bytes EXCEPT ![k] = d] /\ lost' = lost /\ badfree' = badfree
  BY DEF DSTR_set_own
<1> HIDE DEF x
<1>3. /\ str' \in [Strings -> Strs] /\ want' \in [Strings -> Seq(Chars)]
      /\ str'[s] = x /\ want'[s] = d
      /\ \A r \in Strings \ {s} : str'[r] = str[r] /\ want'[r] = want[r]
  BY <1>1, <1>2 DEF Set, DstrInv, DTypeOK
<1>4. /\ bytes' \in [Blocks \cup {"line"} -> Seq(Chars)] /\ bytes'[k] = d
      /\ \A j \in Blocks \cup {"line"} : j # k => bytes'[j] = bytes[j]
  BY <1>2 DEF DstrInv, DTypeOK
<1>5. k # "line" /\ k # NoBlock
  BY StringAssumption
<1>6. DTypeOK'
  BY <1>2, <1>3, <1>4, <1>5 DEF DstrInv, DTypeOK
<1>7. \A r \in Strings : str[r].at # k /\ str[r].at \in Blocks \cup {"line", NoBlock}
  BY <1>2, <1>5, StringFacts DEF Kept, Strs
<1>8. k \notin lost
  BY <1>2 DEF DstrInv, DTypeOK
<1>9. OwnerInv'
  <2>1. ~badfree'
    BY <1>2, Zenon DEF DstrInv, OwnerInv
  <2>2. \A r \in Strings : str'[r].own => str'[r].at \in allocated' \ lost' /\ str'[r].off = 0
    BY <1>1, <1>2, <1>3, <1>8 DEF DstrInv, OwnerInv
  <2>3. \A q, r \in Strings : str'[q].own /\ str'[r].own /\ str'[q].at = str'[r].at => q = r
    <3>1. \A q, r \in Strings \ {s} : str'[q].own /\ str'[r].own /\ str'[q].at = str'[r].at => q = r
      BY <1>3, Zenon DEF DstrInv, OwnerInv
    <3>2. \A r \in Strings \ {s} : str'[r].at # str'[s].at
      BY <1>1, <1>3, <1>7
    <3> QED
      BY <3>1, <3>2
  <2>4. \A j \in allocated' \ lost' : \E r \in Strings : str'[r].own /\ str'[r].at = j
    BY <1>1, <1>2, <1>3 DEF DstrInv, OwnerInv
  <2> QED
    BY <2>1, <2>2, <2>3, <2>4 DEF OwnerInv
<1>10. SeenInv'
  <2>1. \A r \in Strings \ {s} : Seen(str[r], want[r])'
    BY <1>2, <1>3, <1>4, <1>7, StillSeen
  <2>2. Seen(str[s], want[s])'
    BY <1>1, <1>2, <1>3, <1>4, <1>5 DEF Seen, Kept, Memory, TextOf
  <2> QED
    BY <2>1, <2>2 DEF SeenInv
<1> QED
  BY <1>6, <1>9, <1>10 DEF DstrInv

\* The memory of s is freed or moves, and what it has then is x, on memory that
\* nobody looks at; without the flag it is lost.
LEMMA MemoryKeeps ==
    ASSUME DstrInv, NEW s \in Strings, NEW x \in Strs, NEW t \in Seq(Chars), Replace(s, x, t),
           str[s].at # NoBlock => str[s].own,
           x.at \in Blocks \cup {NoBlock}, x.at \notin allocated \ {str[s].at},
           x.off = 0, x.own => x.at # NoBlock,
           allocated' = (allocated \ {str[s].at}) \cup ({x.at} \ {NoBlock}),
           lost' = lost \cup (IF x.own THEN {} ELSE {x.at} \ {NoBlock}),
           ~badfree', bytes' \in [Blocks \cup {"line"} -> Seq(Chars)],
           \A j \in Blocks \cup {"line"} : j # str[s].at /\ j # x.at => bytes'[j] = bytes[j],
           Seen(x, t)'
    PROVE  DstrInv'
<1> DEFINE gone == {r \in Strings \ {s} : str[s].at # NoBlock /\ str[r].at = str[s].at /\ ~str[r].own}
<1>1. /\ str' \in [Strings -> Strs] /\ want' \in [Strings -> Seq(Chars)]
      /\ str'[s] = x /\ want'[s] = t
      /\ \A r \in gone : str'[r] = Empty /\ want'[r] = <<>>
      /\ \A r \in Strings \ ({s} \cup gone) : str'[r] = str[r] /\ want'[r] = want[r]
  BY EmptyFacts DEF Replace, DstrInv, DTypeOK
<1>2. /\ str[s].at # NoBlock => str[s].at \in allocated \ lost
      /\ str[s].at # "line" /\ x.at # "line" /\ NoBlock \notin allocated
  BY StringFacts, StringAssumption DEF DstrInv, DTypeOK
<1>3. /\ lost \subseteq allocated /\ allocated \subseteq Blocks
      /\ bytes["line"] = Line
  BY DEF DstrInv, DTypeOK
<1>4. DTypeOK'
  <2>1. bytes'["line"] = Line
    BY <1>2, <1>3
  <2>2. lost' \subseteq allocated' /\ allocated' \subseteq Blocks
    BY <1>2, <1>3
  <2> QED
    BY <1>1, <2>1, <2>2 DEF DTypeOK
<1>5. \A r \in Strings \ {s} : str[r].own =>
         /\ r \notin gone /\ str[r].at \in allocated \ lost /\ str[r].off = 0
         /\ str[r].at # str[s].at /\ str[r].at # x.at
  BY <1>2 DEF DstrInv, OwnerInv
<1>6. OwnerInv'
  <2>1. \A r \in Strings \ {s} : str'[r].own => str[r].own /\ str'[r] = str[r]
    BY <1>1, EmptyFacts
  <2>2. \A r \in Strings : str'[r].own => str'[r].at \in allocated' \ lost' /\ str'[r].off = 0
    <3>1. x.own => x.at \in allocated' \ lost'
      BY <1>2, <1>3
    <3> QED
      BY <1>1, <1>5, <2>1, <3>1
  <2>3. \A q, r \in Strings : str'[q].own /\ str'[r].own /\ str'[q].at = str'[r].at => q = r
    <3>1. \A q, r \in Strings \ {s} : str'[q].own /\ str'[r].own /\ str'[q].at = str'[r].at => q = r
      BY <2>1 DEF DstrInv, OwnerInv
    <3>2. \A r \in Strings \ {s} : str'[r].own => str'[r].at # str'[s].at
      BY <1>1, <1>5, <2>1
    <3> QED
      BY <3>1, <3>2
  <2>4. ASSUME NEW k \in allocated' \ lost' PROVE \E r \in Strings : str'[r].own /\ str'[r].at = k
    <3>1. CASE k = x.at
      BY <1>1, <3>1, <2>4
    <3>2. CASE k # x.at
      <4>1. k \in allocated \ lost /\ k # str[s].at
        BY <3>2, <2>4
      <4>2. PICK r \in Strings : str[r].own /\ str[r].at = k
        BY <4>1 DEF DstrInv, OwnerInv
      <4> QED
        BY <1>1, <1>5, <4>1, <4>2
    <3> QED
      BY <3>1, <3>2
  <2> QED
    BY <2>2, <2>3, <2>4 DEF OwnerInv
<1>7. SeenInv'
  <2>1. ASSUME NEW r \in Strings \ ({s} \cup gone) PROVE Seen(str[r], want[r])'
    <3>1. str[r].at \in Kept /\ str[r].at \in Blocks \cup {"line", NoBlock}
      BY StringFacts DEF Strs
    <3>2. str[r].at # NoBlock => str[r].at # str[s].at /\ str[r].at # x.at
      BY <1>2, <1>5, <3>1, StringAssumption DEF Kept
    <3>3. str[r].at # NoBlock => bytes'[str[r].at] = bytes[str[r].at]
      BY <3>1, <3>2
    <3>4. str[r].at \in allocated => str[r].at \in allocated'
      BY <1>2, <3>2
    <3> QED
      BY <1>1, <3>3, <3>4, StillSeen
  <2>2. Seen(str[s], want[s])'
    BY <1>1 DEF Seen
  <2>3. \A r \in gone : Seen(str[r], want[r])'
    <3>1. Seen(Empty, <<>>)'
      BY DEF Seen, Kept, Empty, Memory, TextOf
    <3> QED
      BY <1>1, <3>1 DEF Seen
  <2> QED
    BY <2>1, <2>2, <2>3 DEF SeenInv
<1> QED
  BY <1>4, <1>6, <1>7 DEF DstrInv

\* The owner clears: no other string is left on the memory.
LEMMA ClearKeeps ==
    ASSUME DstrInv, NEW s \in Strings, DSTR_clear(s)
    PROVE  DstrInv'
<1>1. CASE ~str[s].own /\ Set(s, Empty, <<>>) /\ UNCHANGED <<bytes, allocated, badfree>>
  BY <1>1, EmptyKeeps DEF DSTR_clear
<1>2. CASE str[s].own /\ Replace(s, Empty, <<>>) /\ Free(s)
  <2>1. /\ str[s].at \in allocated /\ str[s].at # NoBlock /\ str[s].off = 0 /\ ~badfree
        /\ str[s].at \in Blocks /\ bytes \in [Blocks \cup {"line"} -> Seq(Chars)]
    BY <1>2, StringFacts DEF DstrInv, DTypeOK, OwnerInv
  <2>2. bytes' = [bytes EXCEPT ![str[s].at] = <<>>] /\ allocated' = allocated \ {str[s].at} /\ lost' = lost
    BY <1>2 DEF Free, DSTR_clear
  <2>3. ~badfree'
    BY <1>2, <2>1, Zenon DEF Free
  <2>4. /\ bytes' \in [Blocks \cup {"line"} -> Seq(Chars)]
        /\ \A j \in Blocks \cup {"line"} : j # str[s].at => bytes'[j] = bytes[j]
    BY <2>1, <2>2
  <2>5. Seen(Empty, <<>>)'
    BY DEF Seen, Kept, Empty, Memory, TextOf
  <2>6. NoBlock \notin allocated /\ Empty.off = 0
    BY StringAssumption DEF DstrInv, DTypeOK, Empty
  <2>7. /\ allocated' = (allocated \ {str[s].at}) \cup ({Empty.at} \ {NoBlock})
        /\ lost' = lost \cup (IF Empty.own THEN {} ELSE {Empty.at} \ {NoBlock})
        /\ Empty.at \in Blocks \cup {NoBlock} /\ Empty.at \notin allocated \ {str[s].at}
        /\ (Empty.own => Empty.at # NoBlock)
    BY <2>2, <2>6, EmptyFacts
  <2> HIDE DEF Empty
  <2> QED
    BY <1>2, <2>1, <2>3, <2>4, <2>5, <2>6, <2>7, EmptyFacts, MemoryKeeps
<1> QED
  BY <1>1, <1>2 DEF DSTR_clear

\* realloc with content d.
LEMMA RenewKeeps ==
    ASSUME DstrInv, NEW s \in Strings, NEW k \in Blocks, NEW d \in Seq(Chars), NEW o \in BOOLEAN,
           NEW x, x = [at |-> k, off |-> 0, len |-> Len(d), own |-> o],
           Reallocated(s, k), Refilled(s, k, d), Replace(s, x, d),
           lost' = lost \cup (IF o THEN {} ELSE {k}), badfree' = badfree
    PROVE  DstrInv'
<1>1. x \in Strs /\ x.at = k /\ x.off = 0 /\ x.len = Len(d) /\ x.own = o
  BY DEF Strs
<1>2. /\ k # NoBlock /\ k # "line" /\ k \notin allocated \ {str[s].at}
      /\ allocated' = (allocated \ {str[s].at}) \cup {k}
      /\ str[s].at # NoBlock => str[s].own
  BY StringAssumption DEF Reallocated
<1>3. /\ bytes' \in [Blocks \cup {"line"} -> Seq(Chars)] /\ bytes'[k] = d
      /\ \A j \in Blocks \cup {"line"} : j # str[s].at /\ j # k => bytes'[j] = bytes[j]
  <2>1. bytes \in [Blocks \cup {"line"} -> Seq(Chars)] /\ <<>> \in Seq(Chars)
    BY DEF DstrInv, DTypeOK
  <2> QED
    BY <2>1, Zenon DEF Refilled
<1>4. Seen(x, d)'
  BY <1>1, <1>2, <1>3 DEF Seen, Kept, Memory, TextOf
<1>5. ~badfree'
  BY Zenon DEF DstrInv, OwnerInv
<1>6. /\ x.at \in Blocks \cup {NoBlock} /\ x.at \notin allocated \ {str[s].at}
      /\ (x.own => x.at # NoBlock)
      /\ allocated' = (allocated \ {str[s].at}) \cup ({x.at} \ {NoBlock})
      /\ lost' = lost \cup (IF x.own THEN {} ELSE {x.at} \ {NoBlock})
      /\ \A j \in Blocks \cup {"line"} : j # str[s].at /\ j # x.at => bytes'[j] = bytes[j]
  BY <1>1, <1>2, <1>3
<1> QED
  BY <1>1, <1>2, <1>3, <1>4, <1>5, <1>6, MemoryKeeps

\* DSTR_alloc_str_raw.
LEMMA AllocKeeps ==
    ASSUME DstrInv, NEW s \in Strings, NEW k \in Blocks, NEW num \in 1 .. MaxBytes,
           DSTR_alloc_str_raw(s, num, k)
    PROVE  DstrInv'
<1> DEFINE zeros == [i \in 1 .. num |-> Nul]
<1>1. zeros \in Seq(Chars) /\ Len(zeros) = num
  <2>1. num \in Nat
    BY StringAssumption
  <2>2. Nul \in Chars
    BY DEF Chars
  <2>3. zeros \in [1 .. num -> Chars]
    BY <2>2, Zenon
  <2> HIDE DEF zeros
  <2> QED
    BY <2>1, <2>3
<1>2. /\ Reallocated(s, k) /\ Refilled(s, k, zeros) /\ lost' = lost /\ badfree' = badfree
      /\ Replace(s, [at |-> k, off |-> 0, len |-> num, own |-> TRUE], zeros)
  BY DEF DSTR_alloc_str_raw
<1> HIDE DEF zeros
<1>3. lost' = lost \cup (IF TRUE THEN {} ELSE {k})
  BY <1>2
<1> QED
  BY <1>1, <1>2, <1>3, RenewKeeps

\* realloc fails: what the string had is lost, the views of it stay.
LEMMA FailKeeps ==
    ASSUME DstrInv, NEW s \in Strings, AllocFails(s)
    PROVE  DstrInv'
<1>1. /\ str[s].at # NoBlock => str[s].own
      /\ lost' = lost \cup ({str[s].at} \ {NoBlock}) /\ Set(s, Empty, <<>>)
      /\ UNCHANGED <<bytes, allocated, badfree>>
  BY DEF AllocFails
<1>2. /\ str' \in [Strings -> Strs] /\ want' \in [Strings -> Seq(Chars)]
      /\ str'[s] = Empty /\ want'[s] = <<>>
      /\ \A r \in Strings \ {s} : str'[r] = str[r] /\ want'[r] = want[r]
  BY <1>1, EmptyFacts DEF Set, DstrInv, DTypeOK
<1>3. /\ str[s].at # NoBlock => str[s].at \in allocated
      /\ NoBlock \notin allocated
  BY <1>1, StringFacts, StringAssumption DEF DstrInv, DTypeOK
<1>4. DTypeOK'
  BY <1>1, <1>2, <1>3 DEF DstrInv, DTypeOK
<1>5. OwnerInv'
  <2>1. ~badfree'
    BY <1>1, Zenon DEF DstrInv, OwnerInv
  <2>2. \A r \in Strings : str'[r].own => r # s /\ str'[r] = str[r] /\ str[r].own
    BY <1>2, EmptyFacts
  <2>3. \A r \in Strings : str'[r].own => str'[r].at \in allocated' \ lost' /\ str'[r].off = 0
    BY <1>1, <1>3, <2>2 DEF DstrInv, OwnerInv
  <2>4. \A q, r \in Strings : str'[q].own /\ str'[r].own /\ str'[q].at = str'[r].at => q = r
    BY <2>2 DEF DstrInv, OwnerInv
  <2>5. \A k \in allocated' \ lost' : \E r \in Strings : str'[r].own /\ str'[r].at = k
    <3>1. \A k \in allocated' \ lost' : k \in allocated \ lost /\ k # str[s].at
      BY <1>1, <1>3
    <3> QED
      BY <1>2, <3>1 DEF DstrInv, OwnerInv
  <2> QED
    BY <2>1, <2>3, <2>4, <2>5 DEF OwnerInv
<1>6. SeenInv'
  <2>1. \A r \in Strings \ {s} : Seen(str[r], want[r])'
    BY <1>1, <1>2, StillSeen
  <2>2. Seen(str[s], want[s])'
    BY <1>2 DEF Seen, Kept, Empty, Memory, TextOf
  <2> QED
    BY <2>1, <2>2 DEF SeenInv
<1> QED
  BY <1>4, <1>5, <1>6 DEF DstrInv

\* DSTR_move_str: what a had is freed, what b had is now of a.
LEMMA MoveStrKeeps ==
    ASSUME DstrInv, NEW a \in Strings, NEW b \in Strings, a # b, DSTR_move_str(a, b)
    PROVE  DstrInv'
<1> DEFINE gone == {r \in Strings \ {a} : str[a].own /\ str[r].at = str[a].at}
           freed == IF str[a].own THEN {str[a].at} ELSE {}
<1>1. /\ ~str[a].own \/ str[b].at # str[a].at
      /\ str' = [r \in Strings |-> IF r = a THEN str[b] ELSE IF r \in gone \cup {b} THEN Empty ELSE str[r]]
      /\ want' = [r \in Strings |-> IF r = a THEN want[b] ELSE IF r \in gone \cup {b} THEN <<>> ELSE want[r]]
      /\ lost' = lost
  BY DEF DSTR_move_str
<1>2. /\ str' \in [Strings -> Strs] /\ want' \in [Strings -> Seq(Chars)]
      /\ str'[a] = str[b] /\ want'[a] = want[b]
      /\ \A r \in Strings : r # a /\ r \in gone \cup {b} => str'[r] = Empty /\ want'[r] = <<>>
      /\ \A r \in Strings : r # a /\ r \notin gone \cup {b} => str'[r] = str[r] /\ want'[r] = want[r]
  BY <1>1, EmptyFacts DEF DstrInv, DTypeOK
<1>3. /\ str[a].own => str[a].at \in allocated \ lost /\ str[a].at \in Blocks /\ str[a].off = 0
      /\ \A r \in Strings \ {a} : str[r].own => str[r].at \notin freed
      /\ str[b].at \notin freed
  BY <1>1, StringFacts DEF DstrInv, OwnerInv
<1>4. /\ allocated' = allocated \ freed /\ ~badfree'
      /\ bytes' \in [Blocks \cup {"line"} -> Seq(Chars)]
      /\ \A j \in Blocks \cup {"line"} : j \notin freed => bytes'[j] = bytes[j]
  <2>1. ~badfree /\ bytes \in [Blocks \cup {"line"} -> Seq(Chars)] /\ <<>> \in Seq(Chars)
    BY DEF DstrInv, DTypeOK, OwnerInv
  <2>2. CASE str[a].own /\ Free(a)
    <3>1. /\ allocated' = allocated \ {str[a].at}
          /\ bytes' = [bytes EXCEPT ![str[a].at] = <<>>]
      BY <2>2 DEF Free
    <3>2. ~badfree'
      BY <1>3, <2>1, <2>2, Zenon DEF Free
    <3> QED
      BY <2>1, <2>2, <3>1, <3>2
  <2>3. CASE ~str[a].own /\ UNCHANGED <<bytes, allocated, badfree>>
    <3>1. ~badfree'
      BY <2>1, <2>3, Zenon
    <3> QED
      BY <2>1, <2>3, <3>1
  <2> QED
    BY <2>2, <2>3 DEF DSTR_move_str
<1>5. DTypeOK'
  <2>1. lost' \subseteq allocated' /\ allocated' \subseteq Blocks
    BY <1>1, <1>3, <1>4 DEF DstrInv, DTypeOK
  <2>2. bytes'["line"] = Line
    BY <1>3, <1>4, StringAssumption DEF DstrInv, DTypeOK
  <2> QED
    BY <1>2, <1>4, <2>1, <2>2 DEF DTypeOK
<1>6. OwnerInv'
  <2>1. \A r \in Strings : str'[r].own =>
           \E q \in Strings \ {a} : /\ q = (IF r = a THEN b ELSE r) /\ r # b
                                    /\ str'[r] = str[q] /\ str[q].own
    BY <1>2, EmptyFacts
  <2>2. \A r \in Strings : str'[r].own => str'[r].at \in allocated' \ lost' /\ str'[r].off = 0
    BY <1>1, <1>3, <1>4, <2>1 DEF DstrInv, OwnerInv
  <2>3. \A q, r \in Strings : str'[q].own /\ str'[r].own /\ str'[q].at = str'[r].at => q = r
    BY <2>1 DEF DstrInv, OwnerInv
  <2>4. ASSUME NEW k \in allocated' \ lost' PROVE \E r \in Strings : str'[r].own /\ str'[r].at = k
    <3>1. k \in allocated \ lost /\ k \notin freed
      BY <1>1, <1>4, <2>4
    <3>2. PICK r \in Strings : str[r].own /\ str[r].at = k
      BY <3>1 DEF DstrInv, OwnerInv
    <3>3. r # a /\ r \notin gone
      BY <3>1, <3>2
    <3>4. CASE r = b
      BY <1>2, <3>2, <3>4
    <3>5. CASE r # b
      BY <1>2, <3>2, <3>3, <3>5
    <3> QED
      BY <3>4, <3>5
  <2> QED
    BY <1>4, <2>2, <2>3, <2>4 DEF OwnerInv
<1>7. SeenInv'
  <2>1. ASSUME NEW r \in Strings, NEW x, NEW t, x = str[r], t = want[r], x.at \notin freed
        PROVE  /\ x.at \in Kept' /\ Memory(x.at)' = Memory(x.at)
               /\ x.off + x.len <= Len(Memory(x.at)) /\ TextOf(x, Memory(x.at)) = t
    <3>1. /\ x.at \in Kept /\ x.at \in Blocks \cup {"line", NoBlock}
          /\ x.off + x.len <= Len(Memory(x.at)) /\ TextOf(x, Memory(x.at)) = t
      BY <2>1, StringFacts DEF Text, Strs
    <3>2. Memory(x.at)' = Memory(x.at)
      BY <1>4, <2>1, <3>1, Zenon DEF Memory
    <3> QED
      BY <1>4, <2>1, <3>1, <3>2 DEF Kept
  <2>2. Seen(str[a], want[a])'
    <3>1. PICK x, t : x = str[b] /\ t = want[b]
      OBVIOUS
    <3>2. str'[a] = x /\ want'[a] = t /\ x.at \notin freed
      BY <1>2, <1>3, <3>1
    <3>3. /\ x.at \in Kept' /\ Memory(x.at)' = Memory(x.at)
          /\ x.off + x.len <= Len(Memory(x.at)) /\ TextOf(x, Memory(x.at)) = t
      BY <2>1, <3>1, <3>2
    <3> QED
      BY <3>2, <3>3 DEF Seen, TextOf
  <2>3. ASSUME NEW r \in Strings, r # a, r \in gone \cup {b} PROVE Seen(str[r], want[r])'
    BY <1>2, <2>3 DEF Seen, Kept, Empty, Memory, TextOf
  <2>4. ASSUME NEW r \in Strings, r # a, r \notin gone \cup {b} PROVE Seen(str[r], want[r])'
    <3>1. str[r].at \notin freed /\ str'[r] = str[r] /\ want'[r] = want[r]
      BY <1>2, <2>4
    <3> QED
      BY <3>1, <2>1 DEF Seen, TextOf
  <2> QED
    BY <2>2, <2>3, <2>4 DEF SeenInv
<1> QED
  BY <1>5, <1>6, <1>7 DEF DstrInv

-----------------------------------------------------------------------------
(* Cutting in two.                                                         *)

\* The two strings of a cut.
LEMMA TwoKeep ==
    ASSUME DstrInv, NEW a \in Strings, NEW b \in Strings, a # b,
           NEW x \in Strs, NEW y \in Strs, NEW t \in Seq(Chars), NEW u \in Seq(Chars),
           CutInto(a, b, x, y, u, t),
           x.own <=> str[a].own, str[a].own => x.at = str[a].at /\ x.off = str[a].off, ~y.own,
           Seen(x, t), Seen(y, u)
    PROVE  DstrInv'
<1>1. /\ ~str[b].own /\ UNCHANGED <<bytes, allocated, lost, badfree>>
      /\ str' = [str EXCEPT ![a] = x, ![b] = y]
      /\ want' = [want EXCEPT ![a] = t, ![b] = u]
  BY DEF CutInto
<1>2. str \in [Strings -> Strs] /\ want \in [Strings -> Seq(Chars)]
  BY DEF DstrInv, DTypeOK
<1>3. /\ str' \in [Strings -> Strs] /\ want' \in [Strings -> Seq(Chars)]
      /\ str'[a] = x /\ str'[b] = y /\ want'[a] = t /\ want'[b] = u
      /\ \A r \in Strings \ {a, b} : str'[r] = str[r] /\ want'[r] = want[r]
  BY <1>1, <1>2
<1>4. \A r \in Strings : /\ str'[r].own <=> str[r].own
                         /\ str[r].own => str'[r].at = str[r].at /\ str'[r].off = str[r].off
                         /\ Seen(str'[r], want'[r])
  BY <1>1, <1>3 DEF DstrInv, SeenInv
<1> QED
  BY <1>1, <1>3, <1>4, ViewsKeep

\* memchr and memrchr find the first and the last separator.
LEMMA MarkFacts ==
    ASSUME NEW t \in Seq(Chars), Marks(t) # {}
    PROVE  FirstMark(t) \in 1 .. Len(t) /\ LastMark(t) \in 1 .. Len(t)
<1>1. Marks(t) \in SUBSET Nat /\ Marks(t) \in SUBSET (1 .. Len(t)) /\ Len(t) \in Nat
  BY DEF Marks
<1>2. \E i \in Marks(t) : \A k \in Marks(t) : i <= k
  BY <1>1, Minimum
<1>3. \E i \in Marks(t) : \A k \in Marks(t) : k <= i
  BY <1>1, Maximum
<1>4. FirstMark(t) \in Marks(t)
  BY <1>2, Zenon DEF FirstMark
<1>5. LastMark(t) \in Marks(t)
  BY <1>3, Zenon DEF LastMark
<1> QED
  BY <1>1, <1>4, <1>5

\* The whole, nothing, and the rest of a text.
LEMMA LastPieces ==
    ASSUME NEW t \in Seq(Chars)
    PROVE  SubSeq(t, 1, Len(t)) = t /\ SubSeq(t, Len(t) + 1, Len(t)) = <<>>
OBVIOUS

\* Arithmetic of the cuts.
LEMMA Sums ==
    ASSUME NEW l \in Nat, NEW num \in 0 .. l, NEW o \in Nat
    PROVE  /\ num \in Nat /\ l - num \in Nat /\ o + num \in Nat
           /\ (l - num) + num = l /\ num + (l - num) = l
           /\ 0 + (l - num) <= l /\ 0 + num <= l /\ (l - num) + num <= l /\ num + (l - num) <= l
OBVIOUS

\* DSTR_get_first_dstr.
LEMMA FirstKeeps ==
    ASSUME DstrInv, NEW a \in Strings, NEW b \in Strings, a # b, NEW shift \in BOOLEAN,
           DSTR_get_first_dstr(a, b, shift)
    PROVE  DstrInv'
<1> DEFINE w == want[a]
           l == str[a].len
           num == FirstLength(a)
           by == IF shift THEN Least(num[2], l) ELSE 0
           left == IF shift THEN AfterFirst(w) ELSE w
<1>1. /\ str[a] \in Strs /\ w \in Seq(Chars) /\ Len(w) = l /\ l \in Nat /\ Text(a) = w
      /\ str[a].own \in BOOLEAN /\ str[a].off \in Nat /\ (shift => ~str[a].own)
  BY StringFacts DEF Strs, DSTR_get_first_dstr
<1>2. CutInto(a, b, [str[a] EXCEPT !.off = @ + by, !.len = @ - by], Piece(a, 0, num[1]), FirstPiece(w), left)
  BY Zenon DEF DSTR_get_first_dstr
<1>3. /\ by \in 0 .. l /\ num[1] \in 0 .. l
      /\ left = SubSeq(w, by + 1, by + (l - by))
      /\ FirstPiece(w) = SubSeq(w, 0 + 1, 0 + num[1])
  <2>1. CASE Marks(w) = {}
    <3>1. num = <<l, l>>
      BY <1>1, <2>1 DEF FirstLength
    <3>2. FirstPiece(w) = w /\ AfterFirst(w) = <<>>
      BY <2>1 DEF FirstPiece, AfterFirst
    <3>3. by = (IF shift THEN l ELSE 0) /\ num[1] = l
      BY <1>1, <3>1 DEF Least
    <3>4. by + (l - by) = l
      BY <1>1, <3>3
    <3> HIDE DEF w, l, num, by
    <3> QED
      BY <1>1, <3>2, <3>3, <3>4, LastPieces DEF left
  <2>2. CASE Marks(w) # {}
    <3> DEFINE f == FirstMark(w)
    <3>1. f \in 1 .. l
      BY <1>1, <2>2, MarkFacts
    <3>2. num = <<f - 1, f>>
      <4>1. num = <<f - 1, (f - 1) + 1>>
        <5>1. Marks(Text(a)) # {} /\ FirstMark(Text(a)) = f
          BY <1>1, <2>2
        <5> HIDE DEF f
        <5> QED
          BY <5>1, Zenon DEF FirstLength
      <4> QED
        BY <3>1, <4>1
    <3>3. FirstPiece(w) = SubSeq(w, 1, f - 1) /\ AfterFirst(w) = SubSeq(w, f + 1, l)
      BY <1>1, <2>2 DEF FirstPiece, AfterFirst
    <3> HIDE DEF f
    <3>4. by = (IF shift THEN f ELSE 0) /\ num[1] = f - 1
      BY <1>1, <3>1, <3>2 DEF Least
    <3>5. by + (l - by) = l /\ 0 + (f - 1) = f - 1
      BY <1>1, <3>1, <3>4
    <3> HIDE DEF w, l, num, by
    <3> QED
      BY <1>1, <3>1, <3>3, <3>4, <3>5, LastPieces DEF left
  <2> QED
    BY <2>1, <2>2
<1> HIDE DEF by, num, left
<1> DEFINE x == [at |-> str[a].at, off |-> str[a].off + by, len |-> l - by, own |-> str[a].own]
           y == [at |-> str[a].at, off |-> str[a].off + 0, len |-> num[1], own |-> FALSE]
<1>4. [str[a] EXCEPT !.off = @ + by, !.len = @ - by] = x
  <2>1. str[a].off + by \in Nat /\ l - by \in Nat
    BY <1>1, <1>3, Sums
  <2> QED
    BY <1>1, <2>1, Moves, Zenon
<1>5. Piece(a, 0, num[1]) = y
  BY DEF Piece
<1>6. by \in Nat /\ l - by \in Nat /\ by + (l - by) <= l /\ num[1] \in Nat /\ 0 + num[1] <= l
  BY <1>1, <1>3, Sums
<1>7. x.own = str[a].own /\ (str[a].own => x.at = str[a].at /\ x.off = str[a].off) /\ ~y.own
  BY <1>1 DEF by
<1>8. x \in Strs /\ Seen(x, left) /\ left \in Seq(Chars)
  <2> HIDE DEF w
  <2>1. x = [at |-> str[a].at, off |-> str[a].off + by, len |-> l - by, own |-> str[a].own]
    OBVIOUS
  <2> HIDE DEF x
  <2>2. /\ x \in Strs /\ Seen(x, SubSeq(want[a], by + 1, by + (l - by)))
        /\ SubSeq(want[a], by + 1, by + (l - by)) \in Seq(Chars)
    BY <1>1, <1>6, <2>1, PartSeen
  <2> QED
    BY <1>3, <2>2 DEF w
<1>9. y \in Strs /\ Seen(y, FirstPiece(w)) /\ FirstPiece(w) \in Seq(Chars)
  <2> HIDE DEF w
  <2>1. y = [at |-> str[a].at, off |-> str[a].off + 0, len |-> num[1], own |-> FALSE]
    OBVIOUS
  <2> HIDE DEF y
  <2>2. /\ y \in Strs /\ Seen(y, SubSeq(want[a], 0 + 1, 0 + num[1]))
        /\ SubSeq(want[a], 0 + 1, 0 + num[1]) \in Seq(Chars)
    BY <1>6, <2>1, PartSeen
  <2> QED
    BY <1>3, <2>2 DEF w
<1>10. CutInto(a, b, x, y, FirstPiece(w), left)
  BY <1>2, <1>4, <1>5
<1> HIDE DEF x, y, w
<1> QED
  BY <1>7, <1>8, <1>9, <1>10, TwoKeep

\* DSTR_get_last_dstr.
LEMMA LastKeeps ==
    ASSUME DstrInv, NEW a \in Strings, NEW b \in Strings, a # b, NEW shift \in BOOLEAN,
           DSTR_get_last_dstr(a, b, shift)
    PROVE  DstrInv'
<1> DEFINE w == want[a]
           l == str[a].len
           num == IF Marks(w) = {} THEN l ELSE l - LastMark(w)
           by == IF ~shift THEN 0 ELSE IF Marks(w) = {} THEN num ELSE num + 1
           left == IF shift THEN BeforeLast(w) ELSE w
<1>1. /\ str[a] \in Strs /\ w \in Seq(Chars) /\ Len(w) = l /\ l \in Nat /\ Text(a) = w
      /\ str[a].own \in BOOLEAN /\ str[a].off \in Nat
  BY StringFacts DEF Strs
<1>2. CutInto(a, b, [str[a] EXCEPT !.len = @ - by], Piece(a, l - num, num), LastPiece(w), left)
  <2>1. Text(a) = w
    BY <1>1
  <2> QED
    BY <2>1, Zenon DEF DSTR_get_last_dstr
<1>3. /\ by \in 0 .. l /\ num \in 0 .. l
      /\ left = SubSeq(w, 0 + 1, 0 + (l - by))
      /\ LastPiece(w) = SubSeq(w, (l - num) + 1, (l - num) + num)
  <2>1. CASE Marks(w) = {}
    <3>1. num = l /\ by = (IF shift THEN l ELSE 0)
      BY <2>1
    <3>2. LastPiece(w) = w /\ BeforeLast(w) = <<>>
      BY <2>1 DEF LastPiece, BeforeLast
    <3>3. SubSeq(w, 1, 0) = <<>>
      OBVIOUS
    <3>4. l - 0 = l /\ l - l = 0 /\ 0 + l = l /\ 0 + 0 = 0 /\ 0 + 1 = 1
      BY <1>1
    <3> HIDE DEF w, l, num, by
    <3>5. LastPiece(w) = SubSeq(w, (l - num) + 1, (l - num) + num)
      BY <1>1, <3>1, <3>2, <3>4, LastPieces
    <3>6. left = SubSeq(w, 0 + 1, 0 + (l - by))
      <4>1. CASE shift
        BY <3>1, <3>2, <3>3, <3>4, <4>1 DEF left
      <4>2. CASE ~shift
        BY <1>1, <3>1, <3>4, <4>2, LastPieces DEF left
      <4> QED
        BY <4>1, <4>2
    <3> QED
      BY <1>1, <3>1, <3>5, <3>6
  <2>2. CASE Marks(w) # {}
    <3> DEFINE f == LastMark(w)
    <3>1. f \in 1 .. l
      BY <1>1, <2>2, MarkFacts
    <3>2. num = l - f /\ by = (IF shift THEN l - f + 1 ELSE 0)
      BY <2>2
    <3>3. LastPiece(w) = SubSeq(w, f + 1, l) /\ BeforeLast(w) = SubSeq(w, 1, f - 1)
      BY <1>1, <2>2 DEF LastPiece, BeforeLast
    <3> HIDE DEF f
    <3> HIDE DEF w, l, num, by
    <3>4. l - num = f /\ (l - num) + num = l /\ l - by = (IF shift THEN f - 1 ELSE l)
      BY <1>1, <3>1, <3>2
    <3>5. LastPiece(w) = SubSeq(w, (l - num) + 1, (l - num) + num)
      BY <3>3, <3>4
    <3>6. left = SubSeq(w, 0 + 1, 0 + (l - by))
      BY <1>1, <3>1, <3>3, <3>4, LastPieces DEF left
    <3> QED
      BY <1>1, <3>1, <3>2, <3>5, <3>6
  <2> QED
    BY <2>1, <2>2
<1> HIDE DEF by, num, left
<1> DEFINE x == [at |-> str[a].at, off |-> str[a].off + 0, len |-> l - by, own |-> str[a].own]
           y == [at |-> str[a].at, off |-> str[a].off + (l - num), len |-> num, own |-> FALSE]
<1>4. [str[a] EXCEPT !.len = @ - by] = x
  BY <1>1 DEF Strs
<1>5. Piece(a, l - num, num) = y
  BY DEF Piece
<1>6. /\ l - by \in Nat /\ 0 + (l - by) <= l /\ num \in Nat /\ l - num \in Nat /\ (l - num) + num <= l
  BY <1>1, <1>3, Sums
<1>7. x.own = str[a].own /\ x.at = str[a].at /\ x.off = str[a].off /\ ~y.own
  BY <1>1
<1>8. x \in Strs /\ Seen(x, left) /\ left \in Seq(Chars)
  <2> HIDE DEF w
  <2>1. x = [at |-> str[a].at, off |-> str[a].off + 0, len |-> l - by, own |-> str[a].own]
    OBVIOUS
  <2> HIDE DEF x
  <2>2. /\ x \in Strs /\ Seen(x, SubSeq(want[a], 0 + 1, 0 + (l - by)))
        /\ SubSeq(want[a], 0 + 1, 0 + (l - by)) \in Seq(Chars)
    BY <1>1, <1>6, <2>1, PartSeen
  <2> QED
    BY <1>3, <2>2 DEF w
<1>9. y \in Strs /\ Seen(y, LastPiece(w)) /\ LastPiece(w) \in Seq(Chars)
  <2> HIDE DEF w
  <2>1. y = [at |-> str[a].at, off |-> str[a].off + (l - num), len |-> num, own |-> FALSE]
    OBVIOUS
  <2> HIDE DEF y
  <2>2. /\ y \in Strs /\ Seen(y, SubSeq(want[a], (l - num) + 1, (l - num) + num))
        /\ SubSeq(want[a], (l - num) + 1, (l - num) + num) \in Seq(Chars)
    BY <1>6, <2>1, PartSeen
  <2> QED
    BY <1>3, <2>2 DEF w
<1>10. CutInto(a, b, x, y, LastPiece(w), left)
  BY <1>2, <1>4, <1>5
<1> HIDE DEF x, y, w
<1> QED
  BY <1>7, <1>8, <1>9, <1>10, TwoKeep

-----------------------------------------------------------------------------
(* Writing.                                                                *)

\* Three pieces one behind the other.
LEMMA Three ==
    ASSUME NEW skip \in Seq(Chars), NEW q \in Seq(Chars), NEW r \in Seq(Chars)
    PROVE  /\ (skip \o q) \o r \in Seq(Chars) /\ Len((skip \o q) \o r) = Len(skip) + Len(q) + Len(r)
           /\ \A i \in 1 .. Len(skip) + Len(q) + Len(r) :
                 ((skip \o q) \o r)[i] = IF i <= Len(skip) THEN skip[i]
                                      ELSE IF i <= Len(skip) + Len(q) THEN q[i - Len(skip)]
                                      ELSE r[i - Len(skip) - Len(q)]
<1>1. /\ skip \o q \in Seq(Chars) /\ Len(skip \o q) = Len(skip) + Len(q)
      /\ \A i \in 1 .. Len(skip) + Len(q) :
            (skip \o q)[i] = IF i <= Len(skip) THEN skip[i] ELSE q[i - Len(skip)]
  BY Joined
<1> DEFINE pq == skip \o q
<1>2. /\ pq \in Seq(Chars) /\ Len(pq) = Len(skip) + Len(q)
      /\ \A i \in 1 .. Len(skip) + Len(q) :
            pq[i] = IF i <= Len(skip) THEN skip[i] ELSE q[i - Len(skip)]
  BY <1>1
<1> HIDE DEF pq
<1>3. /\ pq \o r \in Seq(Chars) /\ Len(pq \o r) = Len(pq) + Len(r)
      /\ \A i \in 1 .. Len(pq) + Len(r) :
            (pq \o r)[i] = IF i <= Len(pq) THEN pq[i] ELSE r[i - Len(pq)]
  <2>1. pq \in Seq(Chars)
    BY <1>2
  <2> QED
    BY <2>1, Joined, Zenon
<1>4. /\ pq \o r \in Seq(Chars) /\ Len(pq \o r) = Len(skip) + Len(q) + Len(r)
      /\ \A i \in 1 .. Len(skip) + Len(q) + Len(r) :
            (pq \o r)[i] = IF i <= Len(skip) THEN skip[i]
                           ELSE IF i <= Len(skip) + Len(q) THEN q[i - Len(skip)]
                           ELSE r[i - Len(skip) - Len(q)]
  BY <1>2, <1>3
<1> QED
  BY <1>4 DEF pq

\* Bytes d written behind place num of an owner, inside of its length.
LEMMA WrittenText ==
    ASSUME DstrInv, NEW s \in Strings, str[s].own, NEW num \in Nat, NEW d \in Seq(Chars),
           num + Len(d) <= str[s].len
    PROVE  LET b == Written(s, num, d)
               t == SubSeq(want[s], 1, num) \o d \o SubSeq(want[s], num + Len(d) + 1, Len(want[s]))
           IN /\ b \in Seq(Chars) /\ Len(b) = Len(bytes[str[s].at])
              /\ t \in Seq(Chars) /\ SubSeq(b, 1, str[s].len) = t
<1> DEFINE m == bytes[str[s].at]
           l == str[s].len
           w == want[s]
           b == Written(s, num, d)
           t == SubSeq(w, 1, num) \o d \o SubSeq(w, num + Len(d) + 1, Len(w))
<1>1. /\ m \in Seq(Chars) /\ l \in Nat /\ l <= Len(m) /\ str[s].off = 0
      /\ w = SubSeq(m, 1, l) /\ w \in Seq(Chars) /\ Len(w) = l
  <2>1. /\ str[s].at # NoBlock /\ str[s].off = 0 /\ str[s].len \in Nat /\ str[s].at \in Blocks
    BY StringFacts DEF Strs
  <2>2. Memory(str[s].at) = m
    BY <2>1 DEF Memory
  <2>3. 0 + 1 = 1 /\ 0 + str[s].len = str[s].len
    BY <2>1
  <2>4. w = SubSeq(m, 1, l)
    BY <2>1, <2>2, <2>3, StringFacts DEF Text, TextOf
  <2>5. m \in Seq(Chars) /\ l <= Len(m) /\ w \in Seq(Chars) /\ Len(w) = l
    BY <2>1, <2>2, <2>3, StringFacts
  <2> QED
    BY <2>1, <2>4, <2>5
<1>2. b = [i \in DOMAIN m |-> IF i - num \in DOMAIN d THEN d[i - num] ELSE m[i]]
  <2>1. \A i \in DOMAIN m : i - num - str[s].off = i - num
    BY <1>1
  <2>2. b = [i \in DOMAIN m |-> IF i - num - str[s].off \in DOMAIN d THEN d[i - num - str[s].off] ELSE m[i]]
    BY Zenon DEF Written
  <2> HIDE DEF m, b
  <2> QED
    BY <2>1, <2>2
<1> HIDE DEF m, w, b
<1>3. /\ b \in Seq(Chars) /\ Len(b) = Len(m)
      /\ \A i \in 1 .. Len(m) : b[i] = IF i \in num + 1 .. num + Len(d) THEN d[i - num] ELSE m[i]
  <2>1. \A i \in 1 .. Len(m) : (IF i - num \in DOMAIN d THEN d[i - num] ELSE m[i]) \in Chars
    BY <1>1
  <2>2. DOMAIN m = 1 .. Len(m) /\ Len(m) \in Nat
    BY <1>1
  <2>3. b \in [1 .. Len(m) -> Chars]
    BY <1>2, <2>1, <2>2
  <2>4. b \in Seq(Chars) /\ Len(b) = Len(m)
    BY <2>2, <2>3
  <2>5. \A i \in 1 .. Len(m) : i - num \in DOMAIN d <=> i \in num + 1 .. num + Len(d)
    OBVIOUS
  <2>6. \A i \in 1 .. Len(m) : b[i] = IF i - num \in DOMAIN d THEN d[i - num] ELSE m[i]
    BY <1>2, <2>2
  <2> QED
    BY <2>4, <2>5, <2>6
<1> DEFINE skip == SubSeq(w, 1, num)
           r == SubSeq(w, num + Len(d) + 1, Len(w))
           half == num + Len(d)
<1>4. half \in Nat /\ num <= half /\ half <= l /\ half = num + Len(d) /\ Len(d) \in Nat
  OBVIOUS
<1>5. skip \in Seq(Chars) /\ Len(skip) = num /\ \A i \in 1 .. num : skip[i] = m[i]
  BY <1>1, <1>4
<1>6. r \in Seq(Chars) /\ Len(r) = l - half /\ \A i \in 1 .. l - half : r[i] = m[half + i]
  <2> HIDE DEF l, half
  <2>1. r = SubSeq(w, half + 1, l)
    BY <1>1, <1>4
  <2>2. SubSeq(w, half + 1, l) \in Seq(Chars) /\ Len(SubSeq(w, half + 1, l)) = l - half
        /\ \A i \in 1 .. l - half : SubSeq(w, half + 1, l)[i] = w[half + i] /\ half + i \in 1 .. l
    BY <1>1, <1>4
  <2>3. \A i \in 1 .. l : w[i] = m[i]
    BY <1>1
  <2> HIDE DEF r
  <2> QED
    BY <2>1, <2>2, <2>3
<1>7. t = (skip \o d) \o r
  OBVIOUS
<1> HIDE DEF skip, r, t, l, half
<1>8. /\ t \in Seq(Chars) /\ Len(t) = l
      /\ \A i \in 1 .. l : t[i] = IF i <= num THEN skip[i] ELSE IF i <= half THEN d[i - num] ELSE r[i - half]
  <2>1. num + Len(d) + Len(r) = l /\ Len(skip) + Len(d) = half
        /\ \A i \in 1 .. l : i - Len(skip) - Len(d) = i - half
    BY <1>1, <1>4, <1>5, <1>6
  <2> DEFINE v == (skip \o d) \o r
  <2>2. /\ v \in Seq(Chars) /\ Len(v) = Len(skip) + Len(d) + Len(r)
        /\ \A i \in 1 .. Len(skip) + Len(d) + Len(r) :
              v[i] = IF i <= Len(skip) THEN skip[i]
                     ELSE IF i <= Len(skip) + Len(d) THEN d[i - Len(skip)]
                     ELSE r[i - Len(skip) - Len(d)]
    BY <1>5, <1>6, Three
  <2> HIDE DEF v
  <2>3. Len(skip) = num /\ t = v
    BY <1>5, <1>7 DEF v
  <2> QED
    BY <2>1, <2>2, <2>3
<1>9. \A i \in 1 .. l : t[i] = b[i]
  <2>1. \A i \in 1 .. l : i <= num => t[i] = b[i]
    BY <1>1, <1>3, <1>4, <1>5, <1>8
  <2>2. \A i \in 1 .. l : i > num /\ i <= half => t[i] = b[i]
    <3>1. \A i \in 1 .. l : i > num /\ i <= half => i \in num + 1 .. num + Len(d) /\ ~(i <= num) /\ i \in 1 .. Len(m)
      BY <1>1, <1>4
    <3> QED
      BY <1>3, <1>8, <3>1
  <2>3. \A i \in 1 .. l : i > half => t[i] = b[i]
    <3>1. \A i \in 1 .. l : i > half => i - half \in 1 .. l - half /\ half + (i - half) = i
                                     /\ i > num /\ i \notin num + 1 .. num + Len(d) /\ i \in 1 .. Len(m)
      BY <1>1, <1>4
    <3> QED
      BY <1>3, <1>4, <1>6, <1>8, <3>1
  <2> QED
    BY <1>1, <1>4, <2>1, <2>2, <2>3
<1>10. SubSeq(b, 1, l) = t
  <2>1. /\ SubSeq(b, 1, l) \in Seq(Chars) /\ Len(SubSeq(b, 1, l)) = l
        /\ \A i \in 1 .. l : SubSeq(b, 1, l)[i] = b[i]
    BY <1>1, <1>3
  <2> QED
    BY <1>8, <1>9, <2>1, SameText
<1> QED
  BY <1>3, <1>8, <1>10 DEF b, t, l, m, w

\* An owner writes; the views of its memory see it.
LEMMA FillKeeps ==
    ASSUME DstrInv, NEW s \in Strings, str[s].own, NEW d \in Seq(Chars), NEW t \in Seq(Chars),
           Len(d) = Len(bytes[str[s].at]), SubSeq(d, 1, str[s].len) = t, Fill(s, d, t),
           UNCHANGED <<str, allocated, lost, badfree>>
    PROVE  DstrInv'
<1>1. /\ str[s].at \in Blocks /\ str[s].at # NoBlock /\ str[s].at # "line"
      /\ str[s].off = 0 /\ str[s].len \in Nat /\ 0 + 1 = 1 /\ 0 + str[s].len = str[s].len
  BY StringFacts, StringAssumption DEF Strs
<1>2. /\ bytes' \in [Blocks \cup {"line"} -> Seq(Chars)] /\ bytes'[str[s].at] = d
      /\ \A j \in Blocks \cup {"line"} : j # str[s].at => bytes'[j] = bytes[j]
  BY <1>1 DEF Fill, DstrInv, DTypeOK
<1>3. ASSUME NEW r \in Strings
      PROVE  /\ want'[r] \in Seq(Chars) /\ Seen(str[r], want[r])'
  <2>1. /\ str[r].at \in Kept /\ str[r].off \in Nat /\ str[r].len \in Nat
        /\ str[r].at \in Blocks \cup {"line", NoBlock} /\ want[r] \in Seq(Chars)
        /\ str[r].off + str[r].len <= Len(Memory(str[r].at)) /\ Text(r) = want[r]
    BY StringFacts DEF Strs
  <2>2. want'[r] = IF r = s THEN t ELSE IF str[r].at = str[s].at THEN TextOf(str[r], d) ELSE want[r]
    BY DEF Fill
  <2>3. str'[r].at \in Kept' /\ str'[r] = str[r]
    BY <2>1 DEF Kept
  <2>4. CASE str[r].at = str[s].at
    <3>1. Memory(str[r].at) = bytes[str[s].at] /\ Memory(str[r].at)' = d
      BY <1>1, <1>2, <2>3, <2>4 DEF Memory
    <3>2. want'[r] = TextOf(str[r], d)
      BY <1>1, <2>2, <2>4 DEF TextOf
    <3>3. want'[r] \in Seq(Chars)
      <4>1. str[r].off + str[r].len <= Len(d)
        BY <2>1, <3>1
      <4>2. ASSUME NEW o \in Nat, NEW l \in Nat, o + l <= Len(d)
            PROVE  SubSeq(d, o + 1, o + l) \in Seq(Chars)
        BY <4>2
      <4> QED
        BY <2>1, <3>2, <4>1, <4>2 DEF TextOf
    <3> QED
      BY <2>1, <2>3, <3>1, <3>2, <3>3 DEF Seen, TextOf
  <2>5. CASE str[r].at # str[s].at
    <3>1. want'[r] = want[r]
      BY <2>2, <2>5
    <3>2. str[r].at # NoBlock => bytes'[str[r].at] = bytes[str[r].at]
      BY <1>2, <2>1, <2>5
    <3> QED
      BY <2>1, <3>1, <3>2, StillSeen
  <2> QED
    BY <2>4, <2>5
<1>4. want' \in [Strings -> Seq(Chars)]
  <2>1. want' = [r \in Strings |-> IF r = s THEN t ELSE
                                   IF str[r].at = str[s].at THEN TextOf(str[r], d) ELSE want[r]]
    BY DEF Fill
  <2>2. \A r \in Strings : want'[r] \in Seq(Chars)
    BY <1>3
  <2> QED
    BY <2>1, <2>2, Zenon
<1>5. DTypeOK'
  BY <1>1, <1>2, <1>4 DEF DstrInv, DTypeOK
<1>6. OwnerInv'
  <2>1. ~badfree'
    BY Zenon DEF DstrInv, OwnerInv
  <2> QED
    BY <2>1 DEF DstrInv, OwnerInv
<1>7. SeenInv'
  BY <1>3 DEF SeenInv
<1> QED
  BY <1>5, <1>6, <1>7 DEF DstrInv

\* DSTR_copy_str and DSTR_copy_bytes.
LEMMA CopyStrKeeps ==
    ASSUME DstrInv, NEW a \in Strings, NEW b \in Strings, DSTR_copy_str(a, b)
    PROVE  DstrInv'
<1> DEFINE j == Least(str[a].len, str[b].len)
           d == SubSeq(Text(b), 1, j)
           t == SubSeq(want[a], 1, 0) \o d \o SubSeq(want[a], 0 + Len(d) + 1, Len(want[a]))
<1>1. /\ str[a].len \in Nat /\ str[b].len \in Nat /\ Text(b) \in Seq(Chars)
      /\ Len(Text(b)) = str[b].len /\ want[a] \in Seq(Chars)
  BY StringFacts DEF Strs
<1>2. j \in Nat /\ j <= str[a].len /\ j <= str[b].len
  BY <1>1 DEF Least
<1>3. d \in Seq(Chars) /\ Len(d) = j
  <2> HIDE DEF j
  <2> QED
    BY <1>1, <1>2
<1>4. str[a].own /\ UNCHANGED <<str, allocated, lost, badfree>>
      /\ Fill(a, Written(a, 0, d), d \o SubSeq(want[a], Len(d) + 1, Len(want[a])))
  BY Zenon DEF DSTR_copy_str
<1> HIDE DEF d, j
<1>5. d \o SubSeq(want[a], Len(d) + 1, Len(want[a])) = t
  <2>1. SubSeq(want[a], 1, 0) = <<>> /\ 0 + Len(d) + 1 = Len(d) + 1 /\ <<>> \o d = d
    BY <1>1, <1>3
  <2> QED
    BY <2>1
<1>6. 0 + Len(d) <= str[a].len
  BY <1>2, <1>3
<1>7. /\ Written(a, 0, d) \in Seq(Chars) /\ Len(Written(a, 0, d)) = Len(bytes[str[a].at])
      /\ t \in Seq(Chars) /\ SubSeq(Written(a, 0, d), 1, str[a].len) = t
  BY <1>3, <1>4, <1>6, WrittenText
<1> HIDE DEF t
<1> QED
  BY <1>4, <1>5, <1>7, FillKeeps

\* strnlen finds the first zero, or none.
LEMMA UsedIn ==
    ASSUME NEW t \in Seq(Chars)
    PROVE  Used(t) \in 0 .. Len(t)
<1> DEFINE Z == {i \in DOMAIN t : t[i] = Nul}
<1>1. Z \in SUBSET Nat /\ Z \in SUBSET (1 .. Len(t)) /\ Len(t) \in Nat
  OBVIOUS
<1>2. Used(t) = IF Z = {} THEN Len(t) ELSE (CHOOSE i \in Z : \A k \in Z : i <= k) - 1
  BY Zenon DEF Used
<1> HIDE DEF Z
<1>3. Z # {} => (CHOOSE i \in Z : \A k \in Z : i <= k) \in Z
  <2>1. Z # {} => \E i \in Z : \A k \in Z : i <= k
    BY <1>1, Minimum
  <2> QED
    BY <2>1, Zenon
<1>4. CASE Z = {}
  BY <1>1, <1>2, <1>4
<1>5. CASE Z # {}
  <2> DEFINE m == CHOOSE i \in Z : \A k \in Z : i <= k
  <2>1. m \in 1 .. Len(t)
    BY <1>1, <1>3, <1>5
  <2>2. Used(t) = m - 1
    BY <1>2, <1>5, Zenon
  <2> HIDE DEF m
  <2> QED
    BY <1>1, <2>1, <2>2
<1> QED
  BY <1>4, <1>5

\* What DSTR_append adds is a text.
LEMMA AddedText ==
    ASSUME NEW s, NEW d \in Seq(Chars)
    PROVE  Added(s, d) \in Seq(Chars)
<1>1. <<Mark>> \in Seq(Chars)
  BY DEF Chars
<1> QED
  BY <1>1 DEF Added

\* DSTR_append with room.
LEMMA AppendInsideKeeps ==
    ASSUME DstrInv, NEW s \in Strings, NEW d \in Seq(Chars), AppendInside(s, d)
    PROVE  DstrInv'
<1> DEFINE e == Added(s, d)
           u == Used(want[s])
           num == u + Len(e)
           t == SubSeq(want[s], 1, u) \o e \o SubSeq(want[s], u + Len(e) + 1, Len(want[s]))
<1>1. Text(s) = want[s] /\ want[s] \in Seq(Chars) /\ str[s].len \in Nat /\ Len(want[s]) = str[s].len
  BY StringFacts DEF Strs
<1>2. e \in Seq(Chars) /\ u \in Nat
  BY <1>1, AddedText, UsedIn
<1>3. /\ str[s].own /\ u + Len(e) <= str[s].len /\ UNCHANGED <<str, allocated, lost, badfree>>
      /\ Fill(s, Written(s, u, e), t)
  BY <1>1 DEF AppendInside
<1> HIDE DEF e, u
<1>4. /\ Written(s, u, e) \in Seq(Chars) /\ Len(Written(s, u, e)) = Len(bytes[str[s].at])
      /\ t \in Seq(Chars) /\ SubSeq(Written(s, u, e), 1, str[s].len) = t
  BY <1>2, <1>3, WrittenText
<1> HIDE DEF t
<1> QED
  BY <1>3, <1>4, FillKeeps

\* DSTR_append without: the memory is new.
LEMMA AppendGrowsKeeps ==
    ASSUME DstrInv, NEW s \in Strings, NEW k \in Blocks, NEW d \in Seq(Chars), AppendGrows(s, d, k)
    PROVE  DstrInv'
<1> DEFINE new == SubSeq(want[s], 1, Used(want[s])) \o Added(s, d)
           x == [at |-> k, off |-> 0, len |-> Len(new), own |-> str[s].own]
<1>1. /\ Text(s) = want[s] /\ want[s] \in Seq(Chars) /\ str[s].own \in BOOLEAN
  BY StringFacts DEF Strs
<1>2. new \in Seq(Chars)
  <2>1. Used(want[s]) \in 0 .. Len(want[s]) /\ Added(s, d) \in Seq(Chars)
    BY <1>1, AddedText, UsedIn
  <2>2. SubSeq(want[s], 1, Used(want[s])) \in Seq(Chars)
    BY <1>1, <2>1
  <2> QED
    BY <2>1, <2>2
<1>3. /\ Reallocated(s, k) /\ Refilled(s, k, new) /\ Replace(s, x, new)
      /\ lost' = lost \cup (IF str[s].own THEN {} ELSE {k}) /\ badfree' = badfree
  BY <1>1 DEF AppendGrows
<1>4. PICK o \in BOOLEAN : o = str[s].own
  BY <1>1
<1>5. x = [at |-> k, off |-> 0, len |-> Len(new), own |-> o]
  BY <1>4
<1>6. lost' = lost \cup (IF o THEN {} ELSE {k})
  BY <1>3, <1>4
<1> HIDE DEF x, new
<1> QED
  BY <1>2, <1>3, <1>5, <1>6, RenewKeeps

-----------------------------------------------------------------------------
LEMMA DstrStep == DstrInv /\ [DNext]_dvars => DstrInv'
<1> SUFFICES ASSUME DstrInv, [DNext]_dvars PROVE DstrInv'
  OBVIOUS
<1>1. CASE UNCHANGED dvars
  <2>1. /\ UNCHANGED <<bytes, allocated, lost, badfree>> /\ str' = str /\ want' = want
    BY <1>1 DEF dvars
  <2>2. str \in [Strings -> Strs] /\ want \in [Strings -> Seq(Chars)]
        /\ \A s \in Strings : Seen(str[s], want[s])
    BY DEF DstrInv, DTypeOK, SeenInv
  <2> QED
    BY <2>1, <2>2, ViewsKeep
<1>2. ASSUME NEW s \in Strings,
             \/ DSTR_init(s) \/ DSTR_clear(s) \/ AllocFails(s)
             \/ \E off \in 0 .. Len(Line), many \in 0 .. Len(Line) : DSTR_set_bytes(s, off, many)
             \/ \E taken \in 1 .. Len(Line) : DSTR_shift(s, taken) \/ DSTR_shrink(s, taken)
             \/ \E k \in Blocks, num \in 1 .. MaxBytes : DSTR_alloc_str_raw(s, num, k)
      PROVE  DstrInv'
  <2>1. CASE DSTR_init(s)
    BY <2>1, EmptyKeeps DEF DSTR_init
  <2> QED
    BY <1>2, <2>1, ClearKeeps, FailKeeps, SetBytesKeeps, CutKeeps, AllocKeeps, Zenon
<1>3. ASSUME NEW s \in Strings, NEW d \in {<<c>> : c \in Range(Line)},
             \/ \E k \in Blocks : DSTR_set_own(s, k, d) \/ AppendGrows(s, d, k)
             \/ AppendInside(s, d)
      PROVE  DstrInv'
  <2>1. d \in Seq(Chars)
    BY LineText
  <2> QED
    BY <1>3, <2>1, OwnKeeps, AppendGrowsKeeps, AppendInsideKeeps, Zenon
<1>4. ASSUME NEW a \in Strings, NEW b \in Strings, a # b,
             \/ DSTR_move_str(a, b) \/ DSTR_copy_str(a, b)
             \/ \E flag \in BOOLEAN : \/ DSTR_set_str(a, b, flag)
                                      \/ DSTR_get_first_dstr(a, b, flag)
                                      \/ DSTR_get_last_dstr(a, b, flag)
      PROVE  DstrInv'
  BY <1>4, MoveStrKeeps, CopyStrKeeps, GiveKeeps, FirstKeeps, LastKeeps, Zenon
<1> QED
  BY <1>1, <1>2, <1>3, <1>4, Zenon DEF DNext

\* Through any sequence of calls of dstr.c, a string is a text that lies inside
\* of memory that is there, and what is not lost has one owner.
THEOREM DstrInvariant == DSpec => []DstrInv
BY DInitInv, DstrStep, PTL DEF DSpec

\* Memory has one owner and free gets only what malloc returned; a string holds
\* what setting, cutting, moving, copying and appending should leave.
THEOREM StringSoundHolds == DSpec => []StringSound
<1>1. DstrInv => StringSound
  <2> SUFFICES ASSUME DstrInv PROVE StringSound
    OBVIOUS
  <2>1. StringIsText
    BY StringFacts DEF StringIsText
  <2>2. ASSUME NEW k \in allocated
        PROVE  Cardinality({s \in Strings : str[s].own /\ str[s].at = k}) = IF k \in lost THEN 0 ELSE 1
    <3> DEFINE owners == {s \in Strings : str[s].own /\ str[s].at = k}
    <3>1. CASE k \in lost
      <4>1. owners = {}
        BY <3>1 DEF DstrInv, OwnerInv
      <4> QED
        BY <3>1, <4>1, FS_EmptySet
    <3>2. CASE k \notin lost
      <4>1. PICK s \in Strings : str[s].own /\ str[s].at = k
        BY <3>2 DEF DstrInv, OwnerInv
      <4>2. owners = {s}
        BY <4>1 DEF DstrInv, OwnerInv
      <4> HIDE DEF owners
      <4>3. Cardinality(owners) = 1
        BY <4>2, FS_Singleton
      <4> QED
        BY <3>2, <4>3 DEF owners
    <3> QED
      BY <3>1, <3>2
  <2>3. ~badfree /\ \A s \in Strings : str[s].own => str[s].at \in allocated /\ str[s].off = 0
    BY Zenon DEF DstrInv, OwnerInv
  <2> QED
    BY <2>1, <2>2, <2>3 DEF StringSound, OwnedOnce
<1> QED
  BY <1>1, DstrInvariant, PTL

=============================================================================
