-------------------------------- MODULE List --------------------------------
(***************************************************************************)
(* lib/list: doubly linked lists.  A header embeds a head and a tail       *)
(* element, linked in a ring with the elements in between; an element      *)
(* knows the header it is on (NULL when it is on none).  These are the     *)
(* operations without the per-element locks (lock=0 in LIST_header_init):  *)
(* every list of the library is made that way and is protected by its      *)
(* owner's signal, so one call is one step.                                *)
(***************************************************************************)
EXTENDS Integers, FiniteSets, Sequences

CONSTANTS Lists,   \* list headers
          Elems,   \* elements the callers put on and take off lists
          head,    \* head[l], tail[l]: the elements embedded in header l
          tail,
          Null

ASSUME NodeAssumption ==
    /\ \A l \in Lists : head[l] \notin Elems /\ tail[l] \notin Elems /\ head[l] # tail[l]
    /\ \A l, k \in Lists : /\ head[l] = head[k] => l = k
                           /\ tail[l] = tail[k] => l = k
                           /\ head[l] # tail[k]
    /\ Null \notin Elems /\ Null \notin Lists
    /\ \A l \in Lists : Null # head[l] /\ Null # tail[l]
ASSUME ElemsFinite == IsFiniteSet(Elems)

Ends  == {head[l] : l \in Lists} \cup {tail[l] : l \in Lists}
Nodes == Elems \cup Ends

VARIABLES h,      \* h[x]: the header x is on
          n,      \* n[x]: next
          p,      \* p[x]: previous
          count   \* count[l]: number of elements on l

vars == <<h, n, p, count>>

\* LIST_header_init: an empty list is a ring of head and tail.  Elements start
\* as LIST_element_init(e, NULL) leaves them.
Init ==
    /\ h = [x \in Nodes |-> IF x \in Ends
                            THEN CHOOSE l \in Lists : x \in {head[l], tail[l]} ELSE Null]
    /\ n = [x \in Nodes |-> IF x \in Elems THEN Null
                            ELSE LET l == CHOOSE l \in Lists : x \in {head[l], tail[l]}
                                 IN IF x = head[l] THEN tail[l] ELSE head[l]]
    /\ p = n
    /\ count = [l \in Lists |-> 0]

-----------------------------------------------------------------------------
(* The links.  An element that is added is on no list: adding a listed one *)
(* would overwrite its links (LIST_element_init) and cut the ring.         *)

Unlisted(e) == h[e] = Null

\* Mutant: the next element keeps its link to the previous one.
LinkMutant(l, prev, e, next) ==
    /\ h' = [h EXCEPT ![e] = l]
    /\ n' = [n EXCEPT ![prev] = e, ![e] = next]
    /\ p' = [p EXCEPT ![e] = prev]
    /\ count' = [count EXCEPT ![l] = @ + 1]

\* The four assignments of the insert functions, then count++.
Link(l, prev, e, next) ==
    /\ h' = [h EXCEPT ![e] = l]
    /\ n' = [n EXCEPT ![prev] = e, ![e] = next]
    /\ p' = [p EXCEPT ![next] = e, ![e] = prev]
    /\ count' = [count EXCEPT ![l] = @ + 1]

\* cb_list_element_insert_after; head and tail have the same function, but
\* the tail's insert_after is cb_list_element_insert_null.
insert_after(prev, e) ==
    /\ h[prev] # Null
    /\ \A l \in Lists : prev # tail[l]
    /\ Unlisted(e)
    /\ Link(h[prev], prev, e, n[prev])

insert_before(next, e) ==
    /\ h[next] # Null
    /\ \A l \in Lists : next # head[l]
    /\ Unlisted(e)
    /\ Link(h[next], p[next], e, next)

\* Mutant: the header is not told that an element is gone.
removeMutant(e) ==
    /\ h[e] # Null
    /\ h' = [h EXCEPT ![e] = Null]
    /\ n' = [n EXCEPT ![p[e]] = n[e], ![e] = Null]
    /\ p' = [p EXCEPT ![n[e]] = p[e], ![e] = Null]
    /\ UNCHANGED count

\* cb_list_element_remove, then LIST_element_init(e, NULL) and count--.
remove(e) ==
    /\ h[e] # Null
    /\ h' = [h EXCEPT ![e] = Null]
    /\ n' = [n EXCEPT ![p[e]] = n[e], ![e] = Null]
    /\ p' = [p EXCEPT ![n[e]] = p[e], ![e] = Null]
    /\ count' = [count EXCEPT ![h[e]] = @ - 1]

\* get_self of the neighbour: head and tail answer NULL.
get_next(x) == IF h[x] = Null \/ n[x] \in Ends THEN Null ELSE n[x]
get_prev(x) == IF h[x] = Null \/ p[x] \in Ends THEN Null ELSE p[x]

-----------------------------------------------------------------------------
(* The functions of the header.                                            *)

LIST_header_get_first(l) == get_next(head[l])
LIST_header_get_last(l)  == get_prev(tail[l])

LIST_header_add_first(l, e) == insert_after(head[l], e)
LIST_header_add_last(l, e)  == insert_before(tail[l], e)

LIST_header_remove_first(l) ==
    /\ LIST_header_get_first(l) # Null
    /\ remove(LIST_header_get_first(l))

LIST_header_remove_last(l) ==
    /\ LIST_header_get_last(l) # Null
    /\ remove(LIST_header_get_last(l))

Next ==
    \/ \E x \in Elems, e \in Elems : insert_after(x, e) \/ insert_before(x, e)
    \/ \E e \in Elems : remove(e)
    \/ \E l \in Lists :
         \/ \E e \in Elems : LIST_header_add_first(l, e) \/ LIST_header_add_last(l, e)
         \/ LIST_header_remove_first(l)
         \/ LIST_header_remove_last(l)

Spec == Init /\ [][Next]_vars

-----------------------------------------------------------------------------
Listed(l) == {e \in Elems : h[e] = l}

\* Types of the variables; an element off every list has no links.
TypeOK ==
    /\ h \in [Nodes -> Lists \cup {Null}]
    /\ n \in [Nodes -> Nodes \cup {Null}]
    /\ p \in [Nodes -> Nodes \cup {Null}]
    /\ count \in [Lists -> Int]
    /\ \A x \in Nodes : h[x] = Null => n[x] = Null /\ p[x] = Null

\* The links of what is on a list, head and tail too, are each other's inverse
\* and stay on that list; before the head is the tail and after the tail the
\* head, so no walk runs from one list into another (insert.c, remove.c).
LinksInverse ==
    /\ \A x \in Nodes : h[x] # Null =>
          /\ n[x] \in Nodes /\ p[x] \in Nodes
          /\ p[n[x]] = x /\ n[p[x]] = x
          /\ h[n[x]] = h[x] /\ h[p[x]] = h[x]
    /\ \A l \in Lists : /\ h[head[l]] = l /\ h[tail[l]] = l
                         /\ p[head[l]] = tail[l] /\ n[tail[l]] = head[l]

\* h->count is the number of elements on the list: callers test count to see
\* whether there is work, and the writers' lock to see whether it is its turn.
CountExact == \A l \in Lists : count[l] = Cardinality(Listed(l))

\* The elements of a list, as a walk with get_next visits them and as a walk
\* with get_prev visits them.
WalkForw(l) ==
    LET at[i \in 0 .. Cardinality(Elems) + 1] == IF i = 0 THEN head[l] ELSE n[at[i - 1]]
    IN  [i \in 1 .. count[l] |-> at[i]]

WalkBack(l) ==
    LET at[i \in 0 .. Cardinality(Elems) + 1] == IF i = 0 THEN tail[l] ELSE p[at[i - 1]]
    IN  [i \in 1 .. count[l] |-> at[i]]

\* A list is the sequence that ListSeq says it is, walked forwards and walked
\* backwards (LIST_search_list_forw and _back).
Forw == INSTANCE ListSeq WITH seqs <- [l \in Lists |-> WalkForw(l)]
Back == INSTANCE ListSeq WITH seqs <-
            [l \in Lists |-> [i \in 1 .. count[l] |-> WalkBack(l)[count[l] + 1 - i]]]
ImplementsListSeq == Forw!Spec /\ Back!Spec
=============================================================================
