------------------------------ MODULE ListSeq -------------------------------
(***************************************************************************)
(* What lib/list promises: every list header stands for a sequence of      *)
(* elements, an element is inserted next to another one or at an end, and  *)
(* taken out of any place, without disturbing the order of the others.     *)
(***************************************************************************)
EXTENDS SequencesExt

CONSTANTS Lists, Elems

VARIABLE seqs   \* seqs[l]: the elements of list l, first to last

Init == seqs = [l \in Lists |-> <<>>]

\* e becomes the element at position i.
Insert(l, i, e) ==
    /\ \A k \in Lists : e \notin Range(seqs[k])
    /\ seqs' = [seqs EXCEPT ![l] = InsertAt(seqs[l], i, e)]

Delete(l, i) == seqs' = [seqs EXCEPT ![l] = RemoveAt(seqs[l], i)]

Next == \E l \in Lists :
    \/ \E i \in 1 .. Len(seqs[l]) + 1, e \in Elems : Insert(l, i, e)
    \/ \E i \in 1 .. Len(seqs[l]) : Delete(l, i)

Spec == Init /\ [][Next]_seqs
=============================================================================
