------------------------------- MODULE MCList -------------------------------
(* List for TLC: two headers, four elements that move between them. *)
EXTENDS List

MCHead == [l \in Lists |-> <<"head", l>>]
MCTail == [l \in Lists |-> <<"tail", l>>]
=============================================================================
