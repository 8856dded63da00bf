------------------------------ MODULE MCBEvent ------------------------------
(* BEvent for TLC: a fd watched as the library does it; two kinds of events, *)
(* of which one may be a close.                                              *)
EXTENDS BEvent

MCWatch == <<"readable", "pri", "close">>
MCHappens == {{"readable", "pri"}, {"readable", "close"}}
=============================================================================
