---------------------------- MODULE MCEventFlag -----------------------------
(* EventFlag for TLC: two threads, one lock bit, one state bit. *)
EXTENDS EventFlag
=============================================================================
