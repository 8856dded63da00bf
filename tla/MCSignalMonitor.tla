-------------------------- MODULE MCSignalMonitor ---------------------------
(* SignalMonitor for TLC: a few signals, small batches, a short queue. *)
EXTENDS SignalMonitor
=============================================================================
