--------------------------- MODULE MCMountMonitor ---------------------------
(* MountMonitor for TLC: three mounts, one line that cannot be parsed. *)
EXTENDS MountMonitor

MCUnreadable == {[id |-> 2, text |-> 1]}
=============================================================================
