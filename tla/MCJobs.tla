------------------------------- MODULE MCJobs -------------------------------
(* The pool of threads and the start sequence, whose actions are done by a  *)
(* job of it, for TLC: each one explored by itself.  Two workers, two       *)
(* putters and three jobs; up to three modules.                             *)
EXTENDS LocalThreads, Start

VARIABLE part       \* "pool" or "start"; never changes

JobsInit == /\ part \in {"pool", "start"}
            /\ Init /\ StartInit
            /\ part = "pool" => fd

PoolNext == part = "pool" /\ Next /\ UNCHANGED <<part, startvars>>
SequenceNext == part = "start" /\ StartNext /\ UNCHANGED <<part, vars>>

JobsSpec == JobsInit /\ [][PoolNext \/ SequenceNext]_<<part, vars, startvars>>

\* Each part with its own fairness.
JobsFair == /\ JobsSpec
            /\ part = "pool" => Fairness
            /\ part = "start" => StartFairness
=============================================================================
