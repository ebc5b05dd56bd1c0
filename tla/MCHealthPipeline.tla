--------------------------- MODULE MCHealthPipeline --------------------------
(* A small instance of HealthPipeline for TLC. *)
EXTENDS HealthPipeline, TLC

\* The checks of a unit all have the same retries here, so they are alike.
Alike == Permutations(Checks)
==============================================================================
