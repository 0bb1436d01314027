--------------------------- MODULE MCWorkerCycle ---------------------------
(* WorkerCycle on small instances. *)
EXTENDS WorkerCycle, TLC

Symmetry == Permutations(WorkerId)
=============================================================================
