--------------------------- MODULE MCMergePipeline ---------------------------
(* MergePipeline on small instances: the first packet of the merge order    *)
(* may be executed a second time.                                           *)
EXTENDS MergePipeline

Executions == [p \in Packet |-> IF p = 1 THEN 2 ELSE 1]
=============================================================================
