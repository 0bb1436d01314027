--------------------------- MODULE MCPlanningFlow ---------------------------
(* A small instance of PlanningFlow. *)
EXTENDS PlanningFlow
=============================================================================
