------------------------------ MODULE MCPlanSync ------------------------------
(* Two plans: one task, then a connector plan whose tasks wait for it. *)
EXTENDS PlanSync

TwoPlans == <<1, 1>>
=============================================================================
