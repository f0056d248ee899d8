---------------------------- MODULE MCApprovalRun ----------------------------
(***************************************************************************)
(* Model-checking instances of ApprovalRun: the plan of the deterministic  *)
(* planner (tools.py), cut to two or one of its three writes.              *)
(***************************************************************************)
EXTENDS ApprovalRun

CONSTANTS hold, case, notify

MCKind == [k \in Keys |-> IF k = hold THEN "hold" ELSE IF k = case THEN "case" ELSE "notify"]

HoldPlan  == <<hold, notify>>
ShortPlan == <<case, notify>>
CasePlan  == <<case>>
=============================================================================
