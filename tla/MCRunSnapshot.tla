----------------------------- MODULE MCRunSnapshot -----------------------------
(***************************************************************************)
(* Instances of RunSnapshot for TLC, over the plans of MCToolPlanning.     *)
(***************************************************************************)
EXTENDS MCToolPlanning, RunSnapshot
=============================================================================
