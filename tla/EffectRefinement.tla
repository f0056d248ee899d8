---------------------------- MODULE EffectRefinement ----------------------------
(***************************************************************************)
(* The refinement of EffectContract by EffectGateway: one attempt was      *)
(* granted for each receipt, and one more while the row is running.        *)
(***************************************************************************)
EXTENDS EffectGateway

PhaseOf(r) ==
    CASE r.state \in SuccessStates -> "success"
      [] r.state = "dead_letter"   -> "dead"
      [] OTHER                     -> "open"

Left(r) == MaxAttempts - r.attempts

Granted(k) == Cardinality(receipts[k]) + (IF row[k].state = "running" THEN 1 ELSE 0)

Contract == INSTANCE EffectContract WITH
    phase   <- [k \in Keys |-> PhaseOf(row[k])],
    left    <- [k \in Keys |-> Left(row[k])],
    granted <- [k \in Keys |-> Granted(k)],
    fires   <- fires

\* The gateway implements the contract of support_desk/effects.py, crashes included:
\* budget, late calls, finality and renewal of every key.
ImplementsContract == Contract!Spec
=============================================================================
