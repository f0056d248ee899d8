---------------------------- MODULE EffectContract ----------------------------
(***************************************************************************)
(* What support_desk/effects.py promises the approval loop about its       *)
(* durable keys, whoever calls it and whatever crashes: calls of an effect *)
(* are paid for in advance out of a budget that only an operator's replay  *)
(* renews, a success is never taken back, and the keys do not interfere.   *)
(***************************************************************************)
EXTENDS Naturals

CONSTANTS Keys, MaxAttempts

VARIABLES
    phase,       \* phase[k]: "open", "success" or "dead"
    left,        \* left[k]: attempts left in this cycle
    granted,     \* granted[k]: attempts granted so far, all cycles
    fires        \* fires[k]: calls of the effect so far

contractVars == <<phase, left, granted, fires>>

Init ==
    /\ phase   = [k \in Keys |-> "open"]
    /\ left    = [k \in Keys |-> MaxAttempts]
    /\ granted = [k \in Keys |-> 0]
    /\ fires   = [k \in Keys |-> 0]

Grant(k) ==
    /\ phase[k] = "open" /\ left[k] > 0
    /\ left'    = [left EXCEPT ![k] = @ - 1]
    /\ granted' = [granted EXCEPT ![k] = @ + 1]
    /\ UNCHANGED <<phase, fires>>

\* Late calls of attempts granted earlier may still happen in any phase.
Fire(k) ==
    /\ fires[k] < granted[k]
    /\ fires' = [fires EXCEPT ![k] = @ + 1]
    /\ UNCHANGED <<phase, left, granted>>

Succeed(k) ==
    /\ phase[k] = "open" /\ granted[k] > 0
    /\ phase' = [phase EXCEPT ![k] = "success"]
    /\ UNCHANGED <<left, granted, fires>>

\* Also before the budget is spent: a failure nobody may retry.
Die(k) ==
    /\ phase[k] = "open" /\ granted[k] > 0
    /\ phase' = [phase EXCEPT ![k] = "dead"]
    /\ UNCHANGED <<left, granted, fires>>

Renew(k) ==
    /\ phase[k] = "dead"
    /\ phase' = [phase EXCEPT ![k] = "open"]
    /\ left'  = [left EXCEPT ![k] = MaxAttempts]
    /\ UNCHANGED <<granted, fires>>

Next == \E k \in Keys : Grant(k) \/ Fire(k) \/ Succeed(k) \/ Die(k) \/ Renew(k)

Spec == Init /\ [][Next]_contractVars
=============================================================================
