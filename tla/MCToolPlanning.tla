---------------------------- MODULE MCToolPlanning ----------------------------
(***************************************************************************)
(* Instances of ToolPlanning for TLC: the rule plans, of three or four     *)
(* calls; plans over the step limit, where no call is looked at, of one    *)
(* tool; and every plan of a model with at most MaxCalls calls whose i-th  *)
(* call is named like the first one, like a proposed action, or by a name  *)
(* of its own, without "notify", which has a proposed action just as       *)
(* "case" has.  When a hold is proposed it behaves like "case" too, and    *)
(* shorter plans are enough.  Two requests decide the case.                *)
(***************************************************************************)
EXTENDS ToolPlanning, TLC

CONSTANTS MaxCalls, q1, q2

TwoRequests == {q1, q2}
Symmetries   == Permutations(TwoRequests)

Names == <<"step-01", "step-02", "step-03", "step-04", "step-05">>

Steps  == [i \in 1 .. 4 |-> Names[i]]
Ids    == {Names[i] : i \in DOMAIN Names} \cup {"case-update"}
AllIds == Ids \cup {"billing-hold", "notify"}

TooLongPlans == {[i \in 1 .. MaxSteps + 1 |-> [id |-> Names[i], tool |-> t]] : t \in Writes \cup Refused}

PlansOf(n, tools) ==
    {p \in [1 .. n -> [id: Ids, tool: tools]] : \A i \in 1 .. n : p[i].id \in {Names[1], Names[i], "case-update"}}

AnyPlans  == TooLongPlans \cup UNION {PlansOf(n, {"lookup", "hold", "case"} \cup Refused) : n \in 0 .. MaxCalls}
HoldPlans == TooLongPlans \cup UNION {PlansOf(n, {"lookup", "hold"}) : n \in 1 .. MaxCalls - 1}

MCPlans(acts) == IF acts[1].kind = "billing_hold" THEN HoldPlans ELSE AnyPlans
=============================================================================
