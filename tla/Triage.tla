-------------------------------- MODULE Triage --------------------------------
(***************************************************************************)
(* support_desk/engine.py and the rule planner of tools.py: from the text  *)
(* of a request to the actions proposed to the reviewer, and from those to *)
(* the calls that stand for them.  A text is the set of intents one of     *)
(* whose words it contains; drafts, labels and scores are left out.  The   *)
(* model-backed automation keeps these actions, whatever intent it names.  *)
(***************************************************************************)
EXTENDS Naturals, Sequences

CONSTANT StepId  \* StepId[i]: the name of the i-th call of a rule plan

\* The tests of process, in their order: the first whose words occur decides.
Intents == <<"Invoice correction", "Failed renewal", "SSO configuration", "Completed export">>
Texts   == SUBSET {Intents[i] : i \in DOMAIN Intents}

Intent(text) ==
    IF text = {} THEN "General support"
    ELSE Intents[CHOOSE i \in DOMAIN Intents :
                    Intents[i] \in text /\ \A j \in 1 .. i - 1 : Intents[j] \notin text]

RuleAction(id, kind) == [id |-> id, kind |-> kind]

RuleActions(intent) ==
    (IF intent = "Failed renewal" THEN <<RuleAction("billing-hold", "billing_hold")>> ELSE <<>>)
        \o <<RuleAction("case-update", "case_update"), RuleAction("notify", "notification")>>

\* The planner's table of tools, and the store's way back from a tool to its kind.
ToolOf == [billing_hold |-> "hold", case_update |-> "case", notification |-> "notify"]

\* Mutant: two lines of the store's table are swapped.
KindOfSwapped == [hold |-> "billing_hold", case |-> "notification", notify |-> "case_update"]

KindOf == [hold |-> "billing_hold", case |-> "case_update", notify |-> "notification"]

\* DeterministicToolPlanner: the customer is looked up, then a call per action.
RulePlan(acts) ==
    <<[id |-> StepId[1], tool |-> "lookup"]>>
        \o [i \in DOMAIN acts |-> [id |-> StepId[i + 1], tool |-> ToolOf[acts[i].kind]]]
===============================================================================
