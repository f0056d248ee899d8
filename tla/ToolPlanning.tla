----------------------------- MODULE ToolPlanning -----------------------------
(***************************************************************************)
(* support_desk/store.py: TicketStore.create and _plan_tools for one case, *)
(* with a crash of the process anywhere, and the approve and reject of     *)
(* reviewers, which may arrive as soon as the case is committed: long      *)
(* before its plan is (the planner of tools.py may wait 45 seconds for a   *)
(* model).  Each request runs in a thread of its own: two approvals, or an *)
(* approval and a rejection, overlap as they like.                         *)
(*                                                                         *)
(* A step ends at a commit of the shared connection.  What approve does    *)
(* between its read of the ticket and its last UPDATE is ApprovalRun's     *)
(* subject; here each action it runs ends in any of the ways of            *)
(* ApprovalRun, also one that another approve delivered.                   *)
(***************************************************************************)
EXTENDS Triage

CONSTANTS
    CallIds, ActionIds,  \* names of planned calls, and of actions on a ticket
    Plans(_),            \* what a model, shown the proposed actions, may answer
    MaxSteps,            \* SUPPORT_MAX_TOOL_STEPS
    Requests             \* approve and reject requests for the case

\* The registry's tools, and calls that validate refuses: an unknown name,
\* arguments of the wrong shape or over the byte limit.
Writes  == {"hold", "case", "notify"}
Refused == {"refused"}
Call    == [id: CallIds, tool: {"lookup"} \cup Writes \cup Refused]

ASSUME PlansAssumption == /\ \A text \in Texts : Plans(RuleActions(Intent(text))) \subseteq Seq(Call)
                          /\ CallIds \cup {"billing-hold", "case-update", "notify"} \subseteq ActionIds
ASSUME StepsAssumption == /\ StepId \in [1 .. 4 -> CallIds]
                          /\ \A i, j \in 1 .. 4 : StepId[i] = StepId[j] => i = j
ASSUME MaxStepsAssumption == MaxSteps \in Nat \ {0}

VARIABLES
    status,      \* tickets.status, "none" before the INSERT
    actions,     \* tickets.actions_json
    calls,       \* calls[c]: tool_calls.status, "none" before the INSERT
    pc,          \* where the thread in create is
    proposed,    \* the actions of its AutomationResult
    plan, next,  \* its calls, and the one it is at
    pending,     \* its pending_actions
    used,        \* its consumed_legacy_ids
    review       \* review[q]: where request q is in approve or reject, and what it holds

case == <<status, actions>>
thread == <<plan, next, pending, used>>
local == <<proposed, thread>>
vars == <<case, calls, pc, local, review>>

Unsent      == [op |-> "unsent", acts |-> <<>>, next |-> 1]
Over        == [op |-> "over", acts |-> <<>>, next |-> 1]
Undecided   == {"needs_approval", "action_failed", "dead_letter"}
Action      == [id: ActionIds, call: CallIds, tool: Writes, status: {"pending", "completed", "failed"}]
\* "failed" stands for retryable_failed and terminal_failed too: no code of planning or of a
\* snapshot tells them apart.
CallResults == {"completed", "failed"}
CallStates  == {"none", "planned", "step_limit_rejected", "validation_failed", "awaiting_approval"}
                 \cup CallResults

Init ==
    /\ status = "none" /\ actions = <<>>
    /\ calls  = [c \in CallIds |-> "none"]
    /\ pc     = "create"
    /\ proposed = <<>> /\ plan = <<>> /\ next = 1 /\ pending = <<>> /\ used = {}
    /\ review = [q \in Requests |-> Unsent]

-----------------------------------------------------------------------------
\* The case is committed with no actions: those proposed wait for a plan.
Create ==
    /\ pc = "create"
    /\ \E text \in Texts : proposed' = RuleActions(Intent(text))
    /\ status' = "needs_approval"
    /\ pc' = "planner"
    /\ UNCHANGED <<actions, calls, thread, review>>

\* The planner answers, fails in a way _plan_tools handles, or raises an exception
\* it does not catch (a model that answers "tool_calls": null): the request fails.
Planner ==
    /\ pc = "planner"
    /\ \/ (plan' \in Plans(proposed) \/ plan' = RulePlan(proposed)) /\ pc' = "insert"
       \/ pc' \in {"failed", "stopped"} /\ UNCHANGED plan
    /\ UNCHANGED <<case, calls, proposed, next, pending, used, review>>

\* A row for the next call, unless its id was seen before.
InsertCall ==
    /\ pc = "insert" /\ next <= Len(plan)
    /\ LET c == plan[next].id IN
         IF \E i \in 1 .. next - 1 : plan[i].id = c
         THEN pc' = "failed" /\ UNCHANGED <<calls, next>>
         ELSE calls' = [calls EXCEPT ![c] = "planned"] /\ next' = next + 1 /\ UNCHANGED pc
    /\ UNCHANGED <<case, proposed, plan, pending, used, review>>

\* Mutant: a plan one call over the limit passes.
TooLongByOne(p) == Len(p) > MaxSteps + 1

TooLong(p) == Len(p) > MaxSteps

StepLimit ==
    /\ pc = "insert" /\ next > Len(plan)
    /\ IF TooLong(plan)
       THEN /\ calls' = [c \in CallIds |-> IF calls[c] = "none" THEN "none" ELSE "step_limit_rejected"]
            /\ pc' = "failed" /\ UNCHANGED next
       ELSE pc' = "call" /\ next' = 1 /\ UNCHANGED calls
    /\ UNCHANGED <<case, proposed, plan, pending, used, review>>

\* The loop over the calls, one pass of its body: refused, read or write.
AtCall(t) == pc = "call" /\ next <= Len(plan) /\ plan[next].tool \in t

\* Mutant: a refused call is marked and the loop goes on.
RefuseCallContinues ==
    /\ AtCall(Refused)
    /\ calls' = [calls EXCEPT ![plan[next].id] = "validation_failed"]
    /\ next' = next + 1
    /\ UNCHANGED <<case, pc, proposed, plan, pending, used, review>>

RefuseCall ==
    /\ AtCall(Refused)
    /\ calls' = [calls EXCEPT ![plan[next].id] = "validation_failed"]
    /\ pc' = "failed"
    /\ UNCHANGED <<case, local, review>>

\* Mutant: only an irreversible tool waits for the reviewer.
ReadToolsReversible == {"lookup", "case", "notify"}

\* risk_class = "read_only".
ReadTools == {"lookup"}

\* The handler of a read runs at once; lookup_customer refuses another company.
ReadCall ==
    /\ AtCall(ReadTools)
    /\ \/ /\ calls' = [calls EXCEPT ![plan[next].id] = "completed"]
          /\ next' = next + 1 /\ UNCHANGED pc
       \/ /\ calls' = [calls EXCEPT ![plan[next].id] = "failed"]
          /\ pc' = "failed" /\ UNCHANGED next
    /\ UNCHANGED <<case, proposed, plan, pending, used, review>>

\* Mutant: consumed_legacy_ids is not consulted.
LegacyAlways(t) == {i \in DOMAIN proposed : proposed[i].kind = KindOf[t]}

\* _legacy_action_for_call: the proposed actions of that kind that no call took yet.
Legacy(t) == {i \in DOMAIN proposed : proposed[i].kind = KindOf[t] /\ proposed[i].id \notin used}

\* The id of the first of them, else the call's own.
IdFor(c) == IF Legacy(c.tool) = {} THEN c.id
            ELSE proposed[CHOOSE i \in Legacy(c.tool) : \A j \in Legacy(c.tool) : i <= j].id

\* Mutant: the action starts with the status of its call.
ActionOfAwaiting(c) == [id |-> IdFor(c), call |-> c.id, tool |-> c.tool, status |-> "awaiting_approval"]

ActionOf(c) == [id |-> IdFor(c), call |-> c.id, tool |-> c.tool, status |-> "pending"]

\* A write becomes a pending action.
WriteCall ==
    /\ AtCall(Writes \ ReadTools)
    /\ pending' = Append(pending, ActionOf(plan[next]))
    /\ used'    = IF Legacy(plan[next].tool) = {} THEN used ELSE used \cup {IdFor(plan[next])}
    /\ calls'   = [calls EXCEPT ![plan[next].id] = "awaiting_approval"]
    /\ next' = next + 1
    /\ UNCHANGED <<case, pc, proposed, plan, review>>

\* The last UPDATE of _plan_tools offers the actions for approval.
Publish ==
    /\ pc = "call" /\ next > Len(plan)
    /\ actions' = pending
    /\ pc' = "done"
    /\ UNCHANGED <<status, calls, local, review>>

\* _finish_planning_failure.
Fail ==
    /\ pc = "failed"
    /\ status' = "dead_letter" /\ actions' = <<>>
    /\ pc' = "done"
    /\ UNCHANGED <<calls, local, review>>

-----------------------------------------------------------------------------
\* approve reads the ticket: also a failed run's, and a dead letter's.
ApproveBegin(q) ==
    /\ review[q].op = "unsent"
    /\ status \in Undecided
    /\ review' = [review EXCEPT ![q] = [op |-> "approve", acts |-> actions, next |-> 1]]
    /\ UNCHANGED <<case, calls, pc, local>>

Approving(q) == review[q].op = "approve"

\* Its next action: skipped if completed, else it ends in one of approve's outcomes.
ApproveCall(q) ==
    LET r == review[q]
        a == r.acts[r.next] IN
    /\ Approving(q) /\ r.next <= Len(r.acts)
    /\ IF a.status = "completed"
       THEN review' = [review EXCEPT ![q].next = @ + 1] /\ UNCHANGED calls
       ELSE \E o \in CallResults :
              /\ calls'  = [calls EXCEPT ![a.call] = o]
              /\ review' = [review EXCEPT
                   ![q].acts[r.next].status = IF o = "completed" THEN o ELSE "failed",
                   ![q].next = @ + 1]
    /\ UNCHANGED <<case, pc, local>>

\* Its last UPDATE, which replaces status and actions whatever they are by now.  Whether
\* a failed action has attempts left is ApprovalRun's subject.
ApproveEnd(q) ==
    LET done == review[q].acts IN
    /\ Approving(q) /\ review[q].next > Len(done)
    /\ actions' = done
    /\ IF \A i \in DOMAIN done : done[i].status = "completed"
       THEN status' = "resolved"
       ELSE status' \in {"dead_letter", "action_failed"}
    /\ review' = [review EXCEPT ![q] = Over]
    /\ UNCHANGED <<calls, pc, local>>

\* reject reads the ticket, and updates it later.
RejectCheck(q) ==
    /\ review[q].op = "unsent"
    /\ status \notin {"none", "resolved"}
    /\ review' = [review EXCEPT ![q].op = "reject"]
    /\ UNCHANGED <<case, calls, pc, local>>

RejectWrite(q) ==
    /\ review[q].op = "reject"
    /\ status' = "rejected"
    /\ review' = [review EXCEPT ![q] = Over]
    /\ UNCHANGED <<actions, calls, pc, local>>

\* The process dies, with every thread in it; nobody resumes a plan.
Crash ==
    /\ pc \notin {"create", "done"} \/ \E q \in Requests : review[q].op \in {"approve", "reject"}
    /\ pc' = IF pc \in {"create", "done"} THEN pc ELSE "stopped"
    /\ review' = [q \in Requests |-> IF review[q].op = "unsent" THEN Unsent ELSE Over]
    /\ UNCHANGED <<case, calls, local>>

Planning == Create \/ Planner \/ InsertCall \/ StepLimit \/ RefuseCall \/ ReadCall \/ WriteCall
            \/ Publish \/ Fail

Decision(q) == ApproveBegin(q) \/ ApproveCall(q) \/ ApproveEnd(q) \/ RejectCheck(q) \/ RejectWrite(q)

Next == Planning \/ (\E q \in Requests : Decision(q)) \/ Crash

Spec == Init /\ [][Next]_vars

-----------------------------------------------------------------------------
TypeOK ==
    /\ status  \in Undecided \cup {"none", "resolved", "rejected"}
    /\ actions \in Seq(Action)
    /\ calls   \in [CallIds -> CallStates]
    /\ pc      \in {"create", "planner", "insert", "call", "failed", "done", "stopped"}
    /\ plan    \in Seq(Call)
    /\ next    \in 1 .. Len(plan) + 1
    /\ pending \in Seq(Action)
    /\ used    \subseteq ActionIds
    /\ proposed \in {RuleActions(Intent(text)) : text \in Texts} \cup {<<>>}
    /\ review  \in [Requests -> [op: {"unsent", "approve", "reject", "over"}, acts: Seq(Action),
                                next: Nat \ {0}]]

\* The plan that was validated: as long as the limit allows, with no refused call,
\* no id twice and no read that did not succeed.
Sound(p) ==
    /\ Len(p) <= MaxSteps
    /\ \A i \in DOMAIN p : p[i].tool \notin Refused
    /\ \A i, j \in DOMAIN p : p[i].id = p[j].id => i = j
    /\ \A i \in DOMAIN p : p[i].tool = "lookup" => calls[p[i].id] = "completed"

\* Actions are offered for approval only when the whole plan was accepted, and they
\* are exactly its writes: the registry "rejects unknown tools, extra/oversized
\* arguments and plans over the budget" (README.md:91, store.py:289-375), whatever
\* crashed or was approved while the plan was made.
OfferedIsWhole ==
    actions # <<>> =>
        /\ Sound(plan)
        /\ \A i \in DOMAIN actions :
             \E j \in DOMAIN plan : plan[j].id = actions[i].call /\ plan[j].tool = actions[i].tool
        /\ \A j \in DOMAIN plan :
             plan[j].tool \in Writes => \E i \in DOMAIN actions : actions[i].call = plan[j].id
        /\ \A i, j \in DOMAIN actions : actions[i].call = actions[j].call => i = j

\* A write has a result only if the whole plan it belongs to was accepted and offered:
\* "write and irreversible tools remain pending until the human approval" (README.md:93,
\* store.py:329), however many approvals began too early, overlap or end late.  The ticket
\* need not show the write any more: a late approve may have put an older list back.
WritesWait ==
    \A j \in DOMAIN plan :
        plan[j].tool \in Writes /\ calls[plan[j].id] \in CallResults
            => /\ pc = "done" /\ Sound(plan)
               /\ \E i \in DOMAIN pending : pending[i].call = plan[j].id

\* The parts of an action's durable key that tell actions of a case apart at the worst,
\* with equal arguments (effects.py:77-100).
DurableKey(a) == <<a.id, a.tool>>

\* A durable key "binds one approved action to one effect" (effects.py:84).  Two actions
\* of a case share one, so that the second is taken for delivered, only if a model gave a
\* call the id of a proposed action that another call took (store.py:382-386, :712-725):
\* the code does not rule that out, and nothing else does it.
Usurps(a, b) == /\ a.id = a.call /\ b.id # b.call
                /\ \E i \in DOMAIN proposed : proposed[i].id = a.call

OnlyNamesCollide ==
    \A i, j \in DOMAIN actions :
        DurableKey(actions[i]) = DurableKey(actions[j]) /\ i # j
            => Usurps(actions[i], actions[j]) \/ Usurps(actions[j], actions[i])

\* The rule planner's calls become exactly the actions the triage proposed, in order,
\* each under the id and the tool it was proposed with: three tables in three files
\* agree (engine.py:166-207, tools.py:173-190, store.py:712-725), and with them the
\* durable keys of a case planned by rules (effects.py:84).
RulesAreOffered ==
    actions # <<>> /\ plan = RulePlan(proposed) =>
        /\ DOMAIN actions = DOMAIN proposed
        /\ \A i \in DOMAIN actions :
             actions[i].id = proposed[i].id /\ actions[i].tool = ToolOf[proposed[i].kind]

\* "All approved actions completed." (store.py:628), the event of a resolved case.
ResolvedCompletes ==
    status = "resolved" => \A i \in DOMAIN actions : actions[i].status = "completed"
=============================================================================
