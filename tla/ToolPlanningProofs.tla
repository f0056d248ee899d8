-------------------------- MODULE ToolPlanningProofs --------------------------
(***************************************************************************)
(* What ToolPlanning guarantees for every registry limit, every planner    *)
(* and any number of calls: its type invariant, and that the actions it    *)
(* offers are the writes of a plan that was accepted whole, whenever a     *)
(* crash comes in between and however many decisions overlap.              *)
(***************************************************************************)
EXTENDS ToolPlanning, TLAPS, SequenceTheorems

\* The ids of the actions that the triage rules propose.
RuleIds   == {"billing-hold", "case-update", "notify"}
RuleKinds == {"billing_hold", "case_update", "notification"}
Proposal  == [id: RuleIds, kind: RuleKinds]
Proposals == {RuleActions(Intent(text)) : text \in Texts}

-----------------------------------------------------------------------------
(* The operators of Triage.                                                *)

\* The rules propose two actions or three, each of another kind and id.
LEMMA RuleActionsFacts ==
    ASSUME NEW p \in Proposals
    PROVE  /\ p \in Seq(Proposal) /\ p # <<>>
           /\ \A i, j \in DOMAIN p : p[i].id = p[j].id \/ p[i].kind = p[j].kind => i = j
           /\ Len(p) \in {2, 3}
  <1> DEFINE H == RuleAction("billing-hold", "billing_hold")
             C == RuleAction("case-update", "case_update")
             N == RuleAction("notify", "notification")
  <1>1. p = <<H>> \o <<C, N>> \/ p = <<>> \o <<C, N>>
    BY DEF Proposals, RuleActions
  <1>2. H \in Proposal /\ C \in Proposal /\ N \in Proposal
    BY DEF RuleAction, Proposal, RuleIds, RuleKinds
  <1>3. /\ H.id = "billing-hold" /\ H.kind = "billing_hold"
        /\ C.id = "case-update"  /\ C.kind = "case_update"
        /\ N.id = "notify"       /\ N.kind = "notification"
    BY DEF RuleAction
  <1> HIDE DEF H, C, N
  <1>4. /\ <<>> \in Seq(Proposal) /\ <<H>> \in Seq(Proposal) /\ <<C, N>> \in Seq(Proposal)
        /\ Len(<<>>) = 0 /\ Len(<<H>>) = 1 /\ Len(<<C, N>>) = 2
        /\ <<H>>[1] = H /\ <<C, N>>[1] = C /\ <<C, N>>[2] = N
    BY <1>2
  <1>5. CASE p = <<H>> \o <<C, N>>
    <2>1. p \in Seq(Proposal) /\ Len(p) = 3 /\ p[1] = H /\ p[2] = C /\ p[3] = N
      BY <1>4, <1>5, ConcatProperties
    <2>2. DOMAIN p = {1, 2, 3} /\ p # <<>>
      BY <2>1
    <2>3. /\ p[1].id # p[2].id /\ p[1].id # p[3].id /\ p[2].id # p[3].id
          /\ p[1].kind # p[2].kind /\ p[1].kind # p[3].kind /\ p[2].kind # p[3].kind
      BY <1>3, <2>1
    <2> QED BY <2>1, <2>2, <2>3
  <1>6. CASE p = <<>> \o <<C, N>>
    <2>1. p \in Seq(Proposal) /\ Len(p) = 2 /\ p[1] = C /\ p[2] = N
      BY <1>4, <1>6, ConcatProperties
    <2>2. DOMAIN p = {1, 2} /\ p # <<>>
      BY <2>1
    <2>3. p[1].id # p[2].id /\ p[1].kind # p[2].kind
      BY <1>3, <2>1
    <2> QED BY <2>1, <2>2, <2>3
  <1> QED BY <1>1, <1>5, <1>6

\* The rule planner's calls: the look-up, then a call per proposed action.
LEMMA RulePlanFacts ==
    ASSUME NEW p \in Proposals
    PROVE  /\ RulePlan(p) \in Seq(Call)
           /\ Len(RulePlan(p)) = Len(p) + 1
           /\ RulePlan(p)[1].tool = "lookup"
           /\ \A i \in 1 .. Len(p) :
                RulePlan(p)[i + 1] = [id |-> StepId[i + 1], tool |-> ToolOf[p[i].kind]]
  <1> DEFINE first == <<[id |-> StepId[1], tool |-> "lookup"]>>
             e(i)  == [id |-> StepId[i + 1], tool |-> ToolOf[p[i].kind]]
             rest  == [i \in 1 .. Len(p) |-> e(i)]
  <1>1. p \in Seq(Proposal) /\ Len(p) \in {2, 3} /\ DOMAIN p = 1 .. Len(p)
    BY RuleActionsFacts
  <1>2. first \in Seq(Call) /\ Len(first) = 1 /\ first[1] = [id |-> StepId[1], tool |-> "lookup"]
    BY StepsAssumption DEF Call
  <1>3. \A i \in 1 .. Len(p) : e(i) \in Call
    <2> TAKE i \in 1 .. Len(p)
    <2>1. StepId[i + 1] \in CallIds
      BY <1>1, StepsAssumption
    <2>2. p[i].kind \in RuleKinds
      <3>1. p[i] \in Proposal
        BY <1>1, ElementOfSeq
      <3> QED BY <3>1 DEF Proposal
    <2> QED BY <2>1, <2>2 DEF Call, ToolOf, RuleKinds, Writes
  <1> HIDE DEF e
  <1>4. rest \in Seq(Call) /\ Len(rest) = Len(p)
    <2>1. rest \in [1 .. Len(p) -> Call] /\ Len(p) \in Nat
      BY <1>1, <1>3
    <2> HIDE DEF rest
    <2> QED BY <2>1, SeqDef
  <1>5. \A i \in 1 .. Len(p) : rest[i] = e(i)
    OBVIOUS
  <1>6. RulePlan(p) = first \o rest
    BY <1>1 DEF RulePlan, e
  <1> HIDE DEF rest, first
  <1>7. /\ first \o rest \in Seq(Call)
        /\ Len(first \o rest) = 1 + Len(p)
        /\ \A i \in 1 .. 1 + Len(p) : (first \o rest)[i] = IF i <= 1 THEN first[i] ELSE rest[i - 1]
    <2>0. first \in Seq(Call) /\ rest \in Seq(Call)
      BY <1>2, <1>4
    <2>1. /\ first \o rest \in Seq(Call)
          /\ Len(first \o rest) = Len(first) + Len(rest)
          /\ \A i \in 1 .. Len(first) + Len(rest) :
               (first \o rest)[i] = IF i <= Len(first) THEN first[i] ELSE rest[i - Len(first)]
      BY <2>0, ConcatProperties
    <2> QED BY <1>2, <1>4, <2>1
  <1>8. ASSUME NEW i \in 1 .. Len(p)
        PROVE  (first \o rest)[i + 1] = e(i)
    <2>1. i + 1 \in 1 .. 1 + Len(p) /\ ~ (i + 1 <= 1) /\ (i + 1) - 1 = i
      BY <1>1
    <2> QED BY <1>5, <1>7, <2>1
  <1>9. (first \o rest)[1] = first[1] /\ 1 + Len(p) = Len(p) + 1
    BY <1>1, <1>7
  <1>10. first[1].tool = "lookup"
    BY <1>2
  <1> QED BY <1>6, <1>7, <1>8, <1>9, <1>10 DEF e

-----------------------------------------------------------------------------
(* Types.                                                                  *)

\* There are actions on the ticket, or in an approve's hands.
Offered == actions # <<>> \/ \E q \in Requests : review[q].acts # <<>>

\* What is still empty, and which ids the INSERTs have seen, in each phase of
\* create and _plan_tools.
PhaseInv ==
    /\ pc \in {"create", "planner"} => plan = <<>>
    /\ pc # "create" => proposed \in Proposals
    /\ pc \in {"create", "planner", "insert"} =>
         pending = <<>> /\ used = {} /\ \A c \in CallIds : calls[c] \in {"none", "planned"}
    /\ pc = "insert" => \A i, j \in 1 .. next - 1 : plan[i].id = plan[j].id => i = j
    /\ Offered => pc = "done"

TypeInv == TypeOK /\ PhaseInv

\* A request of a reviewer.
Request == [op: {"unsent", "approve", "reject", "over"}, acts: Seq(Action), next: Nat \ {0}]

\* An action keeps the id of the first proposed action of its kind that no other call
\* took, or gets the id of its call.
LEMMA IdForFacts ==
    ASSUME NEW c, proposed \in Proposals
    PROVE  \/ Legacy(c.tool) = {} /\ IdFor(c) = c.id
           \/ \E i \in Legacy(c.tool) : IdFor(c) = proposed[i].id /\ proposed[i].id \in RuleIds \ used
  <1>1. CASE Legacy(c.tool) = {}
    BY <1>1 DEF IdFor
  <1>2. CASE Legacy(c.tool) # {}
    <2> DEFINE L == Legacy(c.tool)
    <2>1. proposed \in Seq(Proposal) /\ DOMAIN proposed \subseteq {1, 2, 3}
      BY RuleActionsFacts
    <2>2. L \subseteq DOMAIN proposed /\ \A i \in L : proposed[i].id \notin used
      BY DEF Legacy
    <2> HIDE DEF L
    <2>3. \E i \in L : \A j \in L : i <= j
      <3>1. L \subseteq {1, 2, 3} /\ L # {}
        BY <1>2, <2>1, <2>2 DEF L
      <3>2. CASE 1 \in L
        BY <3>1, <3>2
      <3>3. CASE 1 \notin L /\ 2 \in L
        BY <3>1, <3>3
      <3>4. CASE 1 \notin L /\ 2 \notin L
        <4>1. 3 \in L /\ \A j \in L : j = 3
          BY <3>1, <3>4
        <4> QED BY <4>1
      <3> QED BY <3>2, <3>3, <3>4
    <2>4. PICK i \in L : IdFor(c) = proposed[i].id
      BY <1>2, <2>3 DEF IdFor, L
    <2>5. proposed[i].id \in RuleIds
      <3>1. proposed[i] \in Proposal
        BY <2>1, <2>2, ElementOfSeq
      <3> QED BY <3>1 DEF Proposal
    <2> QED BY <2>2, <2>4, <2>5 DEF L
  <1> QED BY <1>1, <1>2

\* A write's action is well formed.
LEMMA ActionOfType ==
    ASSUME proposed \in Proposals, NEW c \in Call, c.tool \in Writes
    PROVE  ActionOf(c) \in Action /\ IdFor(c) \in ActionIds
  <1>1. IdFor(c) \in ActionIds
    BY IdForFacts, PlansAssumption DEF Call, RuleIds
  <1> QED BY <1>1 DEF ActionOf, Action, Call

\* The calls of a plan have ids.
LEMMA PlanIds ==
    \A p \in Seq(Call) : /\ DOMAIN p = 1 .. Len(p) /\ Len(p) \in Nat
                          /\ \A j \in DOMAIN p : p[j].id \in CallIds
  <1> TAKE p \in Seq(Call)
  <1>1. DOMAIN p = 1 .. Len(p) /\ Len(p) \in Nat
    BY LenProperties
  <1>2. \A j \in 1 .. Len(p) : p[j] \in Call
    BY ElementOfSeq
  <1> QED BY <1>1, <1>2 DEF Call

\* The thread is at a call of its plan.
LEMMA CallAtNext ==
    ASSUME plan \in Seq(Call), next \in 1 .. Len(plan) + 1, next <= Len(plan)
    PROVE  next \in 1 .. Len(plan) /\ plan[next] \in Call /\ plan[next].id \in CallIds
  <1>1. next \in 1 .. Len(plan)
    OBVIOUS
  <1>2. plan[next] \in Call
    BY <1>1, ElementOfSeq
  <1> QED BY <1>1, <1>2 DEF Call

\* Any planning may start.
LEMMA TypeInit == Init => TypeInv
  <1> SUFFICES ASSUME Init PROVE TypeInv
    OBVIOUS
  <1>1. <<>> \in Seq(Call) /\ <<>> \in Seq(Action) /\ Len(<<>>) = 0
    OBVIOUS
  <1>2. review \in [Requests -> Request]
    BY <1>1 DEF Init, Unsent, Request
  <1>3. TypeOK
    BY <1>1, <1>2 DEF Init, TypeOK, Undecided, CallStates, Request
  <1>4. PhaseInv
    BY DEF Init, Unsent, Offered, PhaseInv
  <1> QED BY <1>3, <1>4 DEF TypeInv

\* The steps before the loop.
LEMMA PreparesType ==
    ASSUME TypeInv, Create \/ Planner \/ InsertCall \/ StepLimit
    PROVE  TypeInv'
  <1> USE DEF TypeInv, TypeOK, PhaseInv, Offered, case, local, thread
  <1>1. CASE Create
    BY <1>1 DEF Create, Undecided, Proposals
  <1>2. CASE Planner
    <2>1. CASE UNCHANGED plan
      BY <1>2, <2>1 DEF Planner
    <2>2. CASE plan' \in Plans(proposed) \/ plan' = RulePlan(proposed)
      <3>1. plan' \in Seq(Call)
        BY <1>2, <2>2, RulePlanFacts, PlansAssumption DEF Planner, Proposals
      <3>2. next = 1
        BY <1>2 DEF Planner
      <3>3. next' \in 1 .. Len(plan') + 1
        BY <1>2, <3>1, <3>2 DEF Planner
      <3> QED BY <1>2, <3>1, <3>2, <3>3 DEF Planner
    <2> QED BY <1>2, <2>1, <2>2 DEF Planner
  <1>3. CASE InsertCall
    <2> DEFINE c == plan[next].id
    <2>1. next \in 1 .. Len(plan) /\ plan[next] \in Call /\ c \in CallIds
      BY <1>3, CallAtNext DEF InsertCall
    <2>2. CASE \E i \in 1 .. next - 1 : plan[i].id = c
      BY <1>3, <2>2 DEF InsertCall
    <2>3. CASE ~ \E i \in 1 .. next - 1 : plan[i].id = c
      <3>1. /\ calls' = [calls EXCEPT ![c] = "planned"] /\ next' = next + 1
            /\ UNCHANGED <<case, pc, proposed, plan, pending, used, review>>
        BY <1>3, <2>3 DEF InsertCall
      <3>2. calls' \in [CallIds -> CallStates] /\ \A d \in CallIds : calls'[d] \in {"none", "planned"}
        BY <1>3, <2>1, <3>1 DEF InsertCall, CallStates
      <3>3. \A i, j \in 1 .. next' - 1 : plan'[i].id = plan'[j].id => i = j
        BY <1>3, <2>1, <2>3, <3>1 DEF InsertCall
      <3>4. next' \in 1 .. Len(plan') + 1
        BY <2>1, <3>1
      <3> QED BY <3>1, <3>2, <3>3, <3>4
    <2> QED BY <2>2, <2>3
  <1>4. CASE StepLimit
    BY <1>4 DEF StepLimit, CallStates, TooLong
  <1> QED BY <1>1, <1>2, <1>3, <1>4

\* The loop over the calls and the end of create.
LEMMA PlansType ==
    ASSUME TypeInv, RefuseCall \/ ReadCall \/ WriteCall \/ Publish \/ Fail
    PROVE  TypeInv'
  <1> USE DEF TypeInv, TypeOK, PhaseInv, Offered, case, local, thread
  <1>1. CASE RefuseCall \/ ReadCall \/ WriteCall
    <2>1. pc = "call" /\ next \in 1 .. Len(plan) /\ plan[next] \in Call /\ plan[next].id \in CallIds
      BY <1>1, CallAtNext DEF RefuseCall, ReadCall, WriteCall, AtCall
    <2>2. calls' \in [CallIds -> CallStates]
      BY <1>1, <2>1 DEF RefuseCall, ReadCall, WriteCall, CallStates, CallResults
    <2>3. next' \in 1 .. Len(plan) + 1 /\ plan' = plan
      BY <1>1, <2>1 DEF RefuseCall, ReadCall, WriteCall
    <2>4. CASE RefuseCall \/ ReadCall
      BY <2>1, <2>2, <2>3, <2>4 DEF RefuseCall, ReadCall
    <2>5. CASE WriteCall
      <3>1. ActionOf(plan[next]) \in Action /\ IdFor(plan[next]) \in ActionIds
        BY <2>1, <2>5, ActionOfType DEF WriteCall, AtCall
      <3>2. pending' \in Seq(Action) /\ used' \subseteq ActionIds
        BY <2>5, <3>1, AppendProperties DEF WriteCall
      <3> QED BY <2>1, <2>2, <2>3, <2>5, <3>2 DEF WriteCall
    <2> QED BY <1>1, <2>4, <2>5
  <1>2. CASE Publish
    BY <1>2 DEF Publish
  <1>3. CASE Fail
    BY <1>3 DEF Fail, Undecided
  <1> QED BY <1>1, <1>2, <1>3

\* A request that goes on keeps its type and its list.
LEMMA RequestFacts ==
    ASSUME NEW r \in Request
    PROVE  /\ [r EXCEPT !.next = @ + 1] \in Request /\ [r EXCEPT !.next = @ + 1].acts = r.acts
           /\ [r EXCEPT !.op = "reject"] \in Request /\ [r EXCEPT !.op = "reject"].acts = r.acts
           /\ Over \in Request /\ Over.acts = <<>> /\ Unsent \in Request /\ Unsent.acts = <<>>
  <1>1. r.next + 1 \in Nat \ {0} /\ r.acts \in Seq(Action)
    BY DEF Request
  <1>2. /\ [r EXCEPT !.next = @ + 1] = [op |-> r.op, acts |-> r.acts, next |-> r.next + 1]
        /\ [r EXCEPT !.op = "reject"] = [op |-> "reject", acts |-> r.acts, next |-> r.next]
    BY DEF Request
  <1> QED BY <1>1, <1>2 DEF Request, Over, Unsent

\* One action of approve: a completed one is passed over, another gets a result and
\* keeps its id, its call and its tool.  Other requests keep what they hold.
LEMMA ApproveCallFacts ==
    ASSUME review \in [Requests -> Request], calls \in [CallIds -> CallStates],
           NEW q \in Requests, ApproveCall(q)
    PROVE  LET acts == review[q].acts
               n == review[q].next
               a == acts[n] IN
           /\ acts \in Seq(Action) /\ n \in 1 .. Len(acts) /\ a \in Action /\ acts # <<>>
           /\ review' \in [Requests -> Request]
           /\ \A p \in Requests \ {q} : review'[p] = review[p]
           /\ calls' \in [CallIds -> CallStates]
           /\ \/ a.status = "completed" /\ review'[q].acts = acts /\ calls' = calls
              \/ \E o \in CallResults :
                    /\ a.status # "completed"
                    /\ calls' = [calls EXCEPT ![a.call] = o]
                    /\ review'[q].acts = [acts EXCEPT ![n] =
                          [a EXCEPT !.status = IF o = "completed" THEN o ELSE "failed"]]
  <1> DEFINE r == review[q]
             acts == r.acts
             n == r.next
             a == acts[n]
  <1>1. r \in Request /\ acts \in Seq(Action) /\ n \in Nat \ {0} /\ r.op \in {"unsent", "approve", "reject", "over"}
    BY DEF Request
  <1>2. n \in 1 .. Len(acts)
    <2>1. n <= Len(acts)
      BY DEF ApproveCall
    <2>2. Len(acts) \in Nat
      BY <1>1, LenProperties
    <2> QED BY <1>1, <2>1, <2>2
  <1>3. a \in Action /\ acts # <<>>
    BY <1>1, <1>2, ElementOfSeq
  <1>4. ASSUME NEW s, s \in Request, review' = [review EXCEPT ![q] = s]
        PROVE  /\ review' \in [Requests -> Request] /\ review'[q] = s
               /\ \A p \in Requests \ {q} : review'[p] = review[p]
    BY <1>4
  <1>5. CASE a.status = "completed"
    <2>1. review' = [review EXCEPT ![q] = [r EXCEPT !.next = @ + 1]] /\ calls' = calls
      BY <1>5 DEF ApproveCall
    <2>2. [r EXCEPT !.next = @ + 1] \in Request /\ [r EXCEPT !.next = @ + 1].acts = acts
      BY <1>1, RequestFacts
    <2> HIDE DEF r, acts, n, a
    <2>3. /\ review' \in [Requests -> Request] /\ review'[q] = [r EXCEPT !.next = @ + 1]
          /\ \A p \in Requests \ {q} : review'[p] = review[p]
      BY <1>4, <2>1, <2>2
    <2> QED BY <1>1, <1>2, <1>3, <1>5, <2>1, <2>2, <2>3 DEF r, acts, n, a
  <1>6. CASE a.status # "completed"
    <2>1. PICK o \in CallResults :
            /\ calls'  = [calls EXCEPT ![a.call] = o]
            /\ review' = [review EXCEPT
                 ![q].acts[n].status = IF o = "completed" THEN o ELSE "failed",
                 ![q].next = @ + 1]
      BY <1>6 DEF ApproveCall
    <2> DEFINE b == [a EXCEPT !.status = IF o = "completed" THEN o ELSE "failed"]
               bs == [acts EXCEPT ![n] = b]
               s == [op |-> r.op, acts |-> bs, next |-> n + 1]
    <2>2. calls' \in [CallIds -> CallStates]
      BY <1>3, <2>1 DEF CallStates
    <2>3. b \in Action
      BY <1>3 DEF Action
    <2>4. review' = [review EXCEPT ![q] = s]
      BY <1>1, <2>1 DEF Request
    <2> HIDE DEF b
    <2>5. bs \in Seq(Action)
      BY <1>1, <1>2, <2>3, ExceptSeq
    <2> HIDE DEF bs
    <2>6. s \in Request /\ s.acts = bs
      BY <1>1, <2>5 DEF Request
    <2> HIDE DEF s, r, acts, n, a
    <2>7. /\ review' \in [Requests -> Request] /\ review'[q] = s
          /\ \A p \in Requests \ {q} : review'[p] = review[p]
      BY <1>4, <2>4, <2>6
    <2> QED BY <1>1, <1>2, <1>3, <1>6, <2>1, <2>2, <2>6, <2>7 DEF bs, b, r, acts, n, a
  <1> QED BY <1>5, <1>6

\* The reviewers, and a crash.
LEMMA ReviewerType ==
    ASSUME TypeInv, (\E q \in Requests : Decision(q)) \/ Crash
    PROVE  TypeInv'
  <1> USE DEF TypeInv, TypeOK, PhaseInv, Offered, case, local, thread
  <1>0. review \in [Requests -> Request]
    BY DEF Request
  <1>1. ASSUME NEW q \in Requests, ApproveBegin(q)
        PROVE  TypeInv'
    <2>1. [op |-> "approve", acts |-> actions, next |-> 1] \in Request
      BY DEF Request
    <2>2. review' \in [Requests -> Request]
      BY <1>0, <1>1, <2>1 DEF ApproveBegin
    <2>3. Offered' => Offered
      BY <1>0, <1>1 DEF ApproveBegin
    <2> QED BY <1>1, <2>2, <2>3 DEF ApproveBegin, Request
  <1>2. ASSUME NEW q \in Requests, ApproveCall(q)
        PROVE  TypeInv'
    <2>1. /\ review' \in [Requests -> Request] /\ calls' \in [CallIds -> CallStates]
          /\ review[q].acts # <<>>
      BY <1>0, <1>2, ApproveCallFacts
    <2>2. pc = "done"
      BY <2>1
    <2> QED BY <1>2, <2>1, <2>2 DEF ApproveCall, Request
  <1>3. ASSUME NEW q \in Requests, ApproveEnd(q)
        PROVE  TypeInv'
    <2>1. Over \in Request
      BY DEF Over, Request
    <2>2. review' \in [Requests -> Request] /\ actions' \in Seq(Action)
      BY <1>0, <1>3, <2>1 DEF ApproveEnd, Request
    <2>3. Offered' => Offered
      BY <1>0, <1>3 DEF ApproveEnd, Over
    <2> QED BY <1>3, <2>2, <2>3 DEF ApproveEnd, Undecided, Request
  <1>4. ASSUME NEW q \in Requests, RejectCheck(q) \/ RejectWrite(q)
        PROVE  TypeInv'
    <2>1. Over \in Request /\ [review[q] EXCEPT !.op = "reject"] \in Request
      <3>1. review[q] \in Request
        BY <1>0
      <3> QED BY <3>1, RequestFacts
    <2>2. \/ review' = [review EXCEPT ![q] = Over]
          \/ review' = [review EXCEPT ![q] = [review[q] EXCEPT !.op = "reject"]]
      BY <1>4 DEF RejectCheck, RejectWrite
    <2>3. review' \in [Requests -> Request]
      BY <1>0, <2>1, <2>2
    <2>4. Offered' => Offered
      <3>1. actions' = actions /\ review'[q].acts \in {review[q].acts, <<>>}
        <4>1. review[q] \in Request
          BY <1>0
        <4>2. Over.acts = <<>> /\ [review[q] EXCEPT !.op = "reject"].acts = review[q].acts
          BY <4>1, RequestFacts
        <4> QED BY <1>0, <1>4, <2>2, <4>2 DEF RejectCheck, RejectWrite
      <3>2. \A p \in Requests \ {q} : review'[p] = review[p]
        BY <1>0, <2>2
      <3> QED BY <3>1, <3>2
    <2> QED BY <1>4, <2>3, <2>4 DEF RejectCheck, RejectWrite, Request
  <1>5. CASE Crash
    <2>1. Over \in Request /\ Unsent \in Request
      BY DEF Over, Unsent, Request
    <2>2. review' \in [Requests -> Request]
      BY <1>5, <2>1 DEF Crash
    <2>3. Offered' => Offered
      BY <1>0, <1>5 DEF Crash, Over, Unsent
    <2> QED BY <1>5, <2>2, <2>3 DEF Crash, Request
  <1> QED BY <1>1, <1>2, <1>3, <1>4, <1>5 DEF Decision

\* Types and phases are kept.
LEMMA TypeStep == TypeInv /\ [Next]_vars => TypeInv'
  <1>1. TypeInv /\ UNCHANGED vars => TypeInv'
    BY DEF TypeInv, TypeOK, PhaseInv, Offered, vars, case, local, thread
  <1> QED BY <1>1, PreparesType, PlansType, ReviewerType DEF Next, Planning

\* Types and phases hold throughout.
LEMMA TypeInvariant == Spec => []TypeInv
  BY TypeInit, TypeStep, PTL DEF Spec

\* The case, its calls and the reviewer's view keep their types: no plan, crash or early
\* approval puts a call, an action or a status there that the store does not know
\* (store.py:143-420).
THEOREM PlanningTypes == Spec => []TypeOK
  <1>1. TypeInv => TypeOK
    BY DEF TypeInv
  <1> QED BY <1>1, TypeInvariant, PTL

-----------------------------------------------------------------------------
(* What is offered, and what the reviewer works on.                        *)

\* The same actions in the same order, whatever became of them.
SameActions(a, b) ==
    /\ Len(a) = Len(b)
    /\ \A i \in 1 .. Len(a) : a[i].id = b[i].id /\ a[i].call = b[i].call /\ a[i].tool = b[i].tool

\* What two lists of the same actions have in common.
LEMMA SameActionsFacts ==
    ASSUME NEW a \in Seq(Action), NEW b \in Seq(Action), NEW c \in Seq(Action)
    PROVE  /\ SameActions(a, a)
           /\ SameActions(a, b) /\ SameActions(b, c) => SameActions(a, c)
           /\ SameActions(a, b) => (a = <<>> <=> b = <<>>)
  <1>1. Len(a) \in Nat /\ (a = <<>> <=> Len(a) = 0) /\ (b = <<>> <=> Len(b) = 0)
    OBVIOUS
  <1>2. SameActions(a, b) => (a = <<>> <=> b = <<>>)
    BY <1>1 DEF SameActions
  <1> QED BY <1>1, <1>2 DEF SameActions

\* The list that an approve works on only ever changes an action's status.
LEMMA ReviewKeepsActions ==
    ASSUME TypeInv, NEW q \in Requests, ApproveCall(q)
    PROVE  review'[q].acts \in Seq(Action) /\ SameActions(review'[q].acts, review[q].acts)
  <1> DEFINE acts == review[q].acts
             n == review[q].next
             a == acts[n]
  <1>1. /\ acts \in Seq(Action) /\ n \in 1 .. Len(acts) /\ a \in Action
        /\ review' \in [Requests -> Request]
        /\ review'[q].acts = acts \/ \E s : review'[q].acts = [acts EXCEPT ![n] = [a EXCEPT !.status = s]]
    BY ApproveCallFacts DEF TypeInv, TypeOK, Request
  <1>2. review'[q].acts \in Seq(Action)
    BY <1>1 DEF Request
  <1> HIDE DEF acts, n
  <1>3. CASE review'[q].acts = acts
    BY <1>1, <1>3, SameActionsFacts DEF acts
  <1>4. ASSUME NEW s, review'[q].acts = [acts EXCEPT ![n] = [a EXCEPT !.status = s]]
        PROVE  SameActions(review'[q].acts, acts)
    <2>1. Len(review'[q].acts) = Len(acts)
      BY <1>1, <1>4
    <2>2. \A i \in 1 .. Len(acts) :
            review'[q].acts[i] = IF i = n THEN [a EXCEPT !.status = s] ELSE acts[i]
      BY <1>1, <1>4
    <2>3. LET b == [a EXCEPT !.status = s] IN b.id = a.id /\ b.call = a.call /\ b.tool = a.tool
      BY <1>1 DEF Action
    <2> QED BY <1>1, <2>1, <2>2, <2>3 DEF SameActions
  <1> QED BY <1>1, <1>2, <1>3, <1>4 DEF acts

\* What a case offers, or an approve took from it, is what its plan made pending.  An
\* approve that began before the plan was published works on nothing, and may put
\* nothing back.
OfferInv ==
    /\ Offered => next > Len(plan)
    /\ actions # <<>> => SameActions(actions, pending)
    /\ \A q \in Requests : review[q].acts # <<>> => SameActions(review[q].acts, pending)

\* Nothing is offered at the start.
LEMMA OfferInit == Init => OfferInv
  BY DEF Init, Unsent, Offered, OfferInv

\* A decision takes what it holds from the ticket, or puts that back.
LEMMA DecisionMoves ==
    ASSUME TypeInv, NEW q \in Requests, Decision(q)
    PROVE  /\ UNCHANGED <<pc, local>> /\ review' \in [Requests -> Request]
           /\ \A p \in Requests \ {q} : review'[p] = review[p]
           /\ actions' \in {actions, review[q].acts}
           /\ \/ review'[q].acts \in {actions, review[q].acts, <<>>}
              \/ ApproveCall(q) /\ SameActions(review'[q].acts, review[q].acts)
           /\ calls' = calls \/ ApproveCall(q)
  <1>1. review \in [Requests -> Request] /\ review' \in [Requests -> Request]
    BY ReviewerType DEF TypeInv, TypeOK, Request
  <1>2. CASE ApproveCall(q)
    <2>1. \A p \in Requests \ {q} : review'[p] = review[p]
      BY <1>1, <1>2, ApproveCallFacts DEF TypeInv, TypeOK
    <2>2. UNCHANGED <<actions, pc, local>>
      BY <1>2 DEF ApproveCall, case
    <2> QED BY <1>1, <1>2, <2>1, <2>2, ReviewKeepsActions
  <1>3. CASE ApproveBegin(q) \/ ApproveEnd(q)
    BY <1>1, <1>3 DEF ApproveBegin, ApproveEnd, case, Over
  <1>4. CASE RejectCheck(q) \/ RejectWrite(q)
    BY <1>1, <1>4 DEF RejectCheck, RejectWrite, case, Over, Request
  <1> QED BY <1>2, <1>3, <1>4 DEF Decision

\* What is offered stays whole.
LEMMA OfferStep ==
    ASSUME TypeInv, OfferInv, [Next]_vars
    PROVE  OfferInv'
  <1>1. /\ actions \in Seq(Action) /\ pending \in Seq(Action)
        /\ \A q \in Requests : review[q].acts \in Seq(Action)
        /\ Offered => pc = "done"
    BY DEF TypeInv, TypeOK, PhaseInv
  <1>2. CASE Create \/ Planner \/ InsertCall \/ StepLimit \/ RefuseCall \/ ReadCall \/ WriteCall
    <2>1. pc # "done" /\ actions' = actions /\ review' = review
      BY <1>2 DEF Create, Planner, InsertCall, StepLimit, RefuseCall, ReadCall, WriteCall, AtCall,
                  case, local
    <2>2. ~Offered'
      BY <1>1, <2>1 DEF Offered
    <2> QED BY <2>2 DEF OfferInv, Offered
  <1>3. CASE Publish
    <2>1. /\ actions' = pending /\ review' = review /\ UNCHANGED <<plan, next, pending>>
          /\ next > Len(plan) /\ ~Offered
      BY <1>1, <1>3 DEF Publish, local, thread
    <2> QED BY <1>1, <2>1, SameActionsFacts DEF OfferInv, Offered
  <1>4. CASE Fail
    <2>1. actions' = <<>> /\ review' = review /\ ~Offered
      BY <1>1, <1>4 DEF Fail
    <2> QED BY <2>1 DEF OfferInv, Offered
  <1>5. ASSUME NEW q \in Requests, Decision(q)
        PROVE  OfferInv'
    <2>1. /\ UNCHANGED <<plan, next, pending>> /\ review' \in [Requests -> Request]
          /\ \A p \in Requests \ {q} : review'[p] = review[p]
          /\ actions' \in {actions, review[q].acts}
          /\ \/ review'[q].acts \in {actions, review[q].acts, <<>>}
             \/ SameActions(review'[q].acts, review[q].acts)
      BY <1>5, DecisionMoves DEF local, thread
    <2>2. review'[q].acts \in Seq(Action)
      BY <2>1 DEF Request
    <2>3. actions' # <<>> => SameActions(actions', pending)
      BY <2>1 DEF OfferInv
    <2>4. review'[q].acts # <<>> => SameActions(review'[q].acts, pending) /\ Offered
      BY <1>1, <2>1, <2>2, SameActionsFacts DEF OfferInv, Offered
    <2>5. \A p \in Requests : review'[p].acts # <<>> => SameActions(review'[p].acts, pending) /\ Offered
      BY <2>1, <2>4 DEF OfferInv, Offered
    <2>6. actions' # <<>> => Offered
      BY <2>1 DEF Offered
    <2>7. Offered' => Offered
      BY <2>5, <2>6 DEF Offered
    <2> QED BY <2>1, <2>3, <2>5, <2>7 DEF OfferInv
  <1>6. CASE Crash
    <2>1. /\ UNCHANGED <<actions, plan, next, pending>>
          /\ \A q \in Requests : review'[q].acts = <<>>
      BY <1>6 DEF Crash, Unsent, Over, case, local, thread
    <2> QED BY <2>1 DEF OfferInv, Offered
  <1>7. CASE UNCHANGED vars
    BY <1>7 DEF vars, case, local, thread, OfferInv, Offered
  <1> QED BY <1>2, <1>3, <1>4, <1>5, <1>6, <1>7 DEF Next, Planning

-----------------------------------------------------------------------------
(* The loop over the calls.                                                *)

\* The loop is under way, or what it made is offered.
Scanning == pc = "call" \/ Offered

\* The calls before the next one: none was refused, reads are done, and the writes are
\* exactly what is pending, each once.
Accepted ==
    /\ Len(plan) <= MaxSteps
    /\ \A i, j \in 1 .. Len(plan) : plan[i].id = plan[j].id => i = j
    /\ \A j \in 1 .. next - 1 : plan[j].tool \notin Refused
    /\ \A i \in 1 .. Len(pending) :
         \E j \in 1 .. next - 1 : plan[j].id = pending[i].call /\ plan[j].tool = pending[i].tool
    /\ \A j \in 1 .. next - 1 :
         plan[j].tool \in Writes => \E i \in 1 .. Len(pending) : pending[i].call = plan[j].id
    /\ \A i, j \in 1 .. Len(pending) : pending[i].call = pending[j].call => i = j

ReadsDone == \A j \in 1 .. next - 1 : plan[j].tool = "lookup" => calls[plan[j].id] = "completed"

ScanInv == Scanning => Accepted /\ ReadsDone

\* The steps that move the loop; no other step touches a plan that is scanned.
LEMMA LoopSteps ==
    ASSUME TypeInv, OfferInv, [Next]_vars, Scanning'
    PROVE  \/ StepLimit /\ ~TooLong(plan)
           \/ ReadCall /\ pc' = "call"
           \/ WriteCall
           \/ /\ Scanning /\ UNCHANGED <<proposed, plan, next, pending, used>>
              /\ calls' = calls \/ \E q \in Requests : ApproveCall(q)
  <1>1. Offered => pc = "done"
    BY DEF TypeInv, PhaseInv
  <1>2. CASE Create \/ Planner \/ InsertCall \/ RefuseCall \/ Fail
    <2>1. Offered' => Offered
      BY <1>2 DEF Create, Planner, InsertCall, RefuseCall, Fail, Offered, case, local
    <2>2. Offered' \/ pc' = "call"
      BY DEF Scanning
    <2> QED BY <1>1, <1>2, <2>1, <2>2 DEF Create, Planner, InsertCall, RefuseCall, Fail, AtCall
  <1>3. CASE StepLimit
    <2>1. Offered' => Offered
      BY <1>3 DEF StepLimit, Offered, case
    <2> QED BY <1>1, <1>3, <2>1 DEF StepLimit, Scanning
  <1>4. CASE ReadCall
    <2>1. Offered' => Offered
      BY <1>4 DEF ReadCall, Offered, case
    <2> QED BY <1>1, <1>4, <2>1 DEF ReadCall, AtCall, Scanning
  <1>5. CASE Publish
    BY <1>5 DEF Publish, Scanning, local, thread
  <1>6. ASSUME NEW q \in Requests, Decision(q)
        PROVE  /\ Scanning /\ UNCHANGED <<proposed, plan, next, pending, used>>
               /\ calls' = calls \/ ApproveCall(q)
    <2>1. /\ UNCHANGED <<pc, local>> /\ review' \in [Requests -> Request]
          /\ \A p \in Requests \ {q} : review'[p] = review[p]
          /\ actions' \in {actions, review[q].acts}
          /\ \/ review'[q].acts \in {actions, review[q].acts, <<>>}
             \/ SameActions(review'[q].acts, review[q].acts)
          /\ calls' = calls \/ ApproveCall(q)
      BY <1>6, DecisionMoves
    <2>2. review'[q].acts \in Seq(Action) /\ review[q].acts \in Seq(Action)
      BY <2>1 DEF Request, TypeInv, TypeOK
    <2>3. review'[q].acts # <<>> => Offered
      BY <2>1, <2>2, SameActionsFacts DEF Offered
    <2>4. Offered' => Offered
      BY <2>1, <2>3 DEF Offered
    <2> QED BY <2>1, <2>4 DEF Scanning, local, thread
  <1>7. CASE Crash \/ UNCHANGED vars
    <2>1. Offered' => Offered
      BY <1>7 DEF Crash, Unsent, Over, Offered, vars, case
    <2> QED BY <1>7, <2>1 DEF Crash, Scanning, vars, case, local, thread
  <1> QED BY <1>2, <1>3, <1>4, <1>5, <1>6, <1>7 DEF Next, Planning

\* A write goes to the end of what is pending.
LEMMA WriteCallFacts ==
    ASSUME TypeInv, WriteCall
    PROVE  LET c == plan[next] IN
           /\ next \in 1 .. Len(plan) /\ c \in Call /\ c.tool \in Writes /\ proposed \in Proposals
           /\ next' = next + 1 /\ UNCHANGED <<proposed, plan>>
           /\ Len(pending') = Len(pending) + 1 /\ Len(pending) \in Nat
           /\ \A i \in 1 .. Len(pending) : pending'[i] = pending[i]
           /\ LET new == pending'[Len(pending) + 1] IN
                new.id = IdFor(c) /\ new.call = c.id /\ new.tool = c.tool /\ new.status = "pending"
           /\ calls' = [calls EXCEPT ![c.id] = "awaiting_approval"]
  <1>1. /\ plan \in Seq(Call) /\ next \in 1 .. Len(plan) + 1 /\ pending \in Seq(Action)
        /\ proposed \in Proposals
    BY DEF TypeInv, TypeOK, PhaseInv, WriteCall, AtCall
  <1>2. next <= Len(plan) /\ plan[next].tool \in Writes
    BY DEF WriteCall, AtCall
  <1>3. next \in 1 .. Len(plan) /\ plan[next] \in Call
    BY <1>1, <1>2, CallAtNext
  <1>4. ActionOf(plan[next]) \in Action
    BY <1>1, <1>2, <1>3, ActionOfType
  <1>5. pending' = Append(pending, ActionOf(plan[next]))
    BY DEF WriteCall
  <1>6. /\ Len(pending') = Len(pending) + 1 /\ Len(pending) \in Nat
        /\ \A i \in 1 .. Len(pending) : pending'[i] = pending[i]
        /\ pending'[Len(pending) + 1] = ActionOf(plan[next])
    BY <1>1, <1>4, <1>5, AppendProperties
  <1>7. /\ next' = next + 1 /\ UNCHANGED <<proposed, plan>>
        /\ calls' = [calls EXCEPT ![plan[next].id] = "awaiting_approval"]
    BY DEF WriteCall
  <1> QED BY <1>1, <1>2, <1>3, <1>6, <1>7 DEF ActionOf

\* A read takes the loop on and leaves what is pending alone.
LEMMA ReadCallFacts ==
    ASSUME TypeInv, ReadCall
    PROVE  LET c == plan[next] IN
           /\ next \in 1 .. Len(plan) /\ c \in Call /\ c.tool = "lookup" /\ pc = "call"
           /\ UNCHANGED <<proposed, plan, pending, used>>
           /\ \E s \in {"completed", "failed"} : calls' = [calls EXCEPT ![c.id] = s]
           /\ pc' = "call" => next' = next + 1 /\ calls' = [calls EXCEPT ![c.id] = "completed"]
  <1>1. plan \in Seq(Call) /\ next \in 1 .. Len(plan) + 1
    BY DEF TypeInv, TypeOK
  <1>2. next <= Len(plan) /\ plan[next].tool = "lookup" /\ pc = "call"
    BY DEF ReadCall, AtCall, ReadTools
  <1>3. next \in 1 .. Len(plan) /\ plan[next] \in Call
    BY <1>1, <1>2, CallAtNext
  <1> QED BY <1>2, <1>3 DEF ReadCall

\* What the loop over the calls has accepted so far.
LEMMA AcceptedStep ==
    ASSUME TypeInv, OfferInv, [Next]_vars, Scanning => Accepted, Scanning'
    PROVE  Accepted'
  <1>1. CASE StepLimit /\ ~TooLong(plan)
    <2>1. /\ pc = "insert" /\ next > Len(plan) /\ next' = 1 /\ UNCHANGED <<plan, pending>>
      BY <1>1 DEF StepLimit
    <2>2. /\ pending = <<>> /\ \A i, j \in 1 .. next - 1 : plan[i].id = plan[j].id => i = j
          /\ plan \in Seq(Call) /\ next \in 1 .. Len(plan) + 1
      BY <2>1 DEF TypeInv, TypeOK, PhaseInv
    <2>3. Len(plan) \in Nat /\ next - 1 = Len(plan)
      BY <2>1, <2>2
    <2>4. Len(plan) <= MaxSteps
      BY <1>1, <2>3, MaxStepsAssumption DEF TooLong
    <2> QED BY <2>1, <2>2, <2>3, <2>4 DEF Accepted
  <1>2. CASE ReadCall /\ pc' = "call"
    <2>1. /\ next \in 1 .. Len(plan) /\ plan[next].tool = "lookup" /\ next' = next + 1
          /\ UNCHANGED <<plan, pending>> /\ Accepted
      BY <1>2, ReadCallFacts DEF Scanning
    <2>2. \A j \in 1 .. next' - 1 : j \in 1 .. next - 1 \/ j = next
      BY <2>1
    <2>3. \A j \in 1 .. next - 1 : j \in 1 .. next' - 1
      BY <2>1
    <2>4. plan[next].tool \notin Refused /\ plan[next].tool \notin Writes
      BY <2>1 DEF Refused, Writes
    <2> QED BY <2>1, <2>2, <2>3, <2>4 DEF Accepted
  <1>3. CASE WriteCall
    <2> DEFINE c == plan[next]
               m == Len(pending) + 1
    <2>1. /\ next \in 1 .. Len(plan) /\ c.tool \in Writes /\ next' = next + 1 /\ plan' = plan
          /\ Len(pending') = m /\ m - 1 \in Nat
          /\ \A i \in 1 .. m - 1 : pending'[i] = pending[i]
          /\ pending'[m].call = c.id /\ pending'[m].tool = c.tool
      BY <1>3, WriteCallFacts
    <2>2. Accepted
      BY <1>3 DEF WriteCall, AtCall, Scanning
    <2>3. /\ \A j \in 1 .. next' - 1 : j \in 1 .. next - 1 \/ j = next
          /\ \A j \in 1 .. next - 1 : j \in 1 .. next' - 1
          /\ next \in 1 .. next' - 1
          /\ \A j \in 1 .. next - 1 : j \in 1 .. Len(plan) /\ j # next
      BY <2>1
    <2>4. /\ \A i \in 1 .. Len(pending') : i \in 1 .. m - 1 \/ i = m
          /\ \A i \in 1 .. m - 1 : i \in 1 .. Len(pending')
          /\ m \in 1 .. Len(pending')
      BY <2>1
    <2>5. c.tool \notin Refused
      BY <2>1 DEF Refused, Writes
    <2>6. \A i \in 1 .. m - 1 : pending[i].call # c.id
      BY <2>1, <2>2, <2>3 DEF Accepted
    <2> HIDE DEF c, m
    <2>7. \A i \in 1 .. Len(pending') :
            \E j \in 1 .. next' - 1 : plan[j].id = pending'[i].call /\ plan[j].tool = pending'[i].tool
      <3>1. ASSUME NEW i \in 1 .. m - 1
            PROVE  \E j \in 1 .. next' - 1 : plan[j].id = pending'[i].call /\ plan[j].tool = pending'[i].tool
        BY <2>1, <2>2, <2>3 DEF Accepted, m
      <3>2. \E j \in 1 .. next' - 1 : plan[j].id = pending'[m].call /\ plan[j].tool = pending'[m].tool
        BY <2>1, <2>3 DEF c
      <3> QED BY <2>4, <3>1, <3>2
    <2>8. \A j \in 1 .. next' - 1 :
            plan[j].tool \in Writes => \E i \in 1 .. Len(pending') : pending'[i].call = plan[j].id
      <3>1. ASSUME NEW j \in 1 .. next - 1, plan[j].tool \in Writes
            PROVE  \E i \in 1 .. Len(pending') : pending'[i].call = plan[j].id
        <4>1. PICK i \in 1 .. m - 1 : pending[i].call = plan[j].id
          BY <2>1, <2>2, <3>1 DEF Accepted, m
        <4> QED BY <2>1, <2>4, <4>1
      <3>2. \E i \in 1 .. Len(pending') : pending'[i].call = plan[next].id
        BY <2>1, <2>4 DEF c
      <3> QED BY <2>3, <3>1, <3>2
    <2>9. \A i, j \in 1 .. Len(pending') : pending'[i].call = pending'[j].call => i = j
      BY <2>1, <2>2, <2>4, <2>6 DEF Accepted, m
    <2>10. \A j \in 1 .. next' - 1 : plan[j].tool \notin Refused
      BY <2>2, <2>3, <2>5 DEF Accepted, c
    <2> QED BY <2>1, <2>2, <2>7, <2>8, <2>9, <2>10 DEF Accepted
  <1>4. CASE Scanning /\ UNCHANGED <<proposed, plan, next, pending, used>>
    BY <1>4 DEF Accepted
  <1> QED BY <1>1, <1>2, <1>3, <1>4, LoopSteps

\* What an approve runs is a write of the plan, and pending.
LEMMA ApprovedFacts ==
    ASSUME TypeInv, OfferInv, Accepted, NEW q \in Requests, ApproveCall(q)
    PROVE  LET a == review[q].acts[review[q].next] IN
           /\ pc = "done" /\ next > Len(plan) /\ Offered /\ a \in Action
           /\ SameActions(review[q].acts, pending) /\ review[q].next \in 1 .. Len(pending)
           /\ pending[review[q].next].call = a.call
           /\ \E j \in 1 .. next - 1 : plan[j].id = a.call /\ plan[j].tool = a.tool
  <1> DEFINE acts == review[q].acts
             n == review[q].next
  <1>1. /\ acts \in Seq(Action) /\ n \in 1 .. Len(acts) /\ acts[n] \in Action /\ acts # <<>>
    BY ApproveCallFacts DEF TypeInv, TypeOK, Request
  <1>2. Offered /\ pc = "done" /\ next > Len(plan) /\ SameActions(acts, pending)
    BY <1>1 DEF Offered, OfferInv, TypeInv, PhaseInv
  <1>3. n \in 1 .. Len(pending) /\ pending[n].call = acts[n].call /\ pending[n].tool = acts[n].tool
    BY <1>1, <1>2 DEF SameActions
  <1>4. PICK j \in 1 .. next - 1 : plan[j].id = pending[n].call /\ plan[j].tool = pending[n].tool
    BY <1>3 DEF Accepted
  <1> QED BY <1>1, <1>2, <1>3, <1>4

\* The reads of the calls already passed have ended.
LEMMA ReadsStep ==
    ASSUME TypeInv, OfferInv, [Next]_vars, ScanInv, Scanning'
    PROVE  ReadsDone'
  <1>1. calls \in [CallIds -> CallStates] /\ plan \in Seq(Call) /\ next \in 1 .. Len(plan) + 1
    BY DEF TypeInv, TypeOK
  <1>2. \A j \in 1 .. next - 1 : j \in 1 .. Len(plan) /\ plan[j].id \in CallIds
    <2> TAKE j \in 1 .. next - 1
    <2>1. j \in 1 .. Len(plan)
      BY <1>1
    <2>2. plan[j] \in Call
      BY <1>1, <2>1, ElementOfSeq
    <2> QED BY <2>1, <2>2 DEF Call
  <1>3. CASE StepLimit /\ ~TooLong(plan)
    <2>1. next' = 1
      BY <1>3 DEF StepLimit
    <2> QED BY <2>1 DEF ReadsDone
  <1>4. CASE ReadCall /\ pc' = "call"
    <2>1. /\ next \in 1 .. Len(plan) /\ plan[next] \in Call /\ next' = next + 1 /\ plan' = plan
          /\ calls' = [calls EXCEPT ![plan[next].id] = "completed"] /\ ReadsDone
      BY <1>4, ReadCallFacts DEF ScanInv, Scanning
    <2>2. \A j \in 1 .. next' - 1 : j \in 1 .. next - 1 \/ j = next
      BY <2>1
    <2>3. plan[next].id \in CallIds
      BY <2>1 DEF Call
    <2> QED BY <1>1, <1>2, <2>1, <2>2, <2>3 DEF ReadsDone
  <1>5. CASE WriteCall
    <2>1. /\ next \in 1 .. Len(plan) /\ plan[next].tool \in Writes /\ next' = next + 1 /\ plan' = plan
          /\ calls' = [calls EXCEPT ![plan[next].id] = "awaiting_approval"]
      BY <1>5, WriteCallFacts
    <2>2. Accepted /\ ReadsDone
      BY <1>5 DEF WriteCall, AtCall, ScanInv, Scanning
    <2>3. \A j \in 1 .. next' - 1 : j \in 1 .. next - 1 \/ j = next
      BY <2>1
    <2>4. \A j \in 1 .. next - 1 : plan[j].id # plan[next].id
      BY <1>1, <1>2, <2>1, <2>2 DEF Accepted
    <2>5. plan[next].tool # "lookup"
      BY <2>1 DEF Writes
    <2> QED BY <1>1, <1>2, <2>1, <2>2, <2>3, <2>4, <2>5 DEF ReadsDone
  <1>6. CASE /\ Scanning /\ UNCHANGED <<proposed, plan, next, pending, used>>
             /\ calls' = calls \/ \E q \in Requests : ApproveCall(q)
    <2>1. Accepted /\ ReadsDone
      BY <1>6 DEF ScanInv
    <2>2. ASSUME NEW q \in Requests, ApproveCall(q)
          PROVE  ReadsDone'
      <3> DEFINE a == review[q].acts[review[q].next]
      <3>1. /\ a \in Action
            /\ calls' = calls \/ \E o \in CallResults : calls' = [calls EXCEPT ![a.call] = o]
        BY <2>2, ApproveCallFacts DEF TypeInv, TypeOK, Request
      <3>2. PICK j \in 1 .. next - 1 : plan[j].id = a.call /\ plan[j].tool = a.tool
        BY <2>1, <2>2, ApprovedFacts
      <3>3. plan[j].tool # "lookup"
        BY <3>1, <3>2 DEF Action, Writes
      <3>4. \A k \in 1 .. next - 1 : plan[k].tool = "lookup" => plan[k].id # a.call
        BY <1>2, <2>1, <3>2, <3>3 DEF Accepted
      <3> HIDE DEF a
      <3> QED BY <1>1, <1>2, <1>6, <2>1, <3>1, <3>4 DEF ReadsDone
    <2>3. CASE calls' = calls
      BY <1>6, <2>1, <2>3 DEF ReadsDone
    <2> QED BY <1>6, <2>2, <2>3
  <1> QED BY <1>3, <1>4, <1>5, <1>6, LoopSteps

\* The loop keeps its invariant.
LEMMA ScanStep == TypeInv /\ OfferInv /\ ScanInv /\ [Next]_vars => ScanInv'
  BY AcceptedStep, ReadsStep DEF ScanInv

\* The invariants of the loop hold throughout.
LEMMA ScanInvariant == Spec => [](TypeInv /\ OfferInv /\ ScanInv)
  <1>1. Init => ScanInv
    BY DEF Init, ScanInv, Scanning, Offered, Unsent
  <1> QED BY <1>1, TypeInvariant, OfferInit, OfferStep, ScanStep, PTL DEF Spec

\* Whatever crashes or is approved while a plan is made, what a case offers are the
\* writes of a whole plan that passed every test of the registry (store.py:289-375).
THEOREM OfferTheorem == Spec => []OfferedIsWhole
  <1>1. TypeInv /\ OfferInv /\ ScanInv => OfferedIsWhole
    <2> SUFFICES ASSUME TypeInv, OfferInv, ScanInv, actions # <<>>
                 PROVE  OfferedIsWhole
      BY DEF OfferedIsWhole
    <2>1. /\ plan \in Seq(Call) /\ actions \in Seq(Action) /\ pending \in Seq(Action)
          /\ next \in 1 .. Len(plan) + 1
      BY DEF TypeInv, TypeOK
    <2>2. Accepted /\ ReadsDone /\ next > Len(plan) /\ SameActions(actions, pending)
      BY DEF ScanInv, Scanning, OfferInv, Offered
    <2>3. 1 .. next - 1 = 1 .. Len(plan)
      BY <2>1, <2>2
    <2>4. DOMAIN plan = 1 .. next - 1
      BY <2>1, <2>3, PlanIds
    <2>5. DOMAIN actions = 1 .. Len(pending) /\ Len(actions) = Len(pending)
      BY <2>1, <2>2, LenProperties DEF SameActions
    <2>6. \A i \in 1 .. Len(pending) : actions[i].call = pending[i].call /\ actions[i].tool = pending[i].tool
      BY <2>2, <2>5 DEF SameActions
    <2>7. Sound(plan)
      BY <2>2, <2>3, <2>4 DEF Sound, Accepted, ReadsDone
    <2>8. /\ \A i \in DOMAIN actions :
               \E j \in DOMAIN plan : plan[j].id = actions[i].call /\ plan[j].tool = actions[i].tool
          /\ \A j \in DOMAIN plan :
               plan[j].tool \in Writes => \E i \in DOMAIN actions : actions[i].call = plan[j].id
          /\ \A i, j \in DOMAIN actions : actions[i].call = actions[j].call => i = j
      <3>1. \A i \in DOMAIN actions :
               \E j \in DOMAIN plan : plan[j].id = actions[i].call /\ plan[j].tool = actions[i].tool
        <4> TAKE i \in DOMAIN actions
        <4>1. PICK j \in 1 .. next - 1 : plan[j].id = pending[i].call /\ plan[j].tool = pending[i].tool
          BY <2>2, <2>5 DEF Accepted
        <4> QED BY <2>4, <2>5, <2>6, <4>1
      <3>2. ASSUME NEW j \in DOMAIN plan, plan[j].tool \in Writes
            PROVE  \E i \in DOMAIN actions : actions[i].call = plan[j].id
        <4>1. PICK i \in 1 .. Len(pending) : pending[i].call = plan[j].id
          BY <2>2, <2>4, <3>2 DEF Accepted
        <4> QED BY <2>5, <2>6, <4>1
      <3>3. \A i, j \in DOMAIN actions : actions[i].call = actions[j].call => i = j
        BY <2>2, <2>5, <2>6 DEF Accepted
      <3> QED BY <3>1, <3>2, <3>3
    <2> QED BY <2>7, <2>8 DEF OfferedIsWhole
  <1> QED BY <1>1, ScanInvariant, PTL

-----------------------------------------------------------------------------
(* No write before the approval.                                           *)

NoWriteHasResult ==
    \A j \in DOMAIN plan : plan[j].tool \in Writes => calls[plan[j].id] \notin CallResults

\* The whole plan was accepted, and each of its writes waited.
Accountable ==
    /\ pc = "done" /\ Sound(plan)
    /\ \A j \in DOMAIN plan :
         plan[j].tool \in Writes => \E i \in DOMAIN pending : pending[i].call = plan[j].id

\* Either no write has a result yet, or all of them waited.
WaitInv == NoWriteHasResult \/ Accountable

\* Planning gives no write a result.
LEMMA WaitPlanningStep ==
    ASSUME TypeInv, TypeInv', ScanInv, NoWriteHasResult, Planning
    PROVE  NoWriteHasResult'
  <1>1. /\ calls \in [CallIds -> CallStates] /\ plan \in Seq(Call) /\ plan' \in Seq(Call)
        /\ \A j \in DOMAIN plan : plan[j].id \in CallIds
    BY PlanIds DEF TypeInv, TypeOK
  <1>2. CASE Create \/ Planner \/ InsertCall \/ StepLimit
    <2>1. \A c \in CallIds : calls[c] \in {"none", "planned"}
      BY <1>2 DEF Create, Planner, InsertCall, StepLimit, TypeInv, PhaseInv
    <2>2. \A c \in CallIds : calls'[c] \in {"none", "planned", "step_limit_rejected"}
      BY <1>1, <1>2, <2>1 DEF Create, Planner, InsertCall, StepLimit
    <2>3. \A c \in CallIds : calls'[c] \notin CallResults
      BY <2>2 DEF CallResults
    <2>4. \A j \in DOMAIN plan' : plan'[j].id \in CallIds
      BY <1>1, PlanIds
    <2> QED BY <2>3, <2>4 DEF NoWriteHasResult
  <1>3. CASE RefuseCall \/ WriteCall \/ Publish \/ Fail
    <2>1. plan' = plan /\ \A c \in CallIds : calls'[c] = calls[c] \/ calls'[c] \notin CallResults
      BY <1>1, <1>3 DEF RefuseCall, WriteCall, Publish, Fail, local, thread, CallResults
    <2> QED BY <1>1, <2>1 DEF NoWriteHasResult
  <1>4. CASE ReadCall
    <2>1. /\ next \in 1 .. Len(plan) /\ plan[next].tool = "lookup" /\ plan' = plan /\ pc = "call"
          /\ \E s \in {"completed", "failed"} : calls' = [calls EXCEPT ![plan[next].id] = s]
      BY <1>4, ReadCallFacts
    <2>2. \A j \in DOMAIN plan : plan[j].tool \in Writes => plan[j].id # plan[next].id
      <3>1. Accepted /\ DOMAIN plan = 1 .. Len(plan)
        BY <1>1, <2>1, PlanIds DEF ScanInv, Scanning
      <3> QED BY <2>1, <3>1 DEF Accepted, Writes
    <2> QED BY <1>1, <2>1, <2>2 DEF NoWriteHasResult
  <1> QED BY <1>2, <1>3, <1>4 DEF Planning

\* A write is run when all of them wait.
LEMMA WaitApproveStep ==
    ASSUME TypeInv, TypeInv', OfferInv, ScanInv, ScanInv', NEW q \in Requests, ApproveCall(q), OfferInv'
    PROVE  Accountable'
  <1>1. UNCHANGED <<pc, proposed, plan, next, pending>>
    BY DEF ApproveCall, local, thread
  <1>2. Offered'
    <2>1. review'[q].acts # <<>>
      <3>1. /\ review[q].acts \in Seq(Action) /\ review[q].acts # <<>>
            /\ review'[q].acts \in Seq(Action) /\ SameActions(review'[q].acts, review[q].acts)
        BY ReviewKeepsActions, ApproveCallFacts DEF TypeInv, TypeOK, Request
      <3> QED BY <3>1, SameActionsFacts
    <2> QED BY <2>1 DEF Offered
  <1>3. /\ Accepted' /\ ReadsDone' /\ pc' = "done" /\ next' > Len(plan')
        /\ plan' \in Seq(Call) /\ pending' \in Seq(Action) /\ next' \in 1 .. Len(plan') + 1
    BY <1>2 DEF ScanInv, Scanning, OfferInv, TypeInv, TypeOK, PhaseInv
  <1>4. /\ DOMAIN plan' = 1 .. Len(plan') /\ 1 .. next' - 1 = 1 .. Len(plan')
        /\ DOMAIN pending' = 1 .. Len(pending')
    BY <1>3, PlanIds, LenProperties
  <1>5. Sound(plan)'
    BY <1>3, <1>4 DEF Sound, Accepted, ReadsDone
  <1>6. \A j \in DOMAIN plan' :
          plan'[j].tool \in Writes => \E i \in DOMAIN pending' : pending'[i].call = plan'[j].id
    BY <1>3, <1>4 DEF Accepted
  <1> QED BY <1>3, <1>5, <1>6 DEF Accountable

\* A write has no result before the plan is published.
LEMMA WaitStep ==
    ASSUME TypeInv, TypeInv', OfferInv, OfferInv', ScanInv, ScanInv', WaitInv, [Next]_vars
    PROVE  WaitInv'
  <1>1. CASE Planning
    <2>1. pc # "done"
      BY <1>1 DEF Planning, Create, Planner, InsertCall, StepLimit, RefuseCall, ReadCall, WriteCall,
                  AtCall, Publish, Fail
    <2> QED BY <1>1, <2>1, WaitPlanningStep DEF WaitInv, Accountable
  <1>2. ASSUME NEW q \in Requests, ApproveCall(q)
        PROVE  WaitInv'
    BY <1>2, WaitApproveStep DEF WaitInv
  <1>3. CASE \/ \E q \in Requests : Decision(q) /\ calls' = calls
             \/ Crash
             \/ UNCHANGED vars
    <2>1. UNCHANGED <<calls, plan, pending>> /\ (pc = "done" => pc' = "done")
      BY <1>3, DecisionMoves DEF Crash, vars, case, local, thread
    <2> QED BY <2>1 DEF WaitInv, NoWriteHasResult, Accountable, Sound
  <1>4. ASSUME NEW q \in Requests, Decision(q)
        PROVE  calls' = calls \/ ApproveCall(q)
    BY <1>4, DecisionMoves
  <1> QED BY <1>1, <1>2, <1>3, <1>4 DEF Next

\* A write has a result only if the whole plan it belongs to was accepted and published
\* first, also when an approve began before that, two of them overlap or one puts an older
\* list of actions back (store.py:329, 405-418, 605).
THEOREM WaitTheorem == Spec => []WritesWait
  <1>1. Init => WaitInv
    BY DEF Init, WaitInv, NoWriteHasResult
  <1>2. TypeInv /\ OfferInv /\ ScanInv /\ WaitInv /\ (TypeInv /\ OfferInv /\ ScanInv)' /\ [Next]_vars
        => WaitInv'
    BY WaitStep
  <1>3. WaitInv => WritesWait
    BY DEF WaitInv, NoWriteHasResult, Accountable, WritesWait
  <1> QED BY <1>1, <1>2, <1>3, ScanInvariant, PTL DEF Spec

-----------------------------------------------------------------------------
(* Durable keys.                                                           *)

\* The id of a pending action is its call's, or that of a proposed action it took.  Of
\* two with one id, one is called like the proposed action that the other took.
KeysInv ==
    Scanning =>
      /\ used \subseteq {proposed[i].id : i \in DOMAIN proposed}
      /\ \A i \in 1 .. Len(pending) : pending[i].id = pending[i].call \/ pending[i].id \in used
      /\ \A i, j \in 1 .. Len(pending) :
           pending[i].id = pending[j].id /\ i # j
             => Usurps(pending[i], pending[j]) \/ Usurps(pending[j], pending[i])

\* Pending actions keep keys of their own, but for that.
LEMMA KeysStep ==
    ASSUME TypeInv, OfferInv, ScanInv, KeysInv, [Next]_vars
    PROVE  KeysInv'
  <1> SUFFICES ASSUME Scanning' PROVE KeysInv'
    BY DEF KeysInv
  <1>1. CASE StepLimit /\ ~TooLong(plan)
    <2>1. pending' = <<>> /\ used' = {}
      BY <1>1 DEF StepLimit, TypeInv, PhaseInv
    <2> QED BY <2>1 DEF KeysInv
  <1>2. CASE ReadCall /\ pc' = "call"
    BY <1>2, ReadCallFacts DEF KeysInv, Scanning, Usurps
  <1>3. CASE WriteCall
    <2> DEFINE c == plan[next]
               m == Len(pending) + 1
               Named == {proposed[i].id : i \in DOMAIN proposed}
    <2>1. /\ next \in 1 .. Len(plan) /\ c \in Call /\ Len(pending') = m /\ m - 1 \in Nat
          /\ \A i \in 1 .. m - 1 : pending'[i] = pending[i]
          /\ pending'[m].id = IdFor(c) /\ pending'[m].call = c.id
          /\ proposed \in Proposals /\ proposed' = proposed
      BY <1>3, WriteCallFacts
    <2>2. Accepted /\ KeysInv /\ Scanning
      BY <1>3 DEF WriteCall, AtCall, ScanInv, Scanning
    <2>3. used' = IF Legacy(c.tool) = {} THEN used ELSE used \cup {IdFor(c)}
      BY <1>3 DEF WriteCall
    <2>4. /\ used' \subseteq Named /\ used \subseteq used' /\ used \subseteq Named
          /\ \/ IdFor(c) = c.id
             \/ IdFor(c) \in Named \ used /\ IdFor(c) \in used'
      <3>1. used \subseteq Named
        BY <2>2 DEF KeysInv
      <3>2. CASE Legacy(c.tool) = {}
        BY <2>3, <3>1, <3>2 DEF IdFor
      <3>3. CASE Legacy(c.tool) # {}
        <4>1. PICK i \in Legacy(c.tool) : IdFor(c) = proposed[i].id
          BY <2>1, <3>3, IdForFacts
        <4>2. IdFor(c) \in Named \ used
          BY <4>1 DEF Legacy
        <4> QED BY <2>3, <3>1, <3>3, <4>2
      <3> QED BY <3>2, <3>3
    <2>5. /\ \A i \in 1 .. Len(pending') : i \in 1 .. m - 1 \/ i = m
          /\ 1 .. m - 1 = 1 .. Len(pending)
          /\ \A j \in 1 .. next - 1 : j \in 1 .. Len(plan) /\ j # next
      BY <2>1
    <2>6. \A i \in 1 .. m - 1 : pending[i].call # c.id
      <3> TAKE i \in 1 .. m - 1
      <3>1. PICK j \in 1 .. next - 1 : plan[j].id = pending[i].call
        BY <2>2, <2>5 DEF Accepted
      <3>2. j \in 1 .. Len(plan) /\ j # next
        BY <2>5
      <3> QED BY <2>1, <2>2, <3>1, <3>2 DEF Accepted
    <2> HIDE DEF c, m, Named
    <2>7. ASSUME NEW i \in 1 .. m - 1, pending'[i].id = pending'[m].id
          PROVE  Usurps(pending'[i], pending'[m]) \/ Usurps(pending'[m], pending'[i])
      <3>1. pending[i].id = pending[i].call \/ pending[i].id \in used
        BY <2>2, <2>5 DEF KeysInv
      <3>2. CASE pending[i].id = pending[i].call
        <4>1. IdFor(c) # c.id /\ IdFor(c) \in Named
          BY <2>1, <2>4, <2>6, <2>7, <3>2
        <4> QED BY <2>1, <2>7, <3>2, <4>1 DEF Usurps, Named
      <3>3. CASE pending[i].id # pending[i].call
        <4>1. pending[i].id \in used /\ IdFor(c) = c.id /\ c.id \in Named
          BY <2>1, <2>4, <2>7, <3>1, <3>3
        <4> QED BY <2>1, <2>7, <3>3, <4>1 DEF Usurps, Named
      <3> QED BY <3>2, <3>3
    <2>8. ASSUME NEW i \in 1 .. m - 1, NEW j \in 1 .. m - 1, pending'[i].id = pending'[j].id, i # j
          PROVE  Usurps(pending'[i], pending'[j]) \/ Usurps(pending'[j], pending'[i])
      <3>1. pending[i].id = pending[j].id /\ pending'[i] = pending[i] /\ pending'[j] = pending[j]
        BY <2>1, <2>8
      <3>2. Usurps(pending[i], pending[j]) \/ Usurps(pending[j], pending[i])
        BY <2>2, <2>5, <2>8, <3>1 DEF KeysInv
      <3> QED BY <3>1, <3>2
    <2>9. \A i \in 1 .. Len(pending') : pending'[i].id = pending'[i].call \/ pending'[i].id \in used'
      <3>1. ASSUME NEW i \in 1 .. m - 1
            PROVE  pending'[i].id = pending'[i].call \/ pending'[i].id \in used'
        <4>1. pending[i].id = pending[i].call \/ pending[i].id \in used
          BY <2>2, <2>5 DEF KeysInv
        <4> QED BY <2>1, <2>4, <4>1
      <3>2. pending'[m].id = pending'[m].call \/ pending'[m].id \in used'
        BY <2>1, <2>4
      <3> QED BY <2>5, <3>1, <3>2
    <2>10. \A i, j \in 1 .. Len(pending') :
             pending'[i].id = pending'[j].id /\ i # j
               => Usurps(pending'[i], pending'[j]) \/ Usurps(pending'[j], pending'[i])
      BY <2>5, <2>7, <2>8
    <2>11. used' \subseteq {proposed[i].id : i \in DOMAIN proposed}
      BY <2>4 DEF Named
    <2> QED BY <2>1, <2>9, <2>10, <2>11 DEF KeysInv, Usurps
  <1>4. CASE Scanning /\ UNCHANGED <<proposed, plan, next, pending, used>>
    BY <1>4 DEF KeysInv, Usurps
  <1> QED BY <1>1, <1>2, <1>3, <1>4, LoopSteps

\* No two actions of a case share a durable key, whatever a model names its calls,
\* unless one took a proposed action and the other's call is called like that action
\* (effects.py:84, store.py:382-386, 712-725).
THEOREM KeysTheorem == Spec => []OnlyNamesCollide
  <1>1. Init => KeysInv
    BY DEF Init, KeysInv, Scanning, Offered, Unsent
  <1>2. TypeInv /\ OfferInv /\ ScanInv /\ KeysInv /\ [Next]_vars => KeysInv'
    BY KeysStep
  <1>3. TypeInv /\ OfferInv /\ KeysInv => OnlyNamesCollide
    <2> SUFFICES ASSUME TypeInv, OfferInv, KeysInv,
                        NEW i \in DOMAIN actions, NEW j \in DOMAIN actions,
                        DurableKey(actions[i]) = DurableKey(actions[j]), i # j
                 PROVE  Usurps(actions[i], actions[j]) \/ Usurps(actions[j], actions[i])
      BY DEF OnlyNamesCollide
    <2>1. actions \in Seq(Action)
      BY DEF TypeInv, TypeOK
    <2>2. SameActions(actions, pending) /\ Scanning
      BY <2>1 DEF OfferInv, Scanning, Offered
    <2>3. DOMAIN actions = 1 .. Len(pending)
      BY <2>1, <2>2, LenProperties DEF SameActions
    <2>4. \A k \in 1 .. Len(pending) : actions[k].id = pending[k].id /\ actions[k].call = pending[k].call
      BY <2>2, <2>3 DEF SameActions
    <2>5. actions[i].id = actions[j].id
      BY DEF DurableKey
    <2>6. Usurps(pending[i], pending[j]) \/ Usurps(pending[j], pending[i])
      BY <2>2, <2>3, <2>4, <2>5 DEF KeysInv
    <2> QED BY <2>3, <2>4, <2>6 DEF Usurps
  <1> QED BY <1>1, <1>2, <1>3, ScanInvariant, PTL DEF Spec

-----------------------------------------------------------------------------
(* Rule plans.                                                             *)

\* After the look-up, each call of the rules makes the action it stands for pending.
RulesInv ==
    Scanning /\ plan = RulePlan(proposed) =>
      /\ Len(pending) = IF next = 1 THEN 0 ELSE next - 2
      /\ \A i \in 1 .. Len(pending) :
           pending[i].id = proposed[i].id /\ pending[i].tool = ToolOf[proposed[i].kind]
      /\ used = {pending[i].id : i \in 1 .. Len(pending)}

\* The tables of the planner and of the store are inverse to each other.
LEMMA TablesAgree == \A kind \in RuleKinds : KindOf[ToolOf[kind]] = kind /\ ToolOf[kind] \in Writes
  BY DEF KindOf, ToolOf, RuleKinds, Writes

\* The call for the n-th proposed action takes that action, if those before it are taken.
LEMMA LegacyOfRule ==
    ASSUME proposed \in Proposals, NEW n \in 1 .. Len(proposed),
           used = {proposed[i].id : i \in 1 .. n - 1},
           NEW c, c.tool = ToolOf[proposed[n].kind]
    PROVE  Legacy(c.tool) # {} /\ IdFor(c) = proposed[n].id
  <1>1. /\ DOMAIN proposed = 1 .. Len(proposed) /\ Len(proposed) \in Nat
        /\ \A i, j \in DOMAIN proposed :
             proposed[i].id = proposed[j].id \/ proposed[i].kind = proposed[j].kind => i = j
    BY RuleActionsFacts, LenProperties
  <1>2. proposed[n].kind \in RuleKinds
    <2>1. proposed[n] \in Proposal
      BY RuleActionsFacts, ElementOfSeq
    <2> QED BY <2>1 DEF Proposal
  <1>3. KindOf[c.tool] = proposed[n].kind
    BY <1>2, TablesAgree
  <1>4. proposed[n].id \notin used
    <2>1. \A i \in 1 .. n - 1 : i \in DOMAIN proposed /\ i # n
      BY <1>1
    <2> QED BY <1>1, <2>1
  <1>5. Legacy(c.tool) = {n}
    BY <1>1, <1>3, <1>4 DEF Legacy
  <1> QED BY <1>1, <1>5 DEF IdFor

\* The actions of the rules stay offered.
LEMMA RulesStep ==
    ASSUME TypeInv, OfferInv, RulesInv, [Next]_vars
    PROVE  RulesInv'
  <1> SUFFICES ASSUME Scanning', plan' = RulePlan(proposed') PROVE RulesInv'
    BY DEF RulesInv
  <1>1. CASE StepLimit /\ ~TooLong(plan)
    <2>1. pending' = <<>> /\ used' = {} /\ next' = 1
      BY <1>1 DEF StepLimit, TypeInv, PhaseInv
    <2> QED BY <2>1 DEF RulesInv
  <1>2. CASE ReadCall /\ pc' = "call"
    <2>1. /\ next \in 1 .. Len(plan) /\ plan[next].tool = "lookup" /\ next' = next + 1
          /\ UNCHANGED <<proposed, plan, pending, used>> /\ Scanning /\ proposed \in Proposals
      BY <1>2, ReadCallFacts DEF Scanning, TypeInv, PhaseInv
    <2>2. plan = RulePlan(proposed)
      BY <2>1
    <2>3. next = 1
      <3>1. ASSUME next # 1 PROVE FALSE
        <4> DEFINE m == next - 1
        <4>1. Len(plan) = Len(proposed) + 1 /\ Len(proposed) \in Nat
          BY <2>1, <2>2, RulePlanFacts, RuleActionsFacts
        <4>2. m \in 1 .. Len(proposed) /\ m + 1 = next
          BY <2>1, <3>1, <4>1
        <4> HIDE DEF m
        <4>3. plan[m + 1].tool = ToolOf[proposed[m].kind]
          <5>1. plan[m + 1] = [id |-> StepId[m + 1], tool |-> ToolOf[proposed[m].kind]]
            BY <2>1, <2>2, <4>2, RulePlanFacts
          <5> QED BY <5>1
        <4>4. proposed[m] \in Proposal
          BY <2>1, <4>2, RuleActionsFacts, ElementOfSeq
        <4> QED BY <2>1, <4>2, <4>3, <4>4, TablesAgree DEF Proposal, Writes
      <3> QED BY <3>1
    <2> QED BY <2>1, <2>2, <2>3 DEF RulesInv
  <1>3. CASE WriteCall
    <2> DEFINE c == plan[next]
               m == Len(pending) + 1
    <2>1. /\ next \in 1 .. Len(plan) /\ c.tool \in Writes /\ Len(pending') = m /\ m - 1 \in Nat
          /\ \A i \in 1 .. m - 1 : pending'[i] = pending[i]
          /\ pending'[m].id = IdFor(c) /\ pending'[m].tool = c.tool
          /\ proposed \in Proposals /\ next' = next + 1 /\ UNCHANGED <<proposed, plan>>
      BY <1>3, WriteCallFacts
    <2>2. /\ used' = IF Legacy(c.tool) = {} THEN used ELSE used \cup {IdFor(c)}
          /\ Scanning
      BY <1>3 DEF WriteCall, AtCall, Scanning
    <2>3. plan = RulePlan(proposed)
      BY <2>1
    <2>4. next # 1
      BY <2>1, <2>3, RulePlanFacts DEF Writes
    <2>5. /\ m - 1 = next - 2 /\ Len(pending) = m - 1
          /\ \A i \in 1 .. m - 1 :
               pending[i].id = proposed[i].id /\ pending[i].tool = ToolOf[proposed[i].kind]
          /\ used = {pending[i].id : i \in 1 .. m - 1}
      BY <2>1, <2>2, <2>4 DEF RulesInv
    <2>6. m \in 1 .. Len(proposed) /\ m + 1 = next
      <3>1. Len(plan) = Len(proposed) + 1 /\ Len(proposed) \in Nat
        BY <2>1, <2>3, RulePlanFacts, RuleActionsFacts
      <3> QED BY <2>1, <2>4, <2>5, <3>1
    <2>7. c.tool = ToolOf[proposed[m].kind]
      <3> HIDE DEF m
      <3>1. plan[m + 1] = [id |-> StepId[m + 1], tool |-> ToolOf[proposed[m].kind]]
        BY <2>1, <2>3, <2>6, RulePlanFacts
      <3> QED BY <2>6, <3>1
    <2> HIDE DEF c, m
    <2>8. Legacy(c.tool) # {} /\ IdFor(c) = proposed[m].id
      <3>1. used = {proposed[i].id : i \in 1 .. m - 1}
        BY <2>5
      <3> QED BY <2>1, <2>6, <2>7, <3>1, LegacyOfRule
    <2>9. \A i \in 1 .. m : i \in 1 .. m - 1 \/ i = m
      BY <2>1
    <2>10. \A i \in 1 .. Len(pending') :
            pending'[i].id = proposed'[i].id /\ pending'[i].tool = ToolOf[proposed'[i].kind]
      BY <2>1, <2>5, <2>7, <2>8, <2>9
    <2>11. used' = {pending'[i].id : i \in 1 .. Len(pending')}
      <3>1. used' = used \cup {pending'[m].id}
        BY <2>1, <2>2, <2>8
      <3>2. used = {pending'[i].id : i \in 1 .. m - 1}
        BY <2>1, <2>5
      <3>3. 1 .. m = (1 .. m - 1) \cup {m}
        BY <2>1
      <3> QED BY <2>1, <3>1, <3>2, <3>3
    <2>12. Len(pending') = next' - 2 /\ next' # 1
      BY <2>1, <2>6
    <2> QED BY <2>10, <2>11, <2>12 DEF RulesInv
  <1>4. CASE Scanning /\ UNCHANGED <<proposed, plan, next, pending, used>>
    BY <1>4 DEF RulesInv
  <1> QED BY <1>1, <1>2, <1>3, <1>4, LoopSteps

\* The rules' plan offers exactly the proposed actions under their own ids and tools:
\* the tables of engine.py, tools.py and store.py agree (engine.py:166-207,
\* tools.py:173-190, store.py:712-725).
THEOREM RulesTheorem == Spec => []RulesAreOffered
  <1>1. Init => RulesInv
    BY DEF Init, RulesInv, Scanning, Offered, Unsent
  <1>2. TypeInv /\ OfferInv /\ RulesInv /\ [Next]_vars => RulesInv'
    BY RulesStep
  <1>3. TypeInv /\ OfferInv /\ RulesInv => RulesAreOffered
    <2> SUFFICES ASSUME TypeInv, OfferInv, RulesInv, actions # <<>>, plan = RulePlan(proposed)
                 PROVE  /\ DOMAIN actions = DOMAIN proposed
                        /\ \A i \in DOMAIN actions :
                             /\ actions[i].id = proposed[i].id
                             /\ actions[i].tool = ToolOf[proposed[i].kind]
      BY DEF RulesAreOffered
    <2>1. /\ actions \in Seq(Action) /\ SameActions(actions, pending) /\ proposed \in Proposals
          /\ next \in 1 .. Len(plan) + 1 /\ next > Len(plan)
      BY DEF TypeInv, TypeOK, PhaseInv, OfferInv, Offered
    <2>2. /\ Len(plan) = Len(proposed) + 1 /\ Len(proposed) \in Nat
          /\ DOMAIN proposed = 1 .. Len(proposed)
      BY <2>1, RulePlanFacts, RuleActionsFacts, LenProperties
    <2>3. next = Len(proposed) + 2 /\ next # 1
      BY <2>1, <2>2
    <2>4. /\ Len(pending) = next - 2
          /\ \A i \in 1 .. Len(pending) :
               pending[i].id = proposed[i].id /\ pending[i].tool = ToolOf[proposed[i].kind]
      BY <2>3 DEF RulesInv, Scanning, Offered
    <2>5. Len(pending) = Len(proposed)
      BY <2>2, <2>3, <2>4
    <2>6. DOMAIN actions = 1 .. Len(pending)
      BY <2>1, LenProperties DEF SameActions
    <2>7. \A i \in 1 .. Len(pending) : actions[i].id = pending[i].id /\ actions[i].tool = pending[i].tool
      BY <2>1 DEF SameActions
    <2> QED BY <2>2, <2>4, <2>5, <2>6, <2>7
  <1> QED BY <1>1, <1>2, <1>3, ScanInvariant, PTL DEF Spec
=============================================================================
