--------------------------- MODULE ApprovalRunProofs ---------------------------
(***************************************************************************)
(* Theorems about ApprovalRun for any plan, any handlers, any number of    *)
(* threads and any number of crashes.  Every step of the approval loop is  *)
(* a step of the gateway or leaves it alone, so what is proved of the      *)
(* gateway holds here too; consent and completion are invariants of the    *)
(* loop itself.                                                            *)
(***************************************************************************)
EXTENDS ApprovalRun, TLAPS

GP == INSTANCE EffectGatewayFinality

-----------------------------------------------------------------------------
\* Every answer of the webhook has a class execute knows.
LEMMA ClassTypes == \A a \in Answers : ClassOf(a) \in Gateway!EffectClasses
  BY DEF ClassOf, Gateway!EffectClasses

\* Every step of the loop is a step of the gateway or leaves it alone.
LEMMA GatewayStep == [Next]_vars => [Gateway!Next]_gateVars
  <1> SUFFICES ASSUME [Next]_vars
               PROVE  [Gateway!Next]_gateVars
    OBVIOUS
  <1>1. ASSUME NEW w \in Workers, CallGateway(w)
        PROVE  Gateway!Next
    <2>1. PICK i \in Todo(w) : Gateway!Execute(w, Plan[i])
      BY <1>1 DEF CallGateway
    <2>2. Plan[i] \in Keys
      BY PlanAssumption, <2>1 DEF Todo
    <2> QED BY <2>1, <2>2 DEF Gateway!Next
  <1>2. ASSUME NEW w \in Workers, Deliver(w)
        PROVE  Gateway!Next
    BY <1>2 DEF Deliver, Gateway!Next, Gateway!Proceed
  <1>3. ASSUME NEW w \in Workers, RunEffect(w)
        PROVE  Gateway!Next
    <2>1. PICK c : c \in Gateway!EffectClasses /\ Gateway!Fire(w, c)
      BY <1>3, ClassTypes DEF RunEffect, LocalEffect, Notification, Gateway!EffectClasses
    <2> QED BY <2>1 DEF Gateway!Next, Gateway!Proceed
  <1>4. CASE Crash \/ Replay
    BY <1>4 DEF Crash, Replay, Gateway!Next
  <1>5. ASSUME NEW w \in Workers,
               \/ Begin(w) \/ Retry(w) \/ RejectCheck(w) \/ BeginRefused(w) \/ Abandon(w)
               \/ Absorb(w) \/ Finish(w) \/ RejectWrite(w)
        PROVE  UNCHANGED gateVars
    BY <1>5 DEF Begin, Retry, RejectCheck, BeginRefused, Abandon, Absorb, Finish, RejectWrite
  <1>6. CASE OtherCommit \/ UNCHANGED vars
    BY <1>6 DEF OtherCommit, vars
  <1> QED BY <1>1, <1>2, <1>3, <1>4, <1>5, <1>6 DEF Next, Proceed

\* The approval loop, with its crashes and replays, drives the gateway only through
\* execute (store.py:496).
THEOREM ImplementsGateway == Spec => Gateway!Spec
  <1>1. Init => Gateway!Init
    BY DEF Init
  <1> QED BY <1>1, GatewayStep, PTL DEF Spec, Gateway!Spec, gateVars, Gateway!gateVars

-----------------------------------------------------------------------------
\* The gateway of the model is the one the gateway's theorems are about.
LEMMA SameGateway == (Gateway!Init <=> GP!Init) /\ (Gateway!Next <=> GP!Next)
  <1> USE DEF Gateway!NoRow, GP!NoRow, Gateway!Registered, GP!Registered,
        Gateway!SuccessStates, GP!SuccessStates, Gateway!TerminalStates, GP!TerminalStates,
        Gateway!StartableStates, GP!StartableStates, Gateway!MayStart, GP!MayStart,
        Gateway!Started, GP!Started, Gateway!Receipted, GP!Receipted,
        Gateway!ReceiptOf, GP!ReceiptOf, Gateway!SettledState, GP!SettledState,
        Gateway!Replayed, GP!Replayed, Gateway!durable, GP!durable, Gateway!locals, GP!locals,
        Gateway!Return, GP!Return, Gateway!Raise, GP!Raise, Gateway!Goto, GP!Goto,
        Gateway!Continue, GP!Continue, Gateway!Settle, GP!Settle,
        Gateway!SettleRefused, GP!SettleRefused, Gateway!EffectClasses, GP!EffectClasses
  <1>1. Gateway!Init <=> GP!Init
    BY DEF Gateway!Init, GP!Init
  <1>2. ASSUME NEW w \in Workers
        PROVE  /\ \A k \in Keys : Gateway!Execute(w, k) <=> GP!Execute(w, k)
               /\ Gateway!RecoverRead(w) <=> GP!RecoverRead(w)
               /\ Gateway!Interrupt(w) <=> GP!Interrupt(w)
               /\ Gateway!Recovered(w) <=> GP!Recovered(w)
               /\ Gateway!Start(w) <=> GP!Start(w)
               /\ \A c \in Gateway!EffectClasses : Gateway!Fire(w, c) <=> GP!Fire(w, c)
               /\ Gateway!RecordRead(w) <=> GP!RecordRead(w)
               /\ Gateway!RecordWrite(w) <=> GP!RecordWrite(w)
               /\ Gateway!ReadBack(w) <=> GP!ReadBack(w)
    BY Zenon DEF Gateway!Execute, GP!Execute, Gateway!RecoverRead, GP!RecoverRead,
       Gateway!Interrupt, GP!Interrupt, Gateway!Recovered, GP!Recovered,
       Gateway!Start, GP!Start, Gateway!Fire, GP!Fire, Gateway!RecordRead, GP!RecordRead,
       Gateway!RecordWrite, GP!RecordWrite, Gateway!ReadBack, GP!ReadBack
  <1>3. Gateway!Replay <=> GP!Replay
    BY Zenon DEF Gateway!Replay, GP!Replay, Gateway!ReplayCheck, GP!ReplayCheck,
       Gateway!ReplayWrite, GP!ReplayWrite
  <1>4. Gateway!Crash <=> GP!Crash
    BY Zenon DEF Gateway!Crash, GP!Crash
  <1>5. Gateway!Next <=> GP!Next
    BY Zenon, <1>2, <1>3, <1>4 DEF Gateway!Next, GP!Next, Gateway!Proceed, GP!Proceed
  <1> QED BY <1>1, <1>5

\* So the loop implements the gateway of the theorems too.
LEMMA ImplementsProved == Spec => GP!Spec
  BY ImplementsGateway, SameGateway, PTL
     DEF Gateway!Spec, GP!Spec, Gateway!gateVars, GP!gateVars

\* The gateway's assumption on its workers, under the name its theorems use.
LEMMA FiniteWorkers == GP!IsFiniteSet(Workers)
  BY GatewayAssumption, SMT DEF IsFiniteSet, GP!IsFiniteSet

\* No sequence of approvals, retries, crashes and replays calls an effect more often
\* than its budget allows (store.py:601).
THEOREM ApprovalBudget == Spec => []Gateway!BudgetHolds
  <1>1. GP!Spec => []GP!BudgetHolds
    BY GP!BudgetTheorem, GatewayAssumption, FiniteWorkers
  <1>2. GP!BudgetHolds <=> Gateway!BudgetHolds
    BY DEF GP!BudgetHolds, Gateway!BudgetHolds
  <1> QED BY <1>1, <1>2, ImplementsProved, PTL

\* Handled one request at a time, no retry after a crash calls the effect of a delivered
\* key again, whatever the plan and however many crashes (effects.py:172-173).
THEOREM NoSecondCallTheorem ==
    ASSUME GP!SingleWorker, GP!SingleOperator
    PROVE  Spec => NoFireAfterSuccess
  <1>1. GP!Spec => GP!NoFireAfterSuccess
    BY GP!NoRefireTheorem, GatewayAssumption, FiniteWorkers
  <1>2. GP!SuccessStates = Gateway!SuccessStates
    BY DEF GP!SuccessStates, Gateway!SuccessStates
  <1>3. [\A k \in Keys : row[k].state \in GP!SuccessStates => fires'[k] = fires[k]]_(GP!gateVars)
        => [\A k \in Keys : row[k].state \in Gateway!SuccessStates => fires'[k] = fires[k]]_(Gateway!gateVars)
    BY <1>2 DEF GP!gateVars, Gateway!gateVars
  <1> QED BY <1>1, <1>3, ImplementsProved, PTL
          DEF NoFireAfterSuccess, Gateway!NoFireAfterSuccess, GP!NoFireAfterSuccess

-----------------------------------------------------------------------------
\* Rows counts.
LEMMA RowCount == \A k \in Keys, n \in Nat : Rows(k, n) \in Nat
  BY DEF Rows

\* A commit keeps the row counts natural numbers.
LEMMA CommitType ==
    ASSUME saved \in [Keys -> Nat], open \in [Keys -> Nat], Commit
    PROVE  saved' \in [Keys -> Nat] /\ open' \in [Keys -> Nat]
  <1>1. \A k \in Keys : Rows(k, saved[k] + open[k]) \in Nat
    BY RowCount
  <1> QED BY <1>1 DEF Commit

\* So does an INSERT.
LEMMA InsertType ==
    ASSUME saved \in [Keys -> Nat], open \in [Keys -> Nat], NEW k, Insert(k)
    PROVE  saved' \in [Keys -> Nat] /\ open' \in [Keys -> Nat]
  <1>1. k \in Keys => Rows(k, open[k] + 1) \in Nat
    BY RowCount
  <1> QED BY <1>1 DEF Insert

\* The list approve works on is built and updated within its type.
LEMMA WorkTypes ==
    /\ Blank \in Work
    /\ \A a \in [Keys -> ActStates] : [acts |-> a, next |-> 1, dead |-> FALSE] \in Work
    /\ \A v \in Work, i \in 1 .. Len(Plan) : [v EXCEPT !.next = i + 1] \in Work
    /\ \A v \in Work, s \in ActStates, d \in BOOLEAN : \A k :
         [v EXCEPT !.acts = [@ EXCEPT ![k] = s], !.dead = d] \in Work
  <1>1. 1 \in 1 .. Len(Plan) + 1 /\ \A i \in 1 .. Len(Plan) : i + 1 \in 1 .. Len(Plan) + 1
    BY PlanAssumption
  <1> QED BY <1>1 DEF Work, Blank, ActStates

\* The case starts well typed.
LEMMA TypeInit == Init => TypeOK
  <1>1. Init => crashes \in 0 .. MaxCrashes
    BY MaxCrashesAssumption DEF Init
  <1>2. Init => work \in [Workers -> Work]
    BY WorkTypes DEF Init
  <1>3. Init => approved \in BOOLEAN /\ consented \in BOOLEAN
    BY Zenon DEF Init
  <1>4. Init => /\ acts \in [Keys -> ActStates]
                /\ saved \in [Keys -> Nat] /\ open \in [Keys -> Nat]
                /\ applied \in [Keys -> 0 .. 1]
    BY DEF Init, ActStates
  <1> QED BY <1>1, <1>2, <1>3, <1>4 DEF Init, TypeOK

\* Beginning a request keeps the types, and so do its refusal and a rejection.
LEMMA RequestType ==
    ASSUME TypeOK, NEW w \in Workers,
           Begin(w) \/ BeginRefused(w) \/ Retry(w) \/ RejectCheck(w) \/ RejectWrite(w)
    PROVE  TypeOK'
  <1>1. saved' \in [Keys -> Nat] /\ open' \in [Keys -> Nat]
    BY CommitType DEF Begin, BeginRefused, Retry, RejectCheck, RejectWrite, rows, TypeOK
  <1>2. work' \in [Workers -> Work]
    BY WorkTypes DEF Begin, BeginRefused, Retry, RejectCheck, RejectWrite, TypeOK
  <1> QED BY <1>1, <1>2
          DEF Begin, BeginRefused, Retry, RejectCheck, RejectWrite, Become, ticket, TypeOK

\* The steps of approve between two calls of execute keep the types.
LEMMA LoopType ==
    ASSUME TypeOK, NEW w \in Workers,
           CallGateway(w) \/ Abandon(w) \/ Absorb(w) \/ Finish(w)
    PROVE  TypeOK'
  <1>1. saved' \in [Keys -> Nat] /\ open' \in [Keys -> Nat]
    BY CommitType DEF CallGateway, Abandon, Absorb, Finish, rows, TypeOK
  <1>2. work' \in [Workers -> Work]
    <2>1. CASE CallGateway(w)
      <3>1. PICK i \in 1 .. Len(Plan) : work' = [work EXCEPT ![w] = [@ EXCEPT !.next = i + 1]]
        BY <2>1 DEF CallGateway, Todo
      <3>2. [work[w] EXCEPT !.next = i + 1] \in Work
        BY WorkTypes DEF TypeOK
      <3> QED BY <3>1, <3>2 DEF TypeOK
    <2>2. CASE Abandon(w) \/ Finish(w)
      BY <2>2, WorkTypes DEF Abandon, Finish, Leave, TypeOK
    <2>3. CASE Absorb(w)
      <3> DEFINE s == IF out[w] \in Gateway!SuccessStates THEN "completed" ELSE "failed"
                 d == work[w].dead \/ out[w] = "dead_letter"
                 v == [work[w] EXCEPT !.acts = [@ EXCEPT ![key[w]] = s], !.dead = d]
      <3>1. v \in Work
        <4>1. work[w] \in Work /\ s \in ActStates /\ d \in BOOLEAN
          BY DEF TypeOK, ActStates
        <4> HIDE DEF s, d
        <4> QED BY <4>1, WorkTypes
      <3>2. work' = [work EXCEPT ![w] = v]
        BY <2>3 DEF Absorb, TypeOK, Work
      <3> HIDE DEF v
      <3> QED BY <3>1, <3>2 DEF TypeOK
    <2> QED BY <2>1, <2>2, <2>3
  <1>3. acts' \in [Keys -> ActStates]
    BY DEF CallGateway, Abandon, Absorb, Finish, ticket, Work, TypeOK
  <1>4. calls' \in [Keys -> {"awaiting_approval", "completed", "retryable_failed", "terminal_failed"}]
    BY DEF CallGateway, Abandon, Absorb, Finish, TypeOK
  <1> QED BY <1>1, <1>2, <1>3, <1>4
          DEF CallGateway, Abandon, Absorb, Finish, Leave, Become, ticket, TypeOK

\* The handlers keep the types.
LEMMA EffectType ==
    ASSUME TypeOK, NEW w \in Workers, RunEffect(w)
    PROVE  TypeOK'
  <1>1. saved' \in [Keys -> Nat] /\ open' \in [Keys -> Nat]
    BY InsertType DEF RunEffect, LocalEffect, Notification, rows, TypeOK
  <1>2. applied' \in [Keys -> 0 .. 1]
    BY DEF RunEffect, LocalEffect, Notification, TypeOK
  <1> QED BY <1>1, <1>2 DEF RunEffect, ticket, TypeOK

\* Every step keeps the types.
LEMMA TypeStep == TypeOK /\ [Next]_vars => TypeOK'
  <1> SUFFICES ASSUME TypeOK, [Next]_vars
               PROVE  TypeOK'
    OBVIOUS
  <1>1. ASSUME NEW w \in Workers, Begin(w) \/ Retry(w) \/ RejectCheck(w) \/ Proceed(w)
        PROVE  TypeOK'
    <2>1. CASE Deliver(w)
      BY <2>1 DEF Deliver, ticket, rows, TypeOK
    <2> QED BY <1>1, <2>1, RequestType, LoopType, EffectType DEF Proceed
  <1>2. CASE OtherCommit
    BY <1>2, CommitType DEF OtherCommit, ticket, TypeOK
  <1>3. CASE Crash
    <2>1. crashes' \in 0 .. MaxCrashes
      BY <1>3, MaxCrashesAssumption DEF Crash, TypeOK
    <2> QED BY <1>3, <2>1, WorkTypes DEF Crash, ticket, TypeOK
  <1>4. CASE Replay \/ UNCHANGED vars
    BY <1>4 DEF Replay, vars, ticket, rows, TypeOK
  <1> QED BY <1>1, <1>2, <1>3, <1>4 DEF Next

\* The ticket, its tool calls and approve's local lists keep their types whatever
\* requests interleave (store.py:438).
THEOREM ApprovalTypes == Spec => []TypeOK
  BY TypeInit, TypeStep, PTL DEF Spec

-----------------------------------------------------------------------------
\* FiresAfterConsent alone is not inductive: a thread that is past the approval
\* must have found or committed the event.
ConsentInv ==
    /\ approved => consented
    /\ \A w \in Workers : task[w] \in {"approve", "calling"} => consented
    /\ FiresAfterConsent

\* Consent is committed before a thread gets past Begin, and nothing takes it back.
LEMMA ConsentStep == TypeOK /\ ConsentInv /\ [Next]_vars => ConsentInv'
  <1> SUFFICES ASSUME TypeOK, ConsentInv, [Next]_vars
               PROVE  ConsentInv'
    OBVIOUS
  <1>1. ASSUME NEW w \in Workers, Begin(w)
        PROVE  ConsentInv'
    <2>1. consented'
      BY <1>1 DEF Begin, ConsentInv
    <2> QED BY <2>1 DEF ConsentInv, FiresAfterConsent
  <1>2. ASSUME NEW w \in Workers, CallGateway(w) \/ Deliver(w) \/ RunEffect(w) \/ Absorb(w) \/ Finish(w)
        PROVE  ConsentInv'
    <2>1. consented /\ consented' = consented
      BY <1>2 DEF CallGateway, Deliver, RunEffect, Absorb, Finish, ConsentInv
    <2> QED BY <2>1 DEF ConsentInv, FiresAfterConsent
  <1>3. ASSUME NEW w \in Workers,
               BeginRefused(w) \/ Retry(w) \/ Abandon(w) \/ RejectCheck(w) \/ RejectWrite(w)
        PROVE  ConsentInv'
    <2>1. UNCHANGED <<fires, approved, consented>>
      BY <1>3 DEF BeginRefused, Retry, Abandon, RejectCheck, RejectWrite, gateVars, ticket
    <2>2. \A v \in Workers : task'[v] \in {"approve", "calling"} => task[v] \in {"approve", "calling"}
      BY <1>3 DEF BeginRefused, Retry, Abandon, RejectCheck, RejectWrite, Leave, Become, TypeOK
    <2> QED BY <2>1, <2>2 DEF ConsentInv, FiresAfterConsent
  <1>4. CASE OtherCommit \/ Replay \/ UNCHANGED vars
    BY <1>4 DEF OtherCommit, Replay, Gateway!Replay, Gateway!ReplayCheck, Gateway!ReplayWrite,
                gateVars, ticket, vars, ConsentInv, FiresAfterConsent
  <1>5. CASE Crash
    BY <1>5 DEF Crash, Gateway!Crash, ticket, ConsentInv, FiresAfterConsent
  <1> QED BY <1>1, <1>2, <1>3, <1>4, <1>5 DEF Next, Proceed

\* No effect is called before the reviewer's approval is durable, for any plan, any
\* number of threads and any crashes (store.py:451, 496).
THEOREM ConsentTheorem == Spec => []FiresAfterConsent
  <1>1. Init => ConsentInv
    BY DEF Init, Gateway!Init, ConsentInv, FiresAfterConsent
  <1>2. ConsentInv => FiresAfterConsent
    BY DEF ConsentInv
  <1> QED BY <1>1, <1>2, ConsentStep, ApprovalTypes, PTL DEF Spec

-----------------------------------------------------------------------------
\* The conclusions drawn from the gateway, in the terms of this model.
Finality == \A k \in Keys : row[k].state \in Gateway!SuccessStates => row'[k] = row[k]

\* The gateway's types hold in the loop.
LEMMA GatewayTypes == Spec => []GP!TypeInv
  <1>1. GP!Spec => []GP!TypeInv
    BY GP!TypeInvariant, GatewayAssumption, FiniteWorkers
  <1> QED BY <1>1, ImplementsProved, PTL

\* What execute returns in the loop is the durable record.
LEMMA GatewayOutcomes ==
    ASSUME GP!SingleOperator
    PROVE  Spec => []Gateway!OutcomeIsDurable
  <1>1. GP!Spec => []GP!OutcomeIsDurable
    BY GP!DurableTheorem, GatewayAssumption, FiniteWorkers
  <1>2. GP!OutcomeIsDurable <=> Gateway!OutcomeIsDurable
    BY DEF GP!OutcomeIsDurable, Gateway!OutcomeIsDurable, GP!SuccessStates, Gateway!SuccessStates
  <1> QED BY <1>1, <1>2, ImplementsProved, PTL

\* No step of the loop takes a delivery back.
LEMMA GatewayFinality ==
    ASSUME GP!SingleOperator
    PROVE  Spec => [][Finality]_gateVars
  <1>1. GP!Spec => [][GP!Finality]_GP!gateVars
    BY GP!FinalitySteps, GatewayAssumption, FiniteWorkers
  <1>2. GP!Finality <=> Finality
    BY DEF GP!Finality, Finality, GP!SuccessStates, Gateway!SuccessStates
  <1> QED BY <1>1, <1>2, ImplementsProved, PTL DEF GP!gateVars, gateVars

-----------------------------------------------------------------------------
\* Key k is shown as completed somewhere.
Shown(k) ==
    \/ acts[k] = "completed"
    \/ calls[k] = "completed"
    \/ \E w \in Workers : work[w].acts[k] = "completed"

\* A key becomes completed only where Absorb says so.
LEMMA ShownStep ==
    ASSUME TypeOK, [Next]_vars, NEW k \in Keys, Shown(k)'
    PROVE  Shown(k) \/ \E w \in Workers : out[w] \in Gateway!SuccessStates /\ key[w] = k
  <1>1. ASSUME NEW w \in Workers, Absorb(w)
        PROVE  Shown(k) \/ (out[w] \in Gateway!SuccessStates /\ key[w] = k)
    <2>1. CASE key[w] = k /\ out[w] \in Gateway!SuccessStates
      BY <2>1
    <2>2. CASE key[w] # k
      BY <1>1, <2>2 DEF Absorb, ticket, Shown, TypeOK, Work
    <2>3. CASE key[w] = k /\ out[w] \notin Gateway!SuccessStates
      BY <1>1, <2>3 DEF Absorb, ticket, Shown, TypeOK, Work
    <2> QED BY <2>1, <2>2, <2>3
  <1>2. ASSUME NEW w \in Workers, Begin(w) \/ CallGateway(w)
        PROVE  Shown(k)
    <2>1. acts' = acts /\ calls' = calls
      BY <1>2 DEF Begin, CallGateway, ticket
    <2>2. \A v \in Workers : work'[v].acts = work[v].acts \/ work'[v].acts = acts
      <3>1. CASE Begin(w)
        BY <3>1 DEF Begin, TypeOK
      <3>2. CASE CallGateway(w)
        BY <3>2 DEF CallGateway, TypeOK, Work
      <3> QED BY <1>2, <3>1, <3>2
    <2> QED BY <2>1, <2>2 DEF Shown
  <1>3. ASSUME NEW w \in Workers, Abandon(w) \/ Finish(w)
        PROVE  Shown(k)
    <2>1. calls' = calls /\ (acts' = acts \/ acts' = work[w].acts)
      BY <1>3 DEF Abandon, Finish, ticket
    <2>2. \A v \in Workers : work'[v] = work[v] \/ work'[v] = Blank
      BY <1>3 DEF Abandon, Finish, Leave, TypeOK
    <2>3. Blank.acts[k] # "completed"
      BY DEF Blank
    <2> QED BY <2>1, <2>2, <2>3 DEF Shown
  <1>4. ASSUME NEW w \in Workers,
               \/ BeginRefused(w) \/ Retry(w) \/ Deliver(w) \/ RunEffect(w)
               \/ RejectCheck(w) \/ RejectWrite(w)
        PROVE  Shown(k)
    BY <1>4 DEF BeginRefused, Retry, Deliver, RunEffect, RejectCheck, RejectWrite, ticket, Shown
  <1>5. CASE OtherCommit \/ Replay \/ UNCHANGED vars
    BY <1>5 DEF OtherCommit, Replay, vars, ticket, Shown
  <1>6. CASE Crash
    BY <1>6 DEF Crash, Blank, ticket, Shown
  <1> QED BY <1>1, <1>2, <1>3, <1>4, <1>5, <1>6 DEF Next, Proceed

\* An action shown as completed has a durable success, whatever other threads and
\* crashes did (store.py:515, 548), when at most one operator replays.
THEOREM CompletionTheorem ==
    ASSUME GP!SingleOperator
    PROVE  Spec => []CompletedIsDelivered
  <1>1. Init => CompletedIsDelivered
    BY DEF Init, Blank, CompletedIsDelivered
  <1>2. /\ TypeOK /\ CompletedIsDelivered /\ Gateway!OutcomeIsDurable
        /\ [Next]_vars /\ [Finality]_gateVars
        => CompletedIsDelivered'
    <2> SUFFICES ASSUME TypeOK, CompletedIsDelivered, Gateway!OutcomeIsDurable,
                        [Next]_vars, [Finality]_gateVars,
                        NEW k \in Keys, Shown(k)'
                 PROVE  row'[k].state \in Gateway!SuccessStates
      BY DEF CompletedIsDelivered, Shown, Gateway!SuccessStates
    <2>1. row[k].state \in Gateway!SuccessStates
      BY ShownStep DEF CompletedIsDelivered, Shown, Gateway!OutcomeIsDurable
    <2> QED BY <2>1 DEF Finality, gateVars
  <1> QED BY <1>1, <1>2, ApprovalTypes, GatewayOutcomes, GatewayFinality, PTL DEF Spec

-----------------------------------------------------------------------------
Good == {"success", "already_applied"}

\* A call of the webhook that ended well found or left the effect applied, and keeps it
\* applied until its row says so and ever after.
AppliedInv ==
    /\ \A w \in Workers :
         pc[w] \in GP!Recording /\ result[w] \in Good /\ Kind[key[w]] = "notify"
           => applied[key[w]] = 1
    /\ \A k \in Keys :
         Kind[k] = "notify" /\ row[k].state \in Gateway!SuccessStates => applied[k] = 1

\* An accepted call leaves the effect applied, and no call takes it back.
LEMMA AppliedFacts ==
    ASSUME NEW a \in Answers, NEW n \in 0 .. 1, NEW m \in AppliedAfter(n, a)
    PROVE  /\ n = 1 => m = 1
           /\ ClassOf(a) \in Good => m = 1
           /\ ClassOf(a) \in Good => a \in Accepted
  BY DEF AppliedAfter, ClassOf, Good, Accepted, Ambiguous, Retryable

\* What a step of the model does to the webhook's ledger.
LEMMA EffectStep ==
    ASSUME TypeOK, GP!TypeInv, NEW w \in Workers, RunEffect(w)
    PROVE  /\ \A k \in Keys : applied[k] = 1 => applied'[k] = 1
           /\ \A v \in Workers \ {w} : pc'[v] = pc[v] /\ key'[v] = key[v] /\ result'[v] = result[v]
           /\ key'[w] = key[w]
           /\ result'[w] \in Good /\ Kind[key[w]] = "notify" => applied'[key[w]] = 1
  <1>1. PICK c : Gateway!Fire(w, c)
    BY DEF RunEffect, LocalEffect, Notification
  <1>2. key[w] \in Keys
    BY <1>1 DEF Gateway!Fire, GP!TypeInv, GP!WorkersOK
  <1>3. /\ \A v \in Workers \ {w} : pc'[v] = pc[v] /\ key'[v] = key[v] /\ result'[v] = result[v]
        /\ key'[w] = key[w]
    BY <1>1 DEF Gateway!Fire, Gateway!Goto, GP!TypeInv, GP!TypeOK
  <1>4. CASE LocalEffect(w, key[w])
    BY <1>3, <1>4 DEF LocalEffect
  <1>5. CASE Notification(w, key[w])
    <2>1. PICK a \in Answers, n \in 0 .. 1 :
            /\ n \in AppliedAfter(applied[key[w]], a)
            /\ applied' = [applied EXCEPT ![key[w]] = n]
            /\ Gateway!Fire(w, ClassOf(a)) \/ Gateway!Fire(w, "terminal")
      BY <1>5 DEF Notification
    <2>2. applied[key[w]] \in 0 .. 1 /\ applied'[key[w]] = n
      BY <1>2, <2>1 DEF TypeOK
    <2>3. \A k \in Keys : applied[k] = 1 => applied'[k] = 1
      BY <2>1, <2>2, AppliedFacts DEF TypeOK
    <2>4. result'[w] \in {ClassOf(a), "terminal"}
      BY <2>1 DEF Gateway!Fire, GP!TypeInv, GP!TypeOK
    <2> QED BY <1>3, <2>1, <2>2, <2>3, <2>4, AppliedFacts DEF Good
  <1> QED BY <1>4, <1>5 DEF RunEffect

\* A good result finds the effect applied, and is recorded after that.
LEMMA AppliedStep ==
    ASSUME TypeOK, GP!TypeInv, AppliedInv, [Next]_vars
    PROVE  AppliedInv'
  <1>1. [GP!Next]_GP!gateVars
    BY GatewayStep, SameGateway DEF Gateway!gateVars, gateVars, GP!gateVars
  <1> DEFINE Ledger ==
               /\ \A k \in Keys : applied[k] = 1 => applied'[k] = 1
               /\ \A v \in Workers :
                    pc'[v] \in GP!Recording /\ result'[v] \in Good /\ Kind[key'[v]] = "notify"
                      => applied'[key'[v]] = 1
  <1>2. Ledger
    <2>1. ASSUME NEW w \in Workers, RunEffect(w)
          PROVE  Ledger
      <3>1. \A v \in Workers : pc[v] \in GP!Recording => key[v] \in Keys
        BY DEF GP!TypeInv, GP!WorkersOK, GP!Recording
      <3> QED BY <2>1, <3>1, EffectStep DEF AppliedInv
    <2>2. CASE UNCHANGED <<fires, applied>>
      <3>1. ASSUME NEW v \in Workers, pc'[v] \in GP!Recording
            PROVE  pc[v] \in GP!Recording /\ key'[v] = key[v] /\ result'[v] = result[v]
        BY <1>1, <2>2, <3>1, GP!ResultsStand, GatewayAssumption, FiniteWorkers
      <3> QED BY <2>2, <3>1 DEF AppliedInv
    <2>3. UNCHANGED <<fires, applied>> \/ \E w \in Workers : RunEffect(w)
      <3>1. ASSUME NEW w \in Workers,
                   \/ Begin(w) \/ BeginRefused(w) \/ Retry(w) \/ CallGateway(w) \/ Abandon(w)
                   \/ Absorb(w) \/ Finish(w) \/ RejectCheck(w) \/ RejectWrite(w)
            PROVE  UNCHANGED <<fires, applied>>
        BY <3>1 DEF Begin, BeginRefused, Retry, CallGateway, Gateway!Execute, Abandon, Absorb,
                    Finish, RejectCheck, RejectWrite, gateVars
      <3>2. ASSUME NEW w \in Workers, Deliver(w)
            PROVE  UNCHANGED <<fires, applied>>
        BY <3>2 DEF Deliver, Gateway!RecoverRead, Gateway!Interrupt, Gateway!Recovered,
                    Gateway!Start, Gateway!RecordRead, Gateway!RecordWrite, Gateway!ReadBack
      <3>3. CASE OtherCommit \/ Crash \/ Replay \/ UNCHANGED vars
        BY <3>3 DEF OtherCommit, Crash, Gateway!Crash, Replay, Gateway!Replay,
                    Gateway!ReplayCheck, Gateway!ReplayWrite, gateVars, vars
      <3> QED BY <3>1, <3>2, <3>3 DEF Next, Proceed
    <2> QED BY <2>1, <2>2, <2>3
  <1>3. ASSUME NEW k \in Keys, Kind[k] = "notify", row'[k].state \in Gateway!SuccessStates
        PROVE  applied'[k] = 1
    <2>1. CASE row[k].state \in Gateway!SuccessStates
      BY <1>2, <1>3, <2>1 DEF AppliedInv
    <2>2. CASE row[k].state \notin Gateway!SuccessStates
      <3>1. PICK w \in Workers : pc[w] = "write" /\ key[w] = k /\ result[w] \in Good
        BY <1>1, <1>3, <2>2, GP!SuccessIsRecorded, GatewayAssumption, FiniteWorkers
           DEF Good, Gateway!SuccessStates, GP!SuccessStates
      <3>2. applied[k] = 1
        BY <1>3, <3>1 DEF AppliedInv, GP!Recording
      <3> QED BY <1>2, <3>2
    <2> QED BY <2>1, <2>2
  <1> QED BY <1>2, <1>3 DEF AppliedInv

\* A resolved case has every effect delivered and its notification applied exactly once
\* (store.py:600), through any races, crashes and lost answers, when at most one operator
\* replays and the target honours the idempotency header.
THEOREM ResolutionTheorem ==
    ASSUME GP!SingleOperator
    PROVE  Spec => []ResolvedIsDelivered
  <1> DEFINE AllDone == status = "resolved" => \A k \in Planned : row[k].state \in Gateway!SuccessStates
  <1>1. Planned \subseteq Keys
    BY PlanAssumption DEF Planned
  <1>2. Init => AllDone /\ AppliedInv
    BY <1>1 DEF Init, Gateway!Init, Gateway!NoRow, AppliedInv, GP!Recording, Gateway!SuccessStates
  <1>3. TypeOK /\ CompletedIsDelivered /\ AllDone /\ [Next]_vars /\ [Finality]_gateVars => AllDone'
    <2> SUFFICES ASSUME TypeOK, CompletedIsDelivered, AllDone, [Next]_vars, [Finality]_gateVars,
                        status' = "resolved", NEW k \in Planned
                 PROVE  row'[k].state \in Gateway!SuccessStates
      BY DEF Planned, Gateway!SuccessStates
    <2>1. status = "resolved" \/ \E w \in Workers : work[w].acts[k] = "completed"
      BY DEF Next, Proceed, Begin, BeginRefused, Retry, CallGateway, Deliver, RunEffect, Abandon,
             Absorb, Finish, RejectCheck, RejectWrite, OtherCommit, Crash, Replay, ticket, vars
    <2>2. row[k].state \in Gateway!SuccessStates
      BY <1>1, <2>1 DEF CompletedIsDelivered
    <2> QED BY <1>1, <2>2 DEF Finality, gateVars
  <1>4. TypeOK /\ GP!TypeInv /\ AppliedInv /\ [Next]_vars => AppliedInv'
    BY AppliedStep
  <1>5. AllDone /\ AppliedInv => ResolvedIsDelivered
    BY <1>1 DEF AppliedInv, ResolvedIsDelivered
  <1> QED BY <1>2, <1>3, <1>4, <1>5, ApprovalTypes, GatewayTypes, GatewayFinality,
             CompletionTheorem, PTL DEF Spec
=============================================================================
