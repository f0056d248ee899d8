--------------------------- MODULE RunSnapshotProofs ---------------------------
(***************************************************************************)
(* A snapshot of a run accounts for the actions it shows, although it is   *)
(* read in two statements while the case is planned and while approvals    *)
(* overlap: what is on the ticket or in an approve's hands is accounted    *)
(* for by the calls, and once a plan is published a call only ever gets a  *)
(* result, or another one.                                                 *)
(***************************************************************************)
EXTENDS RunSnapshot, ToolPlanningProofs

\* Calls cs account for the actions.
Explained(acts, cs) ==
    \A i \in 1 .. Len(acts) :
        /\ cs[acts[i].call] \notin {"none", "planned"}
        /\ acts[i].status # "pending" => cs[acts[i].call] \in CallResults

\* The calls account for whatever is pending, on the ticket or in an approve's hands.
StoredInv ==
    /\ pc = "call" => \A i \in 1 .. Len(pending) : calls[pending[i].call] \notin {"none", "planned"}
    /\ \A i \in 1 .. Len(pending) : pending[i].status = "pending"
    /\ Explained(actions, calls)
    /\ \A q \in Requests : Explained(review[q].acts, calls)

ReaderType == [at: 1 .. 3, actions: Seq(Action), tool_calls: [CallIds -> CallStates] \cup {<<>>}]

\* Between its statements the calls account for what the reader holds, whatever became
\* of the ticket since; a list with actions was read after the plan was published.
ReaderInv ==
    /\ reader \in ReaderType
    /\ reader.at = 2 =>
         /\ Explained(reader.actions, calls)
         /\ reader.actions # <<>> => pc = "done"
    /\ reader.at = 3 => Explained(reader.actions, reader.tool_calls)

-----------------------------------------------------------------------------
\* A call that gets a result accounts for what it accounted for.
LEMMA ResultsExplain ==
    ASSUME NEW acts \in Seq(Action), Explained(acts, calls),
           \A c \in CallIds : calls'[c] = calls[c] \/ calls'[c] \in CallResults
    PROVE  Explained(acts, calls')
  <1>1. \A i \in 1 .. Len(acts) : acts[i].call \in CallIds
    <2> TAKE i \in 1 .. Len(acts)
    <2>1. acts[i] \in Action
      BY ElementOfSeq
    <2> QED BY <2>1 DEF Action
  <1> QED BY <1>1 DEF Explained, CallResults

\* An approve gives one call a result.
LEMMA OneResult ==
    ASSUME TypeInv, NEW q \in Requests, ApproveCall(q)
    PROVE  \A c \in CallIds : calls'[c] = calls[c] \/ calls'[c] \in CallResults
  <1>1. /\ calls \in [CallIds -> CallStates]
        /\ \/ calls' = calls
           \/ \E c, o : o \in CallResults /\ calls' = [calls EXCEPT ![c] = o]
    BY ApproveCallFacts DEF TypeInv, TypeOK, Request
  <1> QED BY <1>1

\* The list that an approve works on stays accounted for.
LEMMA ReviewExplained ==
    ASSUME TypeInv, StoredInv, NEW q \in Requests, ApproveCall(q)
    PROVE  Explained(review'[q].acts, calls')
  <1> DEFINE acts == review[q].acts
             n == review[q].next
             a == acts[n]
  <1>1. /\ calls \in [CallIds -> CallStates] /\ acts \in Seq(Action)
        /\ n \in 1 .. Len(acts) /\ a \in Action
        /\ \/ a.status = "completed" /\ review'[q].acts = acts /\ calls' = calls
           \/ \E o \in CallResults :
                 /\ a.status # "completed"
                 /\ calls' = [calls EXCEPT ![a.call] = o]
                 /\ review'[q].acts = [acts EXCEPT ![n] =
                       [a EXCEPT !.status = IF o = "completed" THEN o ELSE "failed"]]
    BY ApproveCallFacts DEF TypeInv, TypeOK, Request
  <1>2. Explained(acts, calls)
    BY DEF StoredInv
  <1>3. Explained(acts, calls')
    BY <1>1, <1>2, OneResult, ResultsExplain
  <1>4. CASE review'[q].acts = acts
    BY <1>3, <1>4
  <1>5. ASSUME NEW o \in CallResults, calls' = [calls EXCEPT ![a.call] = o],
               NEW s, review'[q].acts = [acts EXCEPT ![n] = [a EXCEPT !.status = s]]
        PROVE  Explained(review'[q].acts, calls')
    <2> DEFINE b == [a EXCEPT !.status = s]
    <2>1. b.call = a.call /\ a.call \in CallIds
      BY <1>1 DEF Action
    <2>2. calls'[a.call] = o /\ o \notin {"none", "planned"}
      BY <1>1, <1>5, <2>1 DEF CallResults
    <2> HIDE DEF a, b, n
    <2>3. /\ Len(review'[q].acts) = Len(acts)
          /\ \A i \in 1 .. Len(acts) : review'[q].acts[i] = IF i = n THEN b ELSE acts[i]
      BY <1>1, <1>5 DEF b
    <2> HIDE DEF acts
    <2> QED BY <1>3, <1>5, <2>1, <2>2, <2>3 DEF Explained
  <1> QED BY <1>1, <1>4, <1>5

\* What is stored stays accounted for.
LEMMA StoredStep ==
    ASSUME TypeInv, StoredInv, [Next]_vars
    PROVE  StoredInv'
  <1>1. /\ calls \in [CallIds -> CallStates] /\ actions \in Seq(Action) /\ pending \in Seq(Action)
        /\ \A q \in Requests : review[q].acts \in Seq(Action)
        /\ Offered => pc = "done"
    BY DEF TypeInv, TypeOK, PhaseInv
  <1> DEFINE Pended == /\ pc' = "call" => \A i \in 1 .. Len(pending') :
                                            calls'[pending'[i].call] \notin {"none", "planned"}
                       /\ \A i \in 1 .. Len(pending') : pending'[i].status = "pending"
  <1>2. ~Offered' /\ Pended => StoredInv'
    BY DEF StoredInv, Explained, Offered
  <1>3. CASE Create \/ Planner \/ InsertCall \/ StepLimit \/ RefuseCall \/ ReadCall \/ WriteCall
    <2>1. ~Offered'
      <3>1. pc # "done" /\ actions' = actions /\ review' = review
        BY <1>3 DEF Create, Planner, InsertCall, StepLimit, RefuseCall, ReadCall, WriteCall, AtCall,
                    case, local
      <3> QED BY <1>1, <3>1 DEF Offered
    <2>2. CASE Create \/ Planner \/ InsertCall \/ RefuseCall
      <3>1. pc' # "call" /\ pending' = pending
        BY <2>2 DEF Create, Planner, InsertCall, RefuseCall, local, thread
      <3> QED BY <1>2, <2>1, <3>1 DEF StoredInv
    <2>3. CASE StepLimit
      <3>1. pending' = <<>>
        BY <2>3 DEF StepLimit, TypeInv, PhaseInv
      <3> QED BY <1>2, <2>1, <3>1
    <2>4. CASE ReadCall
      <3>1. /\ pending' = pending /\ pc = "call"
            /\ \A i \in 1 .. Len(pending) : calls[pending[i].call] \notin {"none", "planned"}
            /\ \E s \in {"completed", "failed"} : calls' = [calls EXCEPT ![plan[next].id] = s]
        BY <2>4, ReadCallFacts DEF StoredInv
      <3>2. \A i \in 1 .. Len(pending) : pending[i].call \in CallIds
        <4> TAKE i \in 1 .. Len(pending)
        <4>1. pending[i] \in Action
          BY <1>1, ElementOfSeq
        <4> QED BY <4>1 DEF Action
      <3>3. Pended
        BY <1>1, <3>1, <3>2 DEF StoredInv
      <3> QED BY <1>2, <2>1, <3>3
    <2>5. CASE WriteCall
      <3> DEFINE c == plan[next]
                 m == Len(pending) + 1
      <3>1. /\ c.id \in CallIds /\ Len(pending') = m /\ m - 1 \in Nat
            /\ \A i \in 1 .. m - 1 : pending'[i] = pending[i]
            /\ pending'[m].call = c.id /\ pending'[m].status = "pending"
            /\ calls' = [calls EXCEPT ![c.id] = "awaiting_approval"]
        BY <2>5, WriteCallFacts DEF Call
      <3>2. /\ \A i \in 1 .. m - 1 : calls[pending[i].call] \notin {"none", "planned"}
            /\ \A i \in 1 .. m - 1 : pending[i].status = "pending" /\ pending[i].call \in CallIds
        <4>1. \A i \in 1 .. Len(pending) : pending[i] \in Action
          BY <1>1, ElementOfSeq
        <4>2. pc = "call"
          BY <2>5 DEF WriteCall, AtCall
        <4> QED BY <3>1, <4>1, <4>2 DEF StoredInv, Action
      <3>3. \A i \in 1 .. m : i \in 1 .. m - 1 \/ i = m
        BY <3>1
      <3> HIDE DEF c, m
      <3>4. \A i \in 1 .. m : /\ calls'[pending'[i].call] \notin {"none", "planned"}
                              /\ pending'[i].status = "pending"
        BY <1>1, <3>1, <3>2, <3>3
      <3> QED BY <1>2, <2>1, <3>1, <3>4
    <2> QED BY <1>3, <2>2, <2>3, <2>4, <2>5
  <1>4. CASE Publish
    <2>1. /\ actions' = pending /\ UNCHANGED <<calls, pending, review>> /\ pc = "call" /\ pc' = "done"
      BY <1>4 DEF Publish, local, thread
    <2>2. Explained(pending, calls)
      BY <2>1 DEF StoredInv, Explained
    <2> QED BY <2>1, <2>2 DEF StoredInv
  <1>5. CASE Fail
    <2>1. actions' = <<>> /\ pc' = "done" /\ UNCHANGED <<calls, pending, review>>
      BY <1>5 DEF Fail, local, thread
    <2> QED BY <2>1 DEF StoredInv, Explained
  <1>6. ASSUME NEW q \in Requests, ApproveCall(q)
        PROVE  StoredInv'
    <2>1. UNCHANGED <<actions, pc, pending>> /\ pc = "done"
      <3>1. review[q].acts # <<>>
        BY <1>6, ApproveCallFacts DEF TypeInv, TypeOK, Request
      <3> QED BY <1>1, <1>6, <3>1 DEF ApproveCall, Offered, case, local, thread
    <2>2. \A p \in Requests \ {q} : review'[p] = review[p]
      BY <1>6, DecisionMoves DEF Decision
    <2>3. Explained(actions, calls') /\ \A p \in Requests : Explained(review[p].acts, calls')
      BY <1>1, <1>6, OneResult, ResultsExplain DEF StoredInv
    <2>4. Explained(review'[q].acts, calls')
      BY <1>6, ReviewExplained
    <2> QED BY <2>1, <2>2, <2>3, <2>4 DEF StoredInv
  <1>7. ASSUME NEW q \in Requests, Decision(q), ~ApproveCall(q)
        PROVE  StoredInv'
    <2>1. /\ UNCHANGED <<pc, pending, calls>>
          /\ \A p \in Requests \ {q} : review'[p] = review[p]
          /\ actions' \in {actions, review[q].acts}
          /\ review'[q].acts \in {actions, review[q].acts, <<>>}
      BY <1>7, DecisionMoves DEF local, thread
    <2>2. Explained(<<>>, calls)
      BY DEF Explained
    <2> QED BY <2>1, <2>2 DEF StoredInv
  <1>8. CASE Crash
    <2>1. /\ UNCHANGED <<actions, calls, pending>> /\ (pc' = "call" => pc = "call")
          /\ \A q \in Requests : review'[q].acts = <<>>
      BY <1>8 DEF Crash, Unsent, Over, case, local, thread
    <2> QED BY <2>1 DEF StoredInv, Explained
  <1>9. CASE UNCHANGED vars
    BY <1>9 DEF vars, case, local, thread, StoredInv
  <1> QED BY <1>3, <1>4, <1>5, <1>6, <1>7, <1>8, <1>9 DEF Next, Planning

-----------------------------------------------------------------------------
(* The reader.                                                             *)

\* A commit of a writer between the reader's statements.
LEMMA WriterStep ==
    ASSUME TypeInv, TypeInv', ReaderInv, [Next]_vars, reader' = reader
    PROVE  ReaderInv'
  <1> SUFFICES ASSUME reader.at = 2, reader.actions # <<>>
               PROVE  Explained(reader.actions, calls') /\ pc' = "done"
    BY DEF ReaderInv, Explained
  <1>1. /\ Explained(reader.actions, calls) /\ pc = "done" /\ reader.actions \in Seq(Action)
    BY DEF ReaderInv, ReaderType
  <1>2. ~Planning
    BY <1>1 DEF Planning, Create, Planner, InsertCall, StepLimit, RefuseCall, ReadCall, WriteCall,
                AtCall, Publish, Fail
  <1>3. ASSUME NEW q \in Requests, Decision(q)
        PROVE  Explained(reader.actions, calls') /\ pc' = "done"
    <2>1. pc' = "done" /\ (calls' = calls \/ ApproveCall(q))
      BY <1>1, <1>3, DecisionMoves
    <2> QED BY <1>1, <2>1, OneResult, ResultsExplain
  <1>4. CASE Crash \/ UNCHANGED vars
    BY <1>1, <1>4 DEF Crash, vars
  <1> QED BY <1>2, <1>3, <1>4 DEF Next

\* A statement of the snapshot sets one field and moves on.
LEMMA ExceptFacts ==
    ASSUME NEW A, NEW B, NEW r \in [at: Nat, actions: A, tool_calls: B],
           NEW f \in {"actions", "tool_calls"}, NEW v, NEW q, q = [r EXCEPT ![f] = v, !.at = @ + 1]
    PROVE  q = [at |-> r.at + 1,
                actions |-> IF f = "actions" THEN v ELSE r.actions,
                tool_calls |-> IF f = "tool_calls" THEN v ELSE r.tool_calls]
  OBVIOUS

\* One statement: the actions first, then the calls.
LEMMA ReadFacts ==
    ASSUME reader \in ReaderType, actions \in Seq(Action), calls \in [CallIds -> CallStates], Read
    PROVE  /\ reader.at \in {1, 2} /\ reader' \in ReaderType
           /\ reader.at = 1 => /\ reader'.at = 2 /\ reader'.actions = actions
                              /\ reader'.tool_calls = reader.tool_calls
           /\ reader.at = 2 => /\ reader'.at = 3 /\ reader'.actions = reader.actions
                              /\ reader'.tool_calls = calls
  <1>1. /\ Len(OrderOfFields) = 2 /\ OrderOfFields[1] = "actions" /\ OrderOfFields[2] = "tool_calls"
        /\ Stored["actions"] = actions /\ Stored["tool_calls"] = calls
    BY DEF OrderOfFields, Stored
  <1>2. /\ reader.at \in 1 .. 3 /\ reader.actions \in Seq(Action)
        /\ reader.tool_calls \in [CallIds -> CallStates] \cup {<<>>}
    BY DEF ReaderType
  <1>3. reader' = [reader EXCEPT ![OrderOfFields[reader.at]] = Stored[OrderOfFields[reader.at]],
                                 !.at = @ + 1]
    BY DEF Read
  <1>4. reader.at \in {1, 2}
    <2>1. reader.at <= Len(OrderOfFields)
      BY DEF Read
    <2> QED BY <1>1, <1>2, <2>1
  <1>5. /\ OrderOfFields[reader.at] \in {"actions", "tool_calls"}
        /\ OrderOfFields[reader.at] = IF reader.at = 1 THEN "actions" ELSE "tool_calls"
        /\ Stored[OrderOfFields[reader.at]] = IF reader.at = 1 THEN actions ELSE calls
    BY <1>1, <1>4
  <1>6. reader \in [at: Nat, actions: Seq(Action), tool_calls: [CallIds -> CallStates] \cup {<<>>}]
    BY DEF ReaderType
  <1>7. reader' = [at |-> reader.at + 1,
                   actions |-> IF OrderOfFields[reader.at] = "actions"
                               THEN Stored[OrderOfFields[reader.at]] ELSE reader.actions,
                   tool_calls |-> IF OrderOfFields[reader.at] = "tool_calls"
                                  THEN Stored[OrderOfFields[reader.at]] ELSE reader.tool_calls]
    BY <1>3, <1>5, <1>6, ExceptFacts
  <1>8. reader' = [at |-> reader.at + 1,
                   actions |-> IF reader.at = 1 THEN actions ELSE reader.actions,
                   tool_calls |-> IF reader.at = 1 THEN reader.tool_calls ELSE calls]
    BY <1>5, <1>7
  <1>9. reader' \in ReaderType
    BY <1>2, <1>4, <1>8 DEF ReaderType
  <1> QED BY <1>4, <1>8, <1>9

\* The statements of the snapshot, and its answer.
LEMMA ReaderStep ==
    ASSUME TypeInv, StoredInv, ReaderInv, Read \/ Answer
    PROVE  ReaderInv'
  <1>1. /\ UNCHANGED vars /\ actions \in Seq(Action) /\ calls \in [CallIds -> CallStates]
        /\ actions # <<>> => pc = "done"
    BY DEF Read, Answer, TypeInv, TypeOK, PhaseInv, Offered
  <1>2. UNCHANGED <<actions, calls, pc>>
    BY <1>1 DEF vars, case
  <1>3. CASE Answer
    <2>1. reader' = NoSnapshot
      BY <1>3 DEF Answer
    <2> QED BY <2>1 DEF NoSnapshot, ReaderInv, ReaderType
  <1>4. CASE Read
    <2>1. CASE reader.at = 1
      <3>1. /\ reader'.at = 2 /\ reader'.actions = actions /\ reader'.tool_calls = reader.tool_calls
            /\ reader' \in ReaderType
        BY <1>1, <1>4, <2>1, ReadFacts DEF ReaderInv
      <3> QED BY <1>1, <1>2, <3>1 DEF ReaderInv, StoredInv
    <2>2. CASE reader.at = 2
      <3>1. /\ reader'.at = 3 /\ reader'.actions = reader.actions /\ reader'.tool_calls = calls
            /\ reader' \in ReaderType
        BY <1>1, <1>4, <2>2, ReadFacts DEF ReaderInv
      <3> QED BY <2>2, <3>1 DEF ReaderInv
    <2> QED BY <1>1, <1>4, <2>1, <2>2, ReadFacts DEF ReaderInv
  <1> QED BY <1>3, <1>4

\* A case that is read behaves like one that is not.
LEMMA ReadingIsHarmless == SnapshotSpec => Spec
  <1>1. SnapshotInit => Init
    BY DEF SnapshotInit
  <1>2. [SnapshotNext]_<<vars, reader>> => [Next]_vars
    BY DEF SnapshotNext, Read, Answer
  <1> QED BY <1>1, <1>2, PTL DEF SnapshotSpec, Spec

\* A snapshot shows each action with a call that was planned, and an action with a result
\* with a call that has one, whatever is planned, approved twice at once, rejected or lost
\* between its two statements (mcp_server.py:133-140).
THEOREM SnapshotTheorem == SnapshotSpec => []SnapshotExplains
  <1>1. SnapshotInit => StoredInv /\ ReaderInv
    BY DEF SnapshotInit, Init, Unsent, NoSnapshot, StoredInv, ReaderInv, ReaderType, Explained
  <1>2. TypeInv /\ StoredInv /\ [SnapshotNext]_<<vars, reader>> => StoredInv'
    <2>1. [SnapshotNext]_<<vars, reader>> => [Next]_vars
      BY DEF SnapshotNext, Read, Answer
    <2> QED BY <2>1, StoredStep
  <1>3. /\ TypeInv /\ TypeInv' /\ StoredInv /\ ReaderInv
        /\ [SnapshotNext]_<<vars, reader>>
        => ReaderInv'
    BY WriterStep, ReaderStep DEF SnapshotNext
  <1>4. TypeInv /\ ReaderInv => SnapshotExplains
    <2> SUFFICES ASSUME TypeInv, ReaderInv, Whole, NEW i \in DOMAIN reader.actions
                 PROVE  /\ reader.tool_calls[reader.actions[i].call] \notin {"none", "planned"}
                        /\ reader.actions[i].status # "pending"
                             => reader.tool_calls[reader.actions[i].call] \in CallResults
      BY DEF SnapshotExplains
    <2>1. reader.at = 3 /\ reader.actions \in Seq(Action)
      BY DEF Whole, OrderOfFields, ReaderInv, ReaderType
    <2>2. i \in 1 .. Len(reader.actions)
      BY <2>1, LenProperties
    <2> QED BY <2>1, <2>2 DEF ReaderInv, Explained
  <1> QED BY <1>1, <1>2, <1>3, <1>4, ReadingIsHarmless, ScanInvariant, PTL DEF SnapshotSpec
===============================================================================
