--------------------------- MODULE ApprovalRowsProofs ---------------------------
(***************************************************************************)
(* Theorems about the rows the approved effects leave in the connection    *)
(* all threads share, and about the dead letters of a case: for any plan,  *)
(* handlers, threads and crashes, when at most one operator replays.  Then *)
(* the decisions of a case whose requests are handled one at a time.       *)
(***************************************************************************)
EXTENDS ApprovalRunProofs, FiniteSetTheorems

\* The rows of key k, committed or not.
Total(k) == saved[k] + open[k]

\* Row counts are natural numbers.
LEMMA TotalType ==
    ASSUME TypeOK, NEW k \in Keys
    PROVE  saved[k] \in Nat /\ open[k] \in Nat /\ Total(k) \in Nat
  BY DEF TypeOK, Total

\* INSERT OR REPLACE drops older rows and never the last one.
LEMMA RowsFacts ==
    ASSUME NEW k \in Keys, NEW n \in Nat
    PROVE  Rows(k, n) \in Nat /\ Rows(k, n) <= n /\ (n > 0 => Rows(k, n) > 0)
  BY DEF Rows

\* A commit never makes rows, and never loses the last one.
LEMMA CommitTotal ==
    ASSUME TypeOK, Commit, NEW k \in Keys
    PROVE  Total(k)' \in Nat /\ Total(k)' <= Total(k) /\ (Total(k) > 0 => Total(k)' > 0)
  <1>1. Total(k) \in Nat /\ saved'[k] = Rows(k, Total(k)) /\ open'[k] = 0
    BY TotalType DEF Commit, Total
  <1>2. Total(k)' = Rows(k, Total(k))
    BY <1>1, RowsFacts DEF Total
  <1> QED BY <1>1, <1>2, RowsFacts

\* An INSERT adds at most one row, and its key has a row afterwards.
LEMMA InsertTotal ==
    ASSUME TypeOK, NEW j \in Keys, Insert(j), NEW k \in Keys
    PROVE  /\ Total(k)' \in Nat
           /\ Total(k)' <= IF k = j THEN Total(k) + 1 ELSE Total(k)
           /\ k = j \/ Total(k) > 0 => Total(k)' > 0
  <1>1. /\ saved'[k] = saved[k]
        /\ open'[k] = IF k = j THEN Rows(k, open[k] + 1) ELSE open[k]
    BY DEF Insert, TypeOK
  <1>2. saved[k] \in Nat /\ open[k] \in Nat
    BY TotalType
  <1>3. Rows(k, open[k] + 1) \in Nat /\ Rows(k, open[k] + 1) <= open[k] + 1 /\ Rows(k, open[k] + 1) > 0
    BY <1>2, RowsFacts
  <1> QED BY <1>1, <1>2, <1>3 DEF Total

-----------------------------------------------------------------------------
\* Only the effects insert, and only a crash takes rows away.
LEMMA RowsStep ==
    ASSUME [Next]_vars
    PROVE  \/ \E w \in Workers : RunEffect(w)
           \/ fires' = fires /\ crashes' = crashes /\ (Commit \/ UNCHANGED rows)
           \/ Crash
  <1>1. ASSUME NEW w \in Workers,
               \/ Begin(w) \/ BeginRefused(w) \/ Retry(w) \/ CallGateway(w) \/ Abandon(w)
               \/ Absorb(w) \/ Finish(w) \/ RejectCheck(w) \/ RejectWrite(w)
        PROVE  fires' = fires /\ crashes' = crashes /\ (Commit \/ UNCHANGED rows)
    BY <1>1 DEF Begin, BeginRefused, Retry, CallGateway, Gateway!Execute, Abandon, Absorb, Finish,
                RejectCheck, RejectWrite, gateVars
  <1>2. ASSUME NEW w \in Workers, Deliver(w)
        PROVE  fires' = fires /\ crashes' = crashes /\ UNCHANGED rows
    BY <1>2 DEF Deliver, Gateway!RecoverRead, Gateway!Interrupt, Gateway!Recovered, Gateway!Start,
                Gateway!RecordRead, Gateway!RecordWrite, Gateway!ReadBack
  <1>3. CASE OtherCommit \/ Replay \/ UNCHANGED vars
    BY <1>3 DEF OtherCommit, Replay, Gateway!Replay, Gateway!ReplayCheck, Gateway!ReplayWrite,
                gateVars, vars, rows
  <1> QED BY <1>1, <1>2, <1>3 DEF Next, Proceed

\* A handler inserts its row exactly when its call is reported as a success.
LEMMA EffectRows ==
    ASSUME GP!TypeInv, NEW w \in Workers, RunEffect(w)
    PROVE  /\ key[w] \in Keys /\ crashes' = crashes
           /\ \E c \in GP!EffectClasses :
                /\ GP!Fire(w, c)
                /\ \/ c \in Good /\ Insert(key[w])
                   \/ c \notin Good /\ UNCHANGED rows
  <1> USE DEF GP!EffectClasses
  <1>1. ASSUME NEW c, Gateway!Fire(w, c)
        PROVE  GP!Fire(w, c) /\ key[w] \in Keys
    BY <1>1 DEF Gateway!Fire, GP!Fire, Gateway!Goto, GP!Goto, Gateway!durable, GP!durable,
                GP!TypeInv, GP!WorkersOK
  <1>2. CASE LocalEffect(w, key[w])
    BY <1>1, <1>2 DEF LocalEffect, Good, RunEffect
  <1>3. CASE Notification(w, key[w])
    <2>1. PICK a \in Answers :
            \/ Gateway!Fire(w, ClassOf(a)) /\ IF a \in Accepted THEN Insert(key[w]) ELSE UNCHANGED rows
            \/ a \in Accepted /\ Gateway!Fire(w, "terminal") /\ UNCHANGED rows
      BY <1>3 DEF Notification
    <2>2. ClassOf(a) \in GP!EffectClasses /\ (ClassOf(a) \in Good <=> a \in Accepted)
      BY DEF ClassOf, Good, Accepted, Answers, Retryable
    <2> QED BY <1>1, <2>1, <2>2 DEF RunEffect, Good
  <1> QED BY <1>2, <1>3 DEF RunEffect

\* A step of the loop, as the gateway's theorems see it.
LEMMA GatewayMoves ==
    ASSUME [Next]_vars
    PROVE  [GP!Next]_(GP!gateVars)
  BY GatewayStep, SameGateway DEF Gateway!gateVars, gateVars, GP!gateVars

-----------------------------------------------------------------------------
\* CompletedHasRow is not inductive: the row must be there when the call has gone well,
\* before its success is recorded, and as long as the record says so.
HasRowInv ==
    crashes = 0 =>
        /\ \A w \in Workers :
             pc[w] \in GP!Recording /\ result[w] \in Good => Total(key[w]) > 0
        /\ \A k \in Keys : row[k].state \in GP!SuccessStates => Total(k) > 0

\* Nothing but a crash takes the last row of a key.
LEMMA LastRowStays ==
    ASSUME TypeOK, GP!TypeInv, [Next]_vars, ~Crash, NEW k \in Keys, Total(k) > 0
    PROVE  Total(k)' > 0
  <1>1. CASE Commit
    BY <1>1, CommitTotal
  <1>2. CASE UNCHANGED rows
    BY <1>2 DEF rows, Total
  <1>3. ASSUME NEW w \in Workers, RunEffect(w)
        PROVE  Total(k)' > 0
    BY <1>2, <1>3, EffectRows, InsertTotal
  <1> QED BY <1>1, <1>2, <1>3, RowsStep

\* The row is inserted before a call can end well, and stays until the process dies.
LEMMA HasRowStep ==
    ASSUME TypeOK, GP!TypeInv, HasRowInv, [Next]_vars
    PROVE  HasRowInv'
  <1>1. CASE Crash
    <2>1. crashes' # 0
      BY <1>1, MaxCrashesAssumption DEF Crash, TypeOK
    <2> QED BY <2>1 DEF HasRowInv
  <1>2. CASE ~Crash
    <2>1. crashes' = crashes
      BY <1>2, RowsStep, EffectRows
    <2> SUFFICES ASSUME crashes = 0
                 PROVE  /\ \A w \in Workers :
                             pc'[w] \in GP!Recording /\ result'[w] \in Good => Total(key[w])' > 0
                        /\ \A k \in Keys : row'[k].state \in GP!SuccessStates => Total(k)' > 0
      BY <2>1 DEF HasRowInv, GP!Recording, GP!SuccessStates, Total
    <2>2. ASSUME NEW v \in Workers, pc[v] \in GP!Recording, result[v] \in Good, key'[v] = key[v]
          PROVE  Total(key[v])' > 0
      <3>1. PICK k \in Keys : k = key[v]
        BY <2>2 DEF GP!TypeInv, GP!WorkersOK, GP!Recording
      <3>2. Total(k)' > 0
        BY <1>2, <2>2, <3>1, LastRowStays DEF HasRowInv
      <3> QED BY <2>2, <3>1, <3>2 DEF Total
    <2>3. ASSUME NEW v \in Workers, pc'[v] \in GP!Recording, result'[v] \in Good
          PROVE  Total(key[v])' > 0
      <3>1. CASE fires' = fires
        <4>1. pc[v] \in GP!Recording /\ key'[v] = key[v] /\ result'[v] = result[v]
          BY <2>3, <3>1, GatewayMoves, GP!ResultsStand, GatewayAssumption, FiniteWorkers
        <4> QED BY <2>2, <2>3, <4>1
      <3>2. ASSUME NEW w \in Workers, RunEffect(w)
            PROVE  Total(key[v])' > 0
        <4>1. PICK c \in GP!EffectClasses :
                /\ GP!Fire(w, c)
                /\ \/ c \in Good /\ Insert(key[w])
                   \/ c \notin Good /\ UNCHANGED rows
          BY <3>2, EffectRows
        <4>2. /\ key' = key /\ result'[w] = c
              /\ \A u \in Workers \ {w} : pc'[u] = pc[u] /\ result'[u] = result[u]
          BY <4>1 DEF GP!Fire, GP!Goto, GP!TypeInv, GP!TypeOK
        <4>3. CASE v = w
          <5>1. PICK k \in Keys : k = key[w]
            BY <3>2, EffectRows
          <5>2. Total(k)' > 0
            BY <2>3, <4>1, <4>2, <4>3, <5>1, InsertTotal
          <5> QED BY <4>2, <4>3, <5>1, <5>2 DEF Total
        <4>4. CASE v # w
          BY <2>2, <2>3, <4>2, <4>4
        <4> QED BY <4>3, <4>4
      <3> QED BY <1>2, <3>1, <3>2, RowsStep
    <2>4. ASSUME NEW k \in Keys, row'[k].state \in GP!SuccessStates
          PROVE  Total(k)' > 0
      <3>1. Total(k) > 0
        <4>1. CASE row[k].state \in GP!SuccessStates
          BY <4>1 DEF HasRowInv
        <4>2. CASE row[k].state \notin GP!SuccessStates
          <5>1. PICK w \in Workers : pc[w] = "write" /\ key[w] = k /\ result[w] \in Good
            BY <2>4, <4>2, GatewayMoves, GP!SuccessIsRecorded, GatewayAssumption, FiniteWorkers
               DEF Good
          <5> QED BY <5>1 DEF HasRowInv, GP!Recording
        <4> QED BY <4>1, <4>2
      <3> QED BY <1>2, <3>1, LastRowStays
    <2> QED BY <2>3, <2>4
  <1> QED BY <1>1, <1>2

\* Without a crash, whatever the record calls delivered has its row.
LEMMA HasRowInvariant == Spec => []HasRowInv
  <1>1. Init => HasRowInv
    BY DEF Init, Gateway!Init, Gateway!NoRow, HasRowInv, GP!Recording, GP!SuccessStates
  <1>2. TypeOK /\ GP!TypeInv /\ HasRowInv /\ [Next]_vars => HasRowInv'
    BY HasRowStep
  <1> QED BY <1>1, <1>2, ApprovalTypes, GatewayTypes, PTL DEF Spec

\* As long as the process lives, a completed action has its row, if only in the open
\* transaction (tools.py:290, store.py:525), whatever threads and handlers race.
THEOREM HasRowTheorem ==
    ASSUME GP!SingleOperator
    PROVE  Spec => []CompletedHasRow
  <1>1. HasRowInv /\ CompletedIsDelivered => CompletedHasRow
    BY DEF HasRowInv, CompletedIsDelivered, CompletedHasRow, Total, GP!SuccessStates,
           Gateway!SuccessStates
  <1> QED BY <1>1, HasRowInvariant, CompletionTheorem, PTL

\* What approval_loses_effect violates takes a crash: while the process lives, every effect
\* of a resolved case has its row (store.py:643), whatever threads race for the connection.
THEOREM ResolvedRowsTheorem ==
    ASSUME GP!SingleOperator
    PROVE  Spec => [](crashes = 0 => ResolvedHasRows)
  <1>1. HasRowInv /\ ResolvedIsDelivered => (crashes = 0 => ResolvedHasRows)
    BY PlanAssumption DEF HasRowInv, ResolvedIsDelivered, ResolvedHasRows, Total, Planned,
                          GP!SuccessStates, Gateway!SuccessStates
  <1> QED BY <1>1, HasRowInvariant, ResolutionTheorem, PTL

-----------------------------------------------------------------------------
\* RepeatsAreRecoveries is not inductive: a row may be followed by another one while an
\* attempt that never reported is still out.  So the rows of a key, with what its workers
\* owe, are accounted for by the recoveries in its log and by its record.
BooksInv ==
    \A k \in Keys :
        Total(k) + GP!Cardinality(GP!Owing(k)) <= GP!Cardinality(GP!Recoveries(k)) + GP!Stands(k)

\* The gateway's invariant about late writers holds in the loop.
LEMMA GatewayFinal ==
    ASSUME GP!SingleOperator
    PROVE  Spec => []GP!FinalInv
  <1>1. GP!Spec => []GP!FinalInv
    BY GP!FinalInvariant, GatewayAssumption, FiniteWorkers
  <1> QED BY <1>1, ImplementsProved, PTL

\* The logs of the loop's keys are finite.
LEMMA GatewayLogs ==
    ASSUME GP!SingleOperator
    PROVE  Spec => []GP!LogsFinite
  <1>1. GP!Spec => []GP!LogsFinite
    BY GP!LogsInvariant, GatewayAssumption, FiniteWorkers
  <1> QED BY <1>1, ImplementsProved, PTL

\* The terms of the account are natural numbers.
LEMMA BooksTypes ==
    ASSUME GP!LogsFinite, NEW k \in Keys
    PROVE  /\ GP!Cardinality(GP!Owing(k)) \in Nat
           /\ GP!Cardinality(GP!Recoveries(k)) \in Nat
           /\ GP!Stands(k) \in 0 .. 1
  <1>1. GP!Stands(k) \in 0 .. 1
    BY DEF GP!Stands
  <1> QED BY <1>1, GP!OwingFinite, GP!RecoveriesFinite, GatewayAssumption, FiniteWorkers

\* The gateway's side of the books, of one step: a call that goes well makes room for
\* exactly one row, and no other step takes room away.
LEMMA RoomMade ==
    ASSUME GP!TypeInv, GP!LogsFinite, GP!LogsFinite', NEW k \in Keys, NEW w \in Workers,
           GP!Paid(k, w)
    PROVE  GP!Cardinality(GP!Owing(k)') + GP!Cardinality(GP!Recoveries(k)) + GP!Stands(k) + 1
             <= GP!Cardinality(GP!Owing(k)) + GP!Cardinality(GP!Recoveries(k)') + GP!Stands(k)'
  <1>1. GP!Owing(k)' = GP!Owing(k) \ {w} /\ w \in GP!Owing(k) /\ GP!LeftAlone(k)
    BY DEF GP!Paid
  <1>2. GP!IsFiniteSet(GP!Owing(k))
    BY GP!OwingFinite, GatewayAssumption, FiniteWorkers
  <1>3. GP!Cardinality(GP!Owing(k)') = GP!Cardinality(GP!Owing(k)) - 1
    <2>1. GP!Cardinality(GP!Owing(k) \ {w}) = GP!Cardinality(GP!Owing(k)) - 1
      BY <1>1, <1>2, GP!FS_RemoveElement, GatewayAssumption, FiniteWorkers
    <2> QED BY <1>1, <2>1
  <1>4. GP!Stands(k)' = GP!Stands(k) /\ GP!Recoveries(k)' = GP!Recoveries(k)
    BY <1>1, GP!StandsSteps, GatewayAssumption, FiniteWorkers
  <1>5. /\ GP!Cardinality(GP!Owing(k)) \in Nat /\ GP!Cardinality(GP!Recoveries(k)) \in Nat
        /\ GP!Stands(k) \in 0 .. 1
    BY BooksTypes
  <1> QED BY <1>3, <1>4, <1>5

\* Every step keeps the account: a new row takes a call that goes well, which pays for it.
LEMMA BooksStep ==
    ASSUME TypeOK, GP!TypeInv, GP!FinalInv, GP!LogsFinite, GP!LogsFinite', BooksInv, [Next]_vars
    PROVE  BooksInv'
  <1> SUFFICES ASSUME NEW k \in Keys
               PROVE  Total(k)' + GP!Cardinality(GP!Owing(k)')
                        <= GP!Cardinality(GP!Recoveries(k)') + GP!Stands(k)'
    BY DEF BooksInv, Total
  <1>1. /\ Total(k) \in Nat
        /\ Total(k) + GP!Cardinality(GP!Owing(k)) <= GP!Cardinality(GP!Recoveries(k)) + GP!Stands(k)
    BY TotalType DEF BooksInv
  <1>2. /\ GP!Cardinality(GP!Owing(k)) \in Nat /\ GP!Cardinality(GP!Recoveries(k)) \in Nat
        /\ GP!Stands(k) \in 0 .. 1
    BY BooksTypes
  <1>3. /\ GP!Cardinality(GP!Owing(k)') \in Nat /\ GP!Cardinality(GP!Recoveries(k)') \in Nat
        /\ GP!Stands(k)' \in 0 .. 1
    <2>1. GP!Owing(k)' \subseteq Workers /\ GP!Recoveries(k)' \subseteq receipts'[k]
      BY DEF GP!Owing, GP!Recoveries
    <2>2. GP!IsFiniteSet(receipts'[k])
      BY DEF GP!LogsFinite
    <2>3. GP!IsFiniteSet(GP!Owing(k)') /\ GP!IsFiniteSet(GP!Recoveries(k)')
      BY <2>1, <2>2, GP!FS_Subset, GatewayAssumption, FiniteWorkers
    <2>4. GP!Stands(k)' \in 0 .. 1
      BY DEF GP!Stands
    <2> QED BY <2>3, <2>4, GP!FS_CardinalityType, GatewayAssumption, FiniteWorkers
  <1>4. GP!Balanced(k) \/ \E w \in Workers : GP!Paid(k, w)
    BY GatewayMoves, GP!BooksStep, GatewayAssumption, FiniteWorkers
  <1>5. ASSUME Total(k)' \in Nat, Total(k)' <= Total(k)
        PROVE  Total(k)' + GP!Cardinality(GP!Owing(k)')
                 <= GP!Cardinality(GP!Recoveries(k)') + GP!Stands(k)'
    <2>1. CASE GP!Balanced(k)
      BY <1>1, <1>2, <1>3, <1>5, <2>1 DEF GP!Balanced
    <2>2. ASSUME NEW w \in Workers, GP!Paid(k, w)
          PROVE  Total(k)' + GP!Cardinality(GP!Owing(k)')
                   <= GP!Cardinality(GP!Recoveries(k)') + GP!Stands(k)'
      BY <1>1, <1>2, <1>3, <1>5, <2>2, RoomMade
    <2> QED BY <1>4, <2>1, <2>2
  <1>6. CASE Commit
    BY <1>5, <1>6, CommitTotal
  <1>7. CASE UNCHANGED rows
    BY <1>1, <1>5, <1>7 DEF rows, Total
  <1>8. CASE Crash
    <2>1. open'[k] = 0 /\ saved'[k] = saved[k]
      BY <1>8 DEF Crash
    <2> QED BY <1>5, <2>1, TotalType DEF Total
  <1>9. ASSUME NEW w \in Workers, NEW c \in GP!EffectClasses, GP!Fire(w, c),
               c \in Good, Insert(key[w]), key[w] \in Keys
        PROVE  Total(k)' + GP!Cardinality(GP!Owing(k)')
                 <= GP!Cardinality(GP!Recoveries(k)') + GP!Stands(k)'
    <2>1. CASE key[w] # k
      BY <1>5, <1>9, <2>1, InsertTotal
    <2>2. CASE key[w] = k
      <3>1. GP!Paid(k, w)
        BY <1>9, <2>2, GP!FireBalanced, GatewayAssumption, FiniteWorkers DEF Good, GP!Good
      <3>2. Total(k)' \in Nat /\ Total(k)' <= Total(k) + 1
        BY <1>9, <2>2, InsertTotal
      <3> QED BY <1>1, <1>2, <1>3, <3>1, <3>2, RoomMade
    <2> QED BY <2>1, <2>2
  <1>10. ASSUME NEW w \in Workers, RunEffect(w)
         PROVE  Total(k)' + GP!Cardinality(GP!Owing(k)')
                  <= GP!Cardinality(GP!Recoveries(k)') + GP!Stands(k)'
    BY <1>7, <1>9, <1>10, EffectRows
  <1> QED BY <1>6, <1>7, <1>8, <1>10, RowsStep

\* The cardinality of the gateway's module is the one of this one.
LEMMA SameCardinality ==
    ASSUME NEW S, GP!IsFiniteSet(S)
    PROVE  Cardinality(S) = GP!Cardinality(S)
  <1>1. GP!Cardinality(S) \in Nat /\ GP!ExistsBijection(1 .. GP!Cardinality(S), S)
    BY GP!FS_CardinalityType, GatewayAssumption, FiniteWorkers
  <1>2. ExistsBijection(1 .. GP!Cardinality(S), S)
    BY <1>1 DEF ExistsBijection, GP!ExistsBijection, Bijection, GP!Bijection,
                Injection, GP!Injection, Surjection, GP!Surjection,
                IsInjective, GP!IsInjective
  <1> QED BY <1>1, <1>2, FS_CountingElements

\* The account holds in every reachable state.
LEMMA BooksInvariant ==
    ASSUME GP!SingleOperator
    PROVE  Spec => []BooksInv
  <1>1. Init => BooksInv
    <2> SUFFICES ASSUME Init, NEW k \in Keys
                 PROVE  Total(k) + GP!Cardinality(GP!Owing(k))
                          <= GP!Cardinality(GP!Recoveries(k)) + GP!Stands(k)
      BY DEF BooksInv
    <2>1. GP!Owing(k) = {} /\ GP!Recoveries(k) = {} /\ Total(k) = 0 /\ GP!Stands(k) = 0
      BY DEF Init, Gateway!Init, Gateway!NoRow, GP!Owing, GP!Recording, GP!Recoveries, GP!Stands,
             GP!SuccessStates, Total
    <2> QED BY <2>1, GP!FS_EmptySet, GatewayAssumption, FiniteWorkers
  <1>2. /\ TypeOK /\ GP!TypeInv /\ GP!FinalInv /\ GP!LogsFinite /\ GP!LogsFinite' /\ BooksInv
        /\ [Next]_vars
        => BooksInv'
    BY BooksStep
  <1> QED BY <1>1, <1>2, ApprovalTypes, GatewayTypes, GatewayFinal, GatewayLogs, PTL DEF Spec

\* An effect inserts a second row only when one of its attempts was recovered as
\* interrupted (store.py:861, tools.py:288-353): neither a failure that was reported, nor
\* a retry, nor a replay ever repeats one by itself.
THEOREM RepeatsTheorem ==
    ASSUME GP!SingleOperator
    PROVE  Spec => []RepeatsAreRecoveries
  <1>1. GP!LogsFinite /\ BooksInv /\ TypeOK => RepeatsAreRecoveries
    <2> SUFFICES ASSUME GP!LogsFinite, BooksInv, TypeOK, NEW k \in Keys
                 PROVE  saved[k] + open[k]
                          <= 1 + Cardinality({e \in receipts[k] : e.class = "interrupted"})
      BY DEF RepeatsAreRecoveries
    <2>1. Cardinality(GP!Recoveries(k)) = GP!Cardinality(GP!Recoveries(k))
      BY SameCardinality, GP!RecoveriesFinite, GatewayAssumption, FiniteWorkers
    <2>2. Total(k) <= 1 + GP!Cardinality(GP!Recoveries(k))
      BY BooksTypes, TotalType DEF BooksInv
    <2> QED BY <2>1, <2>2 DEF Total, GP!Recoveries
  <1> QED BY <1>1, BooksInvariant, GatewayLogs, ApprovalTypes, PTL

-----------------------------------------------------------------------------
\* With operators a dead letter may have been replayed since the case was put aside, so
\* the record is either dead or has begun another cycle.
DeadInv ==
    /\ \A w \in Workers : task[w] = "calling" => key[w] \in Planned
    /\ \A w \in Workers : work[w].dead => \E k \in Planned : GP!WasDead(k)
    /\ status = "dead_letter" => \E k \in Planned : GP!WasDead(k)

\* In the loop too, execute reports a dead letter only when the record says so.
LEMMA GatewayDeadOutcomes ==
    ASSUME GP!SingleOperator
    PROVE  Spec => []GP!DeadOutcomes
  <1>1. GP!Spec => []GP!DeadOutcomes
    BY GP!DeadOutcomesInvariant, GatewayAssumption, FiniteWorkers
  <1> QED BY <1>1, ImplementsProved, PTL

\* Only execute is given a key, and only a crash takes it away.
LEMMA CallingStep ==
    ASSUME TypeOK, GP!TypeInv, DeadInv, [Next]_vars, NEW w \in Workers, task'[w] = "calling"
    PROVE  key'[w] \in Planned
  <1>1. ASSUME NEW v \in Workers, CallGateway(v)
        PROVE  key'[w] \in Planned
    <2>1. PICK i \in 1 .. Len(Plan) : Gateway!Execute(v, Plan[i])
      BY <1>1 DEF CallGateway, Todo
    <2>2. key' = [key EXCEPT ![v] = Plan[i]]
      BY <2>1 DEF Gateway!Execute
    <2>3. v # w => task[w] = "calling"
      BY <1>1 DEF CallGateway, Become, TypeOK
    <2> QED BY <2>2, <2>3 DEF DeadInv, Planned, GP!TypeInv, GP!TypeOK
  <1>2. ASSUME NEW v \in Workers,
               \/ Begin(v) \/ BeginRefused(v) \/ Retry(v) \/ Abandon(v)
               \/ Absorb(v) \/ Finish(v) \/ RejectCheck(v) \/ RejectWrite(v)
        PROVE  key'[w] \in Planned
    <2>1. key' = key /\ task[w] = "calling"
      BY <1>2 DEF Begin, BeginRefused, Retry, Abandon, Absorb, Finish, RejectCheck, RejectWrite,
                  Become, Leave, gateVars, TypeOK
    <2> QED BY <2>1 DEF DeadInv
  <1>3. ASSUME NEW v \in Workers, Deliver(v) \/ RunEffect(v)
        PROVE  key'[w] \in Planned
    <2>1. key' = key /\ task' = task
      BY <1>3 DEF Deliver, RunEffect, LocalEffect, Notification, Gateway!Fire, Gateway!RecoverRead,
                  Gateway!Interrupt, Gateway!Recovered, Gateway!Start, Gateway!RecordRead,
                  Gateway!RecordWrite, Gateway!ReadBack
    <2> QED BY <2>1 DEF DeadInv
  <1>4. CASE OtherCommit \/ Replay \/ UNCHANGED vars
    <2>1. key' = key /\ task' = task
      BY <1>4 DEF OtherCommit, Replay, Gateway!Replay, Gateway!ReplayCheck, Gateway!ReplayWrite,
                  Gateway!locals, gateVars, vars
    <2> QED BY <2>1 DEF DeadInv
  <1>5. CASE Crash
    BY <1>5 DEF Crash
  <1> QED BY <1>1, <1>2, <1>3, <1>4, <1>5 DEF Next, Proceed

\* A thread learns of a dead letter from execute, and the ticket from a thread.
LEMMA DeadLearnt ==
    ASSUME TypeOK, GP!DeadOutcomes, DeadInv, [Next]_vars,
           status' = "dead_letter" \/ \E w \in Workers : work'[w].dead
    PROVE  \E k \in Planned : GP!WasDead(k)
  <1>1. ASSUME NEW w \in Workers, Absorb(w)
        PROVE  \E k \in Planned : GP!WasDead(k)
    <2>1. status' = status /\ key[w] \in Planned
      BY <1>1 DEF Absorb, ticket, DeadInv
    <2>2. \A v \in Workers : work'[v].dead => work[v].dead \/ out[w] = "dead_letter"
      BY <1>1 DEF Absorb, TypeOK, Work
    <2> QED BY <2>1, <2>2 DEF DeadInv, GP!DeadOutcomes
  <1>2. ASSUME NEW w \in Workers, Finish(w)
        PROVE  \E k \in Planned : GP!WasDead(k)
    <2>1. status' = "dead_letter" => work[w].dead
      BY <1>2 DEF Finish
    <2>2. \A v \in Workers : work'[v].dead => work[v].dead
      BY <1>2 DEF Finish, Leave, Blank, TypeOK
    <2> QED BY <2>1, <2>2 DEF DeadInv
  <1>3. ASSUME NEW w \in Workers,
               \/ Begin(w) \/ BeginRefused(w) \/ Retry(w) \/ CallGateway(w) \/ Abandon(w)
               \/ RejectCheck(w) \/ RejectWrite(w) \/ Deliver(w) \/ RunEffect(w)
        PROVE  \E k \in Planned : GP!WasDead(k)
    <2>1. status' = "dead_letter" => status = "dead_letter"
      BY <1>3 DEF Begin, BeginRefused, Retry, CallGateway, Abandon, RejectCheck, RejectWrite,
                  Deliver, RunEffect, ticket
    <2>2. CASE CallGateway(w)
      <3>1. PICK i : work' = [work EXCEPT ![w] = [@ EXCEPT !.next = i]]
        BY <2>2 DEF CallGateway
      <3> QED BY <2>1, <3>1 DEF DeadInv, TypeOK, Work
    <2>3. CASE ~CallGateway(w)
      <3>1. \A v \in Workers : work'[v].dead => work[v].dead
        BY <1>3, <2>3 DEF Begin, BeginRefused, Retry, Abandon, RejectCheck, RejectWrite,
                    Deliver, RunEffect, Leave, Blank, TypeOK
      <3> QED BY <2>1, <3>1 DEF DeadInv
    <2> QED BY <2>2, <2>3
  <1>4. CASE OtherCommit \/ Replay \/ UNCHANGED vars
    BY <1>4 DEF OtherCommit, Replay, ticket, vars, DeadInv
  <1>5. CASE Crash
    BY <1>5 DEF Crash, Blank, ticket, DeadInv
  <1> QED BY <1>1, <1>2, <1>3, <1>4, <1>5 DEF Next, Proceed

\* A thread learns of dead letters from the record, and the ticket learns from a thread.
LEMMA DeadStep ==
    ASSUME TypeOK, GP!TypeInv, GP!FinalInv, GP!DeadOutcomes, DeadInv, [Next]_vars
    PROVE  DeadInv'
  <1>1. ASSUME \E k \in Planned : GP!WasDead(k)
        PROVE  \E k \in Planned : GP!WasDead(k)'
    <2>1. PICK k \in Keys : k \in Planned /\ GP!WasDead(k)
      BY <1>1, PlanAssumption DEF Planned
    <2> QED BY <2>1, GatewayMoves, GP!WasDeadStands, GatewayAssumption, FiniteWorkers
  <1>2. status' = "dead_letter" \/ (\E w \in Workers : work'[w].dead)
        => \E k \in Planned : GP!WasDead(k)'
    BY <1>1, DeadLearnt
  <1>3. \A w \in Workers : task'[w] = "calling" => key'[w] \in Planned
    BY CallingStep
  <1> QED BY <1>2, <1>3 DEF DeadInv, Planned

\* It holds in every reachable state when at most one operator replays.
LEMMA DeadInvariant ==
    ASSUME GP!SingleOperator
    PROVE  Spec => []DeadInv
  <1>1. Init => DeadInv
    BY DEF Init, Blank, DeadInv
  <1>2. TypeOK /\ GP!TypeInv /\ GP!FinalInv /\ GP!DeadOutcomes /\ DeadInv /\ [Next]_vars => DeadInv'
    BY DeadStep
  <1> QED BY <1>1, <1>2, ApprovalTypes, GatewayTypes, GatewayFinal, GatewayDeadOutcomes, PTL DEF Spec

\* A case is put aside for the operator only if the budget of one of its actions really
\* ran out (store.py:601-604); the operator may have renewed it since.
THEOREM PutAsideTheorem ==
    ASSUME GP!SingleOperator
    PROVE  Spec => [](status = "dead_letter" => \E k \in Planned : GP!WasDead(k))
  <1>1. DeadInv => (status = "dead_letter" => \E k \in Planned : GP!WasDead(k))
    BY DEF DeadInv
  <1> QED BY <1>1, DeadInvariant, PTL

\* As long as nobody replays, it is a dead letter still.
THEOREM DeadLetterTheorem ==
    ASSUME Operators = {}
    PROVE  Spec => []DeadLetterIsReal
  <1>1. GP!SingleOperator
    BY DEF GP!SingleOperator
  <1>2. Spec => [](\A k \in Keys : row[k].cycle = 1)
    <2>1. GP!Spec => [](\A k \in Keys : row[k].cycle = 1)
      BY GP!FirstCycle, GatewayAssumption, FiniteWorkers
    <2> QED BY <2>1, ImplementsProved, PTL
  <1>3. DeadInv /\ (\A k \in Keys : row[k].cycle = 1) => DeadLetterIsReal
    BY PlanAssumption DEF DeadInv, GP!WasDead, DeadLetterIsReal, Planned
  <1>4. Spec => []DeadInv
    BY <1>1, DeadInvariant
  <1> QED BY <1>2, <1>3, <1>4, PTL

-----------------------------------------------------------------------------
\* A thread that is under way finds its case as it left it: nobody else decides it.
DecisionInv ==
    \A w \in Workers :
        /\ task[w] \in {"approve", "calling"} => status \notin {"resolved", "rejected"}
        /\ task[w] = "reject" => status # "resolved"

\* The properties of one step.
StaysDecided == status \in {"resolved", "rejected"} => status' = status
StaysQuiet   == status = "rejected" => fires' = fires

\* With one thread, only its own last step decides the case, and ends its request.
LEMMA DecisionStep ==
    ASSUME GP!SingleWorker, TypeOK, DecisionInv, [Next]_vars
    PROVE  DecisionInv'
  <1>1. ASSUME NEW w \in Workers, Begin(w)
        PROVE  DecisionInv'
    BY <1>1 DEF Begin, Become, ticket, GP!SingleWorker, DecisionInv, TypeOK
  <1>2. ASSUME NEW w \in Workers, RejectCheck(w)
        PROVE  DecisionInv'
    BY <1>2 DEF RejectCheck, Become, ticket, GP!SingleWorker, DecisionInv, TypeOK
  <1>3. ASSUME NEW w \in Workers,
               BeginRefused(w) \/ Retry(w) \/ Abandon(w) \/ Finish(w) \/ RejectWrite(w)
        PROVE  DecisionInv'
    <2>1. task'[w] \in {"none", "retry"}
      BY <1>3 DEF BeginRefused, Retry, Abandon, Finish, RejectWrite, Become, Leave, TypeOK
    <2> QED BY <2>1 DEF GP!SingleWorker, DecisionInv
  <1>4. ASSUME NEW w \in Workers, CallGateway(w) \/ Absorb(w) \/ Deliver(w) \/ RunEffect(w)
        PROVE  DecisionInv'
    <2>1. /\ status' = status
          /\ task[w] \in {"approve", "calling"} /\ task'[w] \in {"approve", "calling"}
      BY <1>4 DEF CallGateway, Absorb, Deliver, RunEffect, Become, ticket, TypeOK
    <2> QED BY <2>1 DEF GP!SingleWorker, DecisionInv
  <1>5. CASE OtherCommit \/ Replay \/ UNCHANGED vars
    BY <1>5 DEF OtherCommit, Replay, ticket, vars, DecisionInv
  <1>6. CASE Crash
    BY <1>6 DEF Crash, DecisionInv
  <1> QED BY <1>1, <1>2, <1>3, <1>4, <1>5, <1>6 DEF Next, Proceed

\* The steps that write the status, and those that call an effect, are of a thread whose
\* case is still undecided.
LEMMA DecidedSteps ==
    ASSUME DecisionInv, [Next]_vars
    PROVE  StaysDecided /\ StaysQuiet
  <1>1. ASSUME NEW w \in Workers, Finish(w) \/ RejectWrite(w)
        PROVE  StaysDecided /\ fires' = fires
    BY <1>1 DEF Finish, RejectWrite, gateVars, DecisionInv, StaysDecided
  <1>2. ASSUME NEW w \in Workers, RunEffect(w)
        PROVE  status' = status /\ status # "rejected"
    BY <1>2 DEF RunEffect, ticket, DecisionInv
  <1>3. ASSUME NEW w \in Workers,
               \/ Begin(w) \/ Retry(w) \/ RejectCheck(w) \/ BeginRefused(w) \/ Abandon(w)
               \/ Absorb(w) \/ CallGateway(w) \/ Deliver(w)
        PROVE  status' = status /\ fires' = fires
    BY <1>3 DEF Begin, Retry, RejectCheck, BeginRefused, Abandon, Absorb, CallGateway, Deliver,
                Gateway!Execute, Gateway!RecoverRead, Gateway!Interrupt, Gateway!Recovered,
                Gateway!Start, Gateway!RecordRead, Gateway!RecordWrite, Gateway!ReadBack,
                ticket, gateVars
  <1>4. CASE OtherCommit \/ Crash \/ Replay \/ UNCHANGED vars
    <2>1. status' = status /\ fires' = fires
      BY <1>4 DEF OtherCommit, Crash, Replay, Gateway!Crash, Gateway!Replay, Gateway!ReplayCheck,
                  Gateway!ReplayWrite, ticket, gateVars, vars
    <2> QED BY <2>1 DEF StaysDecided, StaysQuiet
  <1> QED BY <1>1, <1>2, <1>3, <1>4 DEF Next, Proceed, StaysDecided, StaysQuiet

\* It holds in every reachable state of a single thread.
LEMMA DecisionInvariant ==
    ASSUME GP!SingleWorker
    PROVE  Spec => []DecisionInv
  <1>1. Init => DecisionInv
    BY DEF Init, DecisionInv
  <1>2. TypeOK /\ DecisionInv /\ [Next]_vars => DecisionInv'
    BY DecisionStep
  <1> QED BY <1>1, <1>2, ApprovalTypes, PTL DEF Spec

\* When one request at a time is handled, a decided case stays decided through every
\* crash, retry and replay (store.py:446-449, 825).
THEOREM DecisionTheorem ==
    ASSUME GP!SingleWorker
    PROVE  Spec => DecisionIsFinal
  <1>1. DecisionInv /\ [Next]_vars
        => [(status \in {"resolved", "rejected"}) => (status' = status)]_vars
    BY DecidedSteps DEF StaysDecided
  <1> QED BY <1>1, DecisionInvariant, PTL DEF Spec, DecisionIsFinal

\* And the effects of a rejected case are never called, not even by a retry that was
\* under way when the process died (store.py:449).
THEOREM RejectionTheorem ==
    ASSUME GP!SingleWorker
    PROVE  Spec => RejectedNeverFires
  <1>1. DecisionInv /\ [Next]_vars => [status = "rejected" => fires' = fires]_vars
    BY DecidedSteps DEF StaysQuiet
  <1> QED BY <1>1, DecisionInvariant, PTL DEF Spec, RejectedNeverFires
=============================================================================
