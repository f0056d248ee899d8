-------------------------- MODULE EffectGatewayProofs --------------------------
(***************************************************************************)
(* Theorems about EffectGateway for any keys, any finite set of workers,   *)
(* any operators and any budget.                                           *)
(***************************************************************************)
EXTENDS EffectGateway, FiniteSetTheorems, TLAPS

\* What the type invariant rests on: a worker inside execute works on a key that
\* is registered, and has a result when it is about to record.
WorkersOK ==
    \A w \in Workers :
        /\ pc[w] # "idle" => key[w] \in Keys /\ row[key[w]].state # "absent"
        /\ pc[w] \in {"record", "write"} => result[w] \in EffectClasses

TypeInv == TypeOK /\ WorkersOK

\* The row operators of the store keep a row a row.
LEMMA RowTypes ==
    ASSUME NEW r \in Row
    PROVE  /\ NoRow \in Row
           /\ Registered(r) \in Row /\ Registered(r).state # "absent"
           /\ MayStart(r) => Started(r) \in Row
           /\ Replayed(r) \in Row
  <1>1. MaxAttempts \in Nat /\ MaxAttempts > 0
    BY MaxAttemptsAssumption
  <1> USE DEF Row, RowStates, StartableStates, TerminalStates, SuccessStates
  <1>2. NoRow \in Row
    BY <1>1 DEF NoRow
  <1>3. Registered(r) \in Row /\ Registered(r).state # "absent"
    BY <1>1 DEF Registered
  <1>4. MayStart(r) => Started(r) \in Row
    <2>1. /\ r.attempts \in 0 .. MaxAttempts
          /\ r.attempts < MaxAttempts => r.attempts + 1 \in 0 .. MaxAttempts
      BY <1>1
    <2> QED BY <2>1 DEF MayStart, Started
  <1>5. Replayed(r) \in Row
    BY <1>1 DEF Replayed
  <1> QED BY <1>2, <1>3, <1>4, <1>5

\* Settling an attempt writes a row and a receipt.
LEMMA SettledTypes ==
    ASSUME NEW r \in Row, NEW c
    PROVE  /\ SettledState(r, c) \in RowStates \ {"absent", "running", "pending"}
           /\ c \in ReceiptClasses => ReceiptOf(r, c) \in Receipt
  BY DEF SettledState, ReceiptOf, Row, Receipt, RowStates, StartableStates,
         TerminalStates, SuccessStates

-----------------------------------------------------------------------------
\* The gateway starts well typed.
LEMMA InitType == Init => TypeInv
  BY RowTypes, MaxAttemptsAssumption
     DEF Init, TypeInv, TypeOK, WorkersOK, NoRow, Row, RowStates, PCs

\* Registering a key keeps the types.
LEMMA ExecuteType ==
    ASSUME TypeInv, NEW w \in Workers, NEW k \in Keys, Execute(w, k)
    PROVE  TypeInv'
  <1> DEFINE r == Registered(row[k])
  <1> USE DEF TypeInv, TypeOK
  <1>1. r \in Row /\ r.state # "absent" /\ r.state \in RowStates
    <2>1. row[k] \in Row
      OBVIOUS
    <2> QED BY <2>1, RowTypes DEF Row
  <1>2. row' = [row EXCEPT ![k] = r] /\ row' \in [Keys -> Row]
    BY <1>1 DEF Execute
  <1> HIDE DEF r
  <1>3. TypeOK'
    BY <1>1, <1>2 DEF Execute, Continue, Return, Goto, PCs, durable, r
  <1>4. WorkersOK'
    BY <1>1, <1>2 DEF Execute, Continue, Return, Goto, WorkersOK, durable, r
  <1> QED BY <1>3, <1>4

\* So does the read of recover_interrupted,
LEMMA RecoverReadType ==
    ASSUME TypeInv, NEW w \in Workers, RecoverRead(w)
    PROVE  TypeInv'
  <1> USE DEF TypeInv, TypeOK
  <1>1. key[w] \in Keys /\ row[key[w]] \in Row /\ row[key[w]].state \in RowStates \ {"absent"}
    BY DEF WorkersOK, RecoverRead, Row
  <1>2. TypeOK'
    BY <1>1 DEF RecoverRead, Continue, Return, Goto, PCs, durable
  <1>3. WorkersOK'
    BY <1>1 DEF RecoverRead, Continue, Return, Goto, WorkersOK, durable
  <1> QED BY <1>2, <1>3

\* What the transaction of recover_interrupted, record_success and record_failure
\* does to the store.
LEMMA SettleType ==
    ASSUME TypeInv, NEW w \in Workers, pc[w] # "idle", NEW c \in ReceiptClasses,
           Settle(w, c)
    PROVE  /\ row' \in [Keys -> Row]
           /\ receipts' \in [Keys -> SUBSET Receipt]
           /\ \A k \in Keys : row[k].state # "absent" => row'[k].state # "absent"
  <1> DEFINE k == key[w]
  <1>1. k \in Keys /\ seen[w] \in Row /\ row[k] \in Row
    BY DEF TypeInv, TypeOK, WorkersOK
  <1>2. /\ SettledState(seen[w], c) \in RowStates \ {"absent"}
        /\ ReceiptOf(seen[w], c) \in Receipt
    BY <1>1, SettledTypes
  <1>3. row' = [row EXCEPT ![k].state = SettledState(seen[w], c)]
    BY DEF Settle
  <1>4. [row[k] EXCEPT !.state = SettledState(seen[w], c)] \in Row
    BY <1>1, <1>2 DEF Row
  <1>5. row' \in [Keys -> Row]
    BY <1>1, <1>3, <1>4 DEF TypeInv, TypeOK
  <1>6. receipts' \in [Keys -> SUBSET Receipt]
    BY <1>1, <1>2 DEF Settle, TypeInv, TypeOK
  <1>7. \A j \in Keys : row[j].state # "absent" => row'[j].state # "absent"
    BY <1>1, <1>2, <1>3 DEF TypeInv, TypeOK, Row
  <1> QED BY <1>5, <1>6, <1>7

\* its transaction,
LEMMA InterruptType ==
    ASSUME TypeInv, NEW w \in Workers, Interrupt(w)
    PROVE  TypeInv'
  <1>1. CASE Settle(w, "interrupted") /\ Goto(w, "recovered")
    <2>1. pc[w] # "idle"
      BY DEF Interrupt
    <2>2. /\ row' \in [Keys -> Row]
          /\ receipts' \in [Keys -> SUBSET Receipt]
          /\ \A k \in Keys : row[k].state # "absent" => row'[k].state # "absent"
      BY <1>1, <2>1, SettleType DEF ReceiptClasses
    <2> QED BY <1>1, <2>2 DEF Interrupt, Goto, TypeInv, TypeOK, WorkersOK, PCs
  <1>2. CASE SettleRefused(w) /\ Raise(w)
    BY <1>2 DEF Interrupt, SettleRefused, Raise, Return, durable, TypeInv, TypeOK, WorkersOK, PCs
  <1> QED BY <1>1, <1>2 DEF Interrupt

\* and the row it returns.
LEMMA RecoveredType ==
    ASSUME TypeInv, NEW w \in Workers, Recovered(w)
    PROVE  TypeInv'
  <1>1. row[key[w]].state \in RowStates \ {"absent"}
    BY DEF TypeInv, TypeOK, WorkersOK, Recovered, Row
  <1> QED
    BY <1>1 DEF Recovered, Continue, Return, Goto, durable, TypeInv, TypeOK, WorkersOK, PCs

\* start_attempt never exceeds the budget: MayStart leaves room for one attempt.
LEMMA StartType ==
    ASSUME TypeInv, NEW w \in Workers, Start(w)
    PROVE  TypeInv'
  <1> DEFINE k == key[w]
  <1>1. k \in Keys /\ row[k] \in Row
    BY DEF TypeInv, TypeOK, WorkersOK, Start
  <1>2. CASE MayStart(row[k]) /\ row' = [row EXCEPT ![k] = Started(@)] /\ Goto(w, "effect")
    <2>1. Started(row[k]) \in Row /\ Started(row[k]).state = "running"
      BY <1>1, <1>2, RowTypes DEF Started
    <2> QED
      BY <1>1, <1>2, <2>1 DEF Start, Goto, TypeInv, TypeOK, WorkersOK, PCs
  <1>3. CASE ~MayStart(row[k]) /\ UNCHANGED row /\ Goto(w, "read")
    BY <1>3 DEF Start, Goto, TypeInv, TypeOK, WorkersOK, PCs
  <1> QED BY <1>2, <1>3 DEF Start

\* A call of the effect keeps the types.
LEMMA FireType ==
    ASSUME TypeInv, NEW w \in Workers, NEW c \in EffectClasses, Fire(w, c)
    PROVE  TypeInv'
  BY DEF Fire, Goto, durable, TypeInv, TypeOK, WorkersOK, PCs

\* So does the read of record_success and record_failure,
LEMMA RecordReadType ==
    ASSUME TypeInv, NEW w \in Workers, RecordRead(w)
    PROVE  TypeInv'
  BY DEF RecordRead, Goto, Raise, Return, durable, TypeInv, TypeOK, WorkersOK, PCs

\* their transaction,
LEMMA RecordWriteType ==
    ASSUME TypeInv, NEW w \in Workers, RecordWrite(w)
    PROVE  TypeInv'
  <1>1. CASE Settle(w, result[w]) /\ Goto(w, "read")
    <2>1. pc[w] # "idle" /\ result[w] \in ReceiptClasses
      BY DEF RecordWrite, TypeInv, WorkersOK, ReceiptClasses
    <2>2. /\ row' \in [Keys -> Row]
          /\ receipts' \in [Keys -> SUBSET Receipt]
          /\ \A k \in Keys : row[k].state # "absent" => row'[k].state # "absent"
      BY <1>1, <2>1, SettleType
    <2> QED BY <1>1, <2>2 DEF RecordWrite, Goto, TypeInv, TypeOK, WorkersOK, PCs
  <1>2. CASE SettleRefused(w) /\ Raise(w)
    BY <1>2 DEF RecordWrite, SettleRefused, Raise, Return, durable, TypeInv, TypeOK, WorkersOK, PCs
  <1> QED BY <1>1, <1>2 DEF RecordWrite

\* and the row that becomes the outcome.
LEMMA ReadBackType ==
    ASSUME TypeInv, NEW w \in Workers, ReadBack(w)
    PROVE  TypeInv'
  <1>1. row[key[w]].state \in RowStates \ {"absent"}
    BY DEF TypeInv, TypeOK, WorkersOK, ReadBack, Row
  <1> QED BY <1>1 DEF ReadBack, Return, durable, TypeInv, TypeOK, WorkersOK, PCs

\* A replay begins a cycle with no attempts.
LEMMA ReplayType ==
    ASSUME TypeInv, NEW o \in Operators, NEW k \in Keys,
           ReplayCheck(o, k) \/ ReplayWrite(o, k)
    PROVE  TypeInv'
  <1>1. row[k] \in Row
    BY DEF TypeInv, TypeOK
  <1>2. CASE ReplayCheck(o, k)
    BY <1>2 DEF ReplayCheck, durable, locals, TypeInv, TypeOK, WorkersOK
  <1>3. CASE ReplayWrite(o, k)
    <2>1. Replayed(row[k]) \in Row /\ Replayed(row[k]).state = "pending"
      BY <1>1, RowTypes DEF Replayed
    <2> QED BY <1>3, <2>1 DEF ReplayWrite, locals, TypeInv, TypeOK, WorkersOK
  <1> QED BY <1>2, <1>3

\* A crash leaves idle threads.
LEMMA CrashType == TypeInv /\ Crash => TypeInv'
  BY RowTypes, MaxAttemptsAssumption
     DEF Crash, durable, NoRow, Row, RowStates, TypeInv, TypeOK, WorkersOK, PCs

\* Every step keeps the types.
LEMMA TypeStep == TypeInv /\ [Next]_gateVars => TypeInv'
  <1> SUFFICES ASSUME TypeInv, [Next]_gateVars
               PROVE  TypeInv'
    OBVIOUS
  <1>1. ASSUME NEW w \in Workers, NEW k \in Keys, Execute(w, k)
        PROVE  TypeInv'
    BY <1>1, ExecuteType
  <1>2. ASSUME NEW w \in Workers, Proceed(w)
        PROVE  TypeInv'
    BY <1>2, RecoverReadType, InterruptType, RecoveredType, StartType, FireType,
       RecordReadType, RecordWriteType, ReadBackType DEF Proceed
  <1>3. CASE Replay
    BY <1>3, ReplayType DEF Replay
  <1>4. CASE Crash
    BY <1>4, CrashType
  <1>5. CASE UNCHANGED gateVars
    BY <1>5 DEF gateVars, TypeInv, TypeOK, WorkersOK
  <1> QED BY <1>1, <1>2, <1>3, <1>4, <1>5 DEF Next

\* The types hold in every reachable state.
LEMMA TypeInvariant == Spec => []TypeInv
  BY InitType, TypeStep, PTL DEF Spec

\* Every variable of the gateway keeps its type through every interleaving, crash
\* and replay; in particular no outcome is ever that of an unregistered key
\* (effects.py:158).
THEOREM TypeCorrect == Spec => []TypeOK
  BY TypeInvariant, PTL DEF TypeInv

-----------------------------------------------------------------------------
\* The attempts row r has granted, over all its cycles, at most.
Allowance(r) == MaxAttempts * (r.cycle - 1) + r.attempts

\* Workers that were granted an attempt of k and have not called the effect yet.
Firing(k) == {w \in Workers : pc[w] = "effect" /\ key[w] = k}

\* BudgetHolds alone is not inductive: an attempt granted but not yet used could
\* still be fired after the budget is spent.
BudgetInv ==
    \A k \in Keys : fires[k] + Cardinality(Firing(k)) <= Allowance(row[k])

\* An allowance grows with an attempt, never shrinks by a replay, and is within the budget.
LEMMA AllowanceFacts ==
    ASSUME NEW r \in Row
    PROVE  /\ Allowance(r) \in Nat
           /\ Allowance(r) <= MaxAttempts * r.cycle
           /\ \A s : Allowance([r EXCEPT !.state = s]) = Allowance(r)
           /\ Allowance(Registered(r)) = Allowance(r)
           /\ Allowance(Started(r)) = Allowance(r) + 1
           /\ Allowance(r) <= Allowance(Replayed(r))
  <1>1. /\ MaxAttempts \in Nat
        /\ r.cycle \in Nat \ {0} /\ r.attempts \in Nat /\ r.attempts <= MaxAttempts
    BY MaxAttemptsAssumption DEF Row
  <1>2. PICK n \in Nat : r.cycle = n + 1
    BY <1>1
  <1>3. MaxAttempts * n \in Nat /\ MaxAttempts * (n + 1) = MaxAttempts * n + MaxAttempts
    BY <1>1
  <1>4. Allowance(r) = MaxAttempts * n + r.attempts
    BY <1>1, <1>2 DEF Allowance
  <1>5. Allowance(r) \in Nat /\ Allowance(r) <= MaxAttempts * r.cycle
    BY <1>1, <1>2, <1>3, <1>4
  <1>6. \A s : Allowance([r EXCEPT !.state = s]) = Allowance(r)
    BY DEF Allowance, Row
  <1>7. Allowance(Registered(r)) = Allowance(r)
    BY <1>6 DEF Registered
  <1>8. Allowance(Started(r)) = Allowance(r) + 1
    BY <1>1, <1>3, <1>4, <1>2 DEF Allowance, Started
  <1>9. Allowance(Replayed(r)) = MaxAttempts * (n + 1)
    BY <1>1, <1>2 DEF Allowance, Replayed
  <1>10. Allowance(r) <= Allowance(Replayed(r))
    BY <1>1, <1>3, <1>4, <1>9
  <1> QED BY <1>5, <1>6, <1>7, <1>8, <1>10

\* Finitely many calls are in flight.
LEMMA FiringFinite == \A k \in Keys : IsFiniteSet(Firing(k)) /\ Cardinality(Firing(k)) \in Nat
  BY WorkersAssumption, FS_Subset, FS_CardinalityType DEF Firing

\* A step that calls no effect, grants no attempt and shrinks no allowance.
LEMMA QuietStep ==
    ASSUME TypeInv, TypeInv', BudgetInv, fires' = fires,
           \A k \in Keys : Firing(k)' \subseteq Firing(k),
           \A k \in Keys : Allowance(row[k]) <= Allowance(row'[k])
    PROVE  BudgetInv'
  <1> SUFFICES ASSUME NEW k \in Keys
               PROVE  fires'[k] + Cardinality(Firing(k)') <= Allowance(row'[k])
    BY DEF BudgetInv
  <1>1. Cardinality(Firing(k)') <= Cardinality(Firing(k)) /\ Cardinality(Firing(k)') \in Nat
    BY FiringFinite, FS_Subset, FS_CardinalityType
  <1>2. fires[k] \in Nat /\ Allowance(row[k]) \in Nat /\ Allowance(row'[k]) \in Nat
    BY AllowanceFacts DEF TypeInv, TypeOK
  <1>3. fires[k] + Cardinality(Firing(k)) <= Allowance(row[k])
    BY DEF BudgetInv
  <1> QED BY <1>1, <1>2, <1>3, FiringFinite

\* Nothing has been called and nothing is in flight.
LEMMA InitBudget == Init => BudgetInv
  <1> SUFFICES ASSUME Init, NEW k \in Keys
               PROVE  fires[k] + Cardinality(Firing(k)) <= Allowance(row[k])
    BY DEF BudgetInv
  <1>1. Firing(k) = {} /\ fires[k] = 0 /\ row[k] = NoRow
    BY DEF Init, Firing
  <1>2. NoRow \in Row
    BY RowTypes, MaxAttemptsAssumption DEF NoRow, Row, RowStates
  <1>3. Allowance(NoRow) \in Nat
    BY <1>2, AllowanceFacts
  <1> QED BY <1>1, <1>3, FS_EmptySet

\* Registering a key neither spends nor renews its budget.
LEMMA ExecuteBudget ==
    ASSUME TypeInv, TypeInv', BudgetInv, NEW w \in Workers, NEW k \in Keys, Execute(w, k)
    PROVE  BudgetInv'
  <1>1. fires' = fires
    BY DEF Execute
  <1>2. \A j \in Keys : Firing(j)' \subseteq Firing(j)
    BY DEF Execute, Continue, Return, Goto, Firing, TypeInv, TypeOK
  <1>3. \A j \in Keys : Allowance(row[j]) \in Nat
    BY AllowanceFacts DEF TypeInv, TypeOK
  <1>4. \A j \in Keys : Allowance(row[j]) <= Allowance(row'[j])
    <2>1. row[k] \in Row /\ row'[k] = Registered(row[k])
      BY DEF Execute, TypeInv, TypeOK
    <2>2. \A j \in Keys \ {k} : row'[j] = row[j]
      BY DEF Execute, TypeInv, TypeOK
    <2> QED BY <1>3, <2>1, <2>2, AllowanceFacts
  <1> QED BY <1>1, <1>2, <1>4, QuietStep

\* Steps of execute that neither start an attempt nor call the effect.
LEMMA StoreBudget ==
    ASSUME TypeInv, TypeInv', BudgetInv, NEW w \in Workers,
           \/ RecoverRead(w) \/ Interrupt(w) \/ Recovered(w)
           \/ RecordRead(w) \/ RecordWrite(w) \/ ReadBack(w)
    PROVE  BudgetInv'
  <1>1. fires' = fires
    BY DEF RecoverRead, Interrupt, Recovered, RecordRead, RecordWrite, ReadBack
  <1>2. \A j \in Keys : Firing(j)' \subseteq Firing(j)
    BY DEF RecoverRead, Interrupt, Recovered, RecordRead, RecordWrite, ReadBack,
           Continue, Return, Raise, Goto, Firing, TypeInv, TypeOK
  <1>3. \A j \in Keys : Allowance(row[j]) \in Nat
    BY AllowanceFacts DEF TypeInv, TypeOK
  <1>4. \/ row' = row
        \/ /\ key[w] \in Keys
           /\ \E s : row' = [row EXCEPT ![key[w]].state = s]
    BY DEF RecoverRead, Interrupt, Recovered, RecordRead, RecordWrite, ReadBack,
           Settle, SettleRefused, durable, TypeInv, WorkersOK
  <1>5. CASE row' = row
    BY <1>1, <1>2, <1>3, <1>5, QuietStep
  <1>6. CASE key[w] \in Keys /\ \E s : row' = [row EXCEPT ![key[w]].state = s]
    <2>1. PICK s : row' = [row EXCEPT ![key[w]].state = s]
      BY <1>6
    <2>2. row[key[w]] \in Row /\ row'[key[w]] = [row[key[w]] EXCEPT !.state = s]
      BY <1>6, <2>1 DEF TypeInv, TypeOK
    <2>3. \A j \in Keys \ {key[w]} : row'[j] = row[j]
      BY <1>6, <2>1 DEF TypeInv, TypeOK
    <2>4. \A j \in Keys : Allowance(row[j]) <= Allowance(row'[j])
      BY <1>3, <2>2, <2>3, AllowanceFacts
    <2> QED BY <1>1, <1>2, <2>4, QuietStep
  <1> QED BY <1>4, <1>5, <1>6

\* Starting an attempt moves one unit from the allowance to the worker.
LEMMA StartBudget ==
    ASSUME TypeInv, TypeInv', BudgetInv, NEW w \in Workers, Start(w)
    PROVE  BudgetInv'
  <1> DEFINE k == key[w]
  <1>1. k \in Keys /\ row[k] \in Row /\ fires' = fires /\ key' = key /\ pc[w] = "start"
    BY DEF Start, TypeInv, TypeOK, WorkersOK
  <1>2. CASE MayStart(row[k]) /\ row' = [row EXCEPT ![k] = Started(@)] /\ Goto(w, "effect")
    <2> SUFFICES ASSUME NEW j \in Keys
                 PROVE  fires'[j] + Cardinality(Firing(j)') <= Allowance(row'[j])
      BY DEF BudgetInv
    <2>1. fires[j] \in Nat /\ Allowance(row[j]) \in Nat
      BY AllowanceFacts DEF TypeInv, TypeOK
    <2>2. CASE j = k
      <3>1. Firing(j)' = Firing(j) \cup {w} /\ w \notin Firing(j)
        BY <1>1, <1>2, <2>2 DEF Goto, Firing, TypeInv, TypeOK
      <3>2. Cardinality(Firing(j)') = Cardinality(Firing(j)) + 1
        BY <3>1, FiringFinite, FS_AddElement
      <3>3. Allowance(row'[j]) = Allowance(row[j]) + 1
        BY <1>1, <1>2, <2>2, AllowanceFacts DEF TypeInv, TypeOK
      <3> QED BY <1>1, <2>1, <3>2, <3>3, FiringFinite DEF BudgetInv
    <2>3. CASE j # k
      <3>1. Firing(j)' = Firing(j)
        BY <1>1, <1>2, <2>3 DEF Goto, Firing, TypeInv, TypeOK
      <3>2. row'[j] = row[j]
        BY <1>1, <1>2, <2>3 DEF TypeInv, TypeOK
      <3> QED BY <1>1, <3>1, <3>2 DEF BudgetInv
    <2> QED BY <2>2, <2>3
  <1>3. CASE ~MayStart(row[k]) /\ UNCHANGED row /\ Goto(w, "read")
    <2>1. \A j \in Keys : Firing(j)' \subseteq Firing(j)
      BY <1>1, <1>3 DEF Goto, Firing, TypeInv, TypeOK
    <2>2. \A j \in Keys : Allowance(row[j]) <= Allowance(row'[j])
      BY <1>3, AllowanceFacts DEF TypeInv, TypeOK
    <2> QED BY <1>1, <2>1, <2>2, QuietStep
  <1> QED BY <1>2, <1>3 DEF Start

\* Calling the effect spends the attempt the worker holds.
LEMMA FireBudget ==
    ASSUME TypeInv, TypeInv', BudgetInv, NEW w \in Workers, NEW c \in EffectClasses, Fire(w, c)
    PROVE  BudgetInv'
  <1> DEFINE k == key[w]
  <1>1. /\ k \in Keys /\ row' = row /\ key' = key /\ pc[w] = "effect"
        /\ pc' = [pc EXCEPT ![w] = "record"] /\ fires' = [fires EXCEPT ![k] = @ + 1]
    BY DEF Fire, Goto, durable, TypeInv, TypeOK, WorkersOK
  <1> SUFFICES ASSUME NEW j \in Keys
               PROVE  fires'[j] + Cardinality(Firing(j)') <= Allowance(row'[j])
    BY DEF BudgetInv
  <1>2. fires[j] \in Nat /\ Allowance(row[j]) \in Nat
    BY AllowanceFacts DEF TypeInv, TypeOK
  <1>3. CASE j = k
    <2>1. Firing(j)' = Firing(j) \ {w} /\ w \in Firing(j)
      BY <1>1, <1>3 DEF Firing, TypeInv, TypeOK
    <2>2. Cardinality(Firing(j)') = Cardinality(Firing(j)) - 1
      BY <2>1, FiringFinite, FS_RemoveElement
    <2>3. fires'[j] = fires[j] + 1
      BY <1>1, <1>3 DEF TypeInv, TypeOK
    <2> QED BY <1>1, <1>2, <2>2, <2>3, FiringFinite DEF BudgetInv
  <1>4. CASE j # k
    <2>1. Firing(j)' = Firing(j) /\ fires'[j] = fires[j]
      BY <1>1, <1>4 DEF Firing, TypeInv, TypeOK
    <2> QED BY <1>1, <2>1 DEF BudgetInv
  <1> QED BY <1>3, <1>4

\* A replay adds a cycle, which only adds to the allowance.
LEMMA ReplayBudget ==
    ASSUME TypeInv, TypeInv', BudgetInv, NEW o \in Operators, NEW k \in Keys,
           ReplayCheck(o, k) \/ ReplayWrite(o, k)
    PROVE  BudgetInv'
  <1>1. fires' = fires /\ pc' = pc /\ key' = key
    BY DEF ReplayCheck, ReplayWrite, locals
  <1>2. \A j \in Keys : Firing(j)' \subseteq Firing(j)
    BY <1>1 DEF Firing
  <1>3. \A j \in Keys : row[j] \in Row /\ (row'[j] = row[j] \/ row'[j] = Replayed(row[j]))
    BY DEF ReplayCheck, ReplayWrite, durable, TypeInv, TypeOK
  <1>4. \A j \in Keys : Allowance(row[j]) <= Allowance(row'[j])
    BY <1>3, AllowanceFacts
  <1> QED BY <1>1, <1>2, <1>4, QuietStep

\* A crash drops the calls in flight; they are not called any more.
LEMMA CrashBudget == TypeInv /\ TypeInv' /\ BudgetInv /\ Crash => BudgetInv'
  <1> SUFFICES ASSUME TypeInv, TypeInv', BudgetInv, Crash
               PROVE  BudgetInv'
    OBVIOUS
  <1>1. fires' = fires /\ row' = row
    BY DEF Crash, durable
  <1>2. \A k \in Keys : Firing(k)' \subseteq Firing(k)
    BY DEF Crash, Firing
  <1>3. \A k \in Keys : Allowance(row[k]) <= Allowance(row'[k])
    BY <1>1, AllowanceFacts DEF TypeInv, TypeOK
  <1> QED BY <1>1, <1>2, <1>3, QuietStep

\* Every step keeps the calls made and in flight within the allowance.
LEMMA BudgetStep == TypeInv /\ TypeInv' /\ BudgetInv /\ [Next]_gateVars => BudgetInv'
  <1> SUFFICES ASSUME TypeInv, TypeInv', BudgetInv, [Next]_gateVars
               PROVE  BudgetInv'
    OBVIOUS
  <1>1. ASSUME NEW w \in Workers, NEW k \in Keys, Execute(w, k)
        PROVE  BudgetInv'
    BY <1>1, ExecuteBudget
  <1>2. ASSUME NEW w \in Workers, Proceed(w)
        PROVE  BudgetInv'
    BY <1>2, StoreBudget, StartBudget, FireBudget DEF Proceed
  <1>3. CASE Replay
    BY <1>3, ReplayBudget DEF Replay
  <1>4. CASE Crash
    BY <1>4, CrashBudget
  <1>5. CASE UNCHANGED gateVars
    BY <1>5 DEF gateVars, BudgetInv, Firing
  <1> QED BY <1>1, <1>2, <1>3, <1>4, <1>5 DEF Next

\* The allowance of a row is at most MaxAttempts for each of its cycles.
LEMMA BudgetImplied == TypeInv /\ BudgetInv => BudgetHolds
  <1> SUFFICES ASSUME TypeInv, BudgetInv, NEW k \in Keys
               PROVE  fires[k] <= MaxAttempts * row[k].cycle
    BY DEF BudgetHolds
  <1>1. /\ row[k] \in Row /\ fires[k] \in Nat
        /\ fires[k] + Cardinality(Firing(k)) <= Allowance(row[k])
    BY DEF TypeInv, TypeOK, BudgetInv
  <1>2. /\ Allowance(row[k]) \in Nat /\ Allowance(row[k]) <= MaxAttempts * row[k].cycle
        /\ MaxAttempts * row[k].cycle \in Nat
    BY <1>1, AllowanceFacts, MaxAttemptsAssumption DEF Row
  <1>3. Cardinality(Firing(k)) \in Nat
    BY FiringFinite
  <1> HIDE DEF Allowance
  <1> QED BY <1>1, <1>2, <1>3

\* The effect of a key is called at most MaxAttempts times per replay cycle, for any
\* number of threads and operators and any crashes (store.py:601, effects.py:175).
THEOREM BudgetTheorem == Spec => []BudgetHolds
  BY TypeInvariant, InitBudget, BudgetStep, BudgetImplied, PTL DEF Spec
=============================================================================
