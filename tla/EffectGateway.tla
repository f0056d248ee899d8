---------------------------- MODULE EffectGateway ----------------------------
(***************************************************************************)
(* support_desk/effects.py: DurableEffectGateway.execute, run by the       *)
(* worker threads of the one application process over DeliveryGuard's      *)
(* rows, a crash of that process, and DurableEffectGateway.replay.         *)
(*                                                                         *)
(* A worker's step is one call that touches shared state (one transaction  *)
(* or one read of the delivery database, or the effect itself): between    *)
(* two steps any other worker may run, and the process may die.  The       *)
(* caller is left free: any worker may execute any key at any time.        *)
(* ApprovalRun restricts it to what TicketStore.approve does.              *)
(***************************************************************************)
EXTENDS DeliveryStore, FiniteSets

CONSTANTS
    Keys,        \* durable idempotency keys
    Workers,     \* threads of the application process
    Operators,   \* people replaying dead letters, each in a process of its own
    NoKey,
    MaxCycle     \* bound on the replay cycles explored

ASSUME NoKeyAssumption   == NoKey \notin Keys
ASSUME WorkersAssumption == IsFiniteSet(Workers)
ASSUME MaxCycleAssumption == MaxCycle \in Nat

VARIABLES
    row,         \* row[k]: the delivery_actions row of key k
    receipts,    \* receipts[k]: the delivery_attempts of key k
    fires,       \* fires[k]: history, calls of the effect of key k so far
    pc,          \* pc[w]: where worker w is in execute
    key,         \* key[w]: the key worker w is executing or executed last
    seen,        \* seen[w]: the row the worker's store call read
    result,      \* result[w]: how the effect w called ended
    out,         \* out[w]: state of the EffectOutcome returned, or "raised"
    replaying    \* replaying[k]: operators between replay's check and its UPDATE

durable  == <<row, receipts>>
locals   == <<pc, key, seen, result, out>>
gateVars == <<row, receipts, fires, pc, key, seen, result, out, replaying>>

PCs == {"idle", "recover", "interrupt", "recovered", "start", "effect",
        "record", "write", "read"}

Init ==
    /\ row       = [k \in Keys |-> NoRow]
    /\ receipts  = [k \in Keys |-> {}]
    /\ fires     = [k \in Keys |-> 0]
    /\ pc        = [w \in Workers |-> "idle"]
    /\ key       = [w \in Workers |-> NoKey]
    /\ seen      = [w \in Workers |-> NoRow]
    /\ result    = [w \in Workers |-> "none"]
    /\ out       = [w \in Workers |-> "none"]
    /\ replaying = [k \in Keys |-> {}]

-----------------------------------------------------------------------------
\* Leaving execute: with an outcome, or with the provider's exception.
Return(w, state) ==
    /\ pc'  = [pc EXCEPT ![w] = "idle"]
    /\ out' = [out EXCEPT ![w] = state]

Raise(w) == Return(w, "raised")

Goto(w, step) ==
    /\ pc'  = [pc EXCEPT ![w] = step]
    /\ out' = [out EXCEPT ![w] = "none"]

\* Mutant: a terminal record runs the effect again to rebuild its lost result.
ContinueRefires(w, r) ==
    Goto(w, IF r.state \in TerminalStates THEN "effect" ELSE "start")

\* A terminal record is returned as it stands, any other is tried.
Continue(w, r) ==
    IF r.state \in TerminalStates THEN Return(w, r.state) ELSE Goto(w, "start")

\* Mutant: execute trusts the key to be registered.
ExecuteUnregistered(w, k) ==
    /\ pc[w] = "idle"
    /\ key'    = [key EXCEPT ![w] = k]
    /\ seen'   = [seen EXCEPT ![w] = row[k]]
    /\ result' = [result EXCEPT ![w] = "none"]
    /\ IF row[k].state = "running" THEN Goto(w, "recover") ELSE Continue(w, row[k])
    /\ UNCHANGED <<durable, fires, replaying>>

\* Mutant: a row found running is left to its worker.
ExecuteNoRecovery(w, k) ==
    LET r == Registered(row[k]) IN
    /\ pc[w] = "idle"
    /\ row'    = [row EXCEPT ![k] = r]
    /\ key'    = [key EXCEPT ![w] = k]
    /\ seen'   = [seen EXCEPT ![w] = r]
    /\ result' = [result EXCEPT ![w] = "none"]
    /\ Continue(w, r)
    /\ UNCHANGED <<receipts, fires, replaying>>

\* execute begins: register the key and look at the row that stands there.
Execute(w, k) ==
    LET r == Registered(row[k]) IN
    /\ pc[w] = "idle"
    /\ row'    = [row EXCEPT ![k] = r]
    /\ key'    = [key EXCEPT ![w] = k]
    /\ seen'   = [seen EXCEPT ![w] = r]
    /\ result' = [result EXCEPT ![w] = "none"]
    /\ IF r.state = "running" THEN Goto(w, "recover") ELSE Continue(w, r)
    /\ UNCHANGED <<receipts, fires, replaying>>

\* recover_interrupted reads the row again and returns it unless it is running.
RecoverRead(w) ==
    LET r == row[key[w]] IN
    /\ pc[w] = "recover"
    /\ seen' = [seen EXCEPT ![w] = r]
    /\ IF r.state = "running" THEN Goto(w, "interrupt") ELSE Continue(w, r)
    /\ UNCHANGED <<durable, fires, key, result, replaying>>

\* Mutant: the receipt's uniqueness is not enforced.
SettleUnchecked(w, c) ==
    LET k == key[w] IN
    /\ receipts' = [receipts EXCEPT ![k] = @ \cup {ReceiptOf(seen[w], c)}]
    /\ row'      = [row EXCEPT ![k].state = SettledState(seen[w], c)]

\* Mutant: the row is settled and no receipt is written.
SettleWithoutReceipt(w, c) ==
    /\ row' = [row EXCEPT ![key[w]].state = SettledState(seen[w], c)]
    /\ UNCHANGED receipts

\* The transaction that settles a key from the row the worker read: the receipt
\* of that attempt, unless there is one (IntegrityError), and the new state.
Settle(w, c) ==
    LET k == key[w] IN
    /\ ~Receipted(receipts[k], seen[w])
    /\ receipts' = [receipts EXCEPT ![k] = @ \cup {ReceiptOf(seen[w], c)}]
    /\ row'      = [row EXCEPT ![k].state = SettledState(seen[w], c)]

SettleRefused(w) == Receipted(receipts[key[w]], seen[w]) /\ UNCHANGED durable

\* recover_interrupted's transaction.
Interrupt(w) ==
    /\ pc[w] = "interrupt"
    /\ \/ Settle(w, "interrupted") /\ Goto(w, "recovered")
       \/ SettleRefused(w) /\ Raise(w)
    /\ UNCHANGED <<fires, key, seen, result, replaying>>

\* recover_interrupted reads the row it returns, and execute tests it.
Recovered(w) ==
    /\ pc[w] = "recovered"
    /\ Continue(w, row[key[w]])
    /\ UNCHANGED <<durable, fires, key, seen, result, replaying>>

\* Mutant: a refused attempt runs the effect anyway.
StartUnguarded(w) ==
    LET k == key[w] IN
    /\ pc[w] = "start"
    /\ row' = IF MayStart(row[k]) THEN [row EXCEPT ![k] = Started(@)] ELSE row
    /\ Goto(w, "effect")
    /\ UNCHANGED <<receipts, fires, key, seen, result, replaying>>

\* start_attempt; DeliveryStateError makes execute surface the durable record.
Start(w) ==
    LET k == key[w] IN
    /\ pc[w] = "start"
    /\ \/ MayStart(row[k]) /\ row' = [row EXCEPT ![k] = Started(@)] /\ Goto(w, "effect")
       \/ ~MayStart(row[k]) /\ UNCHANGED row /\ Goto(w, "read")
    /\ UNCHANGED <<receipts, fires, key, seen, result, replaying>>

\* effect() is called and ends in one of the classes execute tells apart.
Fire(w, class) ==
    /\ pc[w] = "effect"
    /\ fires'  = [fires EXCEPT ![key[w]] = @ + 1]
    /\ result' = [result EXCEPT ![w] = class]
    /\ Goto(w, "record")
    /\ UNCHANGED <<durable, key, seen, replaying>>

\* Mutant: a DeliveryStateError from record_* is swallowed and the worker's own
\* result is reported.
RecordReadSwallows(w) ==
    LET r == row[key[w]] IN
    /\ pc[w] = "record"
    /\ seen' = [seen EXCEPT ![w] = r]
    /\ IF r.state = "running" THEN Goto(w, "write")
                              ELSE Return(w, SettledState(r, result[w]))
    /\ UNCHANGED <<durable, fires, key, result, replaying>>

\* record_success and record_failure read the row, which must be running.
RecordRead(w) ==
    LET r == row[key[w]] IN
    /\ pc[w] = "record"
    /\ seen' = [seen EXCEPT ![w] = r]
    /\ IF r.state = "running" THEN Goto(w, "write") ELSE Raise(w)
    /\ UNCHANGED <<durable, fires, key, result, replaying>>

\* Their transaction.
RecordWrite(w) ==
    /\ pc[w] = "write"
    /\ \/ Settle(w, result[w]) /\ Goto(w, "read")
       \/ SettleRefused(w) /\ Raise(w)
    /\ UNCHANGED <<fires, key, seen, result, replaying>>

\* The row is read once more and becomes the EffectOutcome.
ReadBack(w) ==
    /\ pc[w] = "read"
    /\ Return(w, row[key[w]].state)
    /\ UNCHANGED <<durable, fires, key, seen, result, replaying>>

\* replay: the test of the state, and later the UPDATE that does not repeat it.
ReplayCheck(o, k) ==
    /\ row[k].state = "dead_letter"
    /\ row[k].cycle < MaxCycle
    /\ \A j \in Keys : o \notin replaying[j]
    /\ replaying' = [replaying EXCEPT ![k] = @ \cup {o}]
    /\ UNCHANGED <<durable, fires, locals>>

ReplayWrite(o, k) ==
    /\ o \in replaying[k]
    /\ row[k].cycle < MaxCycle
    /\ row'       = [row EXCEPT ![k] = Replayed(@)]
    /\ replaying' = [replaying EXCEPT ![k] = @ \ {o}]
    /\ UNCHANGED <<receipts, fires, locals>>

\* The application process dies: its threads are gone, committed rows stay.
Crash ==
    /\ pc'     = [w \in Workers |-> "idle"]
    /\ key'    = [w \in Workers |-> NoKey]
    /\ seen'   = [w \in Workers |-> NoRow]
    /\ result' = [w \in Workers |-> "none"]
    /\ out'    = [w \in Workers |-> "none"]
    /\ UNCHANGED <<durable, fires, replaying>>

-----------------------------------------------------------------------------
\* The steps of a call of execute that is under way.
Proceed(w) ==
    \/ RecoverRead(w)
    \/ Interrupt(w)
    \/ Recovered(w)
    \/ Start(w)
    \/ \E c \in EffectClasses : Fire(w, c)
    \/ RecordRead(w)
    \/ RecordWrite(w)
    \/ ReadBack(w)

Replay == \E o \in Operators, k \in Keys : ReplayCheck(o, k) \/ ReplayWrite(o, k)

Next ==
    \/ \E w \in Workers, k \in Keys : Execute(w, k)
    \/ \E w \in Workers : Proceed(w)
    \/ Replay
    \/ Crash

Spec == Init /\ [][Next]_gateVars

\* A thread inside execute is scheduled until it returns, and somebody calls
\* execute for each key again and again: the operator who retries a failed run.
RetriedSpec ==
    /\ Spec
    /\ \A w \in Workers : WF_gateVars(Proceed(w))
    /\ \A k \in Keys : WF_gateVars(\E w \in Workers : Execute(w, k))

-----------------------------------------------------------------------------
TypeOK ==
    /\ row       \in [Keys -> Row]
    /\ receipts  \in [Keys -> SUBSET Receipt]
    /\ fires     \in [Keys -> Nat]
    /\ pc        \in [Workers -> PCs]
    /\ key       \in [Workers -> Keys \cup {NoKey}]
    /\ seen      \in [Workers -> Row]
    /\ result    \in [Workers -> EffectClasses \cup {"none"}]
    /\ out       \in [Workers -> (RowStates \ {"absent"}) \cup {"none", "raised"}]
    /\ replaying \in [Keys -> SUBSET Operators]

\* However calls interleave and however often the process dies, the effect of a
\* key is called at most MaxAttempts times per cycle: the budget the store of
\* approvals relies on ("The provider owns the budget", store.py:601).
BudgetHolds == \A k \in Keys : fires[k] <= MaxAttempts * row[k].cycle

\* Every attempt that ended left exactly one receipt and the running one none,
\* so an attempt is never forgotten and never accounted for twice
\* (effects.py:167, "records an explicit interrupted receipt").
AttemptsReceipted ==
    \A k \in Keys :
        /\ {e.attempt : e \in {x \in receipts[k] : x.cycle = row[k].cycle}}
             = 1 .. (IF row[k].state = "running" THEN row[k].attempts - 1 ELSE row[k].attempts)
        /\ \A e, f \in receipts[k] :
             e.cycle = f.cycle /\ e.attempt = f.attempt => e = f

\* A delivered key stays delivered: no late record, recovery or replay of another
\* worker takes a success back (effects.py:172).
SuccessIsFinal ==
    [][\A k \in Keys : row[k].state \in SuccessStates => row'[k] = row[k]]_gateVars

\* A caller that is told success can rely on the durable row saying the same
\* (effects.py:210, the outcome is the record).
OutcomeIsDurable ==
    \A w \in Workers : out[w] \in SuccessStates => row[key[w]].state = out[w]

\* With one worker at a time, an effect is not called again once its key is
\* delivered, whatever crashes came before (effects.py:172-173).
NoFireAfterSuccess ==
    [][\A k \in Keys : row[k].state \in SuccessStates => fires'[k] = fires[k]]_gateVars

\* What the comment at effects.py:167 asserts: the worker whose attempt is being
\* recovered has died.
LiveOn(k) == {w \in Workers : key[w] = k /\ pc[w] \in {"effect", "record", "write"}}

RecoversOnlyTheDead ==
    [][\A k \in Keys :
         (\E e \in receipts'[k] \ receipts[k] : e.class = "interrupted") => LiveOn(k) = {}]_gateVars

\* Once the process stops crashing, an attempt whose worker died does not stay
\* "running": the next retry gives it a receipt (effects.py:166-170).
InterruptedIsResolved ==
    \/ []<><<Crash>>_gateVars
    \/ \A k \in Keys : []<>(row[k].state # "running")
=============================================================================
