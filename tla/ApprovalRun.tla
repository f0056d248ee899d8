----------------------------- MODULE ApprovalRun -----------------------------
(***************************************************************************)
(* support_desk/store.py: TicketStore.approve and reject, with the         *)
(* endpoints of main.py that call them and the handlers of tools.py that   *)
(* the approved actions run, for one ticket whose plan is fixed.           *)
(*                                                                         *)
(* Every thread of the application shares ONE sqlite3 connection, so an    *)
(* INSERT of a handler stays uncommitted ("open") until ANY thread commits *)
(* anything, and is lost if the process dies first.  The durable record of *)
(* the effect is in another database and commits on its own: the steps of  *)
(* execute are EffectGateway's, and every step of this module is a step of *)
(* that one or leaves its variables alone.                                 *)
(***************************************************************************)
EXTENDS Naturals, Sequences, FiniteSets, OutboundAdapter

CONSTANTS
    Keys,          \* durable keys of the ticket's actions
    Plan,          \* the ticket's actions, in the order approve runs them
    Kind,          \* Kind[k]: the handler, "hold", "case" or "notify"
    Workers, Operators, NoKey, MaxAttempts, MaxCycle,
    MaxCrashes     \* bound on the crashes explored

ASSUME PlanAssumption == Plan \in Seq(Keys) /\ Kind \in [Keys -> {"hold", "case", "notify"}]
ASSUME GatewayAssumption ==
    MaxAttempts \in Nat \ {0} /\ NoKey \notin Keys /\ IsFiniteSet(Workers) /\ MaxCycle \in Nat
ASSUME MaxCrashesAssumption == MaxCrashes \in Nat

VARIABLES
    row, receipts, fires, pc, key, seen, result, out, replaying,
    status,        \* tickets.status
    acts,          \* acts[k]: status of the action in tickets.actions_json
    approved,      \* tickets.approved_at is set
    consented,     \* an approval.approved event is committed
    calls,         \* calls[k]: tool_calls.status
    saved,         \* saved[k]: committed rows of the effect (hold, case event, outbox)
    open,          \* open[k]: rows inserted in the connection's open transaction
    applied,       \* applied[k]: times the webhook target applied the effect
    task,          \* task[w]: what thread w is doing for a request
    work,          \* work[w]: approve's local view of the ticket
    crashes        \* history, crashes so far

gateVars == <<row, receipts, fires, pc, key, seen, result, out, replaying>>
ticket   == <<status, acts, approved>>
rows     == <<saved, open>>
vars     == <<gateVars, ticket, consented, calls, rows, applied, task, work, crashes>>

Gateway == INSTANCE EffectGateway

Planned == {Plan[i] : i \in 1 .. Len(Plan)}
Blank   == [acts |-> [k \in Keys |-> "pending"], next |-> 1, dead |-> FALSE]

Init ==
    /\ Gateway!Init
    /\ status    = "needs_approval"     \* or draft_ready, which every handler treats alike
    /\ acts      = [k \in Keys |-> "pending"]
    /\ approved  = FALSE
    /\ consented = FALSE
    /\ calls     = [k \in Keys |-> "awaiting_approval"]
    /\ saved     = [k \in Keys |-> 0]
    /\ open      = [k \in Keys |-> 0]
    /\ applied   = [k \in Keys |-> 0]
    /\ task      = [w \in Workers |-> "none"]
    /\ work      = [w \in Workers |-> Blank]
    /\ crashes   = 0

-----------------------------------------------------------------------------
\* INSERT OR REPLACE keeps one hold per ticket, the other tables grow.
Rows(k, n) == IF Kind[k] = "hold" /\ n > 1 THEN 1 ELSE n

\* connection.commit(): whatever any thread left open becomes durable.
Commit ==
    /\ saved' = [k \in Keys |-> Rows(k, saved[k] + open[k])]
    /\ open'  = [k \in Keys |-> 0]

Insert(k) ==
    /\ open' = [open EXCEPT ![k] = Rows(k, @ + 1)]
    /\ UNCHANGED saved

Become(w, t) == task' = [task EXCEPT ![w] = t]

\* approve ends; its local list is gone.
Leave(w) == Become(w, "none") /\ work' = [work EXCEPT ![w] = Blank]

\* Mutant: approve does not look at the status it read.
BeginUnchecked(w) ==
    /\ task[w] \in {"none", "retry"}
    /\ IF approved THEN UNCHANGED <<consented, rows>> ELSE consented' = TRUE /\ Commit
    /\ work' = [work EXCEPT ![w] = [acts |-> acts, next |-> 1, dead |-> FALSE]]
    /\ Become(w, "approve")
    /\ UNCHANGED <<gateVars, ticket, calls, applied, crashes>>

\* Mutant: the approval event is left to the end of the run.
BeginUnaudited(w) ==
    /\ task[w] \in {"none", "retry"}
    /\ status \notin {"resolved", "rejected"}
    /\ work' = [work EXCEPT ![w] = [acts |-> acts, next |-> 1, dead |-> FALSE]]
    /\ Become(w, "approve")
    /\ UNCHANGED <<gateVars, ticket, consented, calls, rows, applied, crashes>>

\* approve reads the ticket and, the first time, commits the approval event.
Begin(w) ==
    /\ task[w] \in {"none", "retry"}
    /\ status \notin {"resolved", "rejected"}
    /\ IF approved THEN UNCHANGED <<consented, rows>> ELSE consented' = TRUE /\ Commit
    /\ work' = [work EXCEPT ![w] = [acts |-> acts, next |-> 1, dead |-> FALSE]]
    /\ Become(w, "approve")
    /\ UNCHANGED <<gateVars, ticket, calls, applied, crashes>>

\* A resolved ticket is returned, a rejected one raises ValueError.
BeginRefused(w) ==
    /\ task[w] = "retry"
    /\ status \in {"resolved", "rejected"}
    /\ Become(w, "none")
    /\ UNCHANGED <<gateVars, ticket, consented, calls, rows, applied, work, crashes>>

\* POST /retry tests the status and then calls approve, which reads it again.
Retry(w) ==
    /\ task[w] = "none"
    /\ status = "action_failed"
    /\ Become(w, "retry")
    /\ UNCHANGED <<gateVars, ticket, consented, calls, rows, applied, work, crashes>>

\* The actions approve still has to run; completed ones are skipped.
Todo(w) == {i \in 1 .. Len(Plan) : i >= work[w].next /\ work[w].acts[Plan[i]] # "completed"}

\* The next action: its tool.attempted event is committed, then execute begins.
CallGateway(w) ==
    /\ task[w] = "approve"
    /\ \E i \in Todo(w) :
         /\ \A j \in Todo(w) : i <= j
         /\ Gateway!Execute(w, Plan[i])
         /\ work' = [work EXCEPT ![w].next = i + 1]
    /\ Commit
    /\ Become(w, "calling")
    /\ UNCHANGED <<ticket, consented, calls, applied, crashes>>

\* The calls of execute that touch the delivery database.
Deliver(w) ==
    /\ task[w] = "calling"
    /\ \/ Gateway!RecoverRead(w)
       \/ Gateway!Interrupt(w)
       \/ Gateway!Recovered(w)
       \/ Gateway!Start(w)
       \/ Gateway!RecordRead(w)
       \/ Gateway!RecordWrite(w)
       \/ Gateway!ReadBack(w)
    /\ UNCHANGED <<ticket, consented, calls, rows, applied, task, work, crashes>>

\* The handlers of a hold, a case update and a notification that is only queued
\* because no webhook is configured (a "case" here): one INSERT, or the exception of a
\* database that another process keeps locked, which execute makes terminal.
LocalEffect(w, k) ==
    /\ Kind[k] # "notify"
    /\ \/ Gateway!Fire(w, "success")  /\ Insert(k)
       \/ Gateway!Fire(w, "terminal") /\ UNCHANGED rows
    /\ UNCHANGED applied

\* Mutant: the outbox row is queued before the webhook is called.
NotificationQueued(w, k) ==
    /\ Kind[k] = "notify"
    /\ \E a \in Answers, n \in 0 .. 1 :
         /\ n \in AppliedAfter(applied[k], a)
         /\ applied' = [applied EXCEPT ![k] = n]
         /\ Gateway!Fire(w, ClassOf(a)) /\ Insert(k)

\* The notification: the webhook first, the outbox row after an accepted call,
\* unless the INSERT finds the database locked.
Notification(w, k) ==
    /\ Kind[k] = "notify"
    /\ \E a \in Answers, n \in 0 .. 1 :
         /\ n \in AppliedAfter(applied[k], a)
         /\ applied' = [applied EXCEPT ![k] = n]
         /\ \/ Gateway!Fire(w, ClassOf(a)) /\ IF a \in Accepted THEN Insert(k) ELSE UNCHANGED rows
            \/ a \in Accepted /\ Gateway!Fire(w, "terminal") /\ UNCHANGED rows

RunEffect(w) ==
    /\ task[w] = "calling"
    /\ LocalEffect(w, key[w]) \/ Notification(w, key[w])
    /\ UNCHANGED <<ticket, consented, calls, task, work, crashes>>

\* Mutant: the failed request rolls the shared connection back.
AbandonRollsBack(w) ==
    /\ task[w] = "calling" /\ pc[w] = "idle" /\ out[w] = "raised"
    /\ open' = [k \in Keys |-> 0]
    /\ Leave(w)
    /\ UNCHANGED <<gateVars, ticket, consented, calls, saved, applied, crashes>>

\* execute raised: the request fails, and nothing is rolled back or committed.
Abandon(w) ==
    /\ task[w] = "calling" /\ pc[w] = "idle" /\ out[w] = "raised"
    /\ Leave(w)
    /\ UNCHANGED <<gateVars, ticket, consented, calls, rows, applied, crashes>>

\* Mutant: whatever is not dead-lettered counts as completed.
AbsorbOptimistic(w) ==
    LET k == key[w]
        done == out[w] # "dead_letter" IN
    /\ task[w] = "calling" /\ pc[w] = "idle" /\ out[w] # "raised"
    /\ calls' = [calls EXCEPT ![k] = IF done THEN "completed" ELSE "terminal_failed"]
    /\ work'  = [work EXCEPT ![w].acts[k] = IF done THEN "completed" ELSE "failed",
                             ![w].dead = @ \/ out[w] = "dead_letter"]
    /\ Commit
    /\ Become(w, "approve")
    /\ UNCHANGED <<gateVars, ticket, consented, applied, crashes>>

\* Mutant: the tool call gets the status of the action.
AbsorbMixed(w) ==
    LET k == key[w]
        done == out[w] \in Gateway!SuccessStates IN
    /\ task[w] = "calling" /\ pc[w] = "idle" /\ out[w] # "raised"
    /\ calls' = [calls EXCEPT ![k] = IF done THEN "completed" ELSE "failed"]
    /\ work'  = [work EXCEPT ![w].acts[k] = IF done THEN "completed" ELSE "failed",
                             ![w].dead = @ \/ out[w] = "dead_letter"]
    /\ Commit
    /\ Become(w, "approve")
    /\ UNCHANGED <<gateVars, ticket, consented, applied, crashes>>

\* Mutant: the class of the last failure decides, not the durable state.
AbsorbByClass(w) ==
    LET k == key[w]
        done == out[w] \in Gateway!SuccessStates IN
    /\ task[w] = "calling" /\ pc[w] = "idle" /\ out[w] # "raised"
    /\ calls' = [calls EXCEPT ![k] = IF done THEN "completed" ELSE "terminal_failed"]
    /\ work'  = [work EXCEPT ![w].acts[k] = IF done THEN "completed" ELSE "failed",
                             ![w].dead = @ \/ result[w] = "terminal"]
    /\ Commit
    /\ Become(w, "approve")
    /\ UNCHANGED <<gateVars, ticket, consented, applied, crashes>>

\* Mutant: any failed action exhausts the run.
AbsorbPessimist(w) ==
    LET k == key[w]
        done == out[w] \in Gateway!SuccessStates IN
    /\ task[w] = "calling" /\ pc[w] = "idle" /\ out[w] # "raised"
    /\ calls' = [calls EXCEPT ![k] = IF done THEN "completed" ELSE "terminal_failed"]
    /\ work'  = [work EXCEPT ![w].acts[k] = IF done THEN "completed" ELSE "failed",
                             ![w].dead = @ \/ ~done]
    /\ Commit
    /\ Become(w, "approve")
    /\ UNCHANGED <<gateVars, ticket, consented, applied, crashes>>

\* The outcome goes to the tool call, with a commit, and to the local list.
Absorb(w) ==
    LET k == key[w]
        done == out[w] \in Gateway!SuccessStates IN
    /\ task[w] = "calling" /\ pc[w] = "idle" /\ out[w] # "raised"
    /\ calls' = [calls EXCEPT ![k] = IF done THEN "completed"
                                     ELSE IF result[w] = "retryable" THEN "retryable_failed"
                                     ELSE "terminal_failed"]
    /\ work'  = [work EXCEPT ![w].acts[k] = IF done THEN "completed" ELSE "failed",
                             ![w].dead = @ \/ out[w] = "dead_letter"]
    /\ Commit
    /\ Become(w, "approve")
    /\ UNCHANGED <<gateVars, ticket, consented, applied, crashes>>

\* Mutant: a run without a terminal failure is resolved.
FinishLenient(w) ==
    /\ task[w] = "approve" /\ Todo(w) = {}
    /\ acts'     = work[w].acts
    /\ status'   = IF work[w].dead THEN "dead_letter" ELSE "resolved"
    /\ approved' = TRUE
    /\ Commit
    /\ Leave(w)
    /\ UNCHANGED <<gateVars, consented, calls, applied, crashes>>

\* The last UPDATE of approve writes the status and all the actions.
Finish(w) ==
    /\ task[w] = "approve" /\ Todo(w) = {}
    /\ acts'     = work[w].acts
    /\ status'   = IF \A k \in Planned : work[w].acts[k] = "completed" THEN "resolved"
                   ELSE IF work[w].dead THEN "dead_letter" ELSE "action_failed"
    /\ approved' = TRUE
    /\ Commit
    /\ Leave(w)
    /\ UNCHANGED <<gateVars, consented, calls, applied, crashes>>

\* reject reads the status, and later writes it without looking again.
RejectCheck(w) ==
    /\ task[w] = "none"
    /\ status # "resolved"
    /\ Become(w, "reject")
    /\ UNCHANGED <<gateVars, ticket, consented, calls, rows, applied, work, crashes>>

RejectWrite(w) ==
    /\ task[w] = "reject"
    /\ status' = "rejected"
    /\ Commit
    /\ Become(w, "none")
    /\ UNCHANGED <<gateVars, acts, approved, consented, calls, applied, work, crashes>>

\* Any other request of the process commits on the shared connection.
OtherCommit ==
    /\ \E k \in Keys : open[k] > 0
    /\ Commit
    /\ UNCHANGED <<gateVars, ticket, consented, calls, applied, task, work, crashes>>

\* The process dies: threads, local lists and the open transaction are gone.
Crash ==
    /\ crashes < MaxCrashes
    /\ crashes' = crashes + 1
    /\ \E w \in Workers : task[w] # "none"
    /\ Gateway!Crash
    /\ open' = [k \in Keys |-> 0]
    /\ task' = [w \in Workers |-> "none"]
    /\ work' = [w \in Workers |-> Blank]
    /\ UNCHANGED <<ticket, consented, calls, saved, applied>>

Replay ==
    /\ Gateway!Replay
    /\ UNCHANGED <<ticket, consented, calls, rows, applied, task, work, crashes>>

-----------------------------------------------------------------------------
\* A thread's steps once a request is under way.
Proceed(w) ==
    \/ BeginRefused(w)
    \/ task[w] = "retry" /\ Begin(w)
    \/ CallGateway(w)
    \/ Deliver(w)
    \/ RunEffect(w)
    \/ Abandon(w)
    \/ Absorb(w)
    \/ Finish(w)
    \/ RejectWrite(w)

Next ==
    \/ \E w \in Workers : Begin(w) \/ Retry(w) \/ RejectCheck(w) \/ Proceed(w)
    \/ OtherCommit
    \/ Crash
    \/ Replay

Spec == Init /\ [][Next]_vars

\* Threads are scheduled, and the reviewer approves again until the case is
\* decided (the console offers the retry, app.js).
RetriedSpec ==
    /\ Spec
    /\ \A w \in Workers : WF_vars(Proceed(w)) /\ WF_vars(Begin(w))

-----------------------------------------------------------------------------
ActStates == {"pending", "completed", "failed"}

\* A running approve's view of the ticket.
Work == [acts: [Keys -> ActStates], next: 1 .. Len(Plan) + 1, dead: BOOLEAN]

TypeOK ==
    /\ status    \in {"needs_approval", "action_failed", "dead_letter", "resolved", "rejected"}
    /\ acts      \in [Keys -> ActStates]
    /\ approved  \in BOOLEAN
    /\ consented \in BOOLEAN
    /\ calls     \in [Keys -> {"awaiting_approval", "completed", "retryable_failed",
                               "terminal_failed"}]
    /\ saved     \in [Keys -> Nat]
    /\ open      \in [Keys -> Nat]
    /\ applied   \in [Keys -> 0 .. 1]
    /\ task      \in [Workers -> {"none", "retry", "approve", "calling", "reject"}]
    /\ work      \in [Workers -> Work]
    /\ crashes   \in 0 .. MaxCrashes

\* No effect is called before the reviewer's approval is durable: after any crash
\* an effect that ran has its approval.approved event (store.py:451, 496).
FiresAfterConsent == \A k \in Keys : fires[k] > 0 => consented

\* An action is shown as completed, on the ticket, on the tool call or in the list
\* of a running approve, only if its durable record is a success, whatever other
\* threads and crashes did (store.py:515, 548).
CompletedIsDelivered ==
    \A k \in Keys :
        \/ acts[k] = "completed"
        \/ calls[k] = "completed"
        \/ \E w \in Workers : work[w].acts[k] = "completed"
        => row[k].state \in Gateway!SuccessStates

\* A resolved case has no undelivered action, and its notification reached the
\* target exactly once (store.py:600).
ResolvedIsDelivered ==
    status = "resolved" =>
        \A k \in Planned : /\ row[k].state \in Gateway!SuccessStates
                           /\ Kind[k] = "notify" => applied[k] = 1

\* A case waits for the operator's intervention only if one of its effects really
\* has no budget left (store.py:601-604).
DeadLetterIsReal ==
    status = "dead_letter" => \E k \in Planned : row[k].state = "dead_letter"

\* As long as the process lives, the row a completed action stands for exists, at
\* worst in the transaction the connection has open (tools.py:290, store.py:525).
CompletedHasRow ==
    crashes = 0 => \A k \in Keys : acts[k] = "completed" => saved[k] + open[k] > 0

\* An effect inserts its row a second time only when an attempt of it was recovered as
\* interrupted after its INSERT had been published by somebody else's commit or its
\* worker was alive: a reported failure, a retry or a replay alone never repeats one
\* (store.py:861, tools.py:288-353).
RepeatsAreRecoveries ==
    \A k \in Keys :
        saved[k] + open[k] <= 1 + Cardinality({e \in receipts[k] : e.class = "interrupted"})

\* What "Fire the approved effect exactly once" (store.py:643) says of a case
\* reported as resolved: each of its effects left its row.
ResolvedHasRows ==
    status = "resolved" => \A k \in Planned : saved[k] + open[k] > 0

\* Handled one request at a time, a decided case stays decided: a rejected case is
\* never reopened and a resolved one never falls back (store.py:446-449, 825).
DecisionIsFinal ==
    [][(status \in {"resolved", "rejected"}) => (status' = status)]_vars

\* "A rejected ticket cannot be approved" (store.py:449).
RejectedIsFinal == [][status = "rejected" => status' = "rejected"]_vars

\* Handled one request at a time, an effect is not called again once its key is
\* delivered, however often a run crashed after it and was retried (effects.py:172-173).
NoFireAfterSuccess == Gateway!NoFireAfterSuccess

\* Handled one request at a time, no effect is called for a rejected case.
RejectedNeverFires == [][status = "rejected" => fires' = fires]_vars

\* Retrying ends: after the last crash, a case that is approved again and again
\* comes to rest in a decision or in the dead letters, because the budget of every
\* action runs out (store.py:601).
RetriedRunEnds == <>[](status \in {"resolved", "rejected", "dead_letter"})
=============================================================================
