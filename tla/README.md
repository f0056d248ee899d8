# Relay: a verification project

Relay (`support_desk/`) is a support desk that turns a message into a case, plans
tool calls for it, waits for a human decision, and then runs the approved calls
with a bounded, durable budget of attempts. The TLA+ modules here model how a
case gets its plan and how an approved action is executed: which calls are offered
for approval, which reach the outside world, how often, after which decision, and
what the case says about them afterwards; and the two ways in and out of it: proposals
under idempotency keys through MCP servers, and the page a reviewer decides on. TLC checks
them on small instances; TLAPS proves every safety property the passing runs check, and one refinement, for
every value of the constants, under the hypotheses named below.

## The system

One uvicorn process serves the HTTP API. FastAPI runs the endpoints, which are plain
functions, in a pool of threads, and all of them share one `TicketStore` and
therefore **one** sqlite connection (`store.py:49`, `check_same_thread=False`).
The durable record of every effect is in a second database file that belongs to
the packaged DeliveryGuard provider; each of its methods opens a connection of
its own and commits before it returns. An MCP server is a separate process with
its own `TicketStore` on the same files.

| Part | State | Operations | Interacts with |
|---|---|---|---|
| Effect gateway, `effects.py` | none of its own | `execute`, `replay`, `attempts` | the provider's rows; calls the effect it is given |
| Delivery store, `vendor/deliveryguard` | `delivery_actions` (state, attempts, cycle), `delivery_attempts` | `register`, `start_attempt`, `record_success`, `record_failure`, `recover_interrupted`, `replay` | its own database |
| Approval loop, `store.py` | `tickets` (status, actions), `tool_calls`, `workflow_events` | `approve`, `reject` | the gateway, once per action |
| Tool handlers, `tools.py` | `billing_holds`, `case_events`, `notification_outbox` | one INSERT each, **without a commit** | shared connection, outbound adapter |
| Outbound adapter, `outbound.py` | none | `send`, `validate_destination` | the webhook target |
| Case creation and planning, `store.py`, `tools.py` | `tickets`, `tool_calls` | `create`, `_plan_tools` | planner (rules or a model), registry |
| MCP server, `mcp_server.py` | `mcp_proposals` | propose, snapshot, bounded wait | a `TicketStore` of its own |
| HTTP application, `main.py` | none | approve, decision, retry, reads, start-up seeding | `TicketStore` |
| Console, `app.js` | selection, cached events | select, approve, retry, reject, refresh | HTTP API |
| Triage engine, `engine.py` | none | `process`: intent and proposed actions of a text | planner, `create` |
| Configuration, schemas | none | pure functions | |

What makes it hard: two threads can run `approve` for the same case; the process
can die between the commits of two databases; a handler's row is not durable when
its success is; a webhook may act and not answer; the decision of the reviewer and
the run of the actions are not one transaction; two processes write one database
file and keep each other out of it; the page acts on what it selected while it shows what it
was last told. `PROJECT.json` lists each of these
hazards at its line, with the properties that cover it.

What makes each part correct:

* gateway: an effect is called at most `max_attempts` times per cycle, a success is
  never taken back, every attempt leaves one receipt, no attempt stays running;
* approval loop: nothing fires before consent, a case shows as completed only what was
  delivered, decisions are final, retrying ends;
* outbound adapter: what the target did is never reported as a success it was not, and the target
  acts at most once;
* planning: only a plan that was completely validated can be approved;
* proposals: one key, one case; console: what is decided is what is shown.

## Modules

| Module | Models | Extends |
|---|---|---|
| `DeliveryStore` | the provider's rows and what its transactions do to them (external) | |
| `EffectGateway` | `DurableEffectGateway.execute` and `replay`, crashes | `DeliveryStore` |
| `EffectContract` | abstract: what the gateway promises about its keys | |
| `EffectRefinement` | the state of the contract as a function of the gateway's; the gateway's instance for TLC | `EffectGateway`, an instance of `EffectContract` |
| `OutboundAdapter` | the ends of `send` and what the target may have done | |
| `ApprovalRun` | `approve`, `reject`, the endpoints, the handlers, the shared connection | `OutboundAdapter`, an instance of `EffectGateway` |
| `Triage` | the order of the intents' tests, the proposed actions, the rule planner | |
| `ToolPlanning` | `create` and `_plan_tools` of one case, with the decisions that arrive meanwhile | `Triage` |
| `RunSnapshot` | an MCP client that reads the case while it is planned and approved | `ToolPlanning` |
| `SharedDatabase` | which statements of two processes on one sqlite file are refused (external) | |
| `McpProposals` | `relay_propose_support_run` and `create_mcp_proposal` in several processes | `SharedDatabase` |
| `Console` | `app.js`: selection, pages, cached events, decisions, answers in any order | |
| `EffectGatewayProofs` | theorems about `EffectGateway`: types, budget | `EffectGateway` |
| `EffectGatewayFinality` | theorems about its record, for one operator: finality, outcomes, receipts, the contract; and for one thread | `EffectGatewayProofs`, `EffectRefinement` |
| `ApprovalRunProofs` | theorems about `ApprovalRun`, and that it implements `EffectGateway` | `ApprovalRun`, an instance of `EffectGatewayFinality` |
| `ApprovalRowsProofs` | theorems about its rows, its dead letters and, for one thread, its decisions | `ApprovalRunProofs` |
| `ToolPlanningProofs` | theorems about `ToolPlanning`, for any planner | `ToolPlanning` |
| `RunSnapshotProofs` | the theorem about what a client reads | `RunSnapshot`, `ToolPlanningProofs` |
| `McpProposalsProofs` | theorems about `McpProposals`, for any servers, clients and keys | `McpProposals` |
| `ConsoleProofs` | theorems about `Console`, for any cases and requests in flight | `Console` |
| `MCApprovalRun`, `MCToolPlanning`, `MCRunSnapshot`, `MCMcpProposals`, `MCConsole` | instances for TLC | |

### EffectGateway

`row[k]` is the `delivery_actions` row of key `k` and `receipts[k]` its
`delivery_attempts`; both are durable. `pc[w]`, `key[w]`, `seen[w]`, `result[w]`, `out[w]` are
the local state of a thread inside `execute`; `fires[k]` counts calls of the effect
and exists only for the properties.

| Action | Code |
|---|---|
| `Execute` | `register`, and the test of the row it returns (`effects.py:158-172`) |
| `RecoverRead`, `Interrupt`, `Recovered` | `recover_interrupted`: read, transaction, read (`:170`) |
| `Start` | `start_attempt`, or `DeliveryStateError` and the durable record (`:175-180`) |
| `Fire` | `effect()` and the class its end has (`:183-199`) |
| `RecordRead`, `RecordWrite`, `ReadBack` | `record_success` or `record_failure`, and the outcome (`:201-218`, `:239-253`) |
| `ReplayCheck`, `ReplayWrite` | `replay` (`:220-224`), which no endpoint exposes: an operator's process |
| `Crash` | the process dies anywhere; rows stay, threads vanish |

A step is one transaction or one read of the delivery database, because the
provider reads the row outside the transaction that settles it: with coarser steps
the races the receipts' UNIQUE constraint resolves would disappear. `execute` is
given any key at any time; `ApprovalRun` restricts the callers.

### ApprovalRun

One case whose plan `Plan` is fixed. `status`, `acts`, `approved` are the columns of `tickets`,
`calls` those of `tool_calls`; `task[w]` and `work[w]` are what a thread does and its local list
of actions. `saved[k]` counts the committed rows of the effect of `k`, `open[k]` those
in the connection's open transaction: any thread's commit publishes all of them
(`Commit`), a crash loses them. `applied[k]` is what the webhook target did.

| Action | Code |
|---|---|
| `Begin`, `BeginRefused` | `approve` up to the approval event (`store.py:445-473`) |
| `Retry` | the retry endpoint's own test (`main.py:189-195`); `approve` then tests again |
| `CallGateway` | the next action not completed: its `tool.attempted` event and `register` (`store.py:474-512`) |
| `Deliver` | the steps of `EffectGateway` that only touch the delivery database |
| `RunEffect` (`LocalEffect`, `Notification`) | the handler, run by the gateway's `Fire` (`store.py:637-667`, `tools.py:288-353`) |
| `Absorb`, `Abandon` | the outcome is written to the tool call; `execute` raised (`store.py:513-599`) |
| `Finish` | the last UPDATE (`store.py:600-635`) |
| `RejectCheck`, `RejectWrite` | `reject` (`store.py:823-834`) |
| `OtherCommit` | any other request of the process commits (`_event`, `_update_tool_call`) |
| `Crash`, `Replay` | as in `EffectGateway` |

A notification without a webhook is only queued, which is a handler of kind "case". The legacy
branch of `_execute_action` for actions without a tool (`store.py:651-703`) is not modelled: it posts the
webhook itself, without an idempotency header (`:687`), and its INSERTs are those of the handlers; every action
`_plan_tools` makes has a tool, so none reaches it.
A handler may also fail because another process keeps the ticket database locked: its
exception becomes a terminal failure, after the webhook call too.

### ToolPlanning

One case from its INSERT on. `status` and `actions` are columns of `tickets`, `calls[c]` is the
status of a `tool_calls` row. `pc`, `proposed` (the actions of the `AutomationResult`), `plan`, `next`, `pending` and `used` are the local state of the
thread in `create` (`used` is `consumed_legacy_ids`); `review[q]` is that of the thread of request `q`, in
`approve` or `reject`. Requests overlap as they like: FastAPI gives each a thread, and `approve` takes no lock
(`store.py:444`). One that read the ticket before its plan was published may write its empty list back over the plan while another
runs the plan's actions, and two that run the same action may see it end differently.

| Action | Code |
|---|---|
| `Create` | the triage of the text, the INSERT and its commit, with no actions (`engine.py:100-221`, `store.py:142-179`) |
| `Planner` | the planner answers with `RulePlan(proposed)` or any plan of `Plans(proposed)`, fails in a handled way, or raises something else (`store.py:245-254`, `tools.py:155-267`) |
| `InsertCall`, `StepLimit` | a row per call, a repeated id, the budget of steps (`store.py:256-304`) |
| `RefuseCall`, `ReadCall`, `WriteCall` | the body of the loop: `validate` refuses, a read-only handler runs, a write becomes a pending action (`store.py:308-398`) |
| `Publish`, `Fail` | the last UPDATE, with the actions or as a dead letter (`store.py:400-432`) |
| `ApproveBegin`, `ApproveCall`, `ApproveEnd` | `approve`: its read of the ticket, an action with one of the outcomes `ApprovalRun` shows, its last UPDATE (`store.py:444-635`) |
| `RejectCheck`, `RejectWrite` | `reject`: the read and the UPDATE (`:823-834`) |
| `Crash` | the process dies with every thread in it; no code resumes a plan |

`ActionOf` gives an action the id of the first proposed action of its kind that no call took yet
(`Legacy`), and the call's own id otherwise; its id and tool make the durable key of its effect.
`Triage` takes a text for the set of intents one of whose words it contains, since `process` tests substrings
in a fixed order. `needs_approval` stands for `draft_ready` too: no code tells them apart but to show them.

### RunSnapshot

`reader` is an MCP client's `snapshot`: `Read` is its next SELECT (the ticket with its actions, then its
calls, `mcp_server.py:133-140`), `Answer` its end, after which `relay_wait_for_run` may take another
(`:276-302`). The steps of `ToolPlanning` come in between. The third SELECT of a snapshot, the case's
events (`:141`), is left out: the log only grows, and no property compares it with the other two. So is the clock of the wait: every
answer it can give is one snapshot's.

### SharedDatabase and McpProposals

`db` holds the committed rows, `draft` what the one process with uncommitted writes sees, and `lock[p]` what the
connection of process `p` keeps between its statements. Python's `sqlite3` begins a transaction before the first
write and ends it at a commit; `store.py` never rolls back. A statement that is refused ("database is
locked", after five seconds) therefore leaves something behind: `begun` (a transaction without locks that makes the
next SELECT keep its lock), `shared`, `reserved` (a write waits for a commit) or `pending` (a commit was refused; no new
reader is let in).

`call[c]` is the local state of one client's call, `out[c]` what the last one returned. `raced`, `broken`,
`undone` and `opened` are history variables that say which excuse a key or the database has.

| Action | Code |
|---|---|
| `Lookup` | the SELECT on `mcp_proposals`; reuse, refusal or a new case (`store.py:181-200`) |
| `Create`, `IdTaken` | the INSERT of the case and its commit; its six-digit id is taken (`:142-179`) |
| `Plan`, `PlannerRaises` | `_plan_tools` as one write; an exception it does not catch (`:238-418`) |
| `Map`, `MapLost` | the INSERT of the mapping; `IntegrityError` and the second SELECT (`:203-223`) |
| `Announce`, `EventRefused` | the audit events (`:224-236`, `:853-861`) |
| `Answer`, `ReadRaises` | the calls of the case are read and returned (`mcp_server.py:152-166`) |
| `ApiHandler`, `ApiPut`, `ApiRead`, `ApiDies` | what the HTTP process does to the shared file |
| `ServerDies` | a server dies and is started again: its transaction is rolled back, its calls end |

### Console

The state is `state` of `app.js` (`tickets`, `selected`, `view`, `cache`) and what is drawn: `page` with its case,
status and enabled buttons, `timeline`, `run`, and `dialog`. `flight` holds the requests that are
awaited; each carries what its function does next, so that an answer's action is all the code up to the next
`await`. The server is `status` and `log` (the number of a case's events).

What the page asks for is not held against what was asked since, so it can end up wrong, and five history variables say when.
`lost`: a request or its answer was lost. `crossed`: an answer came before an older request's. The other three need neither a loss
nor a crossing: `pastLoad` and `pastRun` say that the timeline, or the run view, was drawn from the cache while the
last load in flight was another case's, and is drawn over when that load ends; `behind` holds the cases for which a load, answered
before their last decision, was still under way when that decision's answer came and deleted the cached list, which the
load then brings back. None of them restricts a step: they are set by `RenderSelected`, `RenderRuns`, `Forget`, `Arrives` and
`Lose` and read by the properties, each of which names the ones it excepts. (`lost` also ends the operator's clicks, as a bound.)

| Action | Code |
|---|---|
| `PickCase`, `PickRun`, `SetView` | the lists' listeners, `setView` (`app.js:159-175`, `:582-594`) |
| `PerformAction`, `OpenDialog`, `Cancel`, `RejectSelected` | the review bar and the dialog (`:516-558`, `:596-607`) |
| `Serve` | the server answers a request (`main.py:150-206`) |
| `PostEnds`, `RefreshEnds`, `LoadEnds`, `RunEnds` | the code after each `await` (`:344-349`, `:400-435`, `:472-557`) |
| `Lose` | a request or its answer is lost, and its chain ends |

## Runs

| Run | Instance | Shows |
|---|---|---|
| `gateway_concurrent` | 2 workers, 1 operator, 3 attempts, 2 cycles, fair | budget, receipts, finality, honest outcomes; an interrupted attempt is resolved; `ImplementsContract` |
| `gateway_recovers_live` | 2 workers, no operator | **violation** of `RecoversOnlyTheDead` |
| `approval_crash` | 1 thread, hold and notification, 2 crashes, 1 operator, fair | consent, completion, final decisions; a delivered effect is not called again; retrying ends |
| `approval_concurrent` | 2 threads, case update and notification | what the status says about the effects is true |
| `approval_loses_effect` | 1 thread, 1 case update, 1 crash | **violation** of `ResolvedHasRows` |
| `approval_reject_race` | 2 threads, 1 case update | **violation** of `RejectedIsFinal` |
| `planning_crash` | rule plans, a model's plans of at most 3 calls, limit 4, 2 overlapping requests, one reader | only a whole plan is offered, writes wait, durable keys collide only through names, the rule plan offers what was proposed, a snapshot explains itself |
| `planning_early_approval` | plans of at most 1 call, 2 requests | **violation** of `ResolvedCompletes` |
| `mcp_proposals` | 2 servers with a client each, the API, 1 key, 2 requests, 3 cases | answers for a key agree, a second case comes from a race or a call that broke off, locks are not left behind without a reason, a mapped case is planned |
| `mcp_sequential_retry` | the same | **violation** of `RetryMakesNoCase` |
| `console_session` | 2 cases, 2 requests in flight, 3 events per case | when all answers are in, the cache is fresh in any order; in order, the page, its timeline and its run view are the server's, but for the named exceptions |
| `console_wrong_case` | the same, 2 events per case | **violation** of `DecisionIsShown` |

`approval_crash` also checks `RepeatsAreRecoveries`: a second row of an effect takes an attempt that was
recovered as interrupted. `AnswersAgree`, `SecondCaseIsExplained` and `QuietIsUnlocked` name their exceptions in
history variables, and each exception is needed: without `undone`, a server may answer from a mapping that only its own
connection sees; without `broken`, a retry after a crash, a refused write or a planner's exception between the
case and its mapping makes a second case (`mcp_sequential_retry`); without `raced`, so do two calls at once, and the loser's
refused INSERT keeps the write lock. Mutants of `Map`, `MapLost`, `Unmapped` and `Create` break the rest.
The properties of `Console` speak of states with nothing in flight and nothing lost. `QuietCacheIsFresh` takes the answers in any
order and excepts the cases in `behind`. The others take them in the order of the requests (`Quiet`: `~lost`, `~crossed`), since an older
refresh that comes late puts an older list of cases back (`app.js:508`). `QuietPageIsCurrent` has no further exception;
`QuietTimelineIsPage` excepts `pastLoad` and a page whose case is in `behind`, `QuietRunIsSelected` likewise `pastRun` and the
selected case. Each exception is needed: TLC finds the property violated without it.

Bounds. `MaxAttempts` is 3, the default, for the gateway and 2 in the composition,
the least that has a retry. `MaxCycle` bounds replays: 2 is one complete dead letter and renewal. Keys do not interact in the gateway, so one is enough (`ContractTheorem` proves it for all of them); in `ApprovalRun` two actions
show every order of success and failure. Two workers are the least that race; a
third adds only a second late recorder, which meets the same UNIQUE constraint. Crashes are
unbounded in the gateway (nothing counts them) and at most two in `ApprovalRun`, whose
history variable `crashes` carries the bound. One operator replays: with two, the
second UPDATE can undo a delivery (the hazard at `effects.py:224`), and `SuccessIsFinal` says so.
Three calls of a model is the shortest plan in which an
action with a proposed id, one with its own and a read meet in every order; the rule plan of a failed renewal has four,
which is the limit, and plans of five exceed it. A call has its own id, the first call's, which
is every repetition of one id, or "case-update", the id of a proposed action, which is the case `OnlyNamesCollide` is
about. Two requests are the least that overlap; they are symmetric.
In `McpProposals` two servers are the least that race, three cases allow both to lose one and one to retry;
keys do not interact but through locks, for which the API process stands in. `MaxCases` bounds the cases begun. Servers, with their clients, and requests
are symmetric. In `Console`, two requests in flight are enough for each to pass the other (the theorems
take any number), `MaxEvents` bounds the decisions of a case to two, `ThreeDecisions` those of `console_session` to three in all, and the operator does no more after the first loss,
of which the properties no longer speak. A session goes on after a crossing.
Deadlock is not checked in `ToolPlanning`, `Console`, `ApprovalRun` and the gateway, since a decided case and a finished
budget really have nothing left to do.

Fairness. A thread in `execute` or `approve` is scheduled until it returns: weak
fairness of `Proceed(w)`. Somebody asks again: weak fairness of `Execute` for each key
(`Begin` in `ApprovalRun`), which stands for the reviewer who retries a failed run; the code
has no timer of its own, so without the reviewer nothing is owed. Crashes are never fair.
`InterruptedIsResolved` excludes the behaviour in which the process crashes for ever.

### Findings

* `gateway_recovers_live`: `effects.py:166` takes every running row for a dead worker's.
  Two concurrent approvals give the live worker's attempt an interrupted receipt and fire
  the effect again. The local effects and a target that honours the idempotency header survive it.
* `approval_loses_effect`: a crash between the gateway's commit and the next commit of the ticket
  database loses the handler's row for good, and the case resolves without it.
* `approval_reject_race`: a rejection during a run is overwritten by the run's last UPDATE.
* `planning_early_approval`: the case can be approved before it has a plan. The approval resolves it with
  nothing run, and the plan then leaves pending actions on a resolved case, which nobody can run. When the approval ends
  after the plan is published, it takes the plan off the case instead.
* `mcp_sequential_retry`: the proposal's case is committed before the mapping of its key. When the call breaks off in between, by an
  exception of the planner, a refused write or a crash, the next call of the same key finds no mapping and makes a second case, with no two calls under way at
  once. `docs/mcp-server.md:102` says the mapping "prevents sequential duplicate workflows".
* `console_wrong_case`: picking a run selects its case without drawing it, so that the buttons of the case view, which
  still shows another case, decide the one that is not shown. A refresh that lands while the reject dialog is open does the
  same to a rejection (`app.js:505-511`, `:538`).

Met while modelling, and named as exceptions of passing properties, since no document promises otherwise: the loser of
a race for a key leaves a transaction open and the database locked for every other process until its next
commit, and two processes can lock each other out until one is restarted (`QuietIsUnlocked`); a call that a model names like a
proposed action shares the durable key of that action if the two also have the same tool and arguments
(`OnlyNamesCollide`; `effects.py:84` says the key binds one approved action to one effect, but arguments are not modelled, and with equal ones it
is open whether the two are one request or two). In the console, with no answer lost or late: pick a case whose events are not cached and then
one whose events are, and the first one's timeline appears under the second (`app.js:432-433`, `pastLoad`), as does the first one's run in the run view
(`:475-487`, `pastRun`); a load that was answered before a decision and ends after it brings the list from before the decision back, and nothing
drops it until the next decision (`:344-349`, `:529`, `behind`).

## Proofs

All theorems are for every value of the constants that satisfies the modules' named assumptions. These say what
the constants are (finitely many threads and clients, at least one attempt and one step, plans and step ids made of calls, a key, a
case and an answer that stand for "none"), and nothing about the code. Two hypotheses are stated by the
theorems that need them, because the code does not guarantee them:

* `SingleOperator`: at most one operator replays. With two, the properties are false (the hazard at `effects.py:224`).
* `SingleWorker`: one request at a time. With two, they are false; the violations of `RecoversOnlyTheDead` and
  `RejectedIsFinal` are the two ways.

### The gateway

`EffectGatewayProofs`, without hypotheses:

* `TypeCorrect == Spec => []TypeOK`. One lemma per action; the one fact that is not
  about shapes is that `start_attempt` keeps `attempts <= MaxAttempts`.
* `BudgetTheorem == Spec => []BudgetHolds`. `BudgetHolds` bounds the calls made; it is
  not inductive, because a worker that has started and not yet called the effect
  holds a call that is not counted. `BudgetInv` adds these: the calls made and the calls in flight of a key
  (`Firing`) are at most its `Allowance`, the attempts of all its past cycles and of
  this one. `Start` raises both by one, `Fire` turns one into the other, `Crash` drops calls in flight, a replay
  adds a cycle. `BudgetImplied` gives the bound from `attempts <= MaxAttempts`.

`EffectGatewayFinality`, for one operator and any number of threads and crashes:

* `FinalityTheorem == Spec => SuccessIsFinal`. The danger is a thread that read a running row and writes it
  later. `OwnsInv` says of each such thread that its attempt has a receipt already, so that the UNIQUE constraint
  refuses the write, or the row still is exactly what it read. Starting needs a row that is not running, so nothing but
  a settlement, which writes the receipt, can take the row away from its owner. `ReplayInv` says the same of the operator between
  the test and the UPDATE of `replay`: the row stays a dead letter.
* `DurableTheorem == Spec => []OutcomeIsDurable`: what `execute` returns is the row it has just read, and
  finality keeps it so.
* `ReceiptsTheorem == Spec => []AttemptsReceipted`: `Fits` relates the log of a key to its row and is kept
  because only an owner settles.
* `ContractTheorem == Spec => ImplementsContract`: the gateway implements `EffectContract` for all keys at once. A
  settlement is a step of the contract for its key, a started attempt is a grant, and a call is paid for because
  attempts that were granted are receipts or the running row (`GrantInv`); a step for one key leaves the others where they are
  (`SameFrame`).
* For one thread too: `NoRefireTheorem == Spec => NoFireAfterSuccess`, since a thread about to call the effect finds its row
  running (`CallInv`), and `RecoveryTheorem == Spec => RecoversOnlyTheDead`. Together with the run that violates it, the latter says
  that concurrent requests, and neither crashes nor replays, break the comment at `effects.py:166`.

### The approval loop

`ApprovalRunProofs`, for any plan, kinds of handlers, threads and bounds:

* `ImplementsGateway == Spec => Gateway!Spec`: every step of the loop is a step of the gateway or leaves it alone. It
  carries every theorem above over; `SameGateway` identifies the instance the model uses with the one whose
  theorems are cited. `ApprovalBudget` is `BudgetHolds` for the composition, and `NoSecondCallTheorem` is `NoFireAfterSuccess`, for one
  thread and one operator.
* `ApprovalTypes` and `ConsentTheorem`: `FiresAfterConsent` needs `ConsentInv`, by which a thread past the
  approval, and a case with `approved_at`, have the event behind them.
* `CompletionTheorem` and `ResolutionTheorem`, for one operator: a completed action is delivered, because
  `Absorb` copies a durable outcome (`DurableTheorem`) and the row stays (`FinalityTheorem`); the notification of a resolved
  case was applied exactly once, because a good result was applied when it was returned (`AppliedInv`) and a key becomes
  delivered only by recording such a result (`SuccessIsRecorded`). Here the target is assumed to honour the idempotency
  header (`AppliedAfter`).

`ApprovalRowsProofs`, for one operator:

* `HasRowTheorem == Spec => []CompletedHasRow`. The row exists before anything shows the action as completed:
  `HasRowInv` has it there from the moment the call ended well, and as long as the record says success, while `crashes = 0`.
  `ResolvedRowsTheorem` gives `ResolvedHasRows` for a process that has not crashed: what `approval_loses_effect` violates takes a crash.
* `RepeatsTheorem == Spec => []RepeatsAreRecoveries`, by accounting. `BooksInv` says of each key that its rows, and the
  attempts its workers hold without a good result (`Owing`), are at most its recoveries and one more while its record stands for an
  effect (`Stands`). A good call turns what its worker owes into a row, a recorded failure clears worker and record, a recovery
  clears the record, which the next attempt may then use again, and enters the log; a crash clears workers.
* `PutAsideTheorem`: a dead-lettered case has an action whose budget really ran out, then or in an earlier cycle (`WasDead`, which
  never becomes false). `DeadLetterTheorem == Spec => []DeadLetterIsReal` when nobody replays: a replay makes the property false, since the
  status stays until the next approve.
* For one thread: `DecisionTheorem == Spec => DecisionIsFinal` and `RejectionTheorem == Spec => RejectedNeverFires`. `DecisionInv`
  says that a thread inside `approve` works on an undecided case, and one inside `reject` on an unresolved one.

### Planning and its readers

`ToolPlanningProofs`, for any planner (`Plans` is any set of plans) and limit:

* `PlanningTypes`, by `PhaseInv`: what is still empty in each phase of `_plan_tools`.
* `OfferTheorem == Spec => []OfferedIsWhole`. `ScanInv`: the calls before `next` were accepted, and the pending actions are exactly
  their writes. `OfferInv`: what a case offers, and what an `approve` works on, is what was pending when the plan was complete, or
  nothing.
* `WaitTheorem == Spec => []WritesWait`. `WaitInv`: either no write has a result yet, or the plan was sound, published and its writes
  are `pending`. Only an `approve` with actions in hand gives a write a result, and `OfferInv` says that it took them from a published plan; one that
  began too early has an empty list, runs nothing and at worst puts that list back. Any number of requests overlap.
* `KeysTheorem == Spec => []OnlyNamesCollide`, without a hypothesis on the ids: a proposed action's id is used once (`used`) and calls are
  distinct, so two actions with one id are one that took a proposed action and one whose call is named like it (`KeysInv`).
* `RulesTheorem == Spec => []RulesAreOffered`: the tables of `engine.py`, `tools.py` and `store.py` agree (`TablesAgree`), so each call of the rules
  finds the action it stands for.

`RunSnapshotProofs` has `SnapshotTheorem == SnapshotSpec => []SnapshotExplains`. A client holds actions while the case goes on;
`ReaderInv` says that the calls account for the actions it holds at any time: a call that accounted for an action once goes on doing
so, since after the plan is published a call only gets results, whichever of several approvals gives them. How a call ended may differ from what the
action says, because another approval can have run it again since, and the property does not claim more.

### Proposals

`McpProposalsProofs` has one inductive invariant, `McpInv`, for any servers, clients, keys and requests:
`TypeInv`; `LockInv` (one connection at most has uncommitted rows); `RowsInv` (the committed rows, and those the writer
sees, are each consistent: a mapped case exists and is planned, a call's case is its own); `MappingInv` (a committed mapping stays); `AloneInv` (a
key nobody raced for has one call); `KeyInv` (each case of such a key is mapped or belongs to that call); `QuietInv`. The steps are first brought to a
few shapes that forget the locks (`StepShapes`, `WritesGoOn`), and each part is proved for the shapes.

* `McpTypes`, `MappedTheorem` (`MappedIsPlanned`), `AnswersTheorem` (`AnswersAgree`), `SecondCaseTheorem`
  (`SecondCaseIsExplained`), `QuietTheorem` (`QuietIsUnlocked`).
* `MappingIsFinal`: the case of a committed key never changes. No run checks it; it is what `AnswersAgree` rests on.

### The console

`ConsoleProofs`, for any cases and any number of requests in flight. `SelectionTheorem` (`PageIsSelected`) and `ConsoleTypes` (`TypeOK`)
hold however answers are lost or overtaken; the bound on events needs `EventsInv`, by which a decision that is under way has
its event reserved.

* `CacheInv`, for `CacheTheorem` (`QuietCacheIsFresh`), needs nothing lost and no order of the answers: events that are kept, or come in, are the
  server's, or their case is in `behind`, or an answer to a decision is on its way that has them forgotten.

The rest is about sessions in which nothing was lost or overtaken (`Orderly`). There an answer that is processed always is the
oldest request's (`OrderlySteps`), and the requests in flight are a promise:

* `TicketsInv` and `PageInv`, for `PageTheorem` (`QuietPageIsCurrent`): if the list of cases is not the server's, a newer one is coming; a button that is missing
  waits for a request in flight.
* `TimelineInv` and `RunInv`, for `TimelineTheorem` (`QuietTimelineIsPage`) and `RunTheorem` (`QuietRunIsSelected`): unless `pastLoad` or `pastRun`, the last
  request a view waits for is about the case it shows, and without one the view is drawn.

When nothing is in flight, no promise is left to keep.

### Only model-checked

Liveness (`InterruptedIsResolved`, `RetriedRunEnds`) is out of the prover's reach, and the violations are counterexamples that TLC finds.
Every other property of a passing run is proved. The refinement is proved as a step simulation; neither specification has
fairness in it.

## Not modelled

The drafts, scores and keywords of the triage, the schemas, redaction and the building of texts and JSON are
functions without shared state; so is the configuration, whose limits are constants here. The static demonstration, the n8n file and the demo
agent only use the modelled endpoints. Start-up seeding calls `create` for a list of samples, and nothing is promised
about a seeding that crashes. The MCP server's authentication and transport settings are checked before it starts and keep no state; its
catalog and list only read. Time is not modelled: timeouts are outcomes that may always happen.

## Plan

1. (done) `DeliveryStore`, `EffectGateway`, `EffectContract`: the budget and the record of one effect.
2. (done) `OutboundAdapter`, `ApprovalRun`: decisions, the shared connection, crashes between two databases.
3. (done) `EffectGatewayProofs`, `EffectGatewayFinality`: types, budget, finality, receipts.
4. (done) `ApprovalRunProofs`: the gateway's theorems carried over, consent, completion, resolution.
5. (done) `Triage`, `ToolPlanning`, `RunSnapshot`: from a text to its plan, against early decisions, crashes and readers.
6. (done) `SharedDatabase`, `McpProposals`: two processes, one key, the locks a refused statement leaves.
7. (done) `Console`: what is decided is what is shown.
8. (done) `ToolPlanningProofs`, `RunSnapshotProofs`, `McpProposalsProofs`, `ConsoleProofs`, `ApprovalRowsProofs`, and the contract in
   `EffectGatewayFinality`: all safety properties of the runs, for every value of the constants.
9. Next: the composition of `McpProposals` with `ToolPlanning` (its `Plan` is one write here), which would carry `OfferTheorem` over to
   proposals; and what two operators can rely on, with a test in the UPDATE of `replay` as the hypothesis.
