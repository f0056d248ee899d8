-------------------------------- MODULE Console --------------------------------
(***************************************************************************)
(* src/app.js: the operator's page.  It keeps the cases as of the last     *)
(* refresh, the selected case and a cache of events, and draws a case (the *)
(* page), its timeline and, in the other view, a run.  Every await on the  *)
(* server lets clicks and other answers in; answers come back in any order *)
(* or not at all.  A step is a click, an answer and all the code up to the *)
(* next await, or the server handling a request.                           *)
(*                                                                         *)
(* The server's approve and reject are steps of their own here: what       *)
(* happens inside them is ApprovalRun's subject.                           *)
(***************************************************************************)
EXTENDS Naturals, FiniteSets, Sequences, SequencesExt

CONSTANTS
    Cases, First,          \* the cases, and the one /api/tickets lists first
    None,
    MaxFlight, MaxEvents   \* bounds: requests in flight; events of a case

ASSUME CasesAssumption == First \in Cases /\ None \notin Cases \cup {"ok", "error"}

ASSUME EventsAssumption == MaxEvents \in Nat \ {0}

VARIABLES
    status, log,                   \* the server: tickets.status, number of events
    tickets, selected, view, cache,\* state.tickets, .selectedId, .view, .events
    page,                          \* the case drawn, its status and its enabled buttons
    timeline, run,                 \* what the timeline and the run view show
    dialog,                        \* the case drawn when the reject dialog was opened
    flight,                        \* requests awaited, oldest first
    picked,                        \* history: the run list was used since the page was drawn
    pastLoad, pastRun,             \* history: the timeline, the run view, was drawn from the
                                   \* cache while another's events were the last to come
    behind,                        \* history: cases that a load, answered before their last
                                   \* decision, was under way for when that decision ended
    crossed,                       \* history: an answer overtook an older request's
    lost                           \* history: a request or its answer was lost

server  == <<status, log>>
caseTimeline == <<timeline, pastLoad>>
runView == <<run, pastRun>>
screen  == <<page, caseTimeline, runView, dialog, picked>>
faults  == <<behind, crossed, lost>>
vars == <<server, tickets, selected, view, cache, screen, flight, faults>>

Statuses == {"open", "action_failed", "resolved", "rejected", "dead_letter"}
Ops      == {"approve", "retry", "reject"}

Blank(t) == [case |-> t, log |-> 0]

Init ==
    /\ status = [t \in Cases |-> "open"] /\ log = [t \in Cases |-> 1]
    /\ tickets = [t \in Cases |-> "none"] /\ cache = [t \in Cases |-> 0]
    /\ selected = None /\ view = "cases"
    /\ page = [case |-> None, status |-> "none", on |-> {}]
    /\ timeline = Blank(None) /\ run = [case |-> None, status |-> "none", log |-> 0]
    /\ dialog = None /\ picked = FALSE
    /\ flight = <<[kind |-> "refresh", case |-> None, op |-> "none", held |-> FALSE, answer |-> None]>>
    /\ pastLoad = FALSE /\ pastRun = FALSE
    /\ behind = {} /\ crossed = FALSE /\ lost = FALSE

-----------------------------------------------------------------------------
(* Requests.  op is the decision the request belongs to, held says that    *)
(* the button that started it is still the one on the page.                *)

Post(op, t, shown) ==
    [kind |-> "post", case |-> t, op |-> op, held |-> op # "reject", shown |-> shown, answer |-> None]

Refresh(t, op, held) ==
    [kind |-> "refresh", case |-> t, op |-> op, held |-> held, answer |-> None]

\* GET events, for the timeline (and for the run view after it, if a refresh waits).
Load(t, op, chained) ==
    [kind |-> "load", case |-> t, op |-> op, chained |-> chained, answer |-> None]

\* GET events for the run view, which goes on with the ticket it had before.
LoadRun(t, s, op) == [kind |-> "run", case |-> t, status |-> s, op |-> op, answer |-> None]

Answered(r) == r.answer # None

\* A button that is drawn again is a new element.
Redrawn(f) == [i \in DOMAIN f |-> IF f[i].kind \in {"post", "refresh"}
                                  THEN [f[i] EXCEPT !.held = FALSE] ELSE f[i]]

\* The last answer of the requests f that a view draws is not for what it shows now:
\* the timeline draws what a load brings, the run view what a LoadRun brings, and
\* neither looks at the selection again.
LoadIsFor(f, sel) ==
    \A i \in DOMAIN f : f[i].kind = "load" /\ (\A j \in DOMAIN f : j > i => f[j].kind # "load")
        => f[i].case = sel

RunIsFor(f, sel, s) ==
    \A i \in DOMAIN f : f[i].kind = "run" /\ (\A j \in DOMAIN f : j > i => f[j].kind # "run")
        => f[i].case = sel /\ f[i].status = s

\* renderReview.
Buttons(s) == CASE s = "open"          -> {"approve", "reject"}
                [] s = "action_failed" -> {"retry"}
                [] OTHER               -> {}

\* renderRuns, while the requests f are in flight.
RenderRuns(sel, tks, ch, f, op) ==
    IF ch[sel] # 0
    THEN /\ run' = [case |-> sel, status |-> tks[sel], log |-> ch[sel]]
         /\ pastRun' = ~RunIsFor(f, sel, tks[sel])
         /\ flight' = f
    ELSE flight' = Append(f, LoadRun(sel, tks[sel], op)) /\ pastRun' = FALSE /\ UNCHANGED run

\* Mutant: the timeline is drawn only after a load.
RenderSelectedOnLoad(sel, tks, ch, f, op, chained) ==
    /\ page' = [case |-> sel, status |-> tks[sel], on |-> Buttons(tks[sel])]
    /\ picked' = FALSE
    /\ IF ch[sel] # 0
       THEN flight' = Redrawn(f) /\ UNCHANGED <<caseTimeline, runView>>
       ELSE /\ flight' = Append(Redrawn(f), Load(sel, op, chained))
            /\ pastLoad' = FALSE /\ UNCHANGED <<timeline, runView>>

\* renderSelected: the page at once, the timeline when its events are there.
RenderSelected(sel, tks, ch, f, op, chained) ==
    /\ page' = [case |-> sel, status |-> tks[sel], on |-> Buttons(tks[sel])]
    /\ picked' = FALSE
    /\ IF ch[sel] # 0
       THEN /\ timeline' = [case |-> sel, log |-> ch[sel]]
            /\ pastLoad' = ~LoadIsFor(f, sel)
            /\ IF chained /\ view = "runs"
               THEN RenderRuns(sel, tks, ch, Redrawn(f), op)
               ELSE flight' = Redrawn(f) /\ UNCHANGED runView
       ELSE /\ flight' = Append(Redrawn(f), Load(sel, op, chained))
            /\ pastLoad' = FALSE /\ UNCHANGED <<timeline, runView>>

-----------------------------------------------------------------------------
(* The operator.  Nothing but the dialog takes clicks while it is open.    *)

\* Bounds: MaxFlight, and the operator does no more once a request was lost.
Bounded == Len(flight) < MaxFlight /\ ~lost

Click == dialog = None /\ selected # None /\ Bounded

PickCase(t) ==
    /\ Click /\ view = "cases"
    /\ selected' = t
    /\ RenderSelected(t, tickets, cache, flight, "none", FALSE)
    /\ UNCHANGED <<server, tickets, view, cache, dialog, faults>>

PickRun(t) ==
    /\ Click /\ view = "runs"
    /\ selected' = t /\ picked' = TRUE
    /\ RenderRuns(t, tickets, cache, flight, "none")
    /\ UNCHANGED <<server, tickets, view, cache, page, caseTimeline, dialog, faults>>

\* Mutant: the run view is not drawn when it is entered.
SetViewOnly(v) ==
    /\ Click
    /\ view' = v
    /\ UNCHANGED <<server, tickets, selected, cache, screen, flight, faults>>

\* setView: the run view is drawn when it is entered, the page is not.
SetView(v) ==
    /\ Click
    /\ view' = v
    /\ IF v = "runs"
       THEN RenderRuns(selected, tickets, cache, flight, "none")
       ELSE UNCHANGED <<runView, flight>>
    /\ UNCHANGED <<server, tickets, selected, cache, page, caseTimeline, dialog, picked, faults>>

EventsLeft(t) ==
    log[t] + Cardinality({i \in DOMAIN flight : flight[i].kind = "post" /\ flight[i].case = t})
        < MaxEvents

\* performAction up to its request: for the selected case.
PerformAction(op) ==
    /\ Click /\ view = "cases" /\ EventsLeft(selected)
    /\ op \in page.on \ {"reject"}
    /\ page' = [page EXCEPT !.on = @ \ {op}]
    /\ flight' = Append(flight, Post(op, selected, page.case))
    /\ UNCHANGED <<server, tickets, selected, view, cache, caseTimeline, runView, dialog, picked,
                   faults>>

OpenDialog ==
    /\ Click /\ view = "cases"
    /\ "reject" \in page.on
    /\ dialog' = page.case
    /\ UNCHANGED <<server, tickets, selected, view, cache, page, caseTimeline, runView, flight,
                   picked, faults>>

Cancel ==
    /\ dialog # None
    /\ dialog' = None
    /\ UNCHANGED <<server, tickets, selected, view, cache, page, caseTimeline, runView, flight,
                   picked, faults>>

\* rejectSelected up to its request; its button is disabled until it ends.
RejectSelected ==
    /\ dialog # None /\ Bounded /\ EventsLeft(selected)
    /\ \A i \in DOMAIN flight : flight[i].op # "reject"
    /\ flight' = Append(flight, Post("reject", selected, dialog))
    /\ UNCHANGED <<server, tickets, selected, view, cache, screen, faults>>

-----------------------------------------------------------------------------
(* The server: decide, approve and retry of main.py, and what they answer. *)

Decided(t, s) == status' = [status EXCEPT ![t] = s] /\ log' = [log EXCEPT ![t] = @ + 1]

Approves(t) == \E s \in {"resolved", "action_failed", "dead_letter"} : Decided(t, s)

Refuses(op, s) == \/ op = "approve" /\ s = "rejected"
                  \/ op = "retry" /\ s # "action_failed"
                  \/ op = "reject" /\ s = "resolved"

Replies(i, a) == flight' = [flight EXCEPT ![i].answer = a]

Serve(i) ==
    /\ ~Answered(flight[i])
    /\ LET r == flight[i]
           s == status[r.case] IN
       CASE r.kind = "refresh"       -> Replies(i, status) /\ UNCHANGED server
         [] r.kind \in {"load", "run"} -> Replies(i, log[r.case]) /\ UNCHANGED server
         [] r.kind = "post" ->
              IF Refuses(r.op, s) THEN Replies(i, "error") /\ UNCHANGED server
              ELSE /\ Replies(i, "ok")
                   /\ IF r.op = "reject" THEN Decided(r.case, "rejected")
                      ELSE IF s = "resolved" THEN UNCHANGED server
                      ELSE Approves(r.case)
    /\ UNCHANGED <<tickets, selected, view, cache, screen, faults>>

-----------------------------------------------------------------------------
(* The answers.                                                            *)

Rest(i) == RemoveAt(flight, i)

Arrives(i, kind) ==
    /\ flight[i].kind = kind /\ Answered(flight[i])
    /\ crossed' = (crossed \/ i # 1)

\* Mutant: the button of that name works again, whatever the page shows by then.
CaughtAlways(r) == page' = IF r.op # "none" THEN [page EXCEPT !.on = @ \cup {r.op}] ELSE page

\* The catch of performAction and rejectSelected: the button it disabled works again.
Caught(r) == page' = IF r.kind \in {"post", "refresh"} /\ r.held
                     THEN [page EXCEPT !.on = @ \cup {r.op}] ELSE page

\* A load of t that was answered before t's last decision is under way.
LoadIsBehind(t) ==
    \E i \in DOMAIN flight : flight[i].kind \in {"load", "run"} /\ flight[i].case = t
                             /\ Answered(flight[i]) /\ flight[i].answer # log[t]

\* state.events.delete.
Forget(t) ==
    /\ cache'  = [cache EXCEPT ![t] = 0]
    /\ behind' = IF LoadIsBehind(t) THEN behind \cup {t} ELSE behind \ {t}

\* Mutant: the events of the case are not dropped.
PostEndsCached(i) ==
    /\ Arrives(i, "post")
    /\ LET r == flight[i] IN
         IF r.answer = "error"
         THEN Caught(r) /\ flight' = Rest(i) /\ UNCHANGED <<cache, behind, dialog>>
         ELSE /\ dialog' = IF r.op = "reject" THEN None ELSE dialog
              /\ flight' = Append(Rest(i), Refresh(r.case, r.op, r.held))
              /\ UNCHANGED <<cache, behind, page>>
    /\ UNCHANGED <<server, tickets, selected, view, caseTimeline, runView, picked, lost>>

\* Mutant: nothing is refreshed after a decision.
PostEndsAlone(i) ==
    /\ Arrives(i, "post")
    /\ LET r == flight[i] IN
         /\ IF r.answer = "error" THEN Caught(r) /\ UNCHANGED <<cache, behind, dialog>>
            ELSE /\ Forget(r.case)
                 /\ dialog' = IF r.op = "reject" THEN None ELSE dialog
                 /\ UNCHANGED page
         /\ flight' = Rest(i)
    /\ UNCHANGED <<server, tickets, selected, view, caseTimeline, runView, picked, lost>>

PostEnds(i) ==
    /\ Arrives(i, "post")
    /\ LET r == flight[i] IN
         IF r.answer = "error"
         THEN Caught(r) /\ flight' = Rest(i) /\ UNCHANGED <<cache, behind, dialog>>
         ELSE /\ Forget(r.case)
              /\ dialog' = IF r.op = "reject" THEN None ELSE dialog
              /\ flight' = Append(Rest(i), Refresh(r.case, r.op, r.held))
              /\ UNCHANGED page
    /\ UNCHANGED <<server, tickets, selected, view, caseTimeline, runView, picked, lost>>

\* Mutant: a refresh draws the case only while the case view is shown.
RefreshEndsBehind(i) ==
    /\ Arrives(i, "refresh")
    /\ LET r   == flight[i]
           sel == IF r.case # None THEN r.case ELSE First IN
         /\ tickets' = r.answer
         /\ selected' = sel
         /\ IF view = "cases"
            THEN RenderSelected(sel, r.answer, cache, Rest(i), r.op, TRUE)
            ELSE RenderRuns(sel, r.answer, cache, Rest(i), r.op) /\ UNCHANGED <<page, picked, caseTimeline>>
    /\ UNCHANGED <<server, view, cache, dialog, behind, lost>>

RefreshEnds(i) ==
    /\ Arrives(i, "refresh")
    /\ LET r   == flight[i]
           sel == IF r.case # None THEN r.case ELSE First IN
         /\ tickets' = r.answer
         /\ selected' = sel
         /\ RenderSelected(sel, r.answer, cache, Rest(i), r.op, TRUE)
    /\ UNCHANGED <<server, view, cache, dialog, behind, lost>>

\* ensureEvents stores what it was told.
LoadEnds(i) ==
    /\ Arrives(i, "load")
    /\ LET r == flight[i] IN
         /\ cache' = [cache EXCEPT ![r.case] = r.answer]
         /\ timeline' = [case |-> r.case, log |-> r.answer]
         /\ IF r.chained /\ view = "runs"
            THEN RenderRuns(selected, tickets, cache', Rest(i), r.op)
            ELSE flight' = Rest(i) /\ UNCHANGED runView
    /\ UNCHANGED <<server, tickets, selected, view, page, pastLoad, dialog, picked, behind, lost>>

RunEnds(i) ==
    /\ Arrives(i, "run")
    /\ LET r == flight[i] IN
         /\ cache' = [cache EXCEPT ![r.case] = r.answer]
         /\ run'   = [case |-> r.case, status |-> r.status, log |-> r.answer]
         /\ flight' = Rest(i)
    /\ UNCHANGED <<server, tickets, selected, view, page, caseTimeline, pastRun, dialog, picked,
                   behind, lost>>

\* A request, or the answer to it, is lost: api raises, and the chain ends.
Lose(i) ==
    /\ Caught(flight[i])
    /\ flight' = Rest(i)
    /\ lost' = TRUE
    /\ UNCHANGED <<server, tickets, selected, view, cache, caseTimeline, runView, dialog, picked,
                   behind, crossed>>

Operator == \/ \E t \in Cases : PickCase(t) \/ PickRun(t)
            \/ \E v \in {"cases", "runs"} : SetView(v)
            \/ \E op \in Ops : PerformAction(op)
            \/ OpenDialog \/ Cancel \/ RejectSelected

Network == \E i \in DOMAIN flight :
              Serve(i) \/ PostEnds(i) \/ RefreshEnds(i) \/ LoadEnds(i) \/ RunEnds(i) \/ Lose(i)

Next == Operator \/ Network

Spec == Init /\ [][Next]_vars

-----------------------------------------------------------------------------
Drawn   == [case: Cases \cup {None}, status: Statuses \cup {"none"}, on: SUBSET Ops]
Request == {"post", "refresh", "load", "run"}

TypeOK ==
    /\ status \in [Cases -> Statuses] /\ log \in [Cases -> 1 .. MaxEvents]
    /\ tickets \in [Cases -> Statuses \cup {"none"}] /\ cache \in [Cases -> 0 .. MaxEvents]
    /\ {selected, dialog, timeline.case, run.case} \subseteq Cases \cup {None}
    /\ page \in Drawn /\ page.on \subseteq Buttons(page.status)
    /\ \A i \in DOMAIN flight : flight[i].kind \in Request /\ flight[i].op \in Ops \cup {"none"}

\* The buttons act on the selected case (app.js:517), the page shows the case that was
\* drawn last: they are the same unless a run was picked in the run list since
\* (app.js:592), whatever refresh, load or decision ends in between, in any order.
PageIsSelected == page.case # selected => picked

\* Nothing is awaited, and the answers came in the order of the requests.  A slow answer
\* that comes after a younger request's may leave anything old on the screen, since no
\* answer is held against what was asked since (app.js:345-346, 506-511); so may a
\* request that is lost after the server did it.
Quiet == flight = <<>> /\ ~lost /\ ~crossed

\* In whatever order the answers come, the cache of events holds no list from before a
\* decision that ended: "state.events.delete" (app.js:529, 551) drops it.  It does so for
\* all cases but those "behind": a load whose answer was already on its way when the
\* decision's came brings the list back (app.js:345-346).
QuietCacheIsFresh ==
    flight = <<>> /\ ~lost => \A t \in Cases \ behind : cache[t] \in {0, log[t]}

\* The status the page shows, and the decisions it offers, are those of the server,
\* after any decisions, loads and refreshes of this page that overlapped (app.js:506-514).
QuietPageIsCurrent ==
    Quiet => /\ tickets = status
             /\ page.status = status[page.case] /\ page.on = Buttons(page.status)

\* The timeline under the case is that case's, and complete (app.js:432-433), although
\* each draw of it waits for a load that does not look at the selection again.  Not so
\* after a draw from the cache that passed the load of another case, which draws that
\* case's timeline under this one, nor for a case that is "behind".
QuietTimelineIsPage ==
    Quiet /\ ~pastLoad /\ page.case \notin behind =>
        timeline = [case |-> page.case, log |-> log[page.case]]

\* The run view shows the selected case as the server has it, although it draws the
\* ticket it had before its load (app.js:474-476); with the same two exceptions.
QuietRunIsSelected ==
    Quiet /\ view = "runs" /\ ~pastRun /\ selected \notin behind =>
        run = [case |-> selected, status |-> status[selected], log |-> log[selected]]

\* A decision is sent for the case that was on the page when its button was clicked or
\* its dialog opened: the page is the "Selected case" (index.html:98), and "the
\* reviewer sees raw tool arguments before any write" (docs/COVER_LETTER_EVIDENCE.md:68).
DecisionIsShown ==
    \A i \in DOMAIN flight : flight[i].kind = "post" => flight[i].shown = flight[i].case
================================================================================
