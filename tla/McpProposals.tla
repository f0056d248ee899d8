----------------------------- MODULE McpProposals -----------------------------
(***************************************************************************)
(* support_desk/mcp_server.py's relay_propose_support_run and              *)
(* TicketStore.create_mcp_proposal: clients that propose a case under an   *)
(* idempotency key through the MCP servers.  Each server is a process with *)
(* a TicketStore of its own; the servers and the HTTP API meet in the      *)
(* ticket database.  A process may die at any time, and a client may ask   *)
(* again whatever it was told.                                             *)
(*                                                                         *)
(* A step is one committed write or one read.  Writes of audit events      *)
(* change nothing here but may be refused, which ends the call.            *)
(***************************************************************************)
EXTENDS Naturals, FiniteSets, SharedDatabase

CONSTANTS
    Clients, Servers, Home,  \* Home[c]: the server process of client c
    Api,                     \* the process of the HTTP API
    Keys, Payloads,          \* idempotency keys; requests, told apart by their hash
    MaxCases                 \* bound: cases created

ASSUME HomeAssumption  == /\ Api \notin Servers /\ Procs = Servers \cup {Api}
                          /\ Home \in [Clients -> Servers]
ASSUME CasesAssumption == MaxCases \in Nat
ASSUME KeysAssumption  == IsFiniteSet(Clients) /\ "none" \notin Keys \cup Payloads

VARIABLES
    made,    \* cases created so far
    call,    \* call[c]: the local state of c's relay_propose_support_run
    out,     \* out[c]: what the last one returned
    raced,   \* history: keys two calls had in flight together
    broken,  \* history: keys of calls that raised or died between the case and its mapping
    undone,  \* history: a server died with rows it had not committed
    opened   \* history: a handler of the API, or an INSERT under a case id that is
             \* taken, left a transaction open

mcp  == <<made, call, out, raced, broken, undone>>
vars == <<dbVars, mcp, opened>>

Cases     == 1 .. MaxCases
Absent    == [key |-> "none", plan |-> "none"]
CaseRow   == [key: Keys \cup {"none"}, plan: {"none", "made", "offered", "dead_letter"}]
NoMapping == [payload |-> "none", case |-> 0]
Mapping   == [payload: Payloads, case: Cases]
NoCall    == [pc |-> "idle", key |-> "none", payload |-> "none", case |-> 0, reused |-> FALSE]
NoAnswer  == [kind |-> "none"]
Error     == [kind |-> "error"]

Init ==
    /\ db    = [case |-> [t \in Cases |-> Absent], map |-> [k \in Keys |-> NoMapping]]
    /\ draft = db
    /\ lock  = [p \in Procs |-> "none"]
    /\ made = 0 /\ raced = {} /\ broken = {} /\ undone = FALSE /\ opened = FALSE
    /\ call  = [c \in Clients |-> NoCall]
    /\ out   = [c \in Clients |-> NoAnswer]

WithCase(v, t, r) == [v EXCEPT !.case[t] = r]

-----------------------------------------------------------------------------
(* create_mcp_proposal.                                                    *)

At(c, pc) == call[c].pc = pc
Here(c)   == View(Home[c])
Goes(c, pc) == call' = [call EXCEPT ![c].pc = pc]

Returns(c, answer) == /\ call' = [call EXCEPT ![c] = NoCall]
                      /\ out'  = [out EXCEPT ![c] = answer]

\* The call has a case that no mapping is known to lead to.
Unsettled(c) == call[c].pc \in {"create", "plan", "map"} /\ call[c].key # "none"

\* The call raises; what it created stays.
Raises(c) == /\ Returns(c, Error)
             /\ broken' = IF Unsettled(c) THEN broken \cup {call[c].key} ELSE broken

\* Mutant: a key that is taken by another request is answered all the same.
OtherRequestNever(m, x) == FALSE

OtherRequest(m, x) == m.payload # x

\* The case of a mapping, if it was made for the same request, else ValueError.
Reuse(c, k, x, m) ==
    IF OtherRequest(m, x)
    THEN Returns(c, [kind |-> "refused"])
    ELSE /\ call' = [call EXCEPT ![c] = [pc |-> "answer", key |-> k, payload |-> x, case |-> m.case,
                                         reused |-> TRUE]]
         /\ UNCHANGED out

\* Mutant: the first look at the mapping is left out.
UnmappedAlways(v, k) == TRUE

Unmapped(v, k) == v.map[k] = NoMapping

\* A key nobody has a case for yet, as far as the server sees.
Begins(c, k, x) ==
    /\ made + Cardinality({d \in Clients : At(d, "create")}) < MaxCases
    /\ call'  = [call EXCEPT ![c] = [NoCall EXCEPT !.pc = "create", !.key = k, !.payload = x]]
    /\ raced' = IF \E d \in Clients : call[d].key = k /\ ~call[d].reused THEN raced \cup {k} ELSE raced
    /\ UNCHANGED out

\* The request arrives, and the first SELECT on mcp_proposals.
Lookup(c) ==
    /\ At(c, "idle")
    /\ \E k \in Keys, x \in Payloads :
         \/ /\ Reads(Home[c])
            /\ IF Unmapped(Here(c), k)
               THEN Begins(c, k, x)
               ELSE Reuse(c, k, x, Here(c).map[k]) /\ UNCHANGED raced
         \/ ReadRefused(Home[c]) /\ Returns(c, Error) /\ UNCHANGED raced
    /\ UNCHANGED <<made, broken, undone, opened>>

\* Mutant: the mapping is written before the tools are planned.
CreateMapsFirst(c) ==
    /\ At(c, "create")
    /\ Puts(Home[c], WithCase(Here(c), made + 1, [key |-> call[c].key, plan |-> "made"]))
    /\ made' = made + 1
    /\ call' = [call EXCEPT ![c].pc = "map", ![c].case = made + 1]
    /\ UNCHANGED <<out, broken, raced, undone, opened>>

\* Mutant: the id of the new case is not kept.
CreateForgetsId(c) ==
    /\ At(c, "create")
    /\ Puts(Home[c], WithCase(Here(c), made + 1, [key |-> call[c].key, plan |-> "made"]))
    /\ made' = made + 1
    /\ call' = [call EXCEPT ![c].pc = "map"]
    /\ UNCHANGED <<out, broken, raced, undone, opened>>

\* TicketStore.create: the case is committed before it has a plan.
Create(c) ==
    /\ At(c, "create")
    /\ LET new == WithCase(Here(c), made + 1,
                           [key |-> call[c].key, plan |-> "made"]) IN
       \/ /\ Puts(Home[c], new)
          /\ made' = made + 1
          /\ call' = [call EXCEPT ![c].pc = "plan", ![c].case = made + 1]
          /\ UNCHANGED <<out, broken>>
       \/ CommitRefused(Home[c], new) /\ made' = made + 1 /\ Raises(c)
       \/ WriteRefused(Home[c]) /\ Returns(c, Error) /\ UNCHANGED <<made, broken>>
    /\ UNCHANGED <<raced, undone, opened>>

\* The six hex digits drawn for the case are those of another one: the primary key
\* refuses the INSERT, and its transaction stays open.
IdTaken(c) ==
    /\ At(c, "create") /\ made > 0
    /\ Executes(Home[c], Here(c))
    /\ Returns(c, Error)
    /\ opened' = TRUE
    /\ UNCHANGED <<made, raced, broken, undone>>

\* _plan_tools ends: the actions of an accepted plan, or a dead letter.
Plan(c) ==
    /\ At(c, "plan")
    /\ \E p \in {"offered", "dead_letter"} :
         LET new == WithCase(Here(c), call[c].case, [key |-> call[c].key, plan |-> p])
         IN \/ Puts(Home[c], new) /\ Goes(c, "map") /\ UNCHANGED <<out, broken>>
            \/ PutRefused(Home[c], new) /\ Raises(c)
    /\ UNCHANGED <<made, raced, undone, opened>>

\* A planner may raise what _plan_tools does not catch.
PlannerRaises(c) ==
    /\ At(c, "plan")
    /\ Raises(c)
    /\ UNCHANGED <<dbVars, made, raced, undone, opened>>

\* One of the audit events before the plan, the mapping or the answer is refused.
EventRefused(c) ==
    /\ call[c].pc \in {"plan", "map", "event"}
    /\ PutRefused(Home[c], Here(c))
    /\ Raises(c)
    /\ UNCHANGED <<made, raced, undone, opened>>

\* Mutant: the INSERT of the mapping waits for the commit of the event.
MapUncommitted(c) ==
    /\ At(c, "map")
    /\ Executes(Home[c], [Here(c) EXCEPT !.map[call[c].key] =
                             [payload |-> call[c].payload, case |-> call[c].case]])
    /\ Goes(c, "event")
    /\ UNCHANGED <<out, broken, made, raced, undone, opened>>

\* The mapping is inserted: the primary key refuses a second one, and that leaves
\* the transaction of the INSERT open.
Map(c) ==
    /\ At(c, "map")
    /\ LET k == call[c].key
           new == [Here(c) EXCEPT !.map[k] = [payload |-> call[c].payload, case |-> call[c].case]]
       IN IF Here(c).map[k] = NoMapping
          THEN \/ Puts(Home[c], new) /\ Goes(c, "event") /\ UNCHANGED <<out, broken>>
               \/ PutRefused(Home[c], new) /\ Raises(c)
          ELSE \/ Executes(Home[c], Here(c)) /\ Goes(c, "lost") /\ UNCHANGED <<out, broken>>
               \/ WriteRefused(Home[c]) /\ Raises(c)
    /\ UNCHANGED <<made, raced, undone, opened>>

\* Mutant: a call that lost the race answers with the case it made itself.
MapLostOwn(c) ==
    /\ At(c, "lost")
    /\ Reads(Home[c])
    /\ Goes(c, "answer")
    /\ UNCHANGED <<out, made, raced, broken, undone, opened>>

\* IntegrityError: the mapping that is there decides.
MapLost(c) ==
    /\ At(c, "lost")
    /\ Reads(Home[c])
    /\ Reuse(c, call[c].key, call[c].payload, Here(c).map[call[c].key])
    /\ UNCHANGED <<made, raced, broken, undone, opened>>

\* The mcp.proposal_created event.
Announce(c) ==
    /\ At(c, "event")
    /\ Puts(Home[c], Here(c))
    /\ Goes(c, "answer")
    /\ UNCHANGED <<out, made, raced, broken, undone, opened>>

\* propose reads the calls of the case and answers.
Answer(c) ==
    /\ At(c, "answer")
    /\ Reads(Home[c])
    /\ Returns(c, [kind |-> "answer", key |-> call[c].key, payload |-> call[c].payload,
                   case |-> call[c].case])
    /\ UNCHANGED <<made, raced, broken, undone, opened>>

\* Another process keeps readers out.
ReadRaises(c) ==
    /\ At(c, "answer")
    /\ ReadRefused(Home[c])
    /\ Raises(c)
    /\ UNCHANGED <<made, raced, undone, opened>>

Propose(c) ==
    Create(c) \/ IdTaken(c) \/ Plan(c) \/ PlannerRaises(c) \/ EventRefused(c) \/ Map(c) \/ MapLost(c)
        \/ Announce(c) \/ Answer(c) \/ ReadRaises(c)

-----------------------------------------------------------------------------
(* The API process, whose rows are other ones: what counts is what its     *)
(* connection holds.                                                       *)

\* A handler of an approved action inserts its row without a commit.
ApiHandler ==
    /\ \/ Executes(Api, View(Api)) /\ opened' = TRUE
       \/ WriteRefused(Api) /\ UNCHANGED opened
    /\ UNCHANGED mcp

\* Any committed write of approve, reject, create; an answer of 500 if it is refused.
ApiPut ==
    /\ Puts(Api, View(Api)) \/ PutRefused(Api, View(Api))
    /\ UNCHANGED <<mcp, opened>>

ApiRead == Reads(Api) /\ UNCHANGED <<mcp, opened>>

ApiDies == Dies(Api) /\ UNCHANGED <<mcp, opened>>

-----------------------------------------------------------------------------
\* A process dies and is started again.
CallsOf(p) == {c \in Clients : Home[c] = p /\ ~At(c, "idle")}

ServerDies(p) ==
    /\ Dies(p)
    /\ call'   = [c \in Clients |-> IF c \in CallsOf(p) THEN NoCall ELSE call[c]]
    /\ out'    = [c \in Clients |-> IF c \in CallsOf(p) THEN Error ELSE out[c]]
    /\ broken' = broken \cup {call[c].key : c \in {d \in CallsOf(p) : call[d].case # 0 /\ Unsettled(d)}}
    /\ undone' = (undone \/ View(p) # db)
    /\ UNCHANGED <<made, raced, opened>>

Next ==
    \/ \E c \in Clients : Lookup(c) \/ Propose(c)
    \/ \E p \in Servers : ServerDies(p)
    \/ ApiHandler \/ ApiPut \/ ApiRead \/ ApiDies

Spec == Init /\ [][Next]_vars

-----------------------------------------------------------------------------
TypeOK ==
    /\ {db, draft} \subseteq [case: [Cases -> CaseRow], map: [Keys -> Mapping \cup {NoMapping}]]
    /\ lock \in [Procs -> Locks]
    /\ made \in 0 .. MaxCases
    /\ raced \subseteq Keys /\ broken \subseteq Keys
    /\ {undone, opened} \subseteq BOOLEAN

\* Two clients that are answered for one key are answered with one case and made the
\* same request, whoever won the race to insert the mapping (store.py:197-223), unless
\* a server died with a transaction its commit was refused: its own answers may rest
\* on a mapping that is gone with it.
AnswersAgree ==
    \A c, d \in Clients :
      out[c].kind = "answer" /\ out[d].kind = "answer" /\ out[c].key = out[d].key =>
        undone \/ (out[c].case = out[d].case /\ out[c].payload = out[d].payload)

\* A key leads to a case of its own whose planning is over, accepted or not: a retry
\* is never answered with a case that is still being planned (store.py:202-213).
MappedIsPlanned ==
    \A k \in Keys : db.map[k] # NoMapping =>
        LET r == db.case[db.map[k].case] IN r.key = k /\ r.plan \in {"offered", "dead_letter"}

CasesOf(k) == {t \in Cases : db.case[t].key = k}

Single(k) == \A t, u \in CasesOf(k) : t = u

\* A key has two cases only if two calls for it were under way at once, or if one ended
\* between the commit of its case and the commit of its mapping, whatever calls under
\* other keys, the API and restarts do: nothing else undoes a mapping or hides it from
\* the call that comes next (store.py:164-213).
SecondCaseIsExplained == \A k \in Keys \ (raced \cup broken) : Single(k)

\* "The proposal-key mapping prevents sequential duplicate workflows"
\* (docs/mcp-server.md:102): a key none of whose calls ever overlapped has one case.
RetryMakesNoCase == \A k \in Keys \ raced : Single(k)

\* No process keeps the others out of the database between its statements, unless two
\* calls raced for a key or two cases drew one id (the refused INSERTs of store.py:214
\* and 146 leave their transactions open), or a handler of the API waits for the commit
\* of another write (store.py:525).
QuietIsUnlocked ==
    raced = {} /\ ~opened => \A p \in Procs : lock[p] = "none"
=============================================================================
