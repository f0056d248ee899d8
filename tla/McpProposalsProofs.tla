--------------------------- MODULE McpProposalsProofs ---------------------------
(***************************************************************************)
(* Proofs about McpProposals, for every number of clients, servers, keys   *)
(* and requests: what a client is told under its idempotency key, and that *)
(* nobody is kept out of the database for nothing.                         *)
(*                                                                         *)
(* A process writes only while no other one has uncommitted rows, so each  *)
(* write goes on from the rows of the process that wrote last, whether     *)
(* they are committed or not (WritesGoOn).  Every step then has one of a   *)
(* few shapes (StepShapes), and the invariants are proved shape by shape.  *)
(***************************************************************************)
EXTENDS McpProposals, TLAPS, FiniteSetTheorems

Phases == {"idle", "create", "plan", "map", "lost", "event", "answer"}
Row    == [case: [Cases -> CaseRow], map: [Keys -> Mapping \cup {NoMapping}]]
Calls  == [pc: Phases, key: Keys \cup {"none"}, payload: Payloads \cup {"none"},
           case: 0 .. MaxCases, reused: BOOLEAN]
Answers == [kind: {"answer"}, key: Keys, payload: Payloads, case: Cases]
Outs    == Answers \cup {NoAnswer, Error, [kind |-> "refused"]}

\* The calls that have yet to insert their case, and those that have one without a mapping.
Creating   == {c \in Clients : At(c, "create")}
Working(c) == call[c].pc \in {"plan", "map"}

\* A call is either idle or has its request; only a call that found a mapping is reused.
\* r is a call, n the number of cases.
Fits(r, n) ==
    /\ r.pc = "idle" => r = NoCall
    /\ r.pc # "idle" => r.key \in Keys /\ r.payload \in Payloads
    /\ r.pc \in {"plan", "map", "event", "answer"} => r.case \in Cases
    /\ r.pc \in {"plan", "map"} => r.case <= n
    /\ r.reused => r.pc = "answer"

CallInv == \A c \in Clients : Fits(call[c], made)

TypeInv ==
    /\ TypeOK
    /\ call \in [Clients -> Calls] /\ out \in [Clients -> Outs]
    /\ CallInv
    /\ made + Cardinality(Creating) <= MaxCases

\* One connection at most has uncommitted rows, and those of the API are not the cases'.
LockInv ==
    /\ \A p, q \in Procs : Holds(p) /\ Holds(q) => p = q
    /\ draft # db => \E p \in Servers : Holds(p)

\* Rows as somebody sees them: no case is beyond the last one, each mapping leads to a
\* planned case of its key, and so will those of the calls under way.  n is the number
\* of cases, f the calls.
Sound(v, n, f) ==
    /\ \A t \in Cases : t > n => v.case[t] = Absent
    /\ \A k \in Keys : v.map[k] # NoMapping =>
         LET r == v.case[v.map[k].case] IN r.key = k /\ r.plan \in {"offered", "dead_letter"}
    /\ \A c \in Clients : f[c].pc \in {"plan", "map"} =>
         LET r == v.case[f[c].case] IN
           r.key = f[c].key /\ (f[c].pc = "map" => r.plan \in {"offered", "dead_letter"})

RowsInv == Sound(db, made, call) /\ Sound(draft, made, call)

\* A mapping that is committed stays, and so does the one an answer is about.
MappingInv ==
    /\ \A k \in Keys : db.map[k] # NoMapping => draft.map[k] = db.map[k]
    /\ ~undone => \A c \in Clients :
         /\ call[c].pc \in {"event", "answer"} =>
              draft.map[call[c].key] = [payload |-> call[c].payload, case |-> call[c].case]
         /\ out[c].kind = "answer" =>
              draft.map[out[c].key] = [payload |-> out[c].payload, case |-> out[c].case]

\* One call at a time is about a key, unless it was raced for.
AloneInv ==
    \A c, d \in Clients : call[c].key = call[d].key /\ call[c].key \in Keys \ raced
                            /\ ~call[c].reused /\ ~call[d].reused => c = d

Before(c) == At(c, "create") \/ Working(c)

\* A key nobody raced for and no call broke off: its rows are committed together, it is
\* unmapped as long as a call is under way, and each case of it is mapped or that call's.
KeyInv ==
    \A k \in Keys \ (raced \cup broken) :
      /\ draft.map[k] = db.map[k]
      /\ \A t \in Cases : draft.case[t].key = k <=> db.case[t].key = k
      /\ \A c \in Clients : Before(c) /\ call[c].key = k => db.map[k] = NoMapping
      /\ \A t \in Cases : db.case[t].key = k =>
           \/ db.map[k].case = t
           \/ \E c \in Clients : Working(c) /\ call[c].key = k /\ call[c].case = t

QuietInv ==
    raced = {} /\ ~opened =>
      /\ \A p \in Procs : lock[p] = "none"
      /\ \A c \in Clients : Before(c) => db.map[call[c].key] = NoMapping

-----------------------------------------------------------------------------
(* The shapes of a step.                                                   *)

Neutral == draft' = draft /\ db' \in {db, draft}

OnlyCall(c) ==
    /\ call' \in [Clients -> Calls] /\ out' \in [Clients -> Outs]
    /\ \A d \in Clients \ {c} : call'[d] = call[d] /\ out'[d] = out[d]

\* The call ends without an answer.
Drops(c) == call'[c] = NoCall /\ out'[c].kind # "answer"

Begun(c) ==
    /\ At(c, "idle") /\ made + Cardinality(Creating) < MaxCases
    /\ \E k \in Keys, x \in Payloads :
         /\ Here(c).map[k] = NoMapping
         /\ call'[c] = [pc |-> "create", key |-> k, payload |-> x, case |-> 0, reused |-> FALSE]
         /\ raced' = IF \E d \in Clients : call[d].key = k /\ ~call[d].reused
                     THEN raced \cup {k} ELSE raced
    /\ Neutral /\ OnlyCall(c) /\ UNCHANGED <<out, made, broken, undone, opened>>

Ended(c) ==
    /\ Drops(c)
    /\ broken \subseteq broken' /\ broken' \subseteq Keys /\ (Working(c) => call[c].key \in broken')
    /\ opened' \in {opened, TRUE}
    /\ Neutral /\ OnlyCall(c) /\ UNCHANGED <<made, raced, undone>>

Reused(c) ==
    /\ call[c].pc \in {"idle", "lost"}
    /\ \E k \in Keys, x \in Payloads :
         /\ Here(c).map[k] \in Mapping /\ Here(c).map[k].payload = x
         /\ call'[c] = [pc |-> "answer", key |-> k, payload |-> x, case |-> Here(c).map[k].case,
                        reused |-> TRUE]
    /\ Neutral /\ OnlyCall(c) /\ UNCHANGED <<out, made, raced, broken, undone, opened>>

\* call'[c] is the call at another phase, about the case t.
Continues(c, pc, t) ==
    /\ call'[c].pc = pc /\ call'[c].key = call[c].key /\ call'[c].payload = call[c].payload
    /\ call'[c].case = t /\ call'[c].reused = call[c].reused

Moved(c) ==
    /\ \/ At(c, "map") /\ Continues(c, "lost", call[c].case) /\ Here(c).map[call[c].key] # NoMapping
       \/ At(c, "event") /\ Continues(c, "answer", call[c].case)
    /\ Neutral /\ OnlyCall(c) /\ UNCHANGED <<out, made, raced, broken, undone, opened>>

Answered(c) ==
    /\ At(c, "answer") /\ call'[c] = NoCall
    /\ out'[c] = [kind |-> "answer", key |-> call[c].key, payload |-> call[c].payload,
                  case |-> call[c].case]
    /\ Neutral /\ OnlyCall(c) /\ UNCHANGED <<made, raced, broken, undone, opened>>

\* The rows become new: committed, and the call goes on, or not, and it is broken off.
Wrote(c, new, pc, t) ==
    /\ draft' = new
    /\ \/ db' = new /\ Continues(c, pc, t) /\ UNCHANGED <<out, broken>>
       \/ db' = db /\ Drops(c) /\ broken' = broken \cup {call[c].key}
    /\ OnlyCall(c) /\ UNCHANGED <<raced, undone, opened>>

Created(c) ==
    /\ At(c, "create") /\ made' = made + 1
    /\ Wrote(c, WithCase(draft, made + 1, [key |-> call[c].key, plan |-> "made"]), "plan", made + 1)

Planned(c) ==
    /\ At(c, "plan") /\ made' = made
    /\ \E p \in {"offered", "dead_letter"} :
         Wrote(c, WithCase(draft, call[c].case, [key |-> call[c].key, plan |-> p]), "map", call[c].case)

WithMap(v, k, m) == [v EXCEPT !.map[k] = m]

Mapped(c) ==
    /\ At(c, "map") /\ made' = made /\ draft.map[call[c].key] = NoMapping
    /\ Wrote(c, WithMap(draft, call[c].key, [payload |-> call[c].payload, case |-> call[c].case]),
             "event", call[c].case)

\* A step of the API.
Outside == Neutral /\ opened' \in {opened, TRUE} /\ UNCHANGED mcp

ClientShape(c) ==
    \/ Begun(c) \/ Ended(c) \/ Reused(c) \/ Moved(c) \/ Answered(c)
    \/ Created(c) \/ Planned(c) \/ Mapped(c)

Shape == (\E c \in Clients : ClientShape(c)) \/ (\E p \in Servers : ServerDies(p)) \/ Outside

-----------------------------------------------------------------------------
(* Rows, calls and locks.                                                  *)

\* A case is written.
LEMMA WithCaseFacts ==
    ASSUME NEW v \in Row, NEW t \in Cases, NEW r \in CaseRow
    PROVE  /\ WithCase(v, t, r) \in Row /\ WithCase(v, t, r).map = v.map
           /\ WithCase(v, t, r).case[t] = r
           /\ \A u \in Cases : u # t => WithCase(v, t, r).case[u] = v.case[u]
  BY DEF WithCase, Row

\* A mapping is written.
LEMMA WithMapFacts ==
    ASSUME NEW v \in Row, NEW k \in Keys, NEW m \in Mapping
    PROVE  /\ WithMap(v, k, m) \in Row /\ WithMap(v, k, m).case = v.case
           /\ WithMap(v, k, m).map[k] = m
           /\ \A j \in Keys : j # k => WithMap(v, k, m).map[j] = v.map[j]
  BY DEF WithMap, Row

\* The records of the calls are calls.
LEMMA NoCallType == NoCall \in Calls /\ Error \in Outs /\ Error.kind # "answer"
  BY CasesAssumption DEF NoCall, Calls, Phases, Error, Outs

\* A call goes on.
LEMMA GoesFacts ==
    ASSUME call \in [Clients -> Calls], out \in [Clients -> Outs], UNCHANGED out,
           NEW c \in Clients, NEW pc \in Phases, Goes(c, pc)
    PROVE  OnlyCall(c) /\ Continues(c, pc, call[c].case)
  <1>1. /\ call' \in [Clients -> Calls]
        /\ \A d \in Clients \ {c} : call'[d] = call[d]
        /\ call'[c] = [call[c] EXCEPT !.pc = pc]
    BY DEF Goes, Calls
  <1>2. call[c] \in Calls
    OBVIOUS
  <1> QED BY <1>1, <1>2 DEF OnlyCall, Continues, Calls

\* A call ends.
LEMMA ReturnsFacts ==
    ASSUME call \in [Clients -> Calls], out \in [Clients -> Outs],
           NEW c \in Clients, NEW answer \in Outs, Returns(c, answer)
    PROVE  OnlyCall(c) /\ call'[c] = NoCall /\ out'[c] = answer
  BY NoCallType DEF Returns, OnlyCall

\* A call raises.
LEMMA RaisesFacts ==
    ASSUME TypeInv, NEW c \in Clients, ~At(c, "idle"), Raises(c)
    PROVE  /\ OnlyCall(c) /\ Drops(c)
           /\ broken' = IF At(c, "create") \/ Working(c) THEN broken \cup {call[c].key} ELSE broken
           /\ broken \subseteq broken' /\ broken' \subseteq Keys
           /\ Working(c) => call[c].key \in broken'
  <1>1. OnlyCall(c) /\ Drops(c)
    BY NoCallType, ReturnsFacts DEF Raises, TypeInv, Drops
  <1>2. call[c].key \in Keys /\ call[c].key # "none" /\ broken \subseteq Keys
    BY KeysAssumption DEF TypeInv, CallInv, Fits, At, TypeOK
  <1> QED BY <1>1, <1>2 DEF Raises, Unsettled, Working, At

\* Two processes never have uncommitted rows, and the rows of the API are not those of cases.
LEMMA HomeFacts == \A c \in Clients : Home[c] \in Servers /\ Home[c] \in Procs /\ Home[c] # Api
  BY HomeAssumption

\* Whoever may write goes on from the rows that were written last.
LEMMA WritesGoOn ==
    ASSUME LockInv, NEW p \in Procs, Writable(p)
    PROVE  View(p) = draft
  BY HomeAssumption DEF LockInv, Writable, View, Others

\* Steps that leave the rows that were written last.
LEMMA NeutralFacts ==
    ASSUME LockInv, NEW p \in Procs,
           \/ Reads(p) \/ ReadRefused(p) \/ WriteRefused(p)
           \/ Executes(p, View(p)) \/ Puts(p, View(p)) \/ PutRefused(p, View(p))
    PROVE  Neutral
  <1>1. Writable(p) => View(p) = draft
    BY WritesGoOn
  <1> QED
    BY <1>1 DEF Reads, ReadRefused, WriteRefused, Executes, Puts, PutRefused, CommitRefused, Neutral, dbVars

\* Steps that write new rows.
LEMMA WriteFacts ==
    ASSUME LockInv, NEW p \in Procs, NEW new
    PROVE  /\ Puts(p, new) => draft' = new /\ db' = new /\ View(p) = draft
           /\ CommitRefused(p, new) => draft' = new /\ db' = db /\ View(p) = draft
  BY WritesGoOn DEF Puts, CommitRefused

\* The mapping that a server finds is a mapping, and an unmapped key is refused to any request.
LEMMA ReuseFacts ==
    ASSUME TypeInv, NEW c \in Clients, NEW k \in Keys, NEW x \in Payloads,
           Reuse(c, k, x, Here(c).map[k])
    PROVE  /\ OnlyCall(c)
           /\ \/ Drops(c)
              \/ /\ Here(c).map[k] \in Mapping /\ Here(c).map[k].payload = x
                 /\ call'[c] = [pc |-> "answer", key |-> k, payload |-> x,
                                case |-> Here(c).map[k].case, reused |-> TRUE]
                 /\ out' = out
  <1> DEFINE m == Here(c).map[k]
  <1>1. m \in Mapping \cup {NoMapping}
    BY DEF Here, View, TypeInv, TypeOK
  <1>2. /\ call \in [Clients -> Calls] /\ out \in [Clients -> Outs]
        /\ [kind |-> "refused"] \in Outs /\ [kind |-> "refused"].kind # "answer"
    BY DEF TypeInv, Outs
  <1>3. CASE OtherRequest(m, x)
    <2>1. Returns(c, [kind |-> "refused"])
      BY <1>3 DEF Reuse
    <2> QED BY <1>2, <2>1, ReturnsFacts DEF Drops
  <1>4. CASE ~OtherRequest(m, x)
    <2>1. m.payload = x
      BY <1>4 DEF OtherRequest
    <2>2. m # NoMapping
      BY <2>1, KeysAssumption DEF NoMapping
    <2>3. m \in Mapping /\ m.case \in Cases
      BY <1>1, <2>2 DEF Mapping
    <2>4. /\ call' = [call EXCEPT ![c] = [pc |-> "answer", key |-> k, payload |-> x,
                                          case |-> m.case, reused |-> TRUE]]
          /\ out' = out
      BY <1>4 DEF Reuse
    <2>5. [pc |-> "answer", key |-> k, payload |-> x, case |-> m.case, reused |-> TRUE] \in Calls
      BY <2>3, CasesAssumption DEF Calls, Phases, Cases
    <2> HIDE DEF m
    <2> QED BY <1>2, <2>1, <2>3, <2>4, <2>5 DEF OnlyCall, m
  <1> QED BY <1>3, <1>4

\* Where a call is says what it is about.
LEMMA CallFacts ==
    ASSUME TypeInv, NEW c \in Clients
    PROVE  /\ call \in [Clients -> Calls] /\ out \in [Clients -> Outs] /\ call[c] \in Calls
           /\ ~At(c, "idle") => call[c].key \in Keys /\ call[c].payload \in Payloads
           /\ Working(c) => call[c].case \in 1 .. made /\ call[c].case \in Cases
           /\ ~At(c, "answer") => ~call[c].reused
           /\ Here(c) \in Row /\ db \in Row /\ draft \in Row
           /\ made \in 0 .. MaxCases /\ raced \subseteq Keys /\ broken \subseteq Keys
  <1>1. Here(c) \in Row /\ db \in Row /\ draft \in Row
    BY DEF Here, View, TypeInv, TypeOK, Row
  <1>2. Working(c) => call[c].case \in Cases /\ call[c].case <= made
    BY DEF TypeInv, CallInv, Fits, Working
  <1>3. made \in 0 .. MaxCases /\ raced \subseteq Keys /\ broken \subseteq Keys
    BY DEF TypeInv, TypeOK
  <1> QED BY <1>1, <1>2, <1>3, CasesAssumption DEF TypeInv, CallInv, Fits, At, Cases

\* The record of a call that begins.
LEMMA BeginFacts ==
    ASSUME NEW k, NEW x, NEW q, NEW r,
           r = [pc |-> "idle", key |-> "none", payload |-> "none", case |-> 0, reused |-> FALSE],
           q = [r EXCEPT !.pc = "create", !.key = k, !.payload = x]
    PROVE  q = [pc |-> "create", key |-> k, payload |-> x, case |-> 0, reused |-> FALSE]
  OBVIOUS

\* The request arrives.
LEMMA LookupShape ==
    ASSUME TypeInv, LockInv, NEW c \in Clients, Lookup(c)
    PROVE  Begun(c) \/ Ended(c) \/ Reused(c)
  <1>1. /\ At(c, "idle") /\ UNCHANGED <<made, broken, undone, opened>> /\ ~Working(c)
        /\ broken \subseteq Keys
    BY CallFacts DEF Lookup, At, Working
  <1>2. PICK k \in Keys, x \in Payloads :
         \/ /\ Reads(Home[c])
            /\ IF Unmapped(Here(c), k)
               THEN Begins(c, k, x)
               ELSE Reuse(c, k, x, Here(c).map[k]) /\ UNCHANGED raced
         \/ ReadRefused(Home[c]) /\ Returns(c, Error) /\ UNCHANGED raced
    BY DEF Lookup
  <1>3. Neutral
    BY <1>2, HomeFacts, NeutralFacts
  <1>4. CASE Unmapped(Here(c), k) /\ Begins(c, k, x)
    <2>1. call' = [call EXCEPT ![c] = [pc |-> "create", key |-> k, payload |-> x, case |-> 0,
                                       reused |-> FALSE]]
      <3>1. [NoCall EXCEPT !.pc = "create", !.key = k, !.payload = x]
              = [pc |-> "create", key |-> k, payload |-> x, case |-> 0, reused |-> FALSE]
        BY BeginFacts DEF NoCall
      <3> QED BY <1>4, <3>1 DEF Begins
    <2>2. [pc |-> "create", key |-> k, payload |-> x, case |-> 0, reused |-> FALSE] \in Calls
      BY CasesAssumption DEF Calls, Phases
    <2>3. OnlyCall(c)
      BY <1>4, <2>1, <2>2, CallFacts DEF OnlyCall, Begins
    <2>4. call'[c] = [pc |-> "create", key |-> k, payload |-> x, case |-> 0, reused |-> FALSE]
      BY <2>1, CallFacts
    <2>5. /\ Here(c).map[k] = NoMapping /\ made + Cardinality(Creating) < MaxCases /\ out' = out
          /\ raced' = IF \E d \in Clients : call[d].key = k /\ ~call[d].reused
                      THEN raced \cup {k} ELSE raced
      BY <1>4 DEF Begins, Unmapped, Creating
    <2> QED BY <1>1, <1>3, <2>3, <2>4, <2>5 DEF Begun
  <1>5. CASE Reuse(c, k, x, Here(c).map[k]) /\ UNCHANGED raced
    <2>1. CASE Drops(c)
      BY <1>1, <1>3, <1>5, <2>1, ReuseFacts DEF Ended
    <2>2. CASE ~Drops(c)
      BY <1>1, <1>3, <1>5, <2>2, ReuseFacts DEF Reused, At
    <2> QED BY <2>1, <2>2
  <1>6. CASE Returns(c, Error) /\ UNCHANGED raced
    <2>1. OnlyCall(c) /\ Drops(c)
      BY <1>6, ReturnsFacts, CallFacts, NoCallType DEF Drops
    <2> QED BY <1>1, <1>3, <1>6, <2>1 DEF Ended
  <1> QED BY <1>2, <1>4, <1>5, <1>6

\* A call that raises while the rows stay.
LEMMA RaisesShape ==
    ASSUME TypeInv, NEW c \in Clients, ~At(c, "idle"), Raises(c), Neutral,
           UNCHANGED <<made, raced, undone>>, opened' = opened
    PROVE  Ended(c)
  BY RaisesFacts DEF Ended

\* A case that is created has an id of its own.
LEMMA NextCase ==
    ASSUME TypeInv, NEW c \in Clients, At(c, "create")
    PROVE  made + 1 \in Cases
  <1>1. IsFiniteSet(Creating) /\ c \in Creating
    BY KeysAssumption, FS_Subset DEF Creating
  <1>2. Cardinality(Creating) \in Nat /\ Cardinality(Creating) # 0
    BY <1>1, FS_CardinalityType, FS_EmptySet
  <1> QED BY <1>2, CasesAssumption DEF TypeInv, TypeOK, Cases

\* create is refused, or writes the next case.
LEMMA CreateShape ==
    ASSUME TypeInv, LockInv, NEW c \in Clients, Create(c)
    PROVE  Ended(c) \/ Created(c)
  <1> DEFINE row == [key |-> call[c].key, plan |-> "made"]
  <1>1. /\ At(c, "create") /\ ~At(c, "idle") /\ ~Working(c) /\ Home[c] \in Procs
        /\ UNCHANGED <<raced, undone, opened>>
    BY HomeFacts DEF Create, At, Working
  <1>2. PICK new : /\ new = WithCase(Here(c), made + 1, row)
                   /\ \/ /\ Puts(Home[c], new)
                         /\ made' = made + 1
                         /\ call' = [call EXCEPT ![c].pc = "plan", ![c].case = made + 1]
                         /\ UNCHANGED <<out, broken>>
                      \/ CommitRefused(Home[c], new) /\ made' = made + 1 /\ Raises(c)
                      \/ WriteRefused(Home[c]) /\ Returns(c, Error) /\ UNCHANGED <<made, broken>>
    BY DEF Create
  <1>3. CASE Puts(Home[c], new) /\ made' = made + 1 /\ UNCHANGED <<out, broken>>
             /\ call' = [call EXCEPT ![c].pc = "plan", ![c].case = made + 1]
    <2>1. draft' = WithCase(draft, made + 1, row) /\ db' = draft'
      BY <1>1, <1>2, <1>3, WriteFacts DEF Here
    <2>2. made + 1 \in 0 .. MaxCases
      BY <1>1, NextCase, CasesAssumption DEF Cases
    <2>3. call[c] \in Calls /\ call \in [Clients -> Calls] /\ out \in [Clients -> Outs]
      BY CallFacts
    <2>4. call'[c] = [call[c] EXCEPT !.pc = "plan", !.case = made + 1]
      BY <1>3, <2>3
    <2>5. [call[c] EXCEPT !.pc = "plan", !.case = made + 1] \in Calls
      BY <2>2, <2>3 DEF Calls, Phases
    <2>6. call' = [call EXCEPT ![c] = [call[c] EXCEPT !.pc = "plan", !.case = made + 1]]
      BY <1>3, <2>3
    <2>7. OnlyCall(c)
      BY <1>3, <2>3, <2>5, <2>6 DEF OnlyCall
    <2>8. Continues(c, "plan", made + 1)
      BY <2>3, <2>4 DEF Continues, Calls
    <2> QED BY <1>1, <1>3, <2>1, <2>7, <2>8 DEF Created, Wrote
  <1>4. CASE CommitRefused(Home[c], new) /\ made' = made + 1 /\ Raises(c)
    <2>1. draft' = WithCase(draft, made + 1, row) /\ db' = db
      BY <1>1, <1>2, <1>4, WriteFacts DEF Here
    <2>2. OnlyCall(c) /\ Drops(c) /\ broken' = broken \cup {call[c].key}
      BY <1>1, <1>4, RaisesFacts
    <2> QED BY <1>1, <1>4, <2>1, <2>2 DEF Created, Wrote
  <1>5. CASE WriteRefused(Home[c]) /\ Returns(c, Error) /\ UNCHANGED <<made, broken>>
    <2>1. OnlyCall(c) /\ Drops(c)
      BY <1>5, ReturnsFacts, CallFacts, NoCallType DEF Drops
    <2> QED BY <1>1, <1>5, <2>1, NeutralFacts, CallFacts DEF Ended
  <1> QED BY <1>2, <1>3, <1>4, <1>5

\* The plan is refused, or written into the row of the case.
LEMMA PlanShape ==
    ASSUME TypeInv, LockInv, NEW c \in Clients, Plan(c)
    PROVE  Ended(c) \/ Planned(c)
  <1> DEFINE New(v, p) == WithCase(v, call[c].case, [key |-> call[c].key, plan |-> p])
  <1>1. /\ At(c, "plan") /\ ~At(c, "idle") /\ Working(c) /\ Home[c] \in Procs
        /\ UNCHANGED <<made, raced, undone, opened>>
    BY HomeFacts DEF Plan, At, Working
  <1>2. PICK p \in {"offered", "dead_letter"} :
          \/ Puts(Home[c], New(Here(c), p)) /\ Goes(c, "map") /\ UNCHANGED <<out, broken>>
          \/ PutRefused(Home[c], New(Here(c), p)) /\ Raises(c)
    BY DEF Plan
  <1>3. CASE Puts(Home[c], New(Here(c), p)) /\ Goes(c, "map") /\ UNCHANGED <<out, broken>>
    <2>1. draft' = New(draft, p) /\ db' = draft'
      BY <1>1, <1>2, <1>3, WriteFacts DEF Here
    <2>2. OnlyCall(c) /\ Continues(c, "map", call[c].case)
      BY <1>3, GoesFacts, CallFacts DEF Phases
    <2> QED BY <1>1, <1>3, <2>1, <2>2 DEF Planned, Wrote
  <1>4. CASE CommitRefused(Home[c], New(Here(c), p)) /\ Raises(c)
    <2>1. draft' = New(draft, p) /\ db' = db
      BY <1>1, <1>2, <1>4, WriteFacts DEF Here
    <2>2. OnlyCall(c) /\ Drops(c) /\ broken' = broken \cup {call[c].key}
      BY <1>1, <1>4, RaisesFacts
    <2> QED BY <1>1, <2>1, <2>2 DEF Planned, Wrote
  <1>5. CASE WriteRefused(Home[c]) /\ Raises(c)
    BY <1>1, <1>5, NeutralFacts, RaisesShape
  <1> QED BY <1>2, <1>3, <1>4, <1>5 DEF PutRefused

\* The mapping is refused, or written, or another one is already there.
LEMMA MapShape ==
    ASSUME TypeInv, LockInv, NEW c \in Clients, Map(c)
    PROVE  Ended(c) \/ Mapped(c) \/ Moved(c)
  <1> DEFINE k == call[c].key
             m == [payload |-> call[c].payload, case |-> call[c].case]
  <1>1. /\ At(c, "map") /\ ~At(c, "idle") /\ Working(c) /\ Home[c] \in Procs
        /\ UNCHANGED <<made, raced, undone, opened>>
    BY HomeFacts DEF Map, At, Working
  <1>2. PICK new :
          /\ new = WithMap(Here(c), k, m)
          /\ IF Here(c).map[k] = NoMapping
             THEN \/ Puts(Home[c], new) /\ Goes(c, "event") /\ UNCHANGED <<out, broken>>
                  \/ PutRefused(Home[c], new) /\ Raises(c)
             ELSE \/ Executes(Home[c], Here(c)) /\ Goes(c, "lost") /\ UNCHANGED <<out, broken>>
                  \/ WriteRefused(Home[c]) /\ Raises(c)
    BY DEF Map, WithMap
  <1>3. CASE /\ Here(c).map[k] = NoMapping
             /\ Puts(Home[c], new) /\ Goes(c, "event") /\ UNCHANGED <<out, broken>>
    <2>1. draft' = WithMap(draft, k, m) /\ db' = draft' /\ draft.map[k] = NoMapping
      BY <1>1, <1>2, <1>3, WriteFacts DEF Here
    <2>2. OnlyCall(c) /\ Continues(c, "event", call[c].case)
      BY <1>3, GoesFacts, CallFacts DEF Phases
    <2> QED BY <1>1, <1>3, <2>1, <2>2 DEF Mapped, Wrote
  <1>4. CASE Here(c).map[k] = NoMapping /\ CommitRefused(Home[c], new) /\ Raises(c)
    <2>1. draft' = WithMap(draft, k, m) /\ db' = db /\ draft.map[k] = NoMapping
      BY <1>1, <1>2, <1>4, WriteFacts DEF Here
    <2>2. OnlyCall(c) /\ Drops(c) /\ broken' = broken \cup {call[c].key}
      BY <1>1, <1>4, RaisesFacts
    <2> QED BY <1>1, <2>1, <2>2 DEF Mapped, Wrote
  <1>5. CASE WriteRefused(Home[c]) /\ Raises(c)
    BY <1>1, <1>5, NeutralFacts, RaisesShape
  <1>6. CASE /\ Here(c).map[k] # NoMapping
             /\ Executes(Home[c], Here(c)) /\ Goes(c, "lost") /\ UNCHANGED <<out, broken>>
    <2>1. OnlyCall(c) /\ Continues(c, "lost", call[c].case)
      BY <1>6, GoesFacts, CallFacts DEF Phases
    <2>2. Neutral
      BY <1>1, <1>6, NeutralFacts DEF Here
    <2> QED BY <1>1, <1>6, <2>1, <2>2 DEF Moved
  <1> QED BY <1>2, <1>3, <1>4, <1>5, <1>6 DEF PutRefused

\* The steps of a call that write nothing new.
LEMMA OtherShapes ==
    ASSUME TypeInv, LockInv, NEW c \in Clients,
           \/ IdTaken(c) \/ PlannerRaises(c) \/ EventRefused(c) \/ MapLost(c)
           \/ Announce(c) \/ Answer(c) \/ ReadRaises(c)
    PROVE  Ended(c) \/ Reused(c) \/ Moved(c) \/ Answered(c)
  <1>1. Home[c] \in Procs
    BY HomeFacts
  <1>2. CASE IdTaken(c)
    <2>1. OnlyCall(c) /\ Drops(c)
      BY <1>2, ReturnsFacts, CallFacts, NoCallType DEF IdTaken, Drops
    <2>2. Neutral
      BY <1>1, <1>2, NeutralFacts DEF IdTaken, Here
    <2>3. /\ ~Working(c) /\ opened' = TRUE /\ UNCHANGED <<made, raced, broken, undone>>
          /\ broken \subseteq Keys
      BY <1>2, CallFacts DEF IdTaken, Working, At
    <2> QED BY <2>1, <2>2, <2>3 DEF Ended
  <1>3. CASE PlannerRaises(c)
    BY <1>3, RaisesShape DEF PlannerRaises, Neutral, dbVars, At
  <1>4. CASE EventRefused(c)
    <2>1. Neutral
      BY <1>1, <1>4, NeutralFacts DEF EventRefused, Here
    <2> QED BY <1>4, <2>1, RaisesShape DEF EventRefused, At
  <1>5. CASE MapLost(c)
    <2>1. /\ At(c, "lost") /\ Neutral /\ ~Working(c) /\ call[c].key \in Keys
          /\ call[c].payload \in Payloads /\ broken \subseteq Keys
      BY <1>1, <1>5, NeutralFacts, CallFacts DEF MapLost, Working, At
    <2>2. /\ Reuse(c, call[c].key, call[c].payload, Here(c).map[call[c].key])
          /\ UNCHANGED <<made, raced, broken, undone, opened>>
      BY <1>5 DEF MapLost
    <2>3. CASE Drops(c)
      BY <2>1, <2>2, <2>3, ReuseFacts DEF Ended
    <2>4. CASE ~Drops(c)
      <3>1. /\ OnlyCall(c) /\ out' = out
            /\ Here(c).map[call[c].key] \in Mapping
            /\ Here(c).map[call[c].key].payload = call[c].payload
            /\ call'[c] = [pc |-> "answer", key |-> call[c].key, payload |-> call[c].payload,
                           case |-> Here(c).map[call[c].key].case, reused |-> TRUE]
        BY <2>1, <2>2, <2>4, ReuseFacts
      <3>2. Reused(c)
        BY <2>1, <2>2, <3>1 DEF Reused, At
      <3> QED BY <3>2
    <2> QED BY <2>3, <2>4
  <1>6. CASE Announce(c)
    <2>1. Neutral
      BY <1>1, <1>6, NeutralFacts DEF Announce, Here
    <2>2. OnlyCall(c) /\ Continues(c, "answer", call[c].case)
      BY <1>6, GoesFacts, CallFacts DEF Announce, Phases
    <2>3. At(c, "event") /\ UNCHANGED <<out, made, raced, broken, undone, opened>>
      BY <1>6 DEF Announce
    <2> QED BY <2>1, <2>2, <2>3 DEF Moved
  <1>7. CASE Answer(c)
    <2> DEFINE a == [kind |-> "answer", key |-> call[c].key, payload |-> call[c].payload,
                     case |-> call[c].case]
    <2>1. Neutral
      BY <1>1, <1>7, NeutralFacts DEF Answer
    <2>2. call[c].key \in Keys /\ call[c].payload \in Payloads /\ call[c].case \in Cases
      BY <1>7 DEF Answer, At, TypeInv, CallInv, Fits
    <2>3. a \in Outs
      BY <2>2 DEF Outs, Answers
    <2>4. OnlyCall(c) /\ call'[c] = NoCall /\ out'[c] = a
      BY <1>7, <2>3, ReturnsFacts, CallFacts DEF Answer
    <2> QED BY <1>7, <2>1, <2>4 DEF Answer, Answered
  <1>8. CASE ReadRaises(c)
    <2>1. Neutral
      BY <1>1, <1>8, NeutralFacts DEF ReadRaises
    <2> QED BY <1>8, <2>1, RaisesShape DEF ReadRaises, At
  <1> QED BY <1>2, <1>3, <1>4, <1>5, <1>6, <1>7, <1>8

\* Each step has one of the shapes.
LEMMA StepShapes ==
    ASSUME TypeInv, LockInv, [Next]_vars
    PROVE  Shape
  <1>1. ASSUME NEW c \in Clients, Lookup(c) \/ Propose(c) PROVE ClientShape(c)
    BY <1>1, LookupShape, CreateShape, PlanShape, MapShape, OtherShapes DEF Propose, ClientShape
  <1>2. CASE ApiHandler \/ ApiPut \/ ApiRead \/ ApiDies
    <2>1. Api \in Procs
      BY HomeAssumption
    <2>2. ApiDies => Neutral
      <3>1. Holds(Api) => draft = db
        BY HomeAssumption DEF LockInv
      <3> QED BY <3>1 DEF ApiDies, Dies, Neutral
    <2>3. ~ApiDies => Neutral
      BY <1>2, <2>1, NeutralFacts DEF ApiHandler, ApiPut, ApiRead
    <2> QED BY <1>2, <2>2, <2>3 DEF ApiHandler, ApiPut, ApiRead, ApiDies, Outside, Shape
  <1>3. CASE UNCHANGED vars
    BY <1>3 DEF vars, dbVars, Outside, Neutral, Shape
  <1> QED BY <1>1, <1>2, <1>3 DEF Next, Shape

-----------------------------------------------------------------------------
(* The locks.                                                              *)

\* A step of one connection leaves at most one with uncommitted rows, a server's if they
\* are rows of cases.
LEMMA LockFacts ==
    ASSUME LockInv, lock \in [Procs -> Locks], NEW p \in Procs, NEW new, p = Api => new = View(p),
           \/ Reads(p) \/ ReadRefused(p) \/ WriteRefused(p) \/ Executes(p, new) \/ Puts(p, new)
           \/ CommitRefused(p, new) \/ Dies(p) \/ UNCHANGED dbVars
    PROVE  LockInv' /\ lock' \in [Procs -> Locks]
  <1>1. p = Api \/ p \in Servers
    BY HomeAssumption
  <1>2. Writable(p) => View(p) = draft
    BY WritesGoOn
  <1>3. CASE Reads(p) \/ ReadRefused(p) \/ WriteRefused(p) \/ UNCHANGED dbVars
    <2>1. db' = db /\ draft' = draft /\ lock' \in [Procs -> Locks]
      BY <1>3 DEF Reads, ReadRefused, WriteRefused, dbVars, Locks
    <2>2. \A q \in Procs : Holds(q)' <=> Holds(q)
      BY <1>3 DEF Reads, ReadRefused, WriteRefused, dbVars, Holds
    <2> QED BY <2>1, <2>2, HomeAssumption DEF LockInv
  <1>4. CASE Executes(p, new) \/ CommitRefused(p, new)
    <2>1. /\ Writable(p) /\ db' = db /\ draft' = new /\ lock' \in [Procs -> Locks]
          /\ lock'[p] \in {"reserved", "pending"} /\ \A q \in Others(p) : lock'[q] = lock[q]
      BY <1>4 DEF Executes, CommitRefused, Locks, Others
    <2>2. Holds(p)' /\ \A q \in Procs : Holds(q)' => q = p
      BY <2>1 DEF Holds, Writable, Others
    <2>3. p = Api => draft = db
      BY <2>1, HomeAssumption DEF LockInv, Writable, Others
    <2>4. draft' # db' => p \in Servers
      BY <1>1, <1>2, <2>1, <2>3
    <2> QED BY <2>1, <2>2, <2>4 DEF LockInv
  <1>5. CASE Puts(p, new)
    <2>1. /\ Writable(p) /\ db' = new /\ draft' = new /\ lock' \in [Procs -> Locks]
          /\ lock'[p] = "none" /\ \A q \in Others(p) : lock'[q] = lock[q]
      BY <1>5 DEF Puts, Locks, Others
    <2>2. \A q \in Procs : ~Holds(q)'
      BY <2>1 DEF Holds, Writable, Others
    <2> QED BY <2>1, <2>2 DEF LockInv
  <1>6. CASE Dies(p)
    <2>1. /\ db' = db /\ draft' = (IF Holds(p) THEN db ELSE draft) /\ lock' \in [Procs -> Locks]
          /\ lock'[p] = "none" /\ \A q \in Procs \ {p} : lock'[q] = lock[q]
      BY <1>6 DEF Dies, Locks
    <2>2. \A q \in Procs : Holds(q)' <=> Holds(q) /\ q # p
      BY <2>1 DEF Holds
    <2>3. draft' # db' => \E q \in Servers : Holds(q) /\ q # p
      BY <2>1 DEF LockInv
    <2> QED BY <2>1, <2>2, <2>3, HomeAssumption DEF LockInv
  <1> QED BY <1>3, <1>4, <1>5, <1>6

\* The invariant of the locks.
LEMMA LockStep ==
    ASSUME LockInv, lock \in [Procs -> Locks], [Next]_vars
    PROVE  LockInv' /\ lock' \in [Procs -> Locks]
  <1>1. ASSUME NEW c \in Clients, Lookup(c) \/ Propose(c) PROVE LockInv' /\ lock' \in [Procs -> Locks]
    <2>1. Home[c] \in Procs /\ Home[c] # Api
      BY HomeFacts
    <2>2. \/ Reads(Home[c]) \/ ReadRefused(Home[c]) \/ WriteRefused(Home[c]) \/ UNCHANGED dbVars
          \/ \E new : Executes(Home[c], new) \/ Puts(Home[c], new) \/ CommitRefused(Home[c], new)
      BY <1>1 DEF Lookup, Propose, Create, IdTaken, Plan, PlannerRaises, EventRefused, Map, MapLost,
                  Announce, Answer, ReadRaises, PutRefused
    <2> QED BY <2>1, <2>2, LockFacts
  <1>2. ASSUME NEW p \in Servers, ServerDies(p) PROVE LockInv' /\ lock' \in [Procs -> Locks]
    <2>1. p \in Procs /\ p # Api /\ Dies(p)
      BY <1>2, HomeAssumption DEF ServerDies
    <2> QED BY <2>1, LockFacts
  <1>3. CASE ApiHandler \/ ApiPut \/ ApiRead \/ ApiDies
    <2>1. Api \in Procs
      BY HomeAssumption
    <2> QED BY <1>3, <2>1, LockFacts DEF ApiHandler, ApiPut, ApiRead, ApiDies, PutRefused
  <1>4. CASE UNCHANGED vars
    <2>1. UNCHANGED dbVars /\ Api \in Procs
      BY <1>4, HomeAssumption DEF vars
    <2> QED BY <2>1, LockFacts
  <1> QED BY <1>1, <1>2, <1>3, <1>4 DEF Next

-----------------------------------------------------------------------------
(* Types.                                                                  *)

\* Whatever a step leaves in the database is rows.
LEMMA RowsTyped ==
    ASSUME TypeInv, Shape
    PROVE  db' \in Row /\ draft' \in Row
  <1>1. db \in Row /\ draft \in Row
    BY DEF TypeInv, TypeOK, Row
  <1>2. CASE Outside
    BY <1>1, <1>2 DEF Outside, Neutral
  <1>3. ASSUME NEW p \in Servers, ServerDies(p) PROVE db' \in Row /\ draft' \in Row
    BY <1>1, <1>3 DEF ServerDies, Dies
  <1>4. ASSUME NEW c \in Clients, ClientShape(c) PROVE db' \in Row /\ draft' \in Row
    <2>1. CASE Begun(c) \/ Ended(c) \/ Reused(c) \/ Moved(c) \/ Answered(c)
      BY <1>1, <2>1 DEF Begun, Ended, Reused, Moved, Answered, Neutral
    <2>2. CASE Created(c)
      <3>1. made + 1 \in Cases /\ [key |-> call[c].key, plan |-> "made"] \in CaseRow
        BY <2>2, NextCase, CallFacts DEF Created, At, CaseRow
      <3> QED BY <1>1, <2>2, <3>1, WithCaseFacts DEF Created, Wrote
    <2>3. CASE Planned(c)
      <3>1. PICK p \in {"offered", "dead_letter"} :
              Wrote(c, WithCase(draft, call[c].case, [key |-> call[c].key, plan |-> p]), "map", call[c].case)
        BY <2>3 DEF Planned
      <3>2. call[c].case \in Cases /\ [key |-> call[c].key, plan |-> p] \in CaseRow
        BY <2>3, CallFacts DEF Planned, At, Working, CaseRow
      <3> QED BY <1>1, <3>1, <3>2, WithCaseFacts DEF Wrote
    <2>4. CASE Mapped(c)
      <3>1. call[c].key \in Keys /\ [payload |-> call[c].payload, case |-> call[c].case] \in Mapping
        BY <2>4, CallFacts DEF Mapped, At, Working, Mapping
      <3> QED BY <1>1, <2>4, <3>1, WithMapFacts DEF Mapped, Wrote
    <2> QED BY <1>4, <2>1, <2>2, <2>3, <2>4 DEF ClientShape
  <1> QED BY <1>2, <1>3, <1>4 DEF Shape

\* Whatever a step makes of a call is a call, with the request it needs.
LEMMA CallsTyped ==
    ASSUME TypeInv, Shape
    PROVE  call' \in [Clients -> Calls] /\ out' \in [Clients -> Outs] /\ CallInv'
  <1>1. /\ call \in [Clients -> Calls] /\ out \in [Clients -> Outs] /\ CallInv /\ made \in Nat
        /\ Fits(NoCall, made) /\ Fits(NoCall, made + 1)
    BY CasesAssumption DEF TypeInv, TypeOK, Fits, NoCall
  <1>2. CASE Outside
    BY <1>1, <1>2 DEF Outside, mcp, CallInv
  <1>3. ASSUME NEW p \in Servers, ServerDies(p)
        PROVE  call' \in [Clients -> Calls] /\ out' \in [Clients -> Outs] /\ CallInv'
    <2>1. /\ call' = [c \in Clients |-> IF c \in CallsOf(p) THEN NoCall ELSE call[c]]
          /\ out' = [c \in Clients |-> IF c \in CallsOf(p) THEN Error ELSE out[c]] /\ made' = made
      BY <1>3 DEF ServerDies
    <2>2. call' \in [Clients -> Calls] /\ out' \in [Clients -> Outs]
      BY <1>1, <2>1, NoCallType
    <2> QED BY <1>1, <2>1, <2>2 DEF CallInv
  <1>4. ASSUME NEW c \in Clients, ClientShape(c)
        PROVE  call' \in [Clients -> Calls] /\ out' \in [Clients -> Outs] /\ CallInv'
    <2>1. OnlyCall(c) /\ made' \in {made, made + 1}
      BY <1>4 DEF ClientShape, Begun, Ended, Reused, Moved, Answered, Created, Planned, Mapped, Wrote
    <2>2. \A d \in Clients \ {c} : Fits(call'[d], made')
      BY <1>1, <2>1, CasesAssumption DEF OnlyCall, CallInv, Fits, Calls
    <2>3. Fits(call'[c], made')
      <3>1. CASE Drops(c)
        BY <1>1, <2>1, <3>1 DEF Drops
      <3>2. CASE Begun(c)
        <4>1. PICK k \in Keys, x \in Payloads :
                call'[c] = [pc |-> "create", key |-> k, payload |-> x, case |-> 0, reused |-> FALSE]
          BY <3>2 DEF Begun
        <4> QED BY <4>1 DEF Fits
      <3>3. CASE Reused(c)
        <4>1. PICK k \in Keys, x \in Payloads :
                /\ Here(c).map[k] \in Mapping
                /\ call'[c] = [pc |-> "answer", key |-> k, payload |-> x,
                               case |-> Here(c).map[k].case, reused |-> TRUE]
          BY <3>3 DEF Reused
        <4> QED BY <4>1 DEF Fits, Mapping
      <3>4. CASE Answered(c)
        BY <1>1, <2>1, <3>4 DEF Answered
      <3>5. CASE Moved(c)
        BY <1>1, <3>5 DEF Moved, Continues, CallInv, Fits, At
      <3>6. CASE Created(c) /\ ~Drops(c)
        <4>1. made + 1 \in Cases /\ made' = made + 1 /\ Continues(c, "plan", made + 1) /\ At(c, "create")
          BY <3>6, NextCase DEF Created, Wrote
        <4> QED BY <1>1, <4>1 DEF Continues, CallInv, Fits, At
      <3>7. CASE Planned(c) /\ ~Drops(c)
        <4>1. made' = made /\ Continues(c, "map", call[c].case) /\ At(c, "plan")
          BY <3>7 DEF Planned, Wrote
        <4> QED BY <1>1, <4>1 DEF Continues, CallInv, Fits, At
      <3>8. CASE Mapped(c) /\ ~Drops(c)
        <4>1. made' = made /\ Continues(c, "event", call[c].case) /\ At(c, "map")
          BY <3>8 DEF Mapped, Wrote
        <4> QED BY <1>1, <4>1 DEF Continues, CallInv, Fits, At
      <3> QED BY <1>4, <3>1, <3>2, <3>3, <3>4, <3>5, <3>6, <3>7, <3>8 DEF ClientShape, Ended
    <2> QED BY <2>1, <2>2, <2>3 DEF OnlyCall, CallInv
  <1> QED BY <1>2, <1>3, <1>4 DEF Shape

\* Fewer calls that have yet to create their case, or one less and a case more.
LEMMA CreatingFacts ==
    ASSUME NEW S, S \subseteq Clients, made \in Nat, TypeInv
    PROVE  /\ S \subseteq Creating => made + Cardinality(S) <= MaxCases
           /\ \A c \in Clients : S \subseteq Creating \cup {c} /\ made + Cardinality(Creating) < MaxCases
                                   => made + Cardinality(S) <= MaxCases
           /\ \A c \in Creating : S \subseteq Creating \ {c} => made + 1 + Cardinality(S) <= MaxCases
  <1>1. IsFiniteSet(Creating) /\ Cardinality(Creating) \in Nat /\ IsFiniteSet(S) /\ Cardinality(S) \in Nat
    BY KeysAssumption, FS_Subset, FS_CardinalityType DEF Creating
  <1>2. made + Cardinality(Creating) <= MaxCases
    BY DEF TypeInv
  <1>3. ASSUME S \subseteq Creating PROVE made + Cardinality(S) <= MaxCases
    <2>1. Cardinality(S) <= Cardinality(Creating)
      BY <1>1, <1>3, FS_Subset
    <2> QED BY <1>1, <1>2, <2>1, CasesAssumption
  <1>4. ASSUME NEW c \in Clients, S \subseteq Creating \cup {c}, made + Cardinality(Creating) < MaxCases
        PROVE  made + Cardinality(S) <= MaxCases
    <2>1. /\ IsFiniteSet(Creating \cup {c})
          /\ Cardinality(Creating \cup {c}) \in {Cardinality(Creating), Cardinality(Creating) + 1}
      BY <1>1, FS_AddElement
    <2>2. Cardinality(S) <= Cardinality(Creating \cup {c})
      BY <1>4, <2>1, FS_Subset
    <2> QED BY <1>1, <1>4, <2>1, <2>2, CasesAssumption
  <1>5. ASSUME NEW c \in Creating, S \subseteq Creating \ {c}
        PROVE  made + 1 + Cardinality(S) <= MaxCases
    <2>1. IsFiniteSet(Creating \ {c}) /\ Cardinality(Creating \ {c}) = Cardinality(Creating) - 1
      BY <1>1, FS_RemoveElement
    <2>2. Cardinality(S) <= Cardinality(Creating \ {c})
      BY <1>5, <2>1, FS_Subset
    <2> QED BY <1>1, <1>2, <2>1, <2>2, CasesAssumption
  <1> QED BY <1>3, <1>4, <1>5

\* Each call that has yet to create its case has an id left for it.
LEMMA BoundStep ==
    ASSUME TypeInv, Shape
    PROVE  made' \in 0 .. MaxCases /\ made' + Cardinality(Creating') <= MaxCases
  <1> DEFINE S == {c \in Clients : call'[c].pc = "create"}
  <1>1. /\ Creating' = S /\ S \subseteq Clients /\ made \in 0 .. MaxCases /\ made \in Nat
        /\ Creating = {c \in Clients : call[c].pc = "create"}
    BY CasesAssumption DEF Creating, At, TypeInv, TypeOK
  <1>2. CASE made' = made /\ S \subseteq Creating
    BY <1>1, <1>2, CreatingFacts
  <1>3. CASE Outside
    BY <1>1, <1>2, <1>3 DEF Outside, mcp
  <1>4. ASSUME NEW p \in Servers, ServerDies(p) PROVE made' = made /\ S \subseteq Creating
    BY <1>1, <1>4 DEF ServerDies, NoCall
  <1>5. ASSUME NEW c \in Clients, ClientShape(c)
        PROVE  \/ made' = made /\ S \subseteq Creating
               \/ made' = made /\ S \subseteq Creating \cup {c} /\ made + Cardinality(Creating) < MaxCases
               \/ made' = made + 1 /\ c \in Creating /\ S \subseteq Creating \ {c}
    <2>1. OnlyCall(c) /\ NoCall.pc = "idle"
      BY <1>5 DEF ClientShape, Begun, Ended, Reused, Moved, Answered, Created, Planned, Mapped, Wrote, NoCall
    <2>2. CASE Begun(c)
      BY <1>1, <2>1, <2>2 DEF Begun, OnlyCall
    <2>3. CASE Ended(c) \/ Reused(c) \/ Moved(c) \/ Answered(c) \/ Planned(c) \/ Mapped(c)
      <3>1. call'[c].pc # "create" /\ made' = made
        <4>1. Reused(c) => call'[c].pc = "answer" /\ made' = made
          BY DEF Reused
        <4>2. Moved(c) => call'[c].pc \in {"lost", "answer"} /\ made' = made
          BY DEF Moved, Continues
        <4>3. Planned(c) \/ Mapped(c) => call'[c].pc \in {"map", "event", "idle"} /\ made' = made
          BY <2>1 DEF Planned, Mapped, Wrote, Drops, Continues
        <4>4. Ended(c) \/ Answered(c) => call'[c].pc = "idle" /\ made' = made
          BY <2>1 DEF Ended, Answered, Drops
        <4> QED BY <2>3, <4>1, <4>2, <4>3, <4>4
      <3> QED BY <1>1, <2>1, <3>1 DEF OnlyCall
    <2>4. CASE Created(c)
      <3>1. call'[c].pc # "create" /\ made' = made + 1 /\ c \in Creating
        BY <1>1, <2>1, <2>4 DEF Created, Wrote, Drops, Continues, At
      <3> QED BY <1>1, <2>1, <3>1 DEF OnlyCall
    <2> QED BY <1>5, <2>2, <2>3, <2>4 DEF ClientShape
  <1>6. ASSUME NEW c \in Clients, made' = made, S \subseteq Creating \cup {c},
               made + Cardinality(Creating) < MaxCases
        PROVE  made' + Cardinality(S) <= MaxCases
    BY <1>1, <1>6, CreatingFacts
  <1>7. ASSUME NEW c \in Creating, made' = made + 1, S \subseteq Creating \ {c}
        PROVE  made' + Cardinality(S) <= MaxCases /\ made' \in 0 .. MaxCases
    <2>1. made + 1 \in Cases
      BY <1>7, NextCase DEF Creating
    <2>2. made + 1 + Cardinality(S) <= MaxCases
      BY <1>1, <1>7, CreatingFacts
    <2> QED BY <1>7, <2>1, <2>2, CasesAssumption DEF Cases
  <1> HIDE DEF S
  <1> QED BY <1>1, <1>2, <1>3, <1>4, <1>5, <1>6, <1>7 DEF Shape

\* Types are kept.
LEMMA TypeStep ==
    ASSUME TypeInv, LockInv, [Next]_vars
    PROVE  TypeInv'
  <1>1. Shape /\ lock' \in [Procs -> Locks]
    BY StepShapes, LockStep DEF TypeInv, TypeOK
  <1>2. raced' \subseteq Keys /\ broken' \subseteq Keys /\ undone' \in BOOLEAN /\ opened' \in BOOLEAN
    <2>1. raced \subseteq Keys /\ broken \subseteq Keys /\ undone \in BOOLEAN /\ opened \in BOOLEAN
      BY DEF TypeInv, TypeOK
    <2>2. CASE Outside
      BY <2>1, <2>2 DEF Outside, mcp
    <2>3. ASSUME NEW p \in Servers, ServerDies(p)
          PROVE raced' \subseteq Keys /\ broken' \subseteq Keys /\ undone' \in BOOLEAN /\ opened' \in BOOLEAN
      <3>1. \A d \in CallsOf(p) : call[d].key \in Keys
        BY DEF TypeInv, CallInv, Fits, CallsOf, At
      <3> QED BY <2>1, <2>3, <3>1 DEF ServerDies
    <2>4. ASSUME NEW c \in Clients, ClientShape(c)
          PROVE raced' \subseteq Keys /\ broken' \subseteq Keys /\ undone' \in BOOLEAN /\ opened' \in BOOLEAN
      <3>1. ~At(c, "idle") => call[c].key \in Keys
        BY CallFacts
      <3>2. CASE Begun(c)
        BY <2>1, <3>2 DEF Begun
      <3>3. CASE Ended(c) \/ Reused(c) \/ Moved(c) \/ Answered(c)
        BY <2>1, <3>3 DEF Ended, Reused, Moved, Answered
      <3>4. CASE Created(c) \/ Planned(c) \/ Mapped(c)
        BY <2>1, <3>1, <3>4 DEF Created, Planned, Mapped, Wrote, At
      <3> QED BY <2>4, <3>2, <3>3, <3>4 DEF ClientShape
    <2> QED BY <1>1, <2>2, <2>3, <2>4 DEF Shape
  <1>3. TypeOK'
    BY <1>1, <1>2, RowsTyped, BoundStep DEF TypeOK, Row
  <1> QED BY <1>1, <1>3, CallsTyped, BoundStep DEF TypeInv

-----------------------------------------------------------------------------
(* The rows.                                                               *)

\* What the calls under way are about does not change when calls end or begin.
LEMMA SoundStays ==
    ASSUME NEW v, NEW n \in Nat, NEW f, NEW n2 \in Nat, NEW f2, Sound(v, n, f), n <= n2,
           \A c \in Clients : f2[c].pc \in {"plan", "map"} => f2[c] = f[c]
    PROVE  Sound(v, n2, f2)
  BY CasesAssumption DEF Sound, Cases

\* Mapped cases stay planned, under their keys.
LEMMA RowsStep ==
    ASSUME TypeInv, RowsInv, Shape
    PROVE  RowsInv'
  <1>1. /\ db \in Row /\ draft \in Row /\ made \in Nat /\ made + 1 \in Nat /\ NoCall.pc = "idle"
        /\ Sound(db, made, call) /\ Sound(draft, made, call)
    BY CasesAssumption DEF TypeInv, TypeOK, Row, RowsInv, NoCall
  <1>2. ASSUME db' \in {db, draft}, draft' \in {db, draft}, made' = made,
               \A c \in Clients : call'[c].pc \in {"plan", "map"} => call'[c] = call[c]
        PROVE  RowsInv'
    BY <1>1, <1>2, SoundStays DEF RowsInv
  <1>3. CASE Outside
    BY <1>2, <1>3 DEF Outside, Neutral, mcp
  <1>4. ASSUME NEW p \in Servers, ServerDies(p) PROVE RowsInv'
    <2>1. db' = db /\ draft' \in {db, draft} /\ made' = made
      BY <1>4 DEF ServerDies, Dies
    <2>2. \A c \in Clients : call'[c].pc \in {"plan", "map"} => call'[c] = call[c]
      BY <1>1, <1>4 DEF ServerDies
    <2> QED BY <1>2, <2>1, <2>2
  <1>5. ASSUME NEW c \in Clients, ClientShape(c) PROVE RowsInv'
    <2>1. CASE Begun(c) \/ Ended(c) \/ Reused(c) \/ Moved(c) \/ Answered(c)
      <3>1. Neutral /\ made' = made /\ OnlyCall(c)
        BY <2>1 DEF Begun, Ended, Reused, Moved, Answered
      <3>2. call'[c].pc \notin {"plan", "map"}
        <4>1. Begun(c) => call'[c].pc = "create"
          BY DEF Begun
        <4>2. Reused(c) => call'[c].pc = "answer"
          BY DEF Reused
        <4>3. Moved(c) => call'[c].pc \in {"lost", "answer"}
          BY DEF Moved, Continues
        <4>4. Ended(c) \/ Answered(c) => call'[c].pc = "idle"
          BY <1>1 DEF Ended, Answered, Drops
        <4> QED BY <2>1, <4>1, <4>2, <4>3, <4>4
      <3> QED BY <1>2, <3>1, <3>2 DEF Neutral, OnlyCall
    <2>2. CASE Created(c)
      <3> DEFINE r == [key |-> call[c].key, plan |-> "made"]
                 new == WithCase(draft, made + 1, r)
      <3>1. /\ At(c, "create") /\ made' = made + 1 /\ Wrote(c, new, "plan", made + 1)
            /\ made + 1 \in Cases /\ r \in CaseRow
        BY <2>2, NextCase, CallFacts DEF Created, At, CaseRow
      <3>2. /\ new.map = draft.map /\ new.case[made + 1] = r
            /\ \A u \in Cases : u # made + 1 => new.case[u] = draft.case[u]
        BY <1>1, <3>1, WithCaseFacts
      <3>3. draft' = new /\ (db' = new \/ (db' = db /\ call'[c] = NoCall)) /\ OnlyCall(c)
            /\ (call'[c] = NoCall \/ Continues(c, "plan", made + 1))
        BY <3>1 DEF Wrote, Drops
      <3> HIDE DEF new
      <3>4. \A k \in Keys : draft.map[k] # NoMapping =>
              draft.map[k].case \in Cases /\ draft.map[k].case # made + 1
        <4>1. draft.case[made + 1] = Absent /\ Absent.plan = "none"
          BY <1>1, <3>1 DEF Sound, Absent
        <4>2. \A k \in Keys : draft.map[k] # NoMapping => draft.map[k].case \in Cases
          BY <1>1 DEF Row, Mapping
        <4> QED BY <1>1, <4>1, <4>2 DEF Sound
      <3>5. \A d \in Clients \ {c} : call'[d] = call[d] /\
              (call[d].pc \in {"plan", "map"} => call[d].case \in Cases /\ call[d].case # made + 1)
        BY <1>1, <3>3, CallFacts DEF OnlyCall, Working
      <3>6. Sound(new, made + 1, call')
        <4>1. \A t \in Cases : t > made + 1 => new.case[t] = Absent
          BY <1>1, <3>2, CasesAssumption DEF Sound, Cases
        <4>2. \A k \in Keys : new.map[k] # NoMapping =>
                /\ new.case[new.map[k].case].key = k
                /\ new.case[new.map[k].case].plan \in {"offered", "dead_letter"}
          BY <1>1, <3>2, <3>4 DEF Sound
        <4>3. ASSUME NEW d \in Clients, call'[d].pc \in {"plan", "map"}
              PROVE  /\ new.case[call'[d].case].key = call'[d].key
                     /\ call'[d].pc = "map" => new.case[call'[d].case].plan \in {"offered", "dead_letter"}
          <5>1. CASE d = c
            BY <1>1, <3>2, <3>3, <4>3, <5>1 DEF Continues
          <5>2. CASE d # c
            BY <1>1, <3>2, <3>5, <4>3, <5>2 DEF Sound
          <5> QED BY <5>1, <5>2
        <4> QED BY <4>1, <4>2, <4>3 DEF Sound
      <3>7. db' = db => Sound(db, made + 1, call')
        <4>1. ASSUME call'[c] = NoCall PROVE Sound(db, made + 1, call')
          <5>1. \A d \in Clients : call'[d].pc \in {"plan", "map"} => call'[d] = call[d]
            BY <1>1, <3>5, <4>1
          <5> QED BY <1>1, <5>1, SoundStays
        <4> QED BY <3>3, <3>6, <4>1
      <3> QED BY <3>1, <3>3, <3>6, <3>7 DEF RowsInv
    <2>3. CASE Planned(c)
      <3>1. PICK p \in {"offered", "dead_letter"} :
              Wrote(c, WithCase(draft, call[c].case, [key |-> call[c].key, plan |-> p]), "map", call[c].case)
        BY <2>3 DEF Planned
      <3> DEFINE t == call[c].case
                 r == [key |-> call[c].key, plan |-> p]
                 new == WithCase(draft, t, r)
      <3>2. /\ At(c, "plan") /\ Working(c) /\ made' = made /\ t \in 1 .. made /\ t \in Cases
            /\ r \in CaseRow
        BY <2>3, CallFacts DEF Planned, At, Working, CaseRow
      <3>3. /\ new.map = draft.map /\ new.case[t] = r
            /\ \A u \in Cases : u # t => new.case[u] = draft.case[u]
        BY <1>1, <3>2, WithCaseFacts
      <3>4. draft' = new /\ (db' = new \/ (db' = db /\ call'[c] = NoCall)) /\ OnlyCall(c)
            /\ (call'[c] = NoCall \/ Continues(c, "map", t))
        BY <3>1 DEF Wrote, Drops
      <3>5. draft.case[t].key = r.key
        BY <1>1, <3>2 DEF Sound, At
      <3> HIDE DEF new
      <3>6. Sound(new, made, call')
        <4>1. \A u \in Cases : u > made => new.case[u] = Absent
          BY <1>1, <3>2, <3>3, CasesAssumption DEF Sound, Cases
        <4>2. \A k \in Keys : new.map[k] # NoMapping =>
                /\ new.case[new.map[k].case].key = k
                /\ new.case[new.map[k].case].plan \in {"offered", "dead_letter"}
          <5>1. \A k \in Keys : draft.map[k] # NoMapping => draft.map[k].case \in Cases
            BY <1>1 DEF Row, Mapping
          <5>2. \A k \in Keys : draft.map[k] # NoMapping =>
                  /\ draft.case[draft.map[k].case].key = k
                  /\ draft.case[draft.map[k].case].plan \in {"offered", "dead_letter"}
            BY <1>1 DEF Sound
          <5> QED BY <3>3, <3>5, <5>1, <5>2
        <4>3. ASSUME NEW d \in Clients, call'[d].pc \in {"plan", "map"}
              PROVE  /\ new.case[call'[d].case].key = call'[d].key
                     /\ call'[d].pc = "map" => new.case[call'[d].case].plan \in {"offered", "dead_letter"}
          <5>1. CASE d = c
            BY <1>1, <3>3, <3>4, <4>3, <5>1 DEF Continues
          <5>2. CASE d # c
            <6>1. call'[d] = call[d] /\ call[d].case \in Cases
              BY <3>4, <4>3, <5>2, CallFacts DEF OnlyCall, Working
            <6>2. /\ draft.case[call[d].case].key = call[d].key
                  /\ call[d].pc = "map" => draft.case[call[d].case].plan \in {"offered", "dead_letter"}
              BY <1>1, <4>3, <6>1 DEF Sound
            <6> QED BY <3>3, <3>5, <6>1, <6>2
          <5> QED BY <5>1, <5>2
        <4> QED BY <4>1, <4>2, <4>3 DEF Sound
      <3>7. db' = db => Sound(db, made, call')
        <4>1. ASSUME call'[c] = NoCall PROVE Sound(db, made, call')
          <5>1. \A d \in Clients : call'[d].pc \in {"plan", "map"} => call'[d] = call[d]
            BY <1>1, <3>4, <4>1 DEF OnlyCall
          <5> QED BY <1>1, <5>1, SoundStays
        <4> QED BY <3>4, <3>6, <4>1
      <3> QED BY <3>2, <3>4, <3>6, <3>7 DEF RowsInv
    <2>4. CASE Mapped(c)
      <3> DEFINE k == call[c].key
                 t == call[c].case
                 m == [payload |-> call[c].payload, case |-> t]
                 new == WithMap(draft, k, m)
      <3>1. /\ At(c, "map") /\ made' = made /\ Wrote(c, new, "event", t)
            /\ k \in Keys /\ m \in Mapping
        BY <2>4, CallFacts DEF Mapped, At, Working, Mapping
      <3>2. /\ new.case = draft.case /\ new.map[k] = m /\ m.case = t
            /\ \A j \in Keys : j # k => new.map[j] = draft.map[j]
        BY <1>1, <3>1, WithMapFacts
      <3>3. draft' = new /\ (db' = new \/ db' = db) /\ OnlyCall(c)
            /\ (call'[c] = NoCall \/ Continues(c, "event", t))
        BY <3>1 DEF Wrote, Drops
      <3> HIDE DEF new, m
      <3>4. \A d \in Clients : call'[d].pc \in {"plan", "map"} => call'[d] = call[d]
        BY <1>1, <3>3 DEF OnlyCall, Continues
      <3>5. Sound(new, made, call)
        <4>1. draft.case[t].key = k /\ draft.case[t].plan \in {"offered", "dead_letter"}
          BY <1>1, <3>1 DEF Sound, At
        <4>2. \A u \in Cases : u > made => new.case[u] = Absent
          BY <1>1, <3>2 DEF Sound
        <4>3. ASSUME NEW j \in Keys, new.map[j] # NoMapping
              PROVE  /\ new.case[new.map[j].case].key = j
                     /\ new.case[new.map[j].case].plan \in {"offered", "dead_letter"}
          <5>1. CASE j = k
            BY <3>2, <4>1, <5>1
          <5>2. CASE j # k
            BY <1>1, <3>2, <4>3, <5>2 DEF Sound
          <5> QED BY <5>1, <5>2
        <4>4. \A d \in Clients : call[d].pc \in {"plan", "map"} =>
                /\ new.case[call[d].case].key = call[d].key
                /\ call[d].pc = "map" => new.case[call[d].case].plan \in {"offered", "dead_letter"}
          BY <1>1, <3>2 DEF Sound
        <4> QED BY <4>2, <4>3, <4>4 DEF Sound
      <3> QED BY <1>1, <3>1, <3>3, <3>4, <3>5, SoundStays DEF RowsInv
    <2> QED BY <1>5, <2>1, <2>2, <2>3, <2>4 DEF ClientShape
  <1> QED BY <1>3, <1>4, <1>5 DEF Shape

-----------------------------------------------------------------------------
(* Mappings and answers.                                                   *)

\* A server sees the committed mappings, and no other ones than the last writer.
LEMMA HereFacts ==
    ASSUME TypeInv, MappingInv, NEW c \in Clients, NEW k \in Keys, Here(c).map[k] # NoMapping
    PROVE  draft.map[k] = Here(c).map[k]
  BY DEF Here, View, MappingInv

\* A step changes the mapping of a key only by inserting one, or by a server's death.
LEMMA MapRows ==
    ASSUME TypeInv, Shape
    PROVE  \/ draft' = draft /\ db' \in {db, draft} /\ undone' = undone
           \/ draft' = db /\ db' = db /\ undone' = TRUE
           \/ draft'.map = draft.map /\ db' \in {db, draft'} /\ undone' = undone
           \/ \E c \in Clients :
                /\ Mapped(c) /\ draft.map[call[c].key] = NoMapping
                /\ db' \in {db, draft'} /\ undone' = undone
                /\ \A k \in Keys : k # call[c].key => draft'.map[k] = draft.map[k]
  <1>1. db \in Row /\ draft \in Row /\ undone \in BOOLEAN
    BY DEF TypeInv, TypeOK, Row
  <1>3. ASSUME NEW p \in Servers, ServerDies(p)
        PROVE  /\ \/ draft' = draft /\ undone' = undone
                  \/ draft' = db /\ undone' = TRUE
               /\ db' = db
    <2>1. /\ draft' = (IF Holds(p) THEN db ELSE draft) /\ db' = db
          /\ undone' = (undone \/ View(p) # db)
      BY <1>3 DEF ServerDies, Dies
    <2>2. CASE View(p) # db
      BY <1>1, <2>1, <2>2 DEF View
    <2>3. CASE View(p) = db
      BY <1>1, <2>1, <2>3 DEF View
    <2> QED BY <2>2, <2>3
  <1>4. ASSUME NEW c \in Clients, Created(c) \/ Planned(c)
        PROVE  draft'.map = draft.map /\ db' \in {db, draft'} /\ undone' = undone
    <2>1. CASE Created(c)
      <3>1. made + 1 \in Cases /\ [key |-> call[c].key, plan |-> "made"] \in CaseRow
        BY <2>1, NextCase, CallFacts DEF Created, At, CaseRow
      <3> QED BY <1>1, <2>1, <3>1, WithCaseFacts DEF Created, Wrote
    <2>2. CASE Planned(c)
      <3>1. PICK p \in {"offered", "dead_letter"} :
              Wrote(c, WithCase(draft, call[c].case, [key |-> call[c].key, plan |-> p]), "map", call[c].case)
        BY <2>2 DEF Planned
      <3>2. call[c].case \in Cases /\ [key |-> call[c].key, plan |-> p] \in CaseRow
        BY <2>2, CallFacts DEF Planned, At, Working, CaseRow
      <3> QED BY <1>1, <3>1, <3>2, WithCaseFacts DEF Wrote
    <2> QED BY <1>4, <2>1, <2>2
  <1>5. ASSUME NEW c \in Clients, Mapped(c)
        PROVE  /\ draft.map[call[c].key] = NoMapping /\ db' \in {db, draft'} /\ undone' = undone
               /\ \A k \in Keys : k # call[c].key => draft'.map[k] = draft.map[k]
    <2>1. call[c].key \in Keys /\ [payload |-> call[c].payload, case |-> call[c].case] \in Mapping
      BY <1>5, CallFacts DEF Mapped, At, Working, Mapping
    <2> QED BY <1>1, <1>5, <2>1, WithMapFacts DEF Mapped, Wrote
  <1>6. ASSUME NEW c \in Clients, Begun(c) \/ Ended(c) \/ Reused(c) \/ Moved(c) \/ Answered(c)
        PROVE  Neutral /\ undone' = undone
    BY <1>6 DEF Begun, Ended, Reused, Moved, Answered
  <1>7. CASE Outside
    BY <1>7 DEF Outside, Neutral, mcp
  <1>8. CASE \E p \in Servers : ServerDies(p)
    BY <1>3, <1>8
  <1>9. CASE \E c \in Clients : Created(c) \/ Planned(c)
    BY <1>4, <1>9
  <1>10. CASE \E c \in Clients : Mapped(c)
    BY <1>5, <1>10
  <1>11. CASE \E c \in Clients : Begun(c) \/ Ended(c) \/ Reused(c) \/ Moved(c) \/ Answered(c)
    BY <1>6, <1>11 DEF Neutral
  <1> QED BY <1>7, <1>8, <1>9, <1>10, <1>11 DEF Shape, ClientShape

\* A mapping that was written stays, unless a server dies with it.
LEMMA MappingStays ==
    ASSUME TypeInv, MappingInv, Shape
    PROVE  /\ undone => undone'
           /\ \A k \in Keys : draft.map[k] # NoMapping => undone' \/ draft'.map[k] = draft.map[k]
           /\ \A k \in Keys : db'.map[k] # NoMapping => draft'.map[k] = db'.map[k]
  <1>1. \A k \in Keys : db.map[k] # NoMapping => draft.map[k] = db.map[k]
    BY DEF MappingInv
  <1>2. CASE draft' = draft /\ db' \in {db, draft} /\ undone' = undone
    BY <1>1, <1>2
  <1>3. CASE draft' = db /\ db' = db /\ undone' = TRUE
    BY <1>3
  <1>4. CASE draft'.map = draft.map /\ db' \in {db, draft'} /\ undone' = undone
    BY <1>1, <1>4
  <1>5. CASE \E c \in Clients :
                /\ Mapped(c) /\ draft.map[call[c].key] = NoMapping
                /\ db' \in {db, draft'} /\ undone' = undone
                /\ \A k \in Keys : k # call[c].key => draft'.map[k] = draft.map[k]
    BY <1>1, <1>5
  <1> QED BY <1>2, <1>3, <1>4, <1>5, MapRows

\* What a client is told, or about to be told, stays on record.
LEMMA MappingStep ==
    ASSUME TypeInv, MappingInv, Shape
    PROVE  MappingInv'
  <1> DEFINE Made(r)  == [payload |-> r.payload, case |-> r.case]
             Kept(f)  == \A c \in Clients : f[c].pc \in {"event", "answer"} =>
                           draft'.map[f[c].key] = Made(f[c])
             Told(f)  == \A c \in Clients : f[c].kind = "answer" => draft'.map[f[c].key] = Made(f[c])
  <1>1. SUFFICES ASSUME ~undone' PROVE Kept(call') /\ Told(out')
    BY MappingStays DEF MappingInv
  <1>2. ASSUME NEW c \in Clients, call[c].pc \in {"event", "answer"}
        PROVE  draft'.map[call[c].key] = Made(call[c])
    <2>1. call[c].key \in Keys /\ call[c].case \in Cases /\ draft.map[call[c].key] = Made(call[c])
      BY <1>1, <1>2, MappingStays DEF TypeInv, CallInv, Fits, MappingInv
    <2>2. Made(call[c]) # NoMapping
      BY <2>1, CasesAssumption DEF NoMapping, Cases
    <2> QED BY <1>1, <2>1, <2>2, MappingStays
  <1>3. ASSUME NEW c \in Clients, out[c].kind = "answer"
        PROVE  draft'.map[out[c].key] = Made(out[c])
    <2>1. out[c] \in Answers
      BY <1>3 DEF TypeInv, Outs, NoAnswer, Error
    <2>2. out[c].key \in Keys /\ out[c].case \in Cases /\ draft.map[out[c].key] = Made(out[c])
      BY <1>1, <1>3, <2>1, MappingStays DEF Answers, MappingInv
    <2>3. Made(out[c]) # NoMapping
      BY <2>2, CasesAssumption DEF NoMapping, Cases
    <2> QED BY <1>1, <2>2, <2>3, MappingStays
  <1>4. CASE Outside
    BY <1>2, <1>3, <1>4 DEF Outside, mcp
  <1>5. ASSUME NEW p \in Servers, ServerDies(p) PROVE Kept(call') /\ Told(out')
    <2>1. \A c \in Clients : /\ call'[c] = call[c] \/ call'[c].pc = "idle"
                             /\ out'[c] = out[c] \/ out'[c].kind = "error"
      BY <1>5 DEF ServerDies, NoCall, Error
    <2> QED BY <1>2, <1>3, <2>1
  <1>6. ASSUME NEW c \in Clients, ClientShape(c) PROVE Kept(call') /\ Told(out')
    <2>1. OnlyCall(c)
      BY <1>6 DEF ClientShape, Begun, Ended, Reused, Moved, Answered, Created, Planned, Mapped, Wrote
    <2>2. \A d \in Clients \ {c} : call'[d] = call[d] /\ out'[d] = out[d]
      BY <2>1 DEF OnlyCall
    <2>3. call'[c].pc \in {"event", "answer"} => draft'.map[call'[c].key] = Made(call'[c])
      <3>1. CASE Reused(c)
        <4>1. PICK k \in Keys, x \in Payloads :
                /\ Here(c).map[k] \in Mapping /\ Here(c).map[k].payload = x
                /\ call'[c] = [pc |-> "answer", key |-> k, payload |-> x,
                               case |-> Here(c).map[k].case, reused |-> TRUE]
          BY <3>1 DEF Reused
        <4>2. Here(c).map[k] # NoMapping /\ Here(c).map[k] = Made(Here(c).map[k])
          BY <4>1, CasesAssumption DEF Mapping, NoMapping, Cases
        <4>3. draft'.map[k] = Here(c).map[k]
          BY <1>1, <4>2, HereFacts, MappingStays
        <4> QED BY <4>1, <4>2, <4>3
      <3>2. CASE Moved(c)
        <4>1. CASE At(c, "event") /\ Continues(c, "answer", call[c].case)
          <5>1. draft'.map[call[c].key] = Made(call[c])
            BY <1>2, <4>1 DEF At
          <5> QED BY <4>1, <5>1 DEF Continues
        <4>2. CASE Continues(c, "lost", call[c].case)
          BY <4>2 DEF Continues
        <4> QED BY <3>2, <4>1, <4>2 DEF Moved
      <3>3. CASE Mapped(c) /\ Continues(c, "event", call[c].case)
        <4>1. /\ draft \in Row /\ call[c].key \in Keys
              /\ Made(call[c]) \in Mapping /\ draft' = WithMap(draft, call[c].key, Made(call[c]))
          BY <3>3, CallFacts DEF Mapped, Wrote, At, Working, Mapping
        <4>2. draft'.map[call[c].key] = Made(call[c])
          BY <4>1, WithMapFacts
        <4> QED BY <3>3, <4>2 DEF Continues
      <3>4. CASE Begun(c)
        <4>1. call'[c].pc = "create"
          BY <3>4 DEF Begun
        <4> QED BY <4>1
      <3>5. CASE call'[c] = NoCall \/ Continues(c, "plan", made + 1) \/ Continues(c, "map", call[c].case)
        BY <3>5 DEF NoCall, Continues
      <3> QED BY <1>6, <3>1, <3>2, <3>3, <3>4, <3>5
              DEF ClientShape, Ended, Answered, Created, Planned, Mapped, Wrote, Drops
    <2>4. out'[c].kind = "answer" => draft'.map[out'[c].key] = Made(out'[c])
      <3>1. CASE Answered(c)
        <4>1. /\ draft'.map[call[c].key] = Made(call[c])
              /\ out'[c] = [kind |-> "answer", key |-> call[c].key, payload |-> call[c].payload,
                            case |-> call[c].case]
          BY <1>2, <3>1 DEF Answered, At
        <4> QED BY <4>1
      <3>2. CASE out' = out \/ Drops(c)
        BY <1>3, <3>2 DEF Drops
      <3> QED BY <1>6, <3>1, <3>2
              DEF ClientShape, Begun, Ended, Reused, Moved, Created, Planned, Mapped, Wrote
    <2> QED BY <1>2, <1>3, <2>2, <2>3, <2>4
  <1> HIDE DEF Kept, Told
  <1> QED BY <1>4, <1>5, <1>6 DEF Shape

-----------------------------------------------------------------------------
(* One call for a key.                                                     *)

\* What a call under way was before the step.
LEMMA LiveFacts ==
    ASSUME TypeInv, Shape, NEW c \in Clients, call'[c].key \in Keys, ~call'[c].reused
    PROVE  \/ call[c].key = call'[c].key /\ ~call[c].reused
           \/ Begun(c)
  <1>1. NoCall.key \notin Keys
    BY KeysAssumption DEF NoCall
  <1>2. CASE Outside
    BY <1>2 DEF Outside, mcp
  <1>3. ASSUME NEW p \in Servers, ServerDies(p) PROVE call'[c] = call[c]
    BY <1>1, <1>3 DEF ServerDies
  <1>4. ASSUME NEW d \in Clients, ClientShape(d)
        PROVE  \/ call[c].key = call'[c].key /\ ~call[c].reused
               \/ Begun(c)
    <2>1. CASE d # c
      <3>1. OnlyCall(d)
        BY <1>4 DEF ClientShape, Begun, Ended, Reused, Moved, Answered, Created, Planned, Mapped, Wrote
      <3> QED BY <2>1, <3>1 DEF OnlyCall
    <2>2. CASE d = c
      <3>1. ~Drops(c) /\ ~Answered(c)
        BY <1>1 DEF Drops, Answered
      <3>2. ~Reused(c)
        <4>1. ASSUME Reused(c) PROVE call'[c].reused = TRUE
          BY <4>1 DEF Reused
        <4> QED BY <4>1
      <3>3. CASE Begun(c)
        BY <3>3
      <3>4. CASE Moved(c) \/ Created(c) \/ Planned(c) \/ Mapped(c)
        <4>1. call'[c].key = call[c].key /\ call'[c].reused = call[c].reused
          BY <3>1, <3>4 DEF Moved, Created, Planned, Mapped, Wrote, Continues
        <4> QED BY <4>1
      <3> QED BY <1>4, <2>2, <3>1, <3>2, <3>3, <3>4 DEF ClientShape, Ended
    <2> QED BY <2>1, <2>2
  <1> QED BY <1>2, <1>3, <1>4 DEF Shape

\* What is on record is never taken off it.
LEMMA HistoryGrows ==
    ASSUME TypeInv, Shape
    PROVE  /\ raced \subseteq raced' /\ broken \subseteq broken' /\ (opened => opened')
           /\ \A c \in Clients : Begun(c) =>
                /\ broken' = broken /\ opened' = opened
                /\ \A d \in Clients : d # c => call'[d] = call[d]
                /\ call'[c].key \notin raced' =>
                     \A d \in Clients : call[d].key = call'[c].key => call[d].reused
  <1>1. raced \subseteq raced' /\ broken \subseteq broken' /\ (opened => opened')
    <2>1. Outside => raced \subseteq raced' /\ broken \subseteq broken'
      BY DEF Outside, mcp
    <2>2. ASSUME NEW p \in Servers, ServerDies(p)
          PROVE raced \subseteq raced' /\ broken \subseteq broken' /\ opened' \in {opened, TRUE}
      BY <2>2 DEF ServerDies
    <2>3. ASSUME NEW c \in Clients, ClientShape(c)
          PROVE raced \subseteq raced' /\ broken \subseteq broken' /\ opened' \in {opened, TRUE}
      BY <2>3 DEF ClientShape, Begun, Ended, Reused, Moved, Answered, Created, Planned, Mapped, Wrote
    <2>4. opened' \in {opened, TRUE}
      BY <2>1, <2>2, <2>3 DEF Shape, Outside
    <2>5. opened => opened'
      <3>1. CASE opened' = TRUE
        BY <3>1
      <3>2. CASE opened' = opened
        BY <3>2
      <3> QED BY <2>4, <3>1, <3>2
    <2> QED BY <2>1, <2>2, <2>3, <2>5 DEF Shape
  <1>2. ASSUME NEW c \in Clients, Begun(c)
        PROVE  /\ broken' = broken /\ opened' = opened
               /\ \A d \in Clients : d # c => call'[d] = call[d]
               /\ call'[c].key \notin raced' =>
                    \A d \in Clients : call[d].key = call'[c].key => call[d].reused
    <2>1. PICK k \in Keys, x \in Payloads :
            /\ call'[c] = [pc |-> "create", key |-> k, payload |-> x, case |-> 0, reused |-> FALSE]
            /\ raced' = IF \E d \in Clients : call[d].key = k /\ ~call[d].reused
                        THEN raced \cup {k} ELSE raced
      BY <1>2 DEF Begun
    <2>2. call'[c].key = k
      BY <2>1
    <2> QED BY <1>2, <2>1, <2>2 DEF Begun, OnlyCall
  <1> QED BY <1>1, <1>2

\* A second call for a key puts it on record as raced for.
LEMMA AloneStep ==
    ASSUME TypeInv, AloneInv, Shape
    PROVE  AloneInv'
  <1>1. SUFFICES ASSUME NEW c \in Clients, NEW d \in Clients, call'[c].key = call'[d].key,
                        call'[c].key \in Keys \ raced', ~call'[c].reused, ~call'[d].reused, c # d
                 PROVE  FALSE
    BY DEF AloneInv
  <1>2. CASE ~Begun(c) /\ ~Begun(d)
    BY <1>1, <1>2, LiveFacts, HistoryGrows DEF AloneInv
  <1>3. CASE Begun(c)
    BY <1>1, <1>3, HistoryGrows
  <1>4. CASE Begun(d)
    BY <1>1, <1>4, HistoryGrows
  <1> QED BY <1>2, <1>3, <1>4

-----------------------------------------------------------------------------
(* The cases of a key.                                                     *)

\* What a step does to the rows of a key that nobody raced for and no call broke off.
LEMMA KeyRows ==
    ASSUME TypeInv, RowsInv, KeyInv, Shape, NEW k \in Keys \ (raced' \cup broken')
    PROVE  /\ draft'.map[k] = db'.map[k]
           /\ \A t \in Cases : draft'.case[t].key = k <=> db'.case[t].key = k
           /\ \/ db'.map[k] = db.map[k]
              \/ \E c \in Clients : /\ Mapped(c) /\ Continues(c, "event", call[c].case) /\ call[c].key = k
                                    /\ db'.map[k].case = call[c].case
           /\ \A t \in Cases : db'.case[t].key = k =>
                \/ db.case[t].key = k
                \/ \E c \in Clients : /\ Created(c) /\ Continues(c, "plan", made + 1) /\ call[c].key = k
                                      /\ t = made + 1
  <1>1. /\ k \in Keys \ (raced \cup broken) /\ db \in Row /\ draft \in Row
        /\ draft.map[k] = db.map[k] /\ \A t \in Cases : draft.case[t].key = k <=> db.case[t].key = k
    BY HistoryGrows DEF TypeInv, TypeOK, Row, KeyInv
  <1>2. ASSUME db' \in {db, draft}, draft' \in {db, draft}
        PROVE  /\ draft'.map[k] = db'.map[k] /\ db'.map[k] = db.map[k]
               /\ \A t \in Cases : /\ draft'.case[t].key = k <=> db'.case[t].key = k
                                   /\ db'.case[t].key = k <=> db.case[t].key = k
    BY <1>1, <1>2
  <1>3. CASE db' \in {db, draft} /\ draft' \in {db, draft}
    BY <1>2, <1>3
  <1>4. CASE Outside
    BY <1>3, <1>4 DEF Outside, Neutral
  <1>5. CASE \E p \in Servers : ServerDies(p)
    BY <1>3, <1>5 DEF ServerDies, Dies
  <1>6. CASE \E c \in Clients : Begun(c) \/ Ended(c) \/ Reused(c) \/ Moved(c) \/ Answered(c)
    <2>1. Neutral
      BY <1>6 DEF Begun, Ended, Reused, Moved, Answered
    <2> QED BY <1>3, <2>1 DEF Neutral
  <1>7. ASSUME NEW c \in Clients, Created(c)
        PROVE  /\ draft'.map[k] = db'.map[k] /\ db'.map[k] = db.map[k]
               /\ \A t \in Cases : /\ draft'.case[t].key = k <=> db'.case[t].key = k
                                   /\ db'.case[t].key = k =>
                                        \/ db.case[t].key = k
                                        \/ /\ Continues(c, "plan", made + 1) /\ call[c].key = k
                                           /\ t = made + 1
    <2> DEFINE r == [key |-> call[c].key, plan |-> "made"]
               new == WithCase(draft, made + 1, r)
    <2>1. made + 1 \in Cases /\ r \in CaseRow /\ r.key = call[c].key
      BY <1>7, NextCase, CallFacts DEF Created, At, CaseRow
    <2>2. /\ new.map = draft.map /\ new.case[made + 1] = r
          /\ \A u \in Cases : u # made + 1 => new.case[u] = draft.case[u]
      BY <1>1, <2>1, WithCaseFacts
    <2>3. /\ draft' = new
          /\ \/ db' = new /\ Continues(c, "plan", made + 1)
             \/ db' = db /\ call[c].key \in broken'
      BY <1>7 DEF Created, Wrote
    <2> HIDE DEF new, r
    <2>4. draft.case[made + 1].key # k
      <3>1. made + 1 > made
        BY CasesAssumption DEF TypeInv, TypeOK
      <3>2. draft.case[made + 1] = Absent
        BY <2>1, <3>1 DEF RowsInv, Sound
      <3> QED BY <3>2, KeysAssumption DEF Absent
    <2>5. CASE db' = new /\ Continues(c, "plan", made + 1)
      BY <1>1, <2>1, <2>2, <2>3, <2>5
    <2>6. CASE db' = db /\ call[c].key \in broken'
      <3>1. call[c].key # k
        BY <2>6
      <3>2. \A t \in Cases : new.case[t].key = k <=> draft.case[t].key = k
        BY <2>1, <2>2, <2>4, <3>1
      <3> QED BY <1>1, <2>2, <2>3, <2>6, <3>2
    <2> QED BY <2>3, <2>5, <2>6
  <1>8. ASSUME NEW c \in Clients, Planned(c)
        PROVE  /\ draft'.map[k] = db'.map[k] /\ db'.map[k] = db.map[k]
               /\ \A t \in Cases : /\ draft'.case[t].key = k <=> db'.case[t].key = k
                                   /\ db'.case[t].key = k <=> db.case[t].key = k
    <2>1. PICK p \in {"offered", "dead_letter"} :
            Wrote(c, WithCase(draft, call[c].case, [key |-> call[c].key, plan |-> p]), "map", call[c].case)
      BY <1>8 DEF Planned
    <2> DEFINE r == [key |-> call[c].key, plan |-> p]
               new == WithCase(draft, call[c].case, r)
    <2>2. call[c].case \in Cases /\ r \in CaseRow /\ r.key = call[c].key /\ At(c, "plan")
      BY <1>8, CallFacts DEF Planned, At, Working, CaseRow
    <2>3. /\ new.map = draft.map /\ new.case[call[c].case] = r
          /\ \A u \in Cases : u # call[c].case => new.case[u] = draft.case[u]
      BY <1>1, <2>2, WithCaseFacts
    <2>4. draft' = new /\ db' \in {db, new}
      BY <2>1 DEF Wrote
    <2> HIDE DEF new, r
    <2>5. draft.case[call[c].case].key = call[c].key
      BY <2>2 DEF RowsInv, Sound, At
    <2>6. \A t \in Cases : new.case[t].key = k <=> draft.case[t].key = k
      BY <2>2, <2>3, <2>5
    <2> QED BY <1>1, <2>3, <2>4, <2>6
  <1>9. ASSUME NEW c \in Clients, Mapped(c)
        PROVE  /\ draft'.map[k] = db'.map[k]
               /\ \/ db'.map[k] = db.map[k]
                  \/ /\ Continues(c, "event", call[c].case) /\ call[c].key = k
                     /\ db'.map[k].case = call[c].case
               /\ \A t \in Cases : /\ draft'.case[t].key = k <=> db'.case[t].key = k
                                   /\ db'.case[t].key = k <=> db.case[t].key = k
    <2> DEFINE m == [payload |-> call[c].payload, case |-> call[c].case]
               new == WithMap(draft, call[c].key, m)
    <2>1. call[c].key \in Keys /\ m \in Mapping /\ m.case = call[c].case
      BY <1>9, CallFacts DEF Mapped, At, Working, Mapping
    <2>2. /\ new.case = draft.case /\ new.map[call[c].key] = m
          /\ \A j \in Keys : j # call[c].key => new.map[j] = draft.map[j]
      BY <1>1, <2>1, WithMapFacts
    <2>3. /\ draft' = new
          /\ \/ db' = new /\ Continues(c, "event", call[c].case)
             \/ db' = db /\ call[c].key \in broken'
      BY <1>9 DEF Mapped, Wrote
    <2> HIDE DEF new, m
    <2>4. CASE db' = new /\ Continues(c, "event", call[c].case)
      BY <1>1, <2>1, <2>2, <2>3, <2>4
    <2>5. CASE db' = db /\ call[c].key \in broken'
      <3>1. call[c].key # k
        BY <2>5
      <3> QED BY <1>1, <2>2, <2>3, <2>5, <3>1
    <2> QED BY <2>3, <2>4, <2>5
  <1>10. CASE \E c \in Clients : Created(c)
    <2>1. PICK c \in Clients : Created(c)
      BY <1>10
    <2> QED BY <1>7, <2>1
  <1>11. CASE \E c \in Clients : Planned(c)
    BY <1>8, <1>11
  <1>12. CASE \E c \in Clients : Mapped(c)
    <2>1. PICK c \in Clients : Mapped(c)
      BY <1>12
    <2> QED BY <1>9, <2>1
  <1> QED BY <1>4, <1>5, <1>6, <1>10, <1>11, <1>12 DEF Shape, ClientShape

\* What becomes of a call whose key is unmapped.
LEMMA BeforeFacts ==
    ASSUME TypeInv, Shape, NEW c \in Clients
    PROVE  /\ Before(c)' => Begun(c) \/ (Before(c) /\ call'[c].key = call[c].key /\ ~Mapped(c))
           /\ Working(c) =>
                \/ Working(c)' /\ call'[c].key = call[c].key /\ call'[c].case = call[c].case
                \/ call[c].key \in broken'
                \/ Here(c).map[call[c].key] # NoMapping
                \/ Mapped(c) /\ Continues(c, "event", call[c].case)
           /\ Created(c) /\ Continues(c, "plan", made + 1) =>
                Working(c)' /\ call'[c].key = call[c].key /\ call'[c].case = made + 1
  <1>1. NoCall.pc = "idle"
    BY DEF NoCall
  <1>2. ASSUME call'[c] = call[c], ~Mapped(c)
        PROVE  /\ Before(c)' => Before(c) /\ call'[c].key = call[c].key /\ ~Mapped(c)
               /\ Working(c) => Working(c)' /\ call'[c].key = call[c].key /\ call'[c].case = call[c].case
    BY <1>2 DEF Before, Working, At
  <1>3. Created(c) /\ Continues(c, "plan", made + 1) =>
          Working(c)' /\ call'[c].key = call[c].key /\ call'[c].case = made + 1
    BY DEF Continues, Working
  <1>4. Mapped(c) => call'[c].pc # call[c].pc
    BY <1>1 DEF Mapped, Wrote, Drops, Continues, At
  <1>5. CASE call'[c] = call[c]
    BY <1>2, <1>3, <1>4, <1>5
  <1>6. CASE Outside
    BY <1>5, <1>6 DEF Outside, mcp
  <1>7. ASSUME NEW p \in Servers, ServerDies(p), call'[c] # call[c]
        PROVE  ~Before(c)' /\ (Working(c) => call[c].key \in broken')
    <2>1. c \in CallsOf(p) /\ call'[c] = NoCall
      BY <1>7 DEF ServerDies
    <2>2. Working(c) => call[c].case # 0 /\ Unsettled(c)
      BY CallFacts, KeysAssumption, CasesAssumption DEF Working, Unsettled, At, Cases
    <2>3. Working(c) => call[c].key \in broken'
      BY <1>7, <2>1, <2>2 DEF ServerDies
    <2> QED BY <1>1, <2>1, <2>3 DEF Before, Working, At
  <1>8. ASSUME NEW d \in Clients \ {c}, ClientShape(d)
        PROVE  call'[c] = call[c]
    <2>1. OnlyCall(d)
      BY <1>8 DEF ClientShape, Begun, Ended, Reused, Moved, Answered, Created, Planned, Mapped, Wrote
    <2> QED BY <1>8, <2>1 DEF OnlyCall
  <1>9. ASSUME ClientShape(c)
        PROVE  /\ Before(c)' => Begun(c) \/ (Before(c) /\ call'[c].key = call[c].key /\ ~Mapped(c))
               /\ Working(c) =>
                    \/ Working(c)' /\ call'[c].key = call[c].key /\ call'[c].case = call[c].case
                    \/ call[c].key \in broken'
                    \/ Here(c).map[call[c].key] # NoMapping
                    \/ Mapped(c) /\ Continues(c, "event", call[c].case)
    <2>1. CASE Begun(c)
      BY <2>1 DEF Begun, Working, At
    <2>2. CASE Ended(c)
      BY <1>1, <2>2 DEF Ended, Drops, Before, Working, At
    <2>3. CASE Reused(c)
      <3>1. call'[c].pc = "answer" /\ ~Working(c)
        BY <2>3 DEF Reused, Working
      <3> QED BY <3>1 DEF Before, Working, At
    <2>4. CASE Moved(c)
      BY <2>4 DEF Moved, Continues, Before, Working, At
    <2>5. CASE Answered(c)
      BY <1>1, <2>5 DEF Answered, Before, Working, At
    <2>6. CASE Created(c)
      <3>1. At(c, "create") /\ (Drops(c) \/ Continues(c, "plan", made + 1)) /\ ~Mapped(c)
        BY <2>6 DEF Created, Wrote, Mapped, At
      <3> QED BY <1>1, <3>1 DEF Drops, Continues, Before, Working, At
    <2>7. CASE Planned(c)
      <3>1. /\ At(c, "plan") /\ ~Mapped(c)
            /\ (Drops(c) /\ call[c].key \in broken') \/ Continues(c, "map", call[c].case)
        BY <2>7 DEF Planned, Wrote, Mapped, At
      <3> QED BY <1>1, <3>1 DEF Drops, Continues, Before, Working, At
    <2>8. CASE Mapped(c)
      <3>1. \/ Drops(c) /\ call[c].key \in broken'
            \/ Continues(c, "event", call[c].case)
        BY <2>8 DEF Mapped, Wrote
      <3> QED BY <1>1, <2>8, <3>1 DEF Drops, Continues, Before, Working, At
    <2> QED BY <1>9, <2>1, <2>2, <2>3, <2>4, <2>5, <2>6, <2>7, <2>8 DEF ClientShape
  <1> QED BY <1>3, <1>5, <1>6, <1>7, <1>8, <1>9 DEF Shape

\* A call whose step writes a mapping is the only one for its key.
LEMMA MapsAlone ==
    ASSUME TypeInv, AloneInv, NEW c \in Clients, NEW d \in Clients, Mapped(c), Before(d),
           call[d].key = call[c].key, call[c].key \notin raced
    PROVE  c = d
  <1>1. Before(c) /\ call[c].key \in Keys
    BY CallFacts DEF Mapped, Before, Working, At
  <1>2. ~call[c].reused /\ ~call[d].reused
    BY <1>1, CallFacts DEF Before, Working, At
  <1> QED BY <1>1, <1>2 DEF AloneInv

\* The cases of a key stay accounted for.
LEMMA KeyStep ==
    ASSUME TypeInv, RowsInv, AloneInv, KeyInv, Shape
    PROVE  KeyInv'
  <1>1. SUFFICES ASSUME NEW k \in Keys \ (raced' \cup broken')
                 PROVE  /\ \A c \in Clients : Before(c)' /\ call'[c].key = k => db'.map[k] = NoMapping
                        /\ \A t \in Cases : db'.case[t].key = k =>
                             \/ db'.map[k].case = t
                             \/ \E c \in Clients : Working(c)' /\ call'[c].key = k /\ call'[c].case = t
    BY KeyRows DEF KeyInv
  <1>2. /\ k \in Keys /\ k \notin raced /\ k \notin broken /\ draft.map[k] = db.map[k]
        /\ \A c \in Clients : Here(c).map[k] = db.map[k]
        /\ \A c \in Clients : Before(c) /\ call[c].key = k => db.map[k] = NoMapping
    BY <1>1, HistoryGrows DEF KeyInv, Here, View
  <1>3. ASSUME NEW c \in Clients, Before(c)', call'[c].key = k PROVE db'.map[k] = NoMapping
    <2>1. CASE Begun(c)
      <3>1. PICK j \in Keys, x \in Payloads :
              /\ Here(c).map[j] = NoMapping
              /\ call'[c] = [pc |-> "create", key |-> j, payload |-> x, case |-> 0, reused |-> FALSE]
        BY <2>1 DEF Begun
      <3>2. db.map[k] = NoMapping
        BY <1>2, <1>3, <3>1
      <3> QED BY <1>2, <2>1, <3>2 DEF Begun, Neutral
    <2>2. CASE Before(c) /\ call[c].key = k /\ ~Mapped(c)
      <3>1. ~\E d \in Clients : Mapped(d) /\ call[d].key = k
        BY <1>2, <2>2, MapsAlone
      <3> QED BY <1>1, <1>2, <2>2, <3>1, KeyRows
    <2> QED BY <1>3, <2>1, <2>2, BeforeFacts
  <1>4. ASSUME NEW t \in Cases, db'.case[t].key = k
        PROVE  \/ db'.map[k].case = t
               \/ \E c \in Clients : Working(c)' /\ call'[c].key = k /\ call'[c].case = t
    <2>1. CASE \E c \in Clients : Created(c) /\ Continues(c, "plan", made + 1) /\ call[c].key = k
                                    /\ t = made + 1
      BY <2>1, BeforeFacts
    <2>2. CASE db.case[t].key = k /\ db.map[k].case = t
      <3>1. db.map[k] # NoMapping
        BY <2>2, CasesAssumption DEF NoMapping, Cases
      <3>2. ~\E d \in Clients : Mapped(d) /\ call[d].key = k
        BY <1>2, <3>1 DEF Mapped
      <3> QED BY <1>1, <2>2, <3>2, KeyRows
    <2>3. ASSUME NEW c \in Clients, Working(c), call[c].key = k, call[c].case = t
          PROVE  \/ db'.map[k].case = t
                 \/ \E d \in Clients : Working(d)' /\ call'[d].key = k /\ call'[d].case = t
      <3>1. Here(c).map[k] = NoMapping /\ Before(c) /\ db.map[k] = NoMapping
        BY <1>2, <2>3 DEF Before
      <3>2. CASE Mapped(c) /\ Continues(c, "event", call[c].case)
        <4>1. /\ draft \in Row /\ db' = draft'
              /\ [payload |-> call[c].payload, case |-> t] \in Mapping
              /\ draft' = WithMap(draft, k, [payload |-> call[c].payload, case |-> t])
          <5>1. ~Drops(c)
            BY <3>2 DEF Drops, Continues, NoCall
          <5> QED BY <2>3, <3>2, <5>1, CallFacts DEF Mapped, Wrote, At, Mapping
        <4>2. db'.map[k] = [payload |-> call[c].payload, case |-> t]
          BY <1>2, <4>1, WithMapFacts
        <4> QED BY <4>2
      <3> QED BY <1>1, <2>3, <3>1, <3>2, BeforeFacts
    <2>4. \/ db.case[t].key = k
          \/ \E c \in Clients : Created(c) /\ Continues(c, "plan", made + 1) /\ call[c].key = k
                                  /\ t = made + 1
      BY <1>1, <1>4, KeyRows
    <2>5. db.case[t].key = k =>
            \/ db.map[k].case = t
            \/ \E c \in Clients : Working(c) /\ call[c].key = k /\ call[c].case = t
      BY <1>2 DEF KeyInv
    <2> QED BY <2>1, <2>2, <2>3, <2>4, <2>5
  <1> QED BY <1>3, <1>4

-----------------------------------------------------------------------------
(* Nobody is kept out.                                                     *)

\* While nobody holds a lock, no statement is refused, and one that commits leaves none.
LEMMA UnlockedFacts ==
    ASSUME lock \in [Procs -> Locks], \A q \in Procs : lock[q] = "none", NEW p \in Procs, NEW new
    PROVE  /\ ~ReadRefused(p) /\ ~WriteRefused(p) /\ ~CommitRefused(p, new) /\ ~PutRefused(p, new)
           /\ Reads(p) \/ Puts(p, new) \/ Dies(p) => \A q \in Procs : lock'[q] = "none"
  <1>1. /\ Readable(p) /\ Writable(p) /\ Committable(p)
    BY DEF Readable, Writable, Committable, Holds, Others
  <1>2. ~ReadRefused(p) /\ ~WriteRefused(p) /\ ~CommitRefused(p, new)
    BY <1>1 DEF ReadRefused, WriteRefused, CommitRefused
  <1>3. Reads(p) \/ Puts(p, new) \/ Dies(p) => \A q \in Procs : lock'[q] = "none"
    BY DEF Reads, Puts, Dies
  <1> QED BY <1>2, <1>3 DEF PutRefused

\* A step of a quiet system leaves no lock behind.
LEMMA LocksStayFree ==
    ASSUME TypeInv, LockInv, QuietInv, raced = {}, ~opened, ~opened', [Next]_vars
    PROVE  \A q \in Procs : lock'[q] = "none"
  <1>1. /\ \A q \in Procs : lock[q] = "none"
        /\ \A c \in Clients : Before(c) => db.map[call[c].key] = NoMapping
        /\ lock \in [Procs -> Locks]
    BY DEF QuietInv, TypeInv, TypeOK
  <1>2. ASSUME NEW c \in Clients, Lookup(c) \/ Propose(c) PROVE \A q \in Procs : lock'[q] = "none"
    <2>1. Home[c] \in Procs
      BY HomeFacts
    <2>2. Here(c) = db
      BY <1>1, <2>1 DEF Here, View, Holds
    <2>3. /\ ~ReadRefused(Home[c]) /\ ~WriteRefused(Home[c])
          /\ \A new : ~PutRefused(Home[c], new) /\ ~CommitRefused(Home[c], new)
      BY <1>1, <2>1, UnlockedFacts
    <2>4. ~IdTaken(c) /\ ~EventRefused(c) /\ ~ReadRaises(c)
      BY <2>3 DEF IdTaken, EventRefused, ReadRaises
    <2>5. \/ Reads(Home[c]) \/ UNCHANGED dbVars \/ \E new : Puts(Home[c], new)
      <3>1. Lookup(c) => Reads(Home[c])
        BY <2>3 DEF Lookup
      <3>2. Create(c) => \E new : Puts(Home[c], new)
        BY <2>3 DEF Create
      <3>3. Plan(c) => \E new : Puts(Home[c], new)
        BY <2>3 DEF Plan
      <3>4. Map(c) => \E new : Puts(Home[c], new)
        <4>1. Map(c) => Here(c).map[call[c].key] = NoMapping
          BY <1>1, <2>2 DEF Map, Before, Working, At
        <4> QED BY <2>3, <4>1 DEF Map
      <3>5. Announce(c) => \E new : Puts(Home[c], new)
        BY DEF Announce
      <3>6. MapLost(c) \/ Answer(c) => Reads(Home[c])
        BY DEF MapLost, Answer
      <3>7. PlannerRaises(c) => UNCHANGED dbVars
        BY DEF PlannerRaises
      <3> QED BY <1>2, <2>4, <3>1, <3>2, <3>3, <3>4, <3>5, <3>6, <3>7 DEF Propose
    <2> QED BY <1>1, <2>1, <2>5, UnlockedFacts DEF dbVars
  <1>3. ASSUME NEW p \in Servers, ServerDies(p) PROVE \A q \in Procs : lock'[q] = "none"
    <2>1. p \in Procs /\ Dies(p)
      BY <1>3, HomeAssumption DEF ServerDies
    <2> QED BY <1>1, <2>1, UnlockedFacts
  <1>4. CASE ApiHandler \/ ApiPut \/ ApiRead \/ ApiDies
    <2>1. Api \in Procs
      BY HomeAssumption
    <2>2. Reads(Api) \/ Dies(Api) \/ Puts(Api, View(Api))
      BY <1>1, <1>4, <2>1, UnlockedFacts DEF ApiHandler, ApiPut, ApiRead, ApiDies
    <2> QED BY <1>1, <2>1, <2>2, UnlockedFacts
  <1>5. CASE UNCHANGED vars
    BY <1>1, <1>5 DEF vars, dbVars
  <1> QED BY <1>2, <1>3, <1>4, <1>5 DEF Next

\* A quiet system stays so until two calls race or a transaction is left open.
LEMMA QuietStep ==
    ASSUME TypeInv, LockInv, RowsInv, AloneInv, QuietInv, [Next]_vars
    PROVE  QuietInv'
  <1>1. SUFFICES ASSUME raced' = {}, ~opened'
                 PROVE  \A c \in Clients : Before(c)' => db'.map[call'[c].key] = NoMapping
    <2>1. Shape
      BY StepShapes
    <2>2. ASSUME raced' = {}, ~opened' PROVE \A q \in Procs : lock'[q] = "none"
      BY <2>1, <2>2, HistoryGrows, LocksStayFree
    <2> QED BY <2>2 DEF QuietInv
  <1>2. Shape
    BY StepShapes
  <1>3. raced = {} /\ ~opened
    BY <1>1, <1>2, HistoryGrows
  <1>4. /\ \A q \in Procs : ~Holds(q)
        /\ \A c \in Clients : Before(c) => db.map[call[c].key] = NoMapping
    BY <1>3 DEF QuietInv, Holds
  <1>5. draft = db /\ \A c \in Clients : Here(c) = db
    BY <1>4, HomeAssumption DEF LockInv, Here, View
  <1>6. \A k \in Keys : \/ db'.map[k] = db.map[k]
                        \/ \E d \in Clients : Mapped(d) /\ call[d].key = k
    BY <1>2, <1>5, MapRows
  <1>7. SUFFICES ASSUME NEW c \in Clients, Before(c)' PROVE db'.map[call'[c].key] = NoMapping
    OBVIOUS
  <1>8. CASE Begun(c)
    <2>1. PICK k \in Keys, x \in Payloads :
            /\ Here(c).map[k] = NoMapping
            /\ call'[c] = [pc |-> "create", key |-> k, payload |-> x, case |-> 0, reused |-> FALSE]
      BY <1>8 DEF Begun
    <2>2. db' = db
      BY <1>5, <1>8 DEF Begun, Neutral
    <2> QED BY <1>5, <2>1, <2>2
  <1>9. CASE Before(c) /\ call'[c].key = call[c].key /\ ~Mapped(c)
    <2>1. call[c].key \in Keys
      BY <1>9, CallFacts DEF Before, Working, At
    <2>2. ~\E d \in Clients : Mapped(d) /\ call[d].key = call[c].key
      BY <1>3, <1>9, MapsAlone
    <2> QED BY <1>4, <1>6, <1>9, <2>1, <2>2
  <1> QED BY <1>2, <1>7, <1>8, <1>9, BeforeFacts

-----------------------------------------------------------------------------
(* The theorems.                                                           *)

McpInv ==
    /\ TypeInv /\ LockInv /\ RowsInv /\ MappingInv /\ AloneInv /\ KeyInv /\ QuietInv

\* The invariant holds at the start.
LEMMA McpInit == Init => McpInv
  <1> SUFFICES ASSUME Init PROVE McpInv
    OBVIOUS
  <1>1. /\ db = [case |-> [t \in Cases |-> Absent], map |-> [k \in Keys |-> NoMapping]]
        /\ draft = db /\ lock = [p \in Procs |-> "none"]
        /\ made = 0 /\ raced = {} /\ broken = {} /\ undone = FALSE /\ opened = FALSE
        /\ call = [c \in Clients |-> NoCall] /\ out = [c \in Clients |-> NoAnswer]
    BY DEF Init
  <1>2. /\ Absent \in CaseRow /\ Absent.key \notin Keys
        /\ NoCall \in Calls /\ NoAnswer \in Outs /\ NoAnswer.kind # "answer"
        /\ NoCall.pc = "idle" /\ NoCall.key \notin Keys /\ NoCall.reused = FALSE
    BY NoCallType, KeysAssumption DEF Absent, CaseRow, NoAnswer, Outs, NoCall
  <1>3. db \in Row
    BY <1>1, <1>2 DEF Row
  <1>4. TypeInv
    <2>1. TypeOK
      <3>1. {db, draft} \subseteq [case: [Cases -> CaseRow], map: [Keys -> Mapping \cup {NoMapping}]]
        BY <1>1, <1>3 DEF Row
      <3>2. lock \in [Procs -> Locks] /\ made \in 0 .. MaxCases
        BY <1>1, CasesAssumption DEF Locks
      <3>3. raced \subseteq Keys /\ broken \subseteq Keys /\ {undone, opened} \subseteq BOOLEAN
        BY <1>1
      <3> QED BY <3>1, <3>2, <3>3 DEF TypeOK
    <2>2. CallInv
      BY <1>1, <1>2 DEF CallInv, Fits
    <2>3. Creating = {}
      BY <1>1, <1>2 DEF Creating, At
    <2>4. made + Cardinality(Creating) <= MaxCases
      BY <1>1, <2>3, FS_EmptySet, CasesAssumption
    <2> QED BY <1>1, <1>2, <2>1, <2>2, <2>4 DEF TypeInv
  <1>5. LockInv
    BY <1>1 DEF LockInv, Holds
  <1>6. RowsInv
    BY <1>1, <1>2 DEF RowsInv, Sound
  <1>7. MappingInv
    BY <1>1, <1>2 DEF MappingInv
  <1>8. AloneInv
    BY <1>1, <1>2 DEF AloneInv
  <1>9. \A c \in Clients : ~Before(c)
    BY <1>1, <1>2 DEF Before, Working, At
  <1>10. KeyInv
    BY <1>1, <1>2, <1>9 DEF KeyInv
  <1>11. QuietInv
    BY <1>1, <1>9 DEF QuietInv
  <1> QED BY <1>4, <1>5, <1>6, <1>7, <1>8, <1>10, <1>11 DEF McpInv

\* The inductive invariant.
LEMMA McpInvariant == Spec => []McpInv
  <1>1. McpInv /\ [Next]_vars => McpInv'
    <2> SUFFICES ASSUME McpInv, [Next]_vars PROVE McpInv'
      OBVIOUS
    <2>1. TypeInv /\ LockInv /\ RowsInv /\ MappingInv /\ AloneInv /\ KeyInv /\ QuietInv /\ Shape
      BY StepShapes DEF McpInv
    <2>2. TypeInv' /\ LockInv'
      BY <2>1, TypeStep, LockStep DEF TypeInv, TypeOK
    <2>3. RowsInv' /\ MappingInv' /\ AloneInv'
      BY <2>1, RowsStep, MappingStep, AloneStep
    <2>4. KeyInv' /\ QuietInv'
      BY <2>1, KeyStep, QuietStep
    <2> QED BY <2>2, <2>3, <2>4 DEF McpInv
  <1> QED BY <1>1, McpInit, PTL DEF Spec

\* Rows, locks and histories have their types; in particular a case never gets an id
\* beyond the bound of the model, however many calls are about to create one.
THEOREM McpTypes == Spec => []TypeOK
  <1>1. McpInv => TypeOK
    BY DEF McpInv, TypeInv
  <1> QED BY <1>1, McpInvariant, PTL

\* A key leads to a case of its own whose planning is over (store.py:202-213).
THEOREM MappedTheorem == Spec => []MappedIsPlanned
  <1>1. McpInv => MappedIsPlanned
    BY DEF McpInv, RowsInv, Sound, MappedIsPlanned
  <1> QED BY <1>1, McpInvariant, PTL

\* Two clients that are answered for one key are answered with one case, made for one
\* request, whoever won the race for the mapping, unless a server died with a
\* transaction whose commit was refused (store.py:197-223).
THEOREM AnswersTheorem == Spec => []AnswersAgree
  <1>1. McpInv => AnswersAgree
    <2> SUFFICES ASSUME McpInv, ~undone, NEW c \in Clients, NEW d \in Clients,
                        out[c].kind = "answer", out[d].kind = "answer", out[c].key = out[d].key
                 PROVE  out[c].case = out[d].case /\ out[c].payload = out[d].payload
      BY DEF AnswersAgree
    <2>1. /\ draft.map[out[c].key] = [payload |-> out[c].payload, case |-> out[c].case]
          /\ draft.map[out[d].key] = [payload |-> out[d].payload, case |-> out[d].case]
      BY DEF McpInv, MappingInv
    <2> QED BY <2>1
  <1> QED BY <1>1, McpInvariant, PTL

\* A key has two cases only if two of its calls were under way at once, or one ended
\* between the commits of its case and of its mapping (store.py:164-213).
THEOREM SecondCaseTheorem == Spec => []SecondCaseIsExplained
  <1>1. McpInv => SecondCaseIsExplained
    <2> SUFFICES ASSUME McpInv, NEW k \in Keys \ (raced \cup broken),
                        NEW t \in CasesOf(k), NEW u \in CasesOf(k)
                 PROVE  t = u
      BY DEF SecondCaseIsExplained, Single
    <2>1. /\ t \in Cases /\ u \in Cases /\ db.case[t].key = k /\ db.case[u].key = k
      BY DEF CasesOf
    <2>2. /\ db.map[k].case = t \/ \E c \in Clients : Working(c) /\ call[c].key = k /\ call[c].case = t
          /\ db.map[k].case = u \/ \E c \in Clients : Working(c) /\ call[c].key = k /\ call[c].case = u
      BY <2>1 DEF McpInv, KeyInv
    <2>3. ASSUME NEW c \in Clients, Working(c), call[c].key = k
          PROVE  \A i \in Cases : db.map[k].case # i
      <3>1. db.map[k] = NoMapping
        BY <2>3 DEF McpInv, KeyInv, Before
      <3> QED BY <3>1, CasesAssumption DEF NoMapping, Cases
    <2>4. ASSUME NEW c \in Clients, NEW d \in Clients, Working(c), Working(d),
                 call[c].key = k, call[d].key = k
          PROVE  c = d
      <3>1. ~call[c].reused /\ ~call[d].reused
        BY <2>4, CallFacts DEF McpInv, Working, At
      <3> QED BY <2>4, <3>1 DEF McpInv, AloneInv
    <2> QED BY <2>1, <2>2, <2>3, <2>4
  <1> QED BY <1>1, McpInvariant, PTL

\* No process keeps the others out of the database between its statements, unless two
\* calls raced for a key, two cases drew one id, or a handler of the API has yet to
\* commit (store.py:146, 214, 525).
THEOREM QuietTheorem == Spec => []QuietIsUnlocked
  <1>1. McpInv => QuietIsUnlocked
    BY DEF McpInv, QuietInv, QuietIsUnlocked
  <1> QED BY <1>1, McpInvariant, PTL

\* A committed mapping is final: no later call, retry or restart leads the key elsewhere.
THEOREM MappingIsFinal ==
    Spec => [][\A k \in Keys : db.map[k] # NoMapping => db'.map[k] = db.map[k]]_vars
  <1>1. ASSUME McpInv, [Next]_vars, NEW k \in Keys, db.map[k] # NoMapping
        PROVE  db'.map[k] = db.map[k]
    <2>1. TypeInv /\ Shape /\ draft.map[k] = db.map[k]
      BY <1>1, StepShapes DEF McpInv, MappingInv
    <2>2. \A c \in Clients : Mapped(c) /\ draft.map[call[c].key] = NoMapping => call[c].key # k
      BY <1>1, <2>1
    <2> QED BY <2>1, <2>2, MapRows
  <1>2. McpInv /\ [Next]_vars =>
          [\A k \in Keys : db.map[k] # NoMapping => db'.map[k] = db.map[k]]_vars
    BY <1>1
  <1> QED BY <1>2, McpInvariant, PTL DEF Spec
=============================================================================
