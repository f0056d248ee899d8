------------------------------ MODULE ConsoleProofs ------------------------------
(***************************************************************************)
(* Theorems about the operator's page: what it shows is what it decides,   *)
(* and once every answer is in, what of it is the server's.                *)
(*                                                                         *)
(* What the cache of events holds does not depend on the order of the      *)
(* answers.  The rest does: while none overtakes another an answer is      *)
(* always the oldest request's, so that the requests in flight are a       *)
(* promise.  The list of cases that is not yet the server's will be asked  *)
(* for; the last load draws the timeline of the page, and the last request *)
(* of the run view its run, unless a draw from the cache passed another's. *)
(***************************************************************************)
EXTENDS Console, SequenceTheorems, FiniteSetTheorems, TLAPS

\* Names of pairs of variables.
USE DEF caseTimeline, runView

-----------------------------------------------------------------------------
(* Types.                                                                  *)

Posts == [kind: {"post"}, case: Cases, op: Ops, held: BOOLEAN, shown: Cases \cup {None},
          answer: {None, "ok", "error"}]

Refreshes == [kind: {"refresh"}, case: Cases \cup {None}, op: Ops \cup {"none"}, held: BOOLEAN,
              answer: {None} \cup [Cases -> Statuses]]

Loads == [kind: {"load"}, case: Cases, op: Ops \cup {"none"}, chained: BOOLEAN,
          answer: {None} \cup Nat]

LoadRuns == [kind: {"run"}, case: Cases, status: Statuses \cup {"none"}, op: Ops \cup {"none"},
             answer: {None} \cup Nat]

Requests == Posts \cup Refreshes \cup Loads \cup LoadRuns

Views == [case: Cases \cup {None}, log: Nat]

\* The button that started r waits for it.
Held(r) == r.kind \in {"post", "refresh"} /\ r.held

\* The buttons that wait are of a page with status s.
Holders(f, s) == \A i \in 1 .. Len(f) : Held(f[i]) => f[i].op \in Buttons(s)

TypeInv ==
    /\ status \in [Cases -> Statuses] /\ log \in [Cases -> Nat]
    /\ tickets \in [Cases -> Statuses \cup {"none"}] /\ cache \in [Cases -> Nat]
    /\ selected \in Cases \cup {None} /\ dialog \in Cases \cup {None}
    /\ view \in {"cases", "runs"}
    /\ page \in Drawn /\ timeline \in Views
    /\ run \in [case: Cases \cup {None}, status: Statuses \cup {"none"}, log: Nat]
    /\ flight \in Seq(Requests)
    /\ selected = None => dialog = None /\ view = "cases"
    /\ page.on \subseteq Buttons(page.status)
    /\ Holders(flight, page.status)

-----------------------------------------------------------------------------
(* Requests, and lists of them.                                            *)

\* A request is of one of four kinds.
LEMMA RequestKinds ==
    ASSUME NEW r \in Requests
    PROVE  /\ r.kind \in Request
           /\ r.op \in Ops \cup {"none"} /\ r.case \in Cases \cup {None}
           /\ r.kind = "post" => r \in Posts
           /\ r.kind = "refresh" => r \in Refreshes
           /\ r.kind = "load" => r \in Loads
           /\ r.kind = "run" => r \in LoadRuns
  BY DEF Requests, Posts, Refreshes, Loads, LoadRuns, Request

\* What the requests of the page are.
LEMMA NewRequests ==
    /\ \A op \in Ops, t \in Cases, shown \in Cases \cup {None} : Post(op, t, shown) \in Posts
    /\ \A t \in Cases \cup {None}, op \in Ops \cup {"none"}, held \in BOOLEAN :
         Refresh(t, op, held) \in Refreshes
    /\ \A t \in Cases, op \in Ops \cup {"none"}, chained \in BOOLEAN : Load(t, op, chained) \in Loads
    /\ \A t \in Cases, s \in Statuses \cup {"none"}, op \in Ops \cup {"none"} :
         LoadRun(t, s, op) \in LoadRuns
  BY DEF Post, Refresh, Load, LoadRun, Posts, Refreshes, Loads, LoadRuns

\* r and s are one request, but for its answer and its button.
SameRequest(r, s) ==
    /\ r.kind = s.kind /\ r.case = s.case /\ r.op = s.op
    /\ r.kind = "load" => r.chained = s.chained
    /\ r.kind = "run" => r.status = s.status

\* An answer that came in belongs to the kind of its request.
LEMMA AnswerFacts ==
    ASSUME NEW r \in Requests, NEW a,
           \/ r.kind = "post" /\ a \in {"ok", "error"}
           \/ r.kind = "refresh" /\ a \in [Cases -> Statuses]
           \/ r.kind \in {"load", "run"} /\ a \in Nat
    PROVE  LET s == [r EXCEPT !.answer = a] IN
           s \in Requests /\ SameRequest(r, s) /\ (Held(s) <=> Held(r)) /\ s.answer = a
  <1> DEFINE s == [r EXCEPT !.answer = a]
  <1>1. CASE r.kind = "post"
    <2>1. r \in Posts /\ a \in {"ok", "error"}
      BY <1>1, RequestKinds
    <2> QED BY <2>1 DEF Posts, Requests, SameRequest, Held
  <1>2. CASE r.kind = "refresh"
    <2>1. r \in Refreshes /\ a \in [Cases -> Statuses]
      BY <1>2, RequestKinds
    <2> QED BY <2>1 DEF Refreshes, Requests, SameRequest, Held
  <1>3. CASE r.kind = "load"
    <2>1. r \in Loads /\ a \in Nat
      BY <1>3, RequestKinds
    <2> QED BY <2>1 DEF Loads, Requests, SameRequest, Held
  <1>4. CASE r.kind = "run"
    <2>1. r \in LoadRuns /\ a \in Nat
      BY <1>4, RequestKinds
    <2> QED BY <2>1 DEF LoadRuns, Requests, SameRequest, Held
  <1> QED BY <1>1, <1>2, <1>3, <1>4, RequestKinds DEF Request

\* A button that is drawn again is nobody's.
LEMMA LetGo ==
    ASSUME NEW r \in Requests, r.kind \in {"post", "refresh"}
    PROVE  LET s == [r EXCEPT !.held = FALSE] IN
           s \in Requests /\ SameRequest(r, s) /\ ~Held(s) /\ s.answer = r.answer
  <1> DEFINE s == [r EXCEPT !.held = FALSE]
  <1>1. CASE r.kind = "post"
    <2>1. r \in Posts
      BY <1>1, RequestKinds
    <2> QED BY <2>1 DEF Posts, Requests, SameRequest, Held
  <1>2. CASE r.kind = "refresh"
    <2>1. r \in Refreshes
      BY <1>2, RequestKinds
    <2> QED BY <2>1 DEF Refreshes, Requests, SameRequest, Held
  <1> QED BY <1>1, <1>2

\* g is f without its first d requests.
Since(f, g, d) ==
    /\ g \in Seq(Requests) /\ Len(g) = Len(f) - d
    /\ \A i \in 1 .. Len(g) : SameRequest(f[i + d], g[i]) /\ g[i].answer = f[i + d].answer

\* The members of a list of requests are requests.
LEMMA RequestsAt ==
    ASSUME NEW f \in Seq(Requests)
    PROVE  /\ Len(f) \in Nat /\ DOMAIN f = 1 .. Len(f)
           /\ \A i \in 1 .. Len(f) : f[i] \in Requests
           /\ Since(f, f, 0)
  <1>1. Len(f) \in Nat /\ DOMAIN f = 1 .. Len(f) /\ f \in [1 .. Len(f) -> Requests]
    BY LenProperties
  <1> QED BY <1>1 DEF Since, SameRequest

\* Drawing a page keeps the requests, and lets their buttons go.
LEMMA RedrawnFacts ==
    ASSUME NEW f \in Seq(Requests)
    PROVE  /\ Since(f, Redrawn(f), 0)
           /\ \A i \in 1 .. Len(f) : ~Held(Redrawn(f)[i])
  <1> DEFINE g == Redrawn(f)
  <1>1. Len(f) \in Nat /\ DOMAIN f = 1 .. Len(f) /\ \A i \in 1 .. Len(f) : f[i] \in Requests
    BY RequestsAt
  <1>2. ASSUME NEW i \in 1 .. Len(f)
        PROVE  g[i] \in Requests /\ SameRequest(f[i], g[i]) /\ ~Held(g[i]) /\ g[i].answer = f[i].answer
    <2>1. f[i] \in Requests
      BY <1>1
    <2>2. g[i] = IF f[i].kind \in {"post", "refresh"} THEN [f[i] EXCEPT !.held = FALSE] ELSE f[i]
      BY <1>1 DEF Redrawn
    <2>3. CASE f[i].kind \in {"post", "refresh"}
      BY <2>1, <2>2, <2>3, LetGo
    <2>4. CASE f[i].kind \notin {"post", "refresh"}
      BY <2>1, <2>2, <2>4 DEF SameRequest, Held
    <2> QED BY <2>3, <2>4
  <1>3. g \in [1 .. Len(f) -> Requests]
    BY <1>1, <1>2 DEF Redrawn
  <1>4. g \in Seq(Requests)
    BY <1>1, <1>3, SeqDef
  <1>5. Len(g) = Len(f)
    <2>1. Len(g) \in Nat /\ DOMAIN g = 1 .. Len(g)
      BY <1>4, LenProperties
    <2> QED BY <1>1, <1>3, <2>1
  <1>6. \A i \in 1 .. Len(g) : i + 0 = i
    BY <1>1, <1>5
  <1> QED BY <1>2, <1>4, <1>5, <1>6, <1>1 DEF Since

\* The list without its i-th request.
LEMMA RestFacts ==
    ASSUME NEW i \in DOMAIN flight, TypeInv
    PROVE  /\ Rest(i) \in Seq(Requests) /\ Len(Rest(i)) = Len(flight) - 1
           /\ \A j \in 1 .. Len(flight) - 1 : Rest(i)[j] = flight[IF j < i THEN j ELSE j + 1]
           /\ i = 1 => Since(flight, Rest(i), 1)
  <1> DEFINE n == Len(flight)
             g == SubSeq(flight, 1, i - 1)
             h == SubSeq(flight, i + 1, n)
  <1>1. n \in Nat /\ DOMAIN flight = 1 .. n /\ \A j \in 1 .. n : flight[j] \in Requests
    BY RequestsAt DEF TypeInv
  <1>2. i \in 1 .. n
    BY <1>1
  <1>3. \A j \in 1 .. i - 1 : flight[j] \in Requests
    BY <1>1, <1>2
  <1>4. \A j \in i + 1 .. n : flight[j] \in Requests
    BY <1>1, <1>2
  <1>5. g \in Seq(Requests) /\ Len(g) = i - 1 /\ \A j \in 1 .. i - 1 : g[j] = flight[j]
    <2>1. 1 \in Int /\ i - 1 \in Int
      BY <1>1, <1>2
    <2>2. /\ g \in Seq(Requests)
          /\ Len(g) = IF 1 <= i - 1 THEN (i - 1) - 1 + 1 ELSE 0
          /\ \A j \in 1 .. (i - 1) - 1 + 1 : g[j] = flight[1 + j - 1]
      BY <1>3, <2>1, SubSeqProperties
    <2> QED BY <1>1, <1>2, <2>2
  <1>6. h \in Seq(Requests) /\ Len(h) = n - i /\ \A j \in 1 .. n - i : h[j] = flight[i + j]
    <2>1. i + 1 \in Int /\ n \in Int
      BY <1>1, <1>2
    <2>2. /\ h \in Seq(Requests)
          /\ Len(h) = IF i + 1 <= n THEN n - (i + 1) + 1 ELSE 0
          /\ \A j \in 1 .. n - (i + 1) + 1 : h[j] = flight[(i + 1) + j - 1]
      BY <1>4, <2>1, SubSeqProperties
    <2> QED BY <1>1, <1>2, <2>2
  <1>7. Rest(i) = g \o h
    BY DEF Rest, RemoveAt
  <1> HIDE DEF g, h
  <1>8. /\ g \o h \in Seq(Requests) /\ Len(g \o h) = Len(g) + Len(h)
        /\ \A j \in 1 .. Len(g) + Len(h) : (g \o h)[j] = IF j <= Len(g) THEN g[j] ELSE h[j - Len(g)]
    BY <1>5, <1>6, ConcatProperties
  <1>9. Len(Rest(i)) = n - 1
    BY <1>1, <1>2, <1>5, <1>6, <1>7, <1>8
  <1>10. ASSUME NEW j \in 1 .. n - 1
         PROVE  Rest(i)[j] = flight[IF j < i THEN j ELSE j + 1]
    <2>1. CASE j < i
      BY <1>1, <1>2, <1>5, <1>6, <1>7, <1>8, <2>1
    <2>2. CASE ~(j < i)
      <3>1. (g \o h)[j] = h[j - (i - 1)]
        BY <1>1, <1>2, <1>5, <1>6, <1>8, <2>2
      <3>2. j - (i - 1) \in 1 .. n - i /\ i + (j - (i - 1)) = j + 1
        BY <1>1, <1>2, <2>2
      <3> QED BY <1>6, <1>7, <3>1, <3>2, <2>2
    <2> QED BY <2>1, <2>2
  <1>11. ASSUME i = 1 PROVE Since(flight, Rest(i), 1)
    <2>1. \A j \in 1 .. n - 1 : Rest(i)[j] = flight[j + 1]
      BY <1>1, <1>10, <1>11
    <2> QED BY <1>7, <1>8, <1>9, <2>1 DEF Since, SameRequest
  <1> QED BY <1>7, <1>8, <1>9, <1>10, <1>11

-----------------------------------------------------------------------------
(* Steps.                                                                  *)

\* g is f without its first d requests, and with r at its end.
Sent(f, g, d, r) ==
    /\ g \in Seq(Requests) /\ Len(g) = Len(f) - d + 1
    /\ \A i \in 1 .. Len(g) - 1 : SameRequest(f[i + d], g[i]) /\ g[i].answer = f[i + d].answer
    /\ g[Len(g)] = r

\* Drawing from the requests f leaves g: it may ask for events.
Draws(f, g) ==
    \/ Since(f, g, 0)
    \/ \E r : r.kind \in {"load", "run"} /\ ~Answered(r) /\ Sent(f, g, 0, r)

\* Sending a request.
LEMMA SentFacts ==
    ASSUME NEW f \in Seq(Requests), NEW g \in Seq(Requests), NEW d \in {0, 1}, NEW r \in Requests,
           Since(f, g, d)
    PROVE  /\ Sent(f, Append(g, r), d, r)
           /\ Append(g, r) \in Seq(Requests) /\ Len(Append(g, r)) = Len(g) + 1
           /\ \A i \in 1 .. Len(g) : Append(g, r)[i] = g[i]
           /\ Append(g, r)[Len(g) + 1] = r
  <1>1. Len(g) \in Nat
    BY LenProperties
  <1>2. /\ Append(g, r) \in Seq(Requests) /\ Len(Append(g, r)) = Len(g) + 1
        /\ \A i \in 1 .. Len(g) : Append(g, r)[i] = g[i]
        /\ Append(g, r)[Len(g) + 1] = r
    BY AppendProperties
  <1> QED BY <1>1, <1>2 DEF Sent, Since

\* A list that lost its first d requests, and then goes on.
LEMMA SinceThen ==
    ASSUME NEW f \in Seq(Requests), NEW g \in Seq(Requests), NEW h \in Seq(Requests),
           NEW d \in {0, 1}, NEW r, Since(f, g, d)
    PROVE  /\ Since(g, h, 0) => Since(f, h, d)
           /\ Sent(g, h, 0, r) => Sent(f, h, d, r)
  <1>1. Len(f) \in Nat /\ Len(g) \in Nat /\ Len(h) \in Nat /\ Len(g) = Len(f) - d
    BY LenProperties DEF Since
  <1>2. \A i \in 1 .. Len(g) : SameRequest(f[i + d], g[i]) /\ g[i].answer = f[i + d].answer
    BY DEF Since
  <1>3. ASSUME Since(g, h, 0) PROVE Since(f, h, d)
    <2>1. Len(h) = Len(g) /\ \A i \in 1 .. Len(g) : SameRequest(g[i], h[i]) /\ h[i].answer = g[i].answer
      BY <1>1, <1>3 DEF Since
    <2> QED BY <1>1, <1>2, <2>1 DEF Since, SameRequest
  <1>4. ASSUME Sent(g, h, 0, r) PROVE Sent(f, h, d, r)
    <2>1. Len(h) = Len(g) + 1 /\ Len(h) - 1 = Len(g) /\ h[Len(h)] = r
      BY <1>1, <1>4 DEF Sent
    <2>2. ASSUME NEW i \in 1 .. Len(g)
          PROVE  SameRequest(g[i], h[i]) /\ h[i].answer = g[i].answer
      <3>1. i \in 1 .. Len(h) - 1 /\ i + 0 = i
        BY <1>1, <2>1
      <3> QED BY <1>4, <3>1 DEF Sent
    <2>3. ASSUME NEW i \in 1 .. Len(g)
          PROVE  SameRequest(f[i + d], h[i]) /\ h[i].answer = f[i + d].answer
      BY <1>2, <2>2 DEF SameRequest
    <2>4. Len(h) = Len(f) - d + 1 /\ 1 .. Len(h) - 1 = 1 .. Len(g)
      BY <1>1, <2>1
    <2> QED BY <2>1, <2>3, <2>4 DEF Sent
  <1> QED BY <1>3, <1>4

\* The server's answer a to request i.
Answers(i, a) ==
    /\ flight' \in Seq(Requests) /\ Len(flight') = Len(flight)
    /\ SameRequest(flight[i], flight'[i]) /\ (Held(flight'[i]) <=> Held(flight[i]))
    /\ flight'[i].answer = a
    /\ \A j \in 1 .. Len(flight) : j # i => flight'[j] = flight[j]

\* An answer fits its request, and changes nothing else of it.
LEMMA AnswersFacts ==
    ASSUME TypeInv, NEW i \in DOMAIN flight, NEW a, Replies(i, a),
           \/ flight[i].kind = "post" /\ a \in {"ok", "error"}
           \/ flight[i].kind = "refresh" /\ a \in [Cases -> Statuses]
           \/ flight[i].kind \in {"load", "run"} /\ a \in Nat
    PROVE  i \in 1 .. Len(flight) /\ Answers(i, a)
  <1> DEFINE e == [flight[i] EXCEPT !.answer = a]
  <1>1. flight \in Seq(Requests) /\ Len(flight) \in Nat /\ i \in 1 .. Len(flight) /\ flight[i] \in Requests
    BY RequestsAt DEF TypeInv
  <1>2. e \in Requests /\ SameRequest(flight[i], e) /\ (Held(e) <=> Held(flight[i])) /\ e.answer = a
    BY <1>1, AnswerFacts
  <1>3. flight' = [flight EXCEPT ![i] = e]
    BY DEF Replies
  <1> HIDE DEF e
  <1>4. /\ [flight EXCEPT ![i] = e] \in Seq(Requests)
        /\ Len([flight EXCEPT ![i] = e]) = Len(flight)
        /\ \A j \in 1 .. Len(flight) : [flight EXCEPT ![i] = e][j] = IF j = i THEN e ELSE flight[j]
    BY <1>1, <1>2, ExceptSeq
  <1> QED BY <1>1, <1>2, <1>3, <1>4 DEF Answers

\* What the server does with a request, and answers.
LEMMA ServeShape ==
    ASSUME TypeInv, NEW i \in DOMAIN flight, Serve(i)
    PROVE  LET r == flight[i] IN
           /\ i \in 1 .. Len(flight) /\ r \in Requests
           /\ \/ r.kind = "refresh" /\ Answers(i, status) /\ UNCHANGED server
              \/ r.kind \in {"load", "run"} /\ Answers(i, log[r.case]) /\ UNCHANGED server
              \/ r.kind = "post" /\ Answers(i, "error") /\ UNCHANGED server
              \/ r.kind = "post" /\ Answers(i, "ok") /\ UNCHANGED server
              \/ /\ r.kind = "post" /\ Answers(i, "ok")
                 /\ \E s \in Statuses : Decided(r.case, s)
           /\ ~Answered(r)
           /\ UNCHANGED <<tickets, selected, view, cache, screen, faults>>
  <1> DEFINE r == flight[i]
  <1>1. i \in 1 .. Len(flight) /\ r \in Requests
    BY RequestsAt DEF TypeInv
  <1>2. r.kind \in Request
    BY <1>1, RequestKinds
  <1>3. CASE r.kind = "refresh"
    <2>1. Replies(i, status) /\ UNCHANGED server
      BY <1>3 DEF Serve
    <2>2. Answers(i, status)
      BY <1>3, <2>1, AnswersFacts DEF TypeInv
    <2> QED BY <1>1, <1>3, <2>1, <2>2 DEF Serve
  <1>4. CASE r.kind \in {"load", "run"}
    <2>1. Replies(i, log[r.case]) /\ UNCHANGED server
      BY <1>4 DEF Serve
    <2>2. r.case \in Cases
      BY <1>1, <1>4, RequestKinds DEF Loads, LoadRuns
    <2>3. log[r.case] \in Nat
      BY <2>2 DEF TypeInv
    <2>4. Answers(i, log[r.case])
      BY <1>4, <2>1, <2>3, AnswersFacts
    <2> QED BY <1>1, <1>4, <2>1, <2>4 DEF Serve
  <1>5. CASE r.kind = "post"
    <2>1. \/ Replies(i, "error") /\ UNCHANGED server
          \/ Replies(i, "ok") /\ UNCHANGED server
          \/ Replies(i, "ok") /\ \E s \in Statuses : Decided(r.case, s)
      BY <1>5 DEF Serve, Approves, Statuses
    <2>2. \A a \in {"error", "ok"} : Replies(i, a) => Answers(i, a)
      BY <1>5, AnswersFacts
    <2> QED BY <1>1, <1>5, <2>1, <2>2 DEF Serve
  <1> QED BY <1>2, <1>3, <1>4, <1>5 DEF Request

\* A request from a button of the page, and a redraw, keep the buttons that wait the page's.
LEMMA HoldersFacts ==
    ASSUME NEW f \in Seq(Requests), NEW r \in Requests, NEW s
    PROVE  /\ Holders(f, s) /\ (Held(r) => r.op \in Buttons(s)) => Holders(Append(f, r), s)
           /\ Holders(Redrawn(f), s)
  <1>1. Len(f) \in Nat /\ Since(f, f, 0)
    BY RequestsAt
  <1>2. Len(Append(f, r)) = Len(f) + 1 /\ (\A i \in 1 .. Len(f) : Append(f, r)[i] = f[i])
        /\ Append(f, r)[Len(f) + 1] = r
    BY AppendProperties
  <1>3. Since(f, Redrawn(f), 0) /\ \A i \in 1 .. Len(f) : ~Held(Redrawn(f)[i])
    BY RedrawnFacts
  <1>4. Len(Redrawn(f)) = Len(f)
    BY <1>1, <1>3 DEF Since
  <1>5. Holders(Redrawn(f), s)
    BY <1>3, <1>4 DEF Holders
  <1>6. ASSUME Holders(f, s), Held(r) => r.op \in Buttons(s), NEW i \in 1 .. Len(Append(f, r)), Held(Append(f, r)[i])
        PROVE  Append(f, r)[i].op \in Buttons(s)
    <2>1. CASE i \in 1 .. Len(f)
      BY <1>2, <1>6, <2>1 DEF Holders
    <2>2. CASE i = Len(f) + 1
      BY <1>2, <1>6, <2>2
    <2> QED BY <1>1, <1>2, <2>1, <2>2
  <1> QED BY <1>5, <1>6 DEF Holders

\* Without its i-th request.
LEMMA HoldersRest ==
    ASSUME NEW i \in DOMAIN flight, TypeInv
    PROVE  Holders(Rest(i), page.status)
  <1>1. /\ Rest(i) \in Seq(Requests) /\ Len(Rest(i)) = Len(flight) - 1
        /\ \A j \in 1 .. Len(flight) - 1 : Rest(i)[j] = flight[IF j < i THEN j ELSE j + 1]
    BY RestFacts
  <1>2. Len(flight) \in Nat /\ DOMAIN flight = 1 .. Len(flight)
    BY RequestsAt DEF TypeInv
  <1>3. \A j \in 1 .. Len(flight) - 1 : (IF j < i THEN j ELSE j + 1) \in 1 .. Len(flight)
    BY <1>2
  <1> QED BY <1>1, <1>3 DEF TypeInv, Holders

\* The run view is drawn from the cache, or its events are asked for.
LEMMA RunsShape ==
    ASSUME TypeInv, NEW sel \in Cases, NEW tks \in [Cases -> Statuses \cup {"none"}],
           NEW ch \in [Cases -> Nat], NEW f \in Seq(Requests),
           NEW op \in Ops \cup {"none"}, RenderRuns(sel, tks, ch, f, op)
    PROVE  /\ \/ /\ ch[sel] # 0 /\ run' = [case |-> sel, status |-> tks[sel], log |-> ch[sel]] /\ flight' = f
                 /\ pastRun' = ~RunIsFor(f, sel, tks[sel])
              \/ /\ ch[sel] = 0 /\ UNCHANGED run
                 /\ Sent(f, flight', 0, LoadRun(sel, tks[sel], op))
                 /\ flight' = Append(f, LoadRun(sel, tks[sel], op))
           /\ run' \in [case: Cases \cup {None}, status: Statuses \cup {"none"}, log: Nat]
           /\ flight' \in Seq(Requests) /\ Draws(f, flight')
           /\ \A s : Holders(f, s) => Holders(flight', s)
  <1> DEFINE r == LoadRun(sel, tks[sel], op)
  <1>1. tks[sel] \in Statuses \cup {"none"} /\ ch[sel] \in Nat
    OBVIOUS
  <1>2. r \in LoadRuns /\ r.kind = "run" /\ ~Answered(r)
    BY <1>1, NewRequests DEF LoadRun, Answered
  <1>3. r \in Requests /\ ~Held(r)
    BY <1>2 DEF Requests, Held
  <1>4. CASE ch[sel] # 0
    <2>1. /\ run' = [case |-> sel, status |-> tks[sel], log |-> ch[sel]] /\ flight' = f
          /\ pastRun' = ~RunIsFor(f, sel, tks[sel])
      BY <1>4 DEF RenderRuns
    <2>2. Since(f, f, 0)
      BY RequestsAt
    <2> QED BY <1>1, <1>4, <2>1, <2>2 DEF Draws
  <1>5. CASE ch[sel] = 0
    <2>1. flight' = Append(f, r) /\ UNCHANGED run
      BY <1>5 DEF RenderRuns
    <2> HIDE DEF r
    <2>2. Sent(f, Append(f, r), 0, r) /\ Append(f, r) \in Seq(Requests)
      BY <1>3, RequestsAt, SentFacts
    <2>3. \A s : Holders(f, s) => Holders(Append(f, r), s)
      BY <1>3, HoldersFacts
    <2>4. Draws(f, Append(f, r))
      BY <1>2, <2>2 DEF Draws
    <2> QED BY <1>5, <2>1, <2>2, <2>3, <2>4 DEF TypeInv, r
  <1> QED BY <1>4, <1>5

\* A page is drawn, with its timeline from the cache, or its events are asked for.
LEMMA DrawShape ==
    ASSUME TypeInv, NEW sel \in Cases, NEW tks \in [Cases -> Statuses \cup {"none"}],
           NEW f \in Seq(Requests),
           NEW op \in Ops \cup {"none"}, NEW chained \in BOOLEAN,
           RenderSelected(sel, tks, cache, f, op, chained)
    PROVE  /\ page' = [case |-> sel, status |-> tks[sel], on |-> Buttons(tks[sel])]
           /\ picked' = FALSE /\ page' \in Drawn /\ page'.on \subseteq Buttons(page'.status)
           /\ flight' \in Seq(Requests) /\ Draws(f, flight') /\ (\A s : Holders(flight', s))
           /\ timeline' \in Views
           /\ run' \in [case: Cases \cup {None}, status: Statuses \cup {"none"}, log: Nat]
           /\ cache[sel] # 0 => /\ timeline' = [case |-> sel, log |-> cache[sel]]
                               /\ pastLoad' = ~LoadIsFor(f, sel)
                               /\ Since(f, flight', 0)
           /\ cache[sel] = 0 => /\ Sent(f, flight', 0, Load(sel, op, chained))
                               /\ UNCHANGED <<timeline, run>>
  <1> DEFINE g == Redrawn(f)
             r == Load(sel, op, chained)
  <1>1. tks[sel] \in Statuses \cup {"none"} /\ cache[sel] \in Nat
    BY DEF TypeInv
  <1>2. /\ page' = [case |-> sel, status |-> tks[sel], on |-> Buttons(tks[sel])]
        /\ picked' = FALSE
    BY DEF RenderSelected
  <1>3. Buttons(tks[sel]) \subseteq Ops
    BY DEF Buttons, Ops
  <1>4. page' \in Drawn /\ page'.on \subseteq Buttons(page'.status)
    BY <1>1, <1>2, <1>3 DEF Drawn
  <1>5. Since(f, g, 0) /\ g \in Seq(Requests)
    BY RedrawnFacts DEF Since
  <1>7. \A s : Holders(g, s)
    <2>1. First \in Cases
      BY CasesAssumption
    <2>2. Refresh(First, "none", FALSE) \in Requests
      BY <2>1, NewRequests DEF Requests
    <2> QED BY <2>2, HoldersFacts
  <1>8. r \in Loads /\ r.kind = "load" /\ ~Answered(r)
    BY NewRequests DEF Load, Answered
  <1>9. r \in Requests /\ ~Held(r)
    BY <1>8 DEF Requests, Held
  <1>10. CASE cache[sel] # 0
    <2>1. timeline' = [case |-> sel, log |-> cache[sel]] /\ pastLoad' = ~LoadIsFor(f, sel)
      BY <1>10 DEF RenderSelected
    <2>2. CASE chained /\ view = "runs"
      <3>1. RenderRuns(sel, tks, cache, g, op)
        BY <1>10, <2>2 DEF RenderSelected
      <3> HIDE DEF g
      <3>2. /\ run' \in [case: Cases \cup {None}, status: Statuses \cup {"none"}, log: Nat]
            /\ flight' \in Seq(Requests) /\ Draws(g, flight')
            /\ \A s : Holders(g, s) => Holders(flight', s)
            /\ flight' = g
        <4>1. cache \in [Cases -> Nat]
          BY DEF TypeInv
        <4> QED BY <3>1, <1>5, <1>10, <4>1, RunsShape
      <3>3. Draws(f, flight')
        <4>1. Since(g, flight', 0) => Since(f, flight', 0)
          BY <1>5, <3>2, SinceThen
        <4>2. \A q : Sent(g, flight', 0, q) => Sent(f, flight', 0, q)
          BY <1>5, <3>2, SinceThen
        <4> QED BY <3>2, <4>1, <4>2 DEF Draws
      <3>4. timeline' \in Views
        BY <1>1, <2>1 DEF Views
      <3>5. Since(f, flight', 0)
        BY <1>5, <3>2
      <3>6. \A s : Holders(flight', s)
        BY <1>7, <3>2
      <3> QED BY <1>2, <1>4, <1>10, <2>1, <3>2, <3>3, <3>4, <3>5, <3>6
    <2>3. CASE ~(chained /\ view = "runs")
      <3>1. flight' = g /\ UNCHANGED run
        BY <1>10, <2>3 DEF RenderSelected
      <3> HIDE DEF g
      <3> QED BY <1>1, <1>2, <1>4, <1>5, <1>7, <1>10, <2>1, <3>1 DEF Views, TypeInv, Draws
    <2> QED BY <2>2, <2>3
  <1>11. CASE cache[sel] = 0
    <2>1. flight' = Append(g, r) /\ UNCHANGED <<timeline, run>>
      BY <1>11 DEF RenderSelected
    <2> HIDE DEF g, r
    <2>2. Sent(f, Append(g, r), 0, r) /\ Append(g, r) \in Seq(Requests)
      BY <1>5, <1>9, SentFacts
    <2>3. \A s : Holders(Append(g, r), s)
      BY <1>5, <1>7, <1>9, HoldersFacts
    <2>4. Draws(f, Append(g, r))
      BY <1>8, <2>2 DEF Draws
    <2> QED BY <1>2, <1>4, <1>11, <2>1, <2>2, <2>3, <2>4 DEF TypeInv, r
  <1> QED BY <1>10, <1>11

\* The page starts well typed, waiting for its first list of cases.
LEMMA TypeInit == Init => TypeInv
  <1> SUFFICES ASSUME Init PROVE TypeInv
    OBVIOUS
  <1> DEFINE r == [kind |-> "refresh", case |-> None, op |-> "none", held |-> FALSE, answer |-> None]
  <1>1. r \in Requests /\ ~Held(r)
    BY DEF Requests, Refreshes, Held
  <1>2. flight = <<r>>
    BY DEF Init
  <1> HIDE DEF r
  <1>3. flight \in Seq(Requests) /\ Holders(flight, page.status)
    BY <1>1, <1>2 DEF Holders
  <1>4. page \in Drawn /\ page.on = {}
    BY DEF Init, Drawn
  <1> QED BY <1>3, <1>4, CasesAssumption DEF Init, TypeInv, Statuses, Blank, Views

\* A click that only draws, or sends its request.
LEMMA ClickTypes ==
    ASSUME TypeInv, Operator
    PROVE  TypeInv'
  <1>1. flight \in Seq(Requests) /\ cache \in [Cases -> Nat] /\ "none" \in Ops \cup {"none"}
        /\ tickets \in [Cases -> Statuses \cup {"none"}] /\ Holders(flight, page.status)
    BY DEF TypeInv
  <1>2. ASSUME NEW t \in Cases, PickCase(t) PROVE TypeInv'
    <2>1. /\ page' \in Drawn /\ page'.on \subseteq Buttons(page'.status)
          /\ flight' \in Seq(Requests) /\ (\A s : Holders(flight', s))
          /\ timeline' \in Views
          /\ run' \in [case: Cases \cup {None}, status: Statuses \cup {"none"}, log: Nat]
      BY <1>1, <1>2, DrawShape DEF PickCase
    <2> QED BY <1>2, <2>1 DEF PickCase, TypeInv, Click, server
  <1>3. ASSUME NEW t \in Cases, PickRun(t) PROVE TypeInv'
    <2>1. /\ run' \in [case: Cases \cup {None}, status: Statuses \cup {"none"}, log: Nat]
          /\ flight' \in Seq(Requests) /\ \A s : Holders(flight, s) => Holders(flight', s)
      BY <1>1, <1>3, RunsShape DEF PickRun
    <2>2. t # None
      BY CasesAssumption
    <2> QED BY <1>3, <2>1, <2>2 DEF PickRun, TypeInv, Click, server
  <1>4. ASSUME NEW v \in {"cases", "runs"}, SetView(v) PROVE TypeInv'
    <2>1. /\ run' \in [case: Cases \cup {None}, status: Statuses \cup {"none"}, log: Nat]
          /\ flight' \in Seq(Requests) /\ \A s : Holders(flight, s) => Holders(flight', s)
      <3>1. selected \in Cases
        BY <1>4 DEF SetView, Click, TypeInv
      <3>2. CASE v = "runs"
        BY <1>1, <1>4, <3>1, <3>2, RunsShape DEF SetView
      <3>3. CASE v # "runs"
        BY <1>4, <3>3 DEF SetView, TypeInv
      <3> QED BY <3>2, <3>3
    <2> QED BY <1>4, <2>1 DEF SetView, TypeInv, Click, server
  <1>5. ASSUME NEW op \in Ops, PerformAction(op) PROVE TypeInv'
    <2> DEFINE r == Post(op, selected, page.case)
    <2>1. op \in page.on /\ op \in Buttons(page.status) /\ selected \in Cases /\ page.case \in Cases \cup {None}
      BY <1>5 DEF PerformAction, Click, TypeInv, Drawn
    <2>2. r \in Requests /\ r.op = op
      BY <2>1, NewRequests DEF Requests, Post
    <2>3. flight' = Append(flight, r) /\ page' = [page EXCEPT !.on = @ \ {op}]
      BY <1>5 DEF PerformAction
    <2> HIDE DEF r
    <2>4. Append(flight, r) \in Seq(Requests)
      BY <1>1, <2>2, AppendProperties
    <2>5. Holders(Append(flight, r), page.status)
      BY <1>1, <2>1, <2>2, HoldersFacts
    <2>6. page' \in Drawn /\ page'.on \subseteq Buttons(page'.status) /\ page'.status = page.status
      BY <2>3 DEF TypeInv, Drawn
    <2> QED BY <1>5, <2>3, <2>4, <2>5, <2>6 DEF PerformAction, TypeInv, Click, server
  <1>6. CASE OpenDialog
    BY <1>6 DEF OpenDialog, Click, TypeInv, server, Drawn, faults
  <1>7. CASE Cancel
    BY <1>7 DEF Cancel, TypeInv, server, faults
  <1>8. CASE RejectSelected
    <2> DEFINE r == Post("reject", selected, dialog)
    <2>1. selected \in Cases /\ dialog \in Cases \cup {None} /\ "reject" \in Ops
      BY <1>8 DEF RejectSelected, TypeInv, Ops
    <2>2. r \in Requests /\ ~Held(r)
      BY <2>1, NewRequests DEF Requests, Post, Held
    <2>3. flight' = Append(flight, r)
      BY <1>8 DEF RejectSelected
    <2> HIDE DEF r
    <2>4. Append(flight, r) \in Seq(Requests) /\ Holders(Append(flight, r), page.status)
      BY <1>1, <2>2, AppendProperties, HoldersFacts
    <2> QED BY <1>8, <2>3, <2>4 DEF RejectSelected, TypeInv, server, screen
  <1> QED BY <1>2, <1>3, <1>4, <1>5, <1>6, <1>7, <1>8 DEF Operator

\* A button that works again is one of the page's.
LEMMA CaughtFacts ==
    ASSUME TypeInv, NEW i \in DOMAIN flight, Caught(flight[i])
    PROVE  /\ page' \in Drawn /\ page'.on \subseteq Buttons(page'.status)
           /\ page'.case = page.case /\ page'.status = page.status
           /\ page'.on = IF Held(flight[i]) THEN page.on \cup {flight[i].op} ELSE page.on
  <1> DEFINE r == flight[i]
  <1>1. r \in Requests /\ i \in 1 .. Len(flight)
    BY RequestsAt DEF TypeInv
  <1>2. page \in [case: Cases \cup {None}, status: Statuses \cup {"none"}, on: SUBSET Ops]
        /\ page.on \subseteq Buttons(page.status) /\ (Held(r) => r.op \in Buttons(page.status))
    BY <1>1 DEF TypeInv, Drawn, Holders
  <1>3. Buttons(page.status) \subseteq Ops
    BY DEF Buttons, Ops
  <1>4. CASE Held(r)
    <2>1. page' = [page EXCEPT !.on = page.on \cup {r.op}]
      BY <1>4 DEF Caught, Held
    <2> QED BY <1>2, <1>3, <1>4, <2>1 DEF Drawn
  <1>5. CASE ~Held(r)
    <2>1. page' = page
      BY <1>5 DEF Caught, Held
    <2> QED BY <1>2, <1>5, <2>1 DEF Drawn
  <1> QED BY <1>4, <1>5

\* A decision was refused, or made: then the cases are asked for again.
LEMMA PostEndsShape ==
    ASSUME TypeInv, NEW i \in DOMAIN flight, PostEnds(i)
    PROVE  LET r == flight[i] IN
           /\ r \in Posts /\ r.answer \in {"ok", "error"}
           /\ \/ /\ r.answer = "error" /\ flight' = Rest(i) /\ UNCHANGED <<cache, behind, dialog>>
                 /\ Caught(r)
              \/ /\ r.answer = "ok" /\ cache' = [cache EXCEPT ![r.case] = 0] /\ Forget(r.case)
                 /\ flight' = Append(Rest(i), Refresh(r.case, r.op, r.held))
                 /\ Sent(Rest(i), flight', 0, Refresh(r.case, r.op, r.held))
                 /\ UNCHANGED page /\ dialog' \in {dialog, None}
           /\ flight' \in Seq(Requests) /\ Holders(flight', page.status)
           /\ page' \in Drawn /\ page'.on \subseteq Buttons(page'.status)
           /\ page'.case = page.case /\ page'.status = page.status
           /\ UNCHANGED <<server, tickets, selected, view, caseTimeline, runView, picked, lost>>
  <1> DEFINE r == flight[i]
             q == Refresh(r.case, r.op, r.held)
  <1>1. r \in Requests /\ i \in 1 .. Len(flight) /\ r.kind = "post" /\ r.answer # None
    BY RequestsAt DEF TypeInv, PostEnds, Arrives, Answered
  <1>2. r \in Posts
    BY <1>1, RequestKinds
  <1>3. r.answer \in {"ok", "error"} /\ r.case \in Cases /\ r.op \in Ops /\ r.held \in BOOLEAN
    BY <1>1, <1>2 DEF Posts
  <1>4. Rest(i) \in Seq(Requests) /\ Holders(Rest(i), page.status)
    BY RestFacts, HoldersRest
  <1>5. CASE r.answer = "error"
    <2>1. Caught(r) /\ flight' = Rest(i) /\ UNCHANGED <<cache, behind, dialog>>
      BY <1>5 DEF PostEnds
    <2>2. page' \in Drawn /\ page'.on \subseteq Buttons(page'.status) /\ page'.case = page.case
          /\ page'.status = page.status
      BY <2>1, CaughtFacts
    <2> QED BY <1>2, <1>4, <1>5, <2>1, <2>2 DEF PostEnds
  <1>6. CASE r.answer = "ok"
    <2>1. r.answer # "error"
      BY <1>6
    <2>2. /\ cache' = [cache EXCEPT ![r.case] = 0] /\ Forget(r.case)
          /\ flight' = Append(Rest(i), q)
          /\ UNCHANGED page /\ dialog' \in {dialog, None}
      BY <2>1 DEF PostEnds, Forget
    <2>3. q \in Requests
      BY <1>3, NewRequests DEF Requests
    <2>4. Held(q) => q.op \in Buttons(page.status)
      <3>1. Held(q) => Held(r)
        BY <1>1 DEF Held, Refresh
      <3>2. Held(r) => r.op \in Buttons(page.status)
        BY <1>1 DEF TypeInv, Holders
      <3> QED BY <3>1, <3>2 DEF Refresh
    <2> HIDE DEF q
    <2>5. Append(Rest(i), q) \in Seq(Requests) /\ Holders(Append(Rest(i), q), page.status)
      BY <1>4, <2>3, <2>4, HoldersFacts, AppendProperties
    <2>6. Sent(Rest(i), Append(Rest(i), q), 0, q)
      BY <1>4, <2>3, RequestsAt, SentFacts
    <2>7. page \in Drawn /\ page.on \subseteq Buttons(page.status)
      BY DEF TypeInv
    <2>8. UNCHANGED <<server, tickets, selected, view, caseTimeline, runView, picked, lost>>
      BY DEF PostEnds
    <2> QED BY <1>2, <1>6, <2>2, <2>5, <2>6, <2>7, <2>8 DEF q
  <1> QED BY <1>3, <1>5, <1>6

\* The list of cases came in: a case is selected and drawn.
LEMMA RefreshEndsShape ==
    ASSUME TypeInv, NEW i \in DOMAIN flight, RefreshEnds(i)
    PROVE  LET r   == flight[i]
               sel == IF r.case # None THEN r.case ELSE First IN
           /\ r \in Refreshes /\ r.answer \in [Cases -> Statuses] /\ sel \in Cases
           /\ tickets' = r.answer /\ selected' = sel
           /\ Rest(i) \in Seq(Requests)
           /\ RenderSelected(sel, r.answer, cache, Rest(i), r.op, TRUE)
           /\ page' = [case |-> sel, status |-> r.answer[sel], on |-> Buttons(r.answer[sel])]
           /\ picked' = FALSE /\ page' \in Drawn /\ page'.on \subseteq Buttons(page'.status)
           /\ flight' \in Seq(Requests) /\ Draws(Rest(i), flight') /\ (\A s : Holders(flight', s))
           /\ timeline' \in Views
           /\ run' \in [case: Cases \cup {None}, status: Statuses \cup {"none"}, log: Nat]
           /\ cache[sel] = 0 => /\ Sent(Rest(i), flight', 0, Load(sel, r.op, TRUE))
                               /\ UNCHANGED <<timeline, run>>
           /\ UNCHANGED <<server, view, cache, dialog, behind, lost>>
  <1> DEFINE r   == flight[i]
             sel == IF r.case # None THEN r.case ELSE First
  <1>1. r \in Requests /\ i \in 1 .. Len(flight) /\ r.kind = "refresh" /\ r.answer # None
    BY RequestsAt DEF TypeInv, RefreshEnds, Arrives, Answered
  <1>2. r \in Refreshes
    BY <1>1, RequestKinds
  <1>3. r.answer \in [Cases -> Statuses] /\ r.case \in Cases \cup {None} /\ r.op \in Ops \cup {"none"}
    BY <1>1, <1>2 DEF Refreshes
  <1>4. sel \in Cases
    BY <1>3, CasesAssumption
  <1>5. /\ tickets' = r.answer /\ selected' = sel
        /\ RenderSelected(sel, r.answer, cache, Rest(i), r.op, TRUE)
        /\ UNCHANGED <<server, view, cache, dialog, behind, lost>>
    BY DEF RefreshEnds
  <1>6. Rest(i) \in Seq(Requests)
    BY RestFacts
  <1>7. r.answer \in [Cases -> Statuses \cup {"none"}]
    BY <1>3
  <1> HIDE DEF r, sel
  <1>8. /\ page' = [case |-> sel, status |-> r.answer[sel], on |-> Buttons(r.answer[sel])]
        /\ picked' = FALSE /\ page' \in Drawn /\ page'.on \subseteq Buttons(page'.status)
        /\ flight' \in Seq(Requests) /\ Draws(Rest(i), flight') /\ (\A s : Holders(flight', s))
        /\ timeline' \in Views
        /\ run' \in [case: Cases \cup {None}, status: Statuses \cup {"none"}, log: Nat]
        /\ cache[sel] = 0 => /\ Sent(Rest(i), flight', 0, Load(sel, r.op, TRUE))
                            /\ UNCHANGED <<timeline, run>>
    <2>1. TRUE \in BOOLEAN
      OBVIOUS
    <2> QED BY <1>3, <1>4, <1>5, <1>6, <1>7, <2>1, DrawShape
  <1> QED BY <1>2, <1>3, <1>4, <1>5, <1>6, <1>8 DEF r, sel

\* The events of a case came in: its timeline is drawn, and the run view that waited for it.
LEMMA LoadEndsShape ==
    ASSUME TypeInv, NEW i \in DOMAIN flight, LoadEnds(i)
    PROVE  LET r == flight[i] IN
           /\ r \in Loads /\ r.case \in Cases /\ r.answer \in Nat /\ Rest(i) \in Seq(Requests)
           /\ cache' = [cache EXCEPT ![r.case] = r.answer] /\ cache' \in [Cases -> Nat]
           /\ timeline' = [case |-> r.case, log |-> r.answer] /\ timeline' \in Views
           /\ \/ flight' = Rest(i) /\ UNCHANGED runView /\ ~(r.chained /\ view = "runs")
              \/ /\ cache'[selected] # 0 /\ flight' = Rest(i)
                 /\ run' = [case |-> selected, status |-> tickets[selected], log |-> cache'[selected]]
              \/ /\ cache'[selected] = 0 /\ UNCHANGED run
                 /\ Sent(Rest(i), flight', 0, LoadRun(selected, tickets[selected], r.op))
           /\ flight' \in Seq(Requests) /\ Draws(Rest(i), flight') /\ Holders(flight', page.status)
           /\ run' \in [case: Cases \cup {None}, status: Statuses \cup {"none"}, log: Nat]
           /\ UNCHANGED <<server, tickets, selected, view, page, dialog, picked, pastLoad, behind, lost>>
  <1> DEFINE r == flight[i]
  <1>1. r \in Requests /\ i \in 1 .. Len(flight) /\ r.kind = "load" /\ r.answer # None
    BY RequestsAt DEF TypeInv, LoadEnds, Arrives, Answered
  <1>2. r \in Loads
    BY <1>1, RequestKinds
  <1>3. r.case \in Cases /\ r.answer \in Nat /\ r.op \in Ops \cup {"none"}
    BY <1>1, <1>2 DEF Loads
  <1>4. /\ cache' = [cache EXCEPT ![r.case] = r.answer]
        /\ timeline' = [case |-> r.case, log |-> r.answer]
        /\ IF r.chained /\ view = "runs"
           THEN RenderRuns(selected, tickets, cache', Rest(i), r.op)
           ELSE flight' = Rest(i) /\ UNCHANGED runView
        /\ UNCHANGED <<server, tickets, selected, view, page, dialog, picked, pastLoad, behind, lost>>
    BY DEF LoadEnds
  <1>5. cache' \in [Cases -> Nat] /\ timeline' \in Views
    BY <1>3, <1>4 DEF TypeInv, Views
  <1>6. Rest(i) \in Seq(Requests) /\ Holders(Rest(i), page.status)
    BY RestFacts, HoldersRest
  <1>7. CASE r.chained /\ view = "runs"
    <2>1. RenderRuns(selected, tickets, cache', Rest(i), r.op)
      BY <1>4, <1>7
    <2>2. tickets \in [Cases -> Statuses \cup {"none"}] /\ selected \in Cases
      BY <1>7 DEF TypeInv
    <2> HIDE DEF r
    <2>3. /\ \/ /\ cache'[selected] # 0 /\ flight' = Rest(i)
                /\ run' = [case |-> selected, status |-> tickets[selected], log |-> cache'[selected]]
             \/ /\ cache'[selected] = 0 /\ UNCHANGED run
                /\ Sent(Rest(i), flight', 0, LoadRun(selected, tickets[selected], r.op))
          /\ run' \in [case: Cases \cup {None}, status: Statuses \cup {"none"}, log: Nat]
          /\ flight' \in Seq(Requests) /\ Draws(Rest(i), flight')
          /\ \A s : Holders(Rest(i), s) => Holders(flight', s)
      <3> DEFINE ch == cache'
      <3>1. ch \in [Cases -> Nat] /\ RenderRuns(selected, tickets, ch, Rest(i), r.op)
        BY <1>5, <2>1
      <3> HIDE DEF ch
      <3>2. /\ \/ /\ ch[selected] # 0 /\ flight' = Rest(i)
                  /\ run' = [case |-> selected, status |-> tickets[selected], log |-> ch[selected]]
               \/ /\ ch[selected] = 0 /\ UNCHANGED run
                  /\ Sent(Rest(i), flight', 0, LoadRun(selected, tickets[selected], r.op))
            /\ run' \in [case: Cases \cup {None}, status: Statuses \cup {"none"}, log: Nat]
            /\ flight' \in Seq(Requests) /\ Draws(Rest(i), flight')
            /\ \A s : Holders(Rest(i), s) => Holders(flight', s)
        BY <1>3, <1>6, <2>2, <3>1, RunsShape
      <3> QED BY <3>2 DEF ch
    <2> QED BY <1>2, <1>3, <1>4, <1>5, <1>6, <2>3 DEF r
  <1>8. CASE ~(r.chained /\ view = "runs")
    <2>1. flight' = Rest(i) /\ UNCHANGED runView
      BY <1>4, <1>8
    <2>2. Draws(Rest(i), Rest(i))
      BY <1>6, RequestsAt DEF Draws
    <2> QED BY <1>2, <1>3, <1>4, <1>5, <1>6, <1>8, <2>1, <2>2 DEF TypeInv
  <1> QED BY <1>7, <1>8

\* The events for the run view came in.
LEMMA RunEndsShape ==
    ASSUME TypeInv, NEW i \in DOMAIN flight, RunEnds(i)
    PROVE  LET r == flight[i] IN
           /\ r \in LoadRuns /\ r.case \in Cases /\ r.answer \in Nat /\ Rest(i) \in Seq(Requests)
           /\ cache' = [cache EXCEPT ![r.case] = r.answer] /\ cache' \in [Cases -> Nat]
           /\ run' = [case |-> r.case, status |-> r.status, log |-> r.answer]
           /\ run' \in [case: Cases \cup {None}, status: Statuses \cup {"none"}, log: Nat]
           /\ flight' = Rest(i) /\ Holders(flight', page.status)
           /\ UNCHANGED <<server, tickets, selected, view, page, caseTimeline, pastRun, dialog, picked, behind, lost>>
  <1> DEFINE r == flight[i]
  <1>1. r \in Requests /\ i \in 1 .. Len(flight) /\ r.kind = "run" /\ r.answer # None
    BY RequestsAt DEF TypeInv, RunEnds, Arrives, Answered
  <1>2. r \in LoadRuns
    BY <1>1, RequestKinds
  <1>3. r.case \in Cases /\ r.answer \in Nat /\ r.status \in Statuses \cup {"none"}
    BY <1>1, <1>2 DEF LoadRuns
  <1>4. /\ cache' = [cache EXCEPT ![r.case] = r.answer]
        /\ run' = [case |-> r.case, status |-> r.status, log |-> r.answer]
        /\ flight' = Rest(i)
        /\ UNCHANGED <<server, tickets, selected, view, page, caseTimeline, pastRun, dialog, picked, behind, lost>>
    BY DEF RunEnds
  <1>5. cache' \in [Cases -> Nat]
    BY <1>3, <1>4 DEF TypeInv
  <1>6. Rest(i) \in Seq(Requests) /\ Holders(Rest(i), page.status)
    BY RestFacts, HoldersRest
  <1> QED BY <1>2, <1>3, <1>4, <1>5, <1>6

\* Every step of the operator and of the network keeps the types.
LEMMA TypeStep == TypeInv /\ [Next]_vars => TypeInv'
  <1> SUFFICES ASSUME TypeInv, [Next]_vars PROVE TypeInv'
    OBVIOUS
  <1>1. CASE Operator
    BY <1>1, ClickTypes
  <1>2. ASSUME NEW i \in DOMAIN flight, Serve(i) PROVE TypeInv'
    <2> DEFINE r == flight[i]
    <2>1. /\ i \in 1 .. Len(flight) /\ r \in Requests
          /\ \/ \E a : Answers(i, a) /\ UNCHANGED server
             \/ r.kind = "post" /\ \E a : Answers(i, a) /\ \E s \in Statuses : Decided(r.case, s)
          /\ UNCHANGED <<tickets, selected, view, cache, screen, faults>>
      BY <1>2, ServeShape
    <2>2. flight' \in Seq(Requests) /\ Holders(flight', page.status)
      <3>1. PICK a : Answers(i, a)
        BY <2>1
      <3>2. ASSUME NEW j \in 1 .. Len(flight'), Held(flight'[j])
            PROVE  flight'[j].op \in Buttons(page.status)
        <4>1. j \in 1 .. Len(flight) /\ Held(flight[j]) /\ flight'[j].op = flight[j].op
          BY <3>1, <3>2 DEF Answers, SameRequest
        <4> QED BY <4>1 DEF TypeInv, Holders
      <3> QED BY <3>1, <3>2 DEF Answers, Holders
    <2>3. status' \in [Cases -> Statuses] /\ log' \in [Cases -> Nat]
      <3>1. CASE UNCHANGED server
        BY <3>1 DEF server, TypeInv
      <3>2. CASE r.kind = "post" /\ \E s \in Statuses : Decided(r.case, s)
        <4>1. r.case \in Cases
          BY <2>1, <3>2, RequestKinds DEF Posts
        <4>2. PICK s \in Statuses : status' = [status EXCEPT ![r.case] = s] /\ log' = [log EXCEPT ![r.case] = @ + 1]
          BY <3>2 DEF Decided
        <4> QED BY <4>1, <4>2 DEF TypeInv
      <3> QED BY <2>1, <3>1, <3>2
    <2> QED BY <2>1, <2>2, <2>3 DEF TypeInv, screen
  <1>3. ASSUME NEW i \in DOMAIN flight, PostEnds(i) PROVE TypeInv'
    <2> DEFINE r == flight[i]
    <2>1. /\ r \in Posts
          /\ \/ UNCHANGED <<cache, dialog>>
             \/ cache' = [cache EXCEPT ![r.case] = 0] /\ dialog' \in {dialog, None}
          /\ flight' \in Seq(Requests) /\ Holders(flight', page'.status)
          /\ page' \in Drawn /\ page'.on \subseteq Buttons(page'.status)
          /\ UNCHANGED <<server, tickets, selected, view, caseTimeline, runView, picked, lost>>
      BY <1>3, PostEndsShape
    <2>2. cache' \in [Cases -> Nat]
      <3>1. r.case \in Cases
        BY <2>1 DEF Posts
      <3> QED BY <2>1, <3>1 DEF TypeInv
    <2>3. dialog' \in Cases \cup {None} /\ (selected = None => dialog' = None)
      BY <2>1 DEF TypeInv
    <2> QED BY <2>1, <2>2, <2>3 DEF TypeInv, server
  <1>4. ASSUME NEW i \in DOMAIN flight, RefreshEnds(i) PROVE TypeInv'
    <2>1. /\ tickets' \in [Cases -> Statuses] /\ selected' \in Cases
          /\ page' \in Drawn /\ page'.on \subseteq Buttons(page'.status)
          /\ flight' \in Seq(Requests) /\ (\A s : Holders(flight', s))
          /\ timeline' \in Views
          /\ run' \in [case: Cases \cup {None}, status: Statuses \cup {"none"}, log: Nat]
          /\ UNCHANGED <<server, view, cache, dialog, behind, lost>>
      BY <1>4, RefreshEndsShape
    <2>2. selected' # None /\ tickets' \in [Cases -> Statuses \cup {"none"}]
      BY <2>1, CasesAssumption
    <2> QED BY <2>1, <2>2 DEF TypeInv, server
  <1>5. ASSUME NEW i \in DOMAIN flight, LoadEnds(i) PROVE TypeInv'
    <2>1. /\ cache' \in [Cases -> Nat] /\ timeline' \in Views
          /\ flight' \in Seq(Requests) /\ Holders(flight', page.status)
          /\ run' \in [case: Cases \cup {None}, status: Statuses \cup {"none"}, log: Nat]
          /\ UNCHANGED <<server, tickets, selected, view, page, dialog, picked, pastLoad, behind, lost>>
      BY <1>5, LoadEndsShape
    <2> QED BY <2>1 DEF TypeInv, server
  <1>6. ASSUME NEW i \in DOMAIN flight, RunEnds(i) PROVE TypeInv'
    <2>1. /\ cache' \in [Cases -> Nat] /\ flight' = Rest(i) /\ Rest(i) \in Seq(Requests)
          /\ Holders(flight', page.status)
          /\ run' \in [case: Cases \cup {None}, status: Statuses \cup {"none"}, log: Nat]
          /\ UNCHANGED <<server, tickets, selected, view, page, caseTimeline, pastRun, dialog, picked, behind, lost>>
      BY <1>6, RunEndsShape
    <2> QED BY <2>1 DEF TypeInv, server
  <1>7. ASSUME NEW i \in DOMAIN flight, Lose(i) PROVE TypeInv'
    <2>1. /\ page' \in Drawn /\ page'.on \subseteq Buttons(page'.status) /\ page'.status = page.status
      BY <1>7, CaughtFacts DEF Lose
    <2>2. Rest(i) \in Seq(Requests) /\ Holders(Rest(i), page.status)
      BY RestFacts, HoldersRest
    <2> QED BY <1>7, <2>1, <2>2 DEF Lose, TypeInv, server
  <1>8. CASE UNCHANGED vars
    BY <1>8 DEF vars, server, screen, TypeInv
  <1> QED BY <1>1, <1>2, <1>3, <1>4, <1>5, <1>6, <1>7, <1>8 DEF Next, Network

\* Types hold throughout.
LEMMA TypeInvariant == Spec => []TypeInv
  BY TypeInit, TypeStep, PTL DEF Spec

-----------------------------------------------------------------------------
(* The page and the selection.                                             *)

\* Whatever refresh, load or decision ends, the page shows the selected case, unless a
\* run was picked since it was drawn (app.js:506-514, 582-594).
THEOREM SelectionTheorem == Spec => []PageIsSelected
  <1>1. Init => PageIsSelected
    BY DEF Init, PageIsSelected
  <1>2. ASSUME TypeInv, PageIsSelected, [Next]_vars PROVE PageIsSelected'
    <2>1. ASSUME NEW t \in Cases, PickCase(t) PROVE PageIsSelected'
      BY <2>1 DEF PickCase, RenderSelected, PageIsSelected
    <2>2. ASSUME NEW i \in DOMAIN flight, RefreshEnds(i) PROVE PageIsSelected'
      <3> DEFINE r   == flight[i]
                 sel == IF r.case # None THEN r.case ELSE First
      <3>1. /\ selected' = sel
            /\ page' = [case |-> sel, status |-> r.answer[sel], on |-> Buttons(r.answer[sel])]
        BY <1>2, <2>2, RefreshEndsShape
      <3> HIDE DEF sel
      <3>2. page'.case = selected'
        BY <3>1
      <3> QED BY <3>2 DEF PageIsSelected
    <2>3. CASE UNCHANGED <<page, selected, picked>> \/ picked'
      BY <1>2, <2>3 DEF PageIsSelected
    <2>4. CASE page'.case = page.case /\ UNCHANGED <<selected, picked>>
      BY <1>2, <2>4 DEF PageIsSelected
    <2>5. ASSUME NEW i \in DOMAIN flight, PostEnds(i) \/ Lose(i)
          PROVE  page'.case = page.case /\ UNCHANGED <<selected, picked>>
      BY <1>2, <2>5, PostEndsShape, CaughtFacts DEF Lose
    <2>6. ASSUME NEW op \in Ops, PerformAction(op)
          PROVE  page'.case = page.case /\ UNCHANGED <<selected, picked>>
      BY <1>2, <2>6 DEF PerformAction, TypeInv, Drawn
    <2>7. CASE \/ \E t \in Cases : PickRun(t)
               \/ \E v \in {"cases", "runs"} : SetView(v)
               \/ OpenDialog \/ Cancel \/ RejectSelected
               \/ \E i \in DOMAIN flight : Serve(i) \/ LoadEnds(i) \/ RunEnds(i)
               \/ UNCHANGED vars
      BY <2>3, <2>7 DEF PickRun, SetView, OpenDialog, Cancel, RejectSelected, Serve, LoadEnds, RunEnds,
         vars, screen
    <2> QED BY <1>2, <2>1, <2>2, <2>4, <2>5, <2>6, <2>7 DEF Next, Operator, Network
  <1> QED BY <1>1, <1>2, TypeInvariant, PTL DEF Spec

-----------------------------------------------------------------------------
(* The bound on a case's events is kept: one is left for each decision     *)
(* that the server has yet to answer.                                      *)

\* The decisions about t that are yet to be answered.
Owed(f, t) == {i \in 1 .. Len(f) : f[i].kind = "post" /\ f[i].case = t /\ ~Answered(f[i])}

\* No answer reports more events than there can be.
Fits(f) == \A i \in 1 .. Len(f) : f[i].kind \in {"load", "run"} /\ Answered(f[i]) => f[i].answer <= MaxEvents

EventsInv ==
    /\ \A t \in Cases : /\ log[t] >= 1 /\ log[t] + Cardinality(Owed(flight, t)) <= MaxEvents
                        /\ cache[t] <= MaxEvents
    /\ Fits(flight)

\* Finitely many decisions are under way.
LEMMA OwedIsFinite ==
    ASSUME NEW f \in Seq(Requests), NEW t
    PROVE  IsFiniteSet(Owed(f, t)) /\ Cardinality(Owed(f, t)) \in Nat
  <1>1. Len(f) \in Nat
    BY LenProperties
  <1>2. 1 \in Int /\ Len(f) \in Int
    BY <1>1
  <1>3. IsFiniteSet(1 .. Len(f))
    BY <1>2, FS_Interval
  <1>4. Owed(f, t) \in SUBSET (1 .. Len(f))
    BY DEF Owed
  <1>5. IsFiniteSet(Owed(f, t))
    BY <1>3, <1>4, FS_Subset
  <1> QED BY <1>5, FS_CardinalityType

\* Drawing decides nothing.
LEMMA OwedDraws ==
    ASSUME NEW f \in Seq(Requests), NEW g \in Seq(Requests), Draws(f, g)
    PROVE  (\A t : Owed(g, t) = Owed(f, t)) /\ (Fits(f) => Fits(g))
  <1>1. Len(f) \in Nat /\ Len(g) \in Nat
    BY LenProperties
  <1>2. /\ Len(f) <= Len(g)
        /\ \A i \in 1 .. Len(f) : SameRequest(f[i], g[i]) /\ g[i].answer = f[i].answer
        /\ \A i \in 1 .. Len(g) : i > Len(f) => g[i].kind \in {"load", "run"} /\ ~Answered(g[i])
    <2>1. CASE Since(f, g, 0)
      <3>1. Len(g) = Len(f)
        BY <1>1, <2>1 DEF Since
      <3>2. \A i \in 1 .. Len(f) : i + 0 = i
        BY <1>1
      <3> QED BY <1>1, <2>1, <3>1, <3>2 DEF Since
    <2>2. ASSUME NEW r, r.kind \in {"load", "run"}, ~Answered(r), Sent(f, g, 0, r)
          PROVE  <1>2
      <3>1. Len(g) = Len(f) + 1 /\ Len(g) - 1 = Len(f) /\ g[Len(g)] = r
        BY <1>1, <2>2 DEF Sent
      <3>2. \A i \in 1 .. Len(f) : i + 0 = i
        BY <1>1
      <3>3. \A i \in 1 .. Len(f) : SameRequest(f[i], g[i]) /\ g[i].answer = f[i].answer
        BY <2>2, <3>1, <3>2 DEF Sent
      <3>4. \A i \in 1 .. Len(g) : i > Len(f) => i = Len(g)
        BY <1>1, <3>1
      <3> QED BY <1>1, <2>2, <3>1, <3>3, <3>4
    <2> QED BY <2>1, <2>2 DEF Draws
  <1>3. \A i \in 1 .. Len(g) : i \in 1 .. Len(f) \/ i > Len(f)
    BY <1>1, <1>2
  <1>4. ASSUME NEW t PROVE Owed(g, t) = Owed(f, t)
    <2>1. \A i \in 1 .. Len(f) : i \in 1 .. Len(g)
      BY <1>1, <1>2
    <2>2. \A i : i \in Owed(g, t) <=> i \in Owed(f, t)
      BY <1>2, <1>3, <2>1 DEF Owed, SameRequest, Answered
    <2> QED BY <2>2
  <1>5. ASSUME Fits(f), NEW i \in 1 .. Len(g), g[i].kind \in {"load", "run"}, Answered(g[i])
        PROVE  g[i].answer <= MaxEvents
    BY <1>2, <1>3, <1>5 DEF Fits, SameRequest, Answered
  <1> QED BY <1>4, <1>5 DEF Fits

\* An answer that came in leaves fewer.
LEMMA OwedRest ==
    ASSUME TypeInv, NEW i \in DOMAIN flight
    PROVE  /\ \A t : Cardinality(Owed(Rest(i), t)) <= Cardinality(Owed(flight, t))
           /\ Fits(flight) => Fits(Rest(i))
  <1> DEFINE g == Rest(i)
  <1>1. /\ g \in Seq(Requests) /\ Len(g) = Len(flight) - 1
        /\ \A j \in 1 .. Len(flight) - 1 : g[j] = flight[IF j < i THEN j ELSE j + 1]
    BY RestFacts
  <1>2. flight \in Seq(Requests) /\ Len(flight) \in Nat /\ i \in 1 .. Len(flight)
    BY RequestsAt DEF TypeInv
  <1> HIDE DEF g
  <1>3. ASSUME NEW j \in 1 .. Len(g)
        PROVE  (IF j < i THEN j ELSE j + 1) \in 1 .. Len(flight) /\ g[j] = flight[IF j < i THEN j ELSE j + 1]
    BY <1>1, <1>2
  <1>4. ASSUME NEW t PROVE Cardinality(Owed(g, t)) <= Cardinality(Owed(flight, t))
    <2> DEFINE h == [j \in Owed(g, t) |-> IF j < i THEN j ELSE j + 1]
    <2>1. \A j \in Owed(g, t) : j \in 1 .. Len(g)
      BY DEF Owed
    <2>2. h \in [Owed(g, t) -> Owed(flight, t)]
      <3>1. ASSUME NEW j \in Owed(g, t) PROVE (IF j < i THEN j ELSE j + 1) \in Owed(flight, t)
        <4>1. j \in 1 .. Len(g) /\ g[j].kind = "post" /\ g[j].case = t /\ ~Answered(g[j])
          BY DEF Owed
        <4>2. (IF j < i THEN j ELSE j + 1) \in 1 .. Len(flight) /\ g[j] = flight[IF j < i THEN j ELSE j + 1]
          BY <1>3, <4>1
        <4> HIDE DEF g
        <4> QED BY <4>1, <4>2 DEF Owed
      <3> QED BY <3>1
    <2>3. \A j, k \in Owed(g, t) : h[j] = h[k] => j = k
      <3>1. \A j \in Owed(g, t) : j \in Nat
        BY <2>1, <1>1, <1>2
      <3> QED BY <3>1, <1>2
    <2>4. h \in Injection(Owed(g, t), Owed(flight, t))
      <3> HIDE DEF h
      <3>1. DOMAIN h = Owed(g, t)
        BY <2>2
      <3> QED BY <2>2, <2>3, <3>1 DEF Injection, IsInjective
    <2>5. IsFiniteSet(Owed(flight, t))
      BY <1>2, OwedIsFinite
    <2> HIDE DEF h
    <2> QED BY <2>4, <2>5, FS_Injection
  <1>5. ASSUME Fits(flight), NEW j \in 1 .. Len(g), g[j].kind \in {"load", "run"}, Answered(g[j])
        PROVE  g[j].answer <= MaxEvents
    BY <1>3, <1>5 DEF Fits
  <1> QED BY <1>4, <1>5 DEF Fits, g

\* Sending the request r.
LEMMA OwedSent ==
    ASSUME NEW f \in Seq(Requests), NEW r \in Requests, NEW t, ~Answered(r)
    PROVE  /\ Cardinality(Owed(Append(f, r), t)) <= Cardinality(Owed(f, t)) + 1
           /\ ~(r.kind = "post" /\ r.case = t) => Owed(Append(f, r), t) = Owed(f, t)
           /\ Fits(f) => Fits(Append(f, r))
  <1> DEFINE g == Append(f, r)
  <1>1. Len(f) \in Nat
    BY LenProperties
  <1>2. /\ Len(g) = Len(f) + 1 /\ g[Len(f) + 1] = r
        /\ \A i \in 1 .. Len(f) : g[i] = f[i]
    BY AppendProperties
  <1> HIDE DEF g
  <1>3. \A i : i \in 1 .. Len(g) <=> i \in 1 .. Len(f) \/ i = Len(f) + 1
    BY <1>1, <1>2
  <1>4. Owed(g, t) = Owed(f, t) \cup (IF r.kind = "post" /\ r.case = t THEN {Len(f) + 1} ELSE {})
    BY <1>2, <1>3 DEF Owed
  <1>5. IsFiniteSet(Owed(f, t)) /\ Cardinality(Owed(f, t)) \in Nat
    BY OwedIsFinite
  <1>6. Cardinality(Owed(g, t)) <= Cardinality(Owed(f, t)) + 1
    <2>1. CASE r.kind = "post" /\ r.case = t
      <3>1. Owed(g, t) = Owed(f, t) \cup {Len(f) + 1}
        BY <1>4, <2>1
      <3>2. Cardinality(Owed(f, t) \cup {Len(f) + 1})
              = IF Len(f) + 1 \in Owed(f, t) THEN Cardinality(Owed(f, t)) ELSE Cardinality(Owed(f, t)) + 1
        BY <1>5, FS_AddElement
      <3> QED BY <1>5, <3>1, <3>2
    <2>2. CASE ~(r.kind = "post" /\ r.case = t)
      <3>1. Owed(g, t) = Owed(f, t)
        BY <1>4, <2>2
      <3> QED BY <1>5, <3>1
    <2> QED BY <2>1, <2>2
  <1>7. ASSUME ~(r.kind = "post" /\ r.case = t) PROVE Owed(g, t) = Owed(f, t)
    BY <1>4, <1>7
  <1>8. ASSUME Fits(f), NEW i \in 1 .. Len(g), g[i].kind \in {"load", "run"}, Answered(g[i])
        PROVE  g[i].answer <= MaxEvents
    BY <1>2, <1>3, <1>8 DEF Fits
  <1> QED BY <1>6, <1>7, <1>8 DEF Fits, g

\* A step after which no more is owed, and nothing was decided.
LEMMA EventsKept ==
    ASSUME TypeInv, TypeInv', EventsInv, UNCHANGED log,
           \A t \in Cases : Cardinality(Owed(flight', t)) <= Cardinality(Owed(flight, t)),
           Fits(flight'), \A t \in Cases : cache'[t] <= MaxEvents
    PROVE  EventsInv'
  <1>1. ASSUME NEW t \in Cases
        PROVE  log'[t] >= 1 /\ log'[t] + Cardinality(Owed(flight', t)) <= MaxEvents
    <2>1. Cardinality(Owed(flight', t)) \in Nat /\ Cardinality(Owed(flight, t)) \in Nat
      BY OwedIsFinite DEF TypeInv
    <2>2. log[t] \in Nat /\ log[t] >= 1 /\ log[t] + Cardinality(Owed(flight, t)) <= MaxEvents
      BY DEF TypeInv, EventsInv
    <2> QED BY <2>1, <2>2, EventsAssumption
  <1> QED BY <1>1 DEF EventsInv

\* A decision is sent while an event is left for it.
LEMMA EventsSent ==
    ASSUME TypeInv, TypeInv', EventsInv, NEW r \in Requests, ~Answered(r), EventsLeft(r.case),
           flight' = Append(flight, r), UNCHANGED <<log, cache>>
    PROVE  EventsInv'
  <1>1. flight \in Seq(Requests) /\ DOMAIN flight = 1 .. Len(flight) /\ Len(flight) \in Nat
    BY RequestsAt DEF TypeInv
  <1>2. ASSUME NEW t \in Cases PROVE log[t] + Cardinality(Owed(flight', t)) <= MaxEvents
    <2>1. /\ Cardinality(Owed(flight', t)) <= Cardinality(Owed(flight, t)) + 1
          /\ ~(r.kind = "post" /\ r.case = t) => Owed(flight', t) = Owed(flight, t)
      BY <1>1, OwedSent
    <2>2. log[t] \in Nat /\ log[t] + Cardinality(Owed(flight, t)) <= MaxEvents
      BY DEF TypeInv, EventsInv
    <2>3. Cardinality(Owed(flight', t)) \in Nat /\ Cardinality(Owed(flight, t)) \in Nat
      BY OwedIsFinite DEF TypeInv
    <2>4. CASE r.case = t
      <3> DEFINE P == {i \in DOMAIN flight : flight[i].kind = "post" /\ flight[i].case = t}
      <3>1. log[t] + Cardinality(P) < MaxEvents
        BY <2>4 DEF EventsLeft
      <3>2. IsFiniteSet(P)
        <4>1. 1 \in Int /\ Len(flight) \in Int
          BY <1>1
        <4>2. IsFiniteSet(1 .. Len(flight))
          BY <4>1, FS_Interval
        <4>3. P \in SUBSET (1 .. Len(flight))
          BY <1>1
        <4> QED BY <4>2, <4>3, FS_Subset
      <3>3. Owed(flight, t) \in SUBSET P
        BY <1>1 DEF Owed
      <3> HIDE DEF P
      <3>4. Cardinality(Owed(flight, t)) <= Cardinality(P) /\ Cardinality(P) \in Nat
        BY <3>2, <3>3, FS_Subset, FS_CardinalityType
      <3> QED BY <2>1, <2>2, <2>3, <3>1, <3>4, EventsAssumption
    <2>5. CASE r.case # t
      BY <2>1, <2>2, <2>5
    <2> QED BY <2>4, <2>5
  <1>3. Fits(flight')
    BY <1>1, OwedSent DEF EventsInv
  <1> QED BY <1>2, <1>3 DEF EventsInv

\* The server takes one of the events that are left.
LEMMA EventsServed ==
    ASSUME TypeInv, TypeInv', EventsInv, NEW i \in DOMAIN flight, Serve(i)
    PROVE  EventsInv'
  <1> DEFINE r == flight[i]
  <1>1. /\ i \in 1 .. Len(flight) /\ r \in Requests
        /\ \/ r.kind = "refresh" /\ Answers(i, status) /\ UNCHANGED server
           \/ r.kind \in {"load", "run"} /\ Answers(i, log[r.case]) /\ UNCHANGED server
           \/ r.kind = "post" /\ Answers(i, "error") /\ UNCHANGED server
           \/ r.kind = "post" /\ Answers(i, "ok") /\ UNCHANGED server
           \/ r.kind = "post" /\ Answers(i, "ok") /\ \E s \in Statuses : Decided(r.case, s)
        /\ ~Answered(r) /\ UNCHANGED cache
    BY ServeShape
  <1>2. PICK a : Answers(i, a)
    BY <1>1
  <1>3. \A t \in Cases : log[t] \in Nat /\ log[t] >= 1 /\ log[t] + Cardinality(Owed(flight, t)) <= MaxEvents
                        /\ Cardinality(Owed(flight, t)) \in Nat
    BY OwedIsFinite DEF TypeInv, EventsInv
  <1>4. \A t : Owed(flight', t) \subseteq Owed(flight, t)
    <2>1. ASSUME NEW t, NEW j \in Owed(flight', t) PROVE j \in Owed(flight, t)
      <3>1. j \in 1 .. Len(flight) /\ flight'[j].kind = "post" /\ flight'[j].case = t /\ ~Answered(flight'[j])
        BY <1>2, <2>1 DEF Owed, Answers
      <3>2. CASE j = i
        BY <1>1, <1>2, <3>1, <3>2 DEF Answers, SameRequest, Owed
      <3>3. CASE j # i
        BY <1>2, <3>1, <3>3 DEF Answers, Owed
      <3> QED BY <3>2, <3>3
    <2> QED BY <2>1
  <1>5. \A t : Cardinality(Owed(flight', t)) <= Cardinality(Owed(flight, t))
    BY <1>4, OwedIsFinite, FS_Subset DEF TypeInv
  <1>6. Fits(flight')
    <2>1. ASSUME NEW j \in 1 .. Len(flight'), flight'[j].kind \in {"load", "run"}, Answered(flight'[j])
          PROVE  flight'[j].answer <= MaxEvents
      <3>1. j \in 1 .. Len(flight)
        BY <1>2 DEF Answers
      <3>2. CASE j = i
        <4>1. r.kind \in {"load", "run"} /\ flight'[i].answer = log[r.case]
          BY <1>1, <1>2, <2>1, <3>2 DEF Answers, SameRequest
        <4>2. r.case \in Cases
          BY <1>1, <4>1, RequestKinds DEF Loads, LoadRuns
        <4>3. log[r.case] <= MaxEvents
          BY <1>3, <4>2, EventsAssumption
        <4> QED BY <3>2, <4>1, <4>3
      <3>3. CASE j # i
        BY <1>2, <2>1, <3>1, <3>3 DEF Answers, EventsInv, Fits
      <3> QED BY <3>2, <3>3
    <2> QED BY <2>1 DEF Fits
  <1>7. CASE UNCHANGED server
    BY <1>1, <1>5, <1>6, <1>7, EventsKept DEF server, EventsInv
  <1>8. CASE r.kind = "post" /\ Answers(i, "ok") /\ \E s \in Statuses : Decided(r.case, s)
    <2>1. r.case \in Cases
      BY <1>1, <1>8, RequestKinds DEF Posts
    <2>2. log' = [log EXCEPT ![r.case] = @ + 1]
      BY <1>8 DEF Decided
    <2>3. i \in Owed(flight, r.case)
      BY <1>1, <1>8 DEF Owed
    <2>4. i \notin Owed(flight', r.case)
      <3>1. flight'[i].answer = "ok" /\ "ok" # None
        BY <1>8, CasesAssumption DEF Answers
      <3> QED BY <3>1 DEF Owed, Answered
    <2>5. Cardinality(Owed(flight', r.case)) + 1 <= Cardinality(Owed(flight, r.case))
      <3>1. Owed(flight', r.case) \in SUBSET (Owed(flight, r.case) \ {i})
        BY <1>4, <2>4
      <3>2. IsFiniteSet(Owed(flight, r.case)) /\ IsFiniteSet(Owed(flight', r.case))
            /\ Cardinality(Owed(flight', r.case)) \in Nat /\ Cardinality(Owed(flight, r.case)) \in Nat
        BY OwedIsFinite DEF TypeInv
      <3>3. /\ IsFiniteSet(Owed(flight, r.case) \ {i})
            /\ Cardinality(Owed(flight, r.case) \ {i}) = Cardinality(Owed(flight, r.case)) - 1
        BY <2>3, <3>2, FS_RemoveElement
      <3>4. Cardinality(Owed(flight', r.case)) <= Cardinality(Owed(flight, r.case) \ {i})
        BY <3>1, <3>3, FS_Subset
      <3> QED BY <3>2, <3>3, <3>4
    <2>6. ASSUME NEW t \in Cases
          PROVE  log'[t] >= 1 /\ log'[t] + Cardinality(Owed(flight', t)) <= MaxEvents
      <3>1. log'[t] = IF t = r.case THEN log[t] + 1 ELSE log[t]
        BY <2>1, <2>2 DEF TypeInv
      <3>2. Cardinality(Owed(flight', t)) \in Nat
        BY OwedIsFinite DEF TypeInv
      <3>3. CASE t = r.case
        BY <1>3, <2>5, <3>1, <3>2, <3>3, EventsAssumption
      <3>4. CASE t # r.case
        <4>1. log'[t] = log[t] /\ Cardinality(Owed(flight', t)) <= Cardinality(Owed(flight, t))
          BY <1>5, <3>1, <3>4
        <4>2. log[t] \in Nat /\ log[t] >= 1 /\ log[t] + Cardinality(Owed(flight, t)) <= MaxEvents
              /\ Cardinality(Owed(flight, t)) \in Nat
          BY <1>3
        <4> QED BY <3>2, <4>1, <4>2, EventsAssumption
      <3> QED BY <3>3, <3>4
    <2>7. \A t \in Cases : cache'[t] <= MaxEvents
      BY <1>1 DEF EventsInv
    <2> QED BY <1>6, <2>6, <2>7 DEF EventsInv
  <1> QED BY <1>1, <1>7, <1>8

\* A decision is sent only while there is room for its event, and serving it takes that room.
LEMMA EventsStep ==
    ASSUME TypeInv, TypeInv', EventsInv, [Next]_vars
    PROVE  EventsInv'
  <1>1. flight \in Seq(Requests) /\ flight' \in Seq(Requests) /\ cache \in [Cases -> Nat]
        /\ Fits(flight) /\ \A t \in Cases : cache[t] <= MaxEvents
    BY DEF TypeInv, EventsInv
  <1>2. ASSUME Draws(flight, flight'), UNCHANGED <<log, cache>> PROVE EventsInv'
    <2>1. (\A t : Owed(flight', t) = Owed(flight, t)) /\ Fits(flight')
      BY <1>1, <1>2, OwedDraws
    <2>2. \A t : Cardinality(Owed(flight', t)) <= Cardinality(Owed(flight, t))
      BY <1>1, <2>1, OwedIsFinite
    <2> QED BY <1>1, <1>2, <2>1, <2>2, EventsKept
  <1>3. ASSUME NEW i \in DOMAIN flight, Draws(Rest(i), flight'), UNCHANGED log,
               \A t \in Cases : cache'[t] <= MaxEvents
        PROVE  EventsInv'
    <2>1. Rest(i) \in Seq(Requests)
      BY RestFacts
    <2>2. (\A t : Cardinality(Owed(Rest(i), t)) <= Cardinality(Owed(flight, t))) /\ Fits(Rest(i))
      BY <1>1, OwedRest
    <2>3. (\A t : Owed(flight', t) = Owed(Rest(i), t)) /\ Fits(flight')
      BY <1>1, <1>3, <2>1, <2>2, OwedDraws
    <2> QED BY <1>3, <2>2, <2>3, EventsKept
  <1>4. Draws(flight, flight) /\ \A i \in DOMAIN flight : Draws(Rest(i), Rest(i))
    BY <1>1, RequestsAt, RestFacts DEF Draws
  <1>5. ASSUME NEW t \in Cases, PickCase(t) PROVE EventsInv'
    <2>1. tickets \in [Cases -> Statuses \cup {"none"}] /\ "none" \in Ops \cup {"none"} /\ FALSE \in BOOLEAN
      BY DEF TypeInv
    <2>2. RenderSelected(t, tickets, cache, flight, "none", FALSE)
      BY <1>5 DEF PickCase
    <2>3. Draws(flight, flight')
      BY <1>1, <2>1, <2>2, DrawShape
    <2> QED BY <1>2, <1>5, <2>3 DEF PickCase, server
  <1>6. ASSUME NEW t \in Cases, RenderRuns(t, tickets, cache, flight, "none"), UNCHANGED <<log, cache>>
        PROVE  EventsInv'
    <2>1. tickets \in [Cases -> Statuses \cup {"none"}] /\ "none" \in Ops \cup {"none"}
      BY DEF TypeInv
    <2>2. Draws(flight, flight')
      BY <1>1, <1>6, <2>1, RunsShape
    <2> QED BY <1>2, <1>6, <2>2
  <1>7. ASSUME NEW t \in Cases, PickRun(t) PROVE EventsInv'
    BY <1>6, <1>7 DEF PickRun, server
  <1>8. ASSUME NEW v \in {"cases", "runs"}, SetView(v) PROVE EventsInv'
    <2>1. selected \in Cases
      BY <1>8 DEF SetView, Click, TypeInv
    <2>2. CASE v = "runs"
      BY <1>6, <1>8, <2>1, <2>2 DEF SetView, server
    <2>3. CASE v # "runs"
      BY <1>2, <1>4, <1>8, <2>3 DEF SetView, server
    <2> QED BY <2>2, <2>3
  <1>9. ASSUME NEW op \in Ops, PerformAction(op) PROVE EventsInv'
    <2> DEFINE r == Post(op, selected, page.case)
    <2>1. selected \in Cases /\ page.case \in Cases \cup {None}
      BY <1>9 DEF PerformAction, Click, TypeInv, Drawn
    <2>2. r \in Requests /\ r.case = selected /\ ~Answered(r)
      BY <2>1, NewRequests DEF Requests, Post, Answered
    <2>3. flight' = Append(flight, r) /\ EventsLeft(selected) /\ UNCHANGED <<log, cache>>
      BY <1>9 DEF PerformAction, server
    <2> HIDE DEF r
    <2> QED BY <2>2, <2>3, EventsSent
  <1>10. CASE RejectSelected
    <2> DEFINE r == Post("reject", selected, dialog)
    <2>1. selected \in Cases /\ dialog \in Cases \cup {None} /\ "reject" \in Ops
      BY <1>10 DEF RejectSelected, TypeInv, Ops
    <2>2. r \in Requests /\ r.case = selected /\ ~Answered(r)
      BY <2>1, NewRequests DEF Requests, Post, Answered
    <2>3. flight' = Append(flight, r) /\ EventsLeft(selected) /\ UNCHANGED <<log, cache>>
      BY <1>10 DEF RejectSelected, server
    <2> HIDE DEF r
    <2> QED BY <2>2, <2>3, EventsSent
  <1>11. CASE OpenDialog \/ Cancel \/ UNCHANGED vars
    BY <1>2, <1>4, <1>11 DEF OpenDialog, Cancel, vars, server
  <1>12. ASSUME NEW i \in DOMAIN flight, PostEnds(i) PROVE EventsInv'
    <2> DEFINE r == flight[i]
               q == Refresh(r.case, r.op, r.held)
    <2>1. /\ r \in Posts
          /\ \/ flight' = Rest(i) /\ UNCHANGED cache
             \/ cache' = [cache EXCEPT ![r.case] = 0] /\ flight' = Append(Rest(i), q)
          /\ UNCHANGED <<server, tickets, selected, view, caseTimeline, runView, picked, lost>>
      BY <1>12, PostEndsShape
    <2>2. CASE flight' = Rest(i) /\ UNCHANGED cache
      BY <1>1, <1>3, <1>4, <2>1, <2>2 DEF server
    <2>3. CASE cache' = [cache EXCEPT ![r.case] = 0] /\ flight' = Append(Rest(i), q)
      <3>1. r.case \in Cases /\ r.op \in Ops /\ r.held \in BOOLEAN
        BY <2>1 DEF Posts
      <3>2. q \in Requests /\ q.kind = "refresh" /\ ~Answered(q)
        BY <3>1, NewRequests DEF Requests, Refresh, Answered
      <3>3. \A t \in Cases : cache'[t] <= MaxEvents
        BY <1>1, <2>3, <3>1, EventsAssumption
      <3>4. Rest(i) \in Seq(Requests)
        BY RestFacts
      <3>5. (\A t : Cardinality(Owed(Rest(i), t)) <= Cardinality(Owed(flight, t))) /\ Fits(Rest(i))
        BY <1>1, OwedRest
      <3> HIDE DEF q
      <3>6. (\A t : Owed(flight', t) = Owed(Rest(i), t)) /\ Fits(flight')
        BY <2>3, <3>2, <3>4, <3>5, OwedSent
      <3> QED BY <2>1, <3>3, <3>5, <3>6, EventsKept DEF server
    <2> QED BY <2>1, <2>2, <2>3
  <1>13. ASSUME NEW i \in DOMAIN flight, RefreshEnds(i) PROVE EventsInv'
    <2>1. Draws(Rest(i), flight') /\ UNCHANGED <<server, view, cache, dialog, behind, lost>>
      BY <1>13, RefreshEndsShape
    <2> QED BY <1>1, <1>3, <2>1 DEF server
  <1>14. ASSUME NEW i \in DOMAIN flight, LoadEnds(i) \/ RunEnds(i) PROVE EventsInv'
    <2> DEFINE r == flight[i]
    <2>1. /\ r.case \in Cases /\ cache' = [cache EXCEPT ![r.case] = r.answer]
          /\ Draws(Rest(i), flight') /\ UNCHANGED log
      BY <1>14, <1>4, LoadEndsShape, RunEndsShape DEF server
    <2>2. r.kind \in {"load", "run"} /\ Answered(r) /\ i \in 1 .. Len(flight)
      BY <1>1, <1>14, RequestsAt DEF LoadEnds, RunEnds, Arrives
    <2>3. r.answer <= MaxEvents
      BY <1>1, <2>2 DEF Fits
    <2>4. \A t \in Cases : cache'[t] <= MaxEvents
      BY <1>1, <2>1, <2>3
    <2> QED BY <1>3, <2>1, <2>4
  <1>15. ASSUME NEW i \in DOMAIN flight, Lose(i) PROVE EventsInv'
    BY <1>1, <1>3, <1>4, <1>15 DEF Lose, server
  <1> QED BY <1>5, <1>7, <1>8, <1>9, <1>10, <1>11, <1>12, <1>13, <1>14, <1>15, EventsServed
      DEF Next, Operator, Network

\* What the page keeps is well typed, and its buttons are those of the status it shows,
\* whatever answers are lost, refused or overtaken (app.js:400-435, 516-558).
THEOREM ConsoleTypes == Spec => []TypeOK
  <1>1. Init => EventsInv
    <2> SUFFICES ASSUME Init PROVE EventsInv
      OBVIOUS
    <2>1. Len(flight) = 1 /\ flight[1].kind = "refresh"
      BY DEF Init
    <2>2. \A t : Owed(flight, t) = {}
      BY <2>1 DEF Owed
    <2>3. \A t : Cardinality(Owed(flight, t)) = 0
      BY <2>2, FS_EmptySet
    <2>4. Fits(flight)
      BY <2>1 DEF Fits
    <2>5. \A t \in Cases : log[t] = 1 /\ cache[t] = 0
      BY DEF Init
    <2>6. MaxEvents >= 1 /\ MaxEvents \in Nat
      BY EventsAssumption
    <2> QED BY <2>3, <2>4, <2>5, <2>6 DEF EventsInv
  <1>2. TypeInv /\ TypeInv' /\ EventsInv /\ [Next]_vars => EventsInv'
    BY EventsStep
  <1>3. ASSUME TypeInv, EventsInv PROVE TypeOK
    <2>1. log \in [Cases -> 1 .. MaxEvents]
      <3>1. ASSUME NEW t \in Cases PROVE log[t] \in 1 .. MaxEvents
        <4>1. log[t] \in Nat /\ log[t] >= 1 /\ log[t] + Cardinality(Owed(flight, t)) <= MaxEvents
              /\ Cardinality(Owed(flight, t)) \in Nat
          BY <1>3, OwedIsFinite DEF TypeInv, EventsInv
        <4> QED BY <4>1, EventsAssumption
      <3> QED BY <1>3, <3>1 DEF TypeInv
    <2>2. cache \in [Cases -> 0 .. MaxEvents]
      <3>1. \A t \in Cases : cache[t] \in 0 .. MaxEvents
        BY <1>3, EventsAssumption DEF TypeInv, EventsInv
      <3> QED BY <1>3, <3>1 DEF TypeInv
    <2>3. \A i \in DOMAIN flight : flight[i].kind \in Request /\ flight[i].op \in Ops \cup {"none"}
      BY <1>3, RequestsAt, RequestKinds DEF TypeInv
    <2>4. {selected, dialog, timeline.case, run.case} \subseteq Cases \cup {None}
      BY <1>3 DEF TypeInv, Views
    <2> QED BY <1>3, <2>1, <2>2, <2>3, <2>4 DEF TypeInv, TypeOK
  <1> QED BY <1>1, <1>2, <1>3, TypeInvariant, PTL DEF Spec

-----------------------------------------------------------------------------
(* Steps, in whatever order the answers come.                              *)

\* After the requests f, the page sends at most one more.
Grows(f, g) == Since(f, g, 0) \/ \E r : ~Answered(r) /\ Sent(f, g, 0, r)

\* The others keep their places.
LEMMA GrowsFacts ==
    ASSUME NEW f \in Seq(Requests), NEW g \in Seq(Requests), Grows(f, g)
    PROVE  /\ Len(f) \in Nat /\ Len(g) \in {Len(f), Len(f) + 1}
           /\ \A j \in 1 .. Len(f) :
                j \in 1 .. Len(g) /\ SameRequest(f[j], g[j]) /\ g[j].answer = f[j].answer
           /\ \A k \in 1 .. Len(g) : k \in 1 .. Len(f) \/ ~Answered(g[k])
  <1>1. Len(f) \in Nat /\ Len(g) \in Nat /\ \A i \in 1 .. Len(f) : i + 0 = i
    BY LenProperties
  <1>2. CASE Since(f, g, 0)
    BY <1>1, <1>2 DEF Since
  <1>3. ASSUME NEW r, ~Answered(r), Sent(f, g, 0, r)
        PROVE  /\ Len(g) = Len(f) + 1 /\ g[Len(g)] = r
               /\ \A j \in 1 .. Len(f) : SameRequest(f[j], g[j]) /\ g[j].answer = f[j].answer
    <2>1. Len(g) = Len(f) - 0 + 1 /\ g[Len(g)] = r
      BY <1>3 DEF Sent
    <2>2. 1 .. Len(g) - 1 = 1 .. Len(f)
      BY <1>1, <2>1
    <2> QED BY <1>1, <1>3, <2>1, <2>2 DEF Sent
  <1>4. ASSUME NEW r, ~Answered(r), Sent(f, g, 0, r)
        PROVE  /\ \A j \in 1 .. Len(f) : j \in 1 .. Len(g)
               /\ \A k \in 1 .. Len(g) : k \in 1 .. Len(f) \/ k = Len(g)
    BY <1>1, <1>3, <1>4
  <1> QED BY <1>1, <1>2, <1>3, <1>4 DEF Grows

\* Nothing is sent, or one request is.
LEMMA GrowsCases ==
    ASSUME NEW f \in Seq(Requests), NEW g \in Seq(Requests)
    PROVE  /\ g = f => Grows(f, g)
           /\ Draws(f, g) => Grows(f, g)
           /\ \A r \in Requests : g = Append(f, r) /\ ~Answered(r) => Grows(f, g)
  <1>1. Since(f, f, 0)
    BY RequestsAt
  <1>2. ASSUME NEW r \in Requests PROVE Sent(f, Append(f, r), 0, r)
    BY <1>1, <1>2, SentFacts
  <1> QED BY <1>1, <1>2 DEF Grows, Draws

\* The end of request i, and what is sent then.
Ends(i) ==
    /\ Rest(i) \in Seq(Requests) /\ Grows(Rest(i), flight') /\ UNCHANGED <<server, lost>>
    /\ \/ PostEnds(i) /\ Arrives(i, "post")
       \/ RefreshEnds(i) /\ Arrives(i, "refresh")
       \/ LoadEnds(i) /\ Arrives(i, "load")
       \/ RunEnds(i) /\ Arrives(i, "run")

\* A click keeps what is in flight.
LEMMA ClickGrows ==
    ASSUME TypeInv, TypeInv', Operator
    PROVE  Grows(flight, flight') /\ UNCHANGED <<server, cache, faults>>
  <1>1. flight \in Seq(Requests) /\ flight' \in Seq(Requests) /\ tickets \in [Cases -> Statuses \cup {"none"}]
        /\ cache \in [Cases -> Nat] /\ "none" \in Ops \cup {"none"} /\ FALSE \in BOOLEAN
    BY DEF TypeInv
  <1>2. UNCHANGED <<server, cache, faults>>
    BY DEF Operator, PickCase, PickRun, SetView, PerformAction, OpenDialog, Cancel, RejectSelected
  <1>3. ASSUME NEW t \in Cases, PickCase(t) PROVE Grows(flight, flight')
    <2>1. RenderSelected(t, tickets, cache, flight, "none", FALSE)
      BY <1>3 DEF PickCase
    <2> QED BY <1>1, <2>1, DrawShape, GrowsCases
  <1>4. ASSUME NEW t \in Cases, RenderRuns(t, tickets, cache, flight, "none") PROVE Grows(flight, flight')
    BY <1>1, <1>4, RunsShape, GrowsCases
  <1>5. ASSUME NEW v \in {"cases", "runs"}, SetView(v) PROVE Grows(flight, flight')
    <2>1. selected \in Cases
      BY <1>5 DEF SetView, Click, TypeInv
    <2>2. CASE v = "runs"
      BY <1>4, <1>5, <2>1, <2>2 DEF SetView
    <2>3. CASE v # "runs"
      BY <1>1, <1>5, <2>3, GrowsCases DEF SetView
    <2> QED BY <2>2, <2>3
  <1>6. ASSUME NEW op \in Ops, PerformAction(op) PROVE Grows(flight, flight')
    <2> DEFINE r == Post(op, selected, page.case)
    <2>1. selected \in Cases /\ page.case \in Cases \cup {None}
      BY <1>6 DEF PerformAction, Click, TypeInv, Drawn
    <2>2. r \in Requests /\ ~Answered(r)
      BY <2>1, NewRequests DEF Requests, Post, Answered
    <2>3. flight' = Append(flight, r)
      BY <1>6 DEF PerformAction
    <2> HIDE DEF r
    <2> QED BY <1>1, <2>2, <2>3, GrowsCases
  <1>7. ASSUME RejectSelected PROVE Grows(flight, flight')
    <2> DEFINE r == Post("reject", selected, dialog)
    <2>1. selected \in Cases /\ dialog \in Cases \cup {None} /\ "reject" \in Ops
      BY <1>7 DEF RejectSelected, TypeInv, Ops
    <2>2. r \in Requests /\ ~Answered(r)
      BY <2>1, NewRequests DEF Requests, Post, Answered
    <2>3. flight' = Append(flight, r)
      BY <1>7 DEF RejectSelected
    <2> HIDE DEF r
    <2> QED BY <1>1, <2>2, <2>3, GrowsCases
  <1>8. ASSUME OpenDialog \/ Cancel PROVE Grows(flight, flight')
    BY <1>1, <1>8, GrowsCases DEF OpenDialog, Cancel
  <1> QED BY <1>2, <1>3, <1>4, <1>5, <1>6, <1>7, <1>8 DEF Operator, PickRun

\* A step is the server's, a click, the end of a request, or a loss.
LEMMA Steps ==
    ASSUME TypeInv, TypeInv', [Next]_vars
    PROVE  \/ \E i \in 1 .. Len(flight) : Serve(i)
           \/ (Operator \/ UNCHANGED vars) /\ Grows(flight, flight') /\ UNCHANGED <<server, cache, faults>>
           \/ \E i \in DOMAIN flight : Ends(i)
           \/ \E i \in DOMAIN flight : Lose(i)
  <1>1. flight \in Seq(Requests) /\ flight' \in Seq(Requests) /\ DOMAIN flight = 1 .. Len(flight)
    BY RequestsAt DEF TypeInv
  <1>2. ASSUME UNCHANGED vars PROVE Grows(flight, flight') /\ UNCHANGED <<server, cache, faults>>
    BY <1>1, <1>2, GrowsCases DEF vars
  <1>3. ASSUME NEW i \in DOMAIN flight, PostEnds(i) PROVE Ends(i)
    <2> DEFINE r == flight[i]
               q == Refresh(r.case, r.op, r.held)
    <2>1. /\ flight' = Rest(i) \/ Sent(Rest(i), flight', 0, q)
          /\ UNCHANGED <<server, lost>> /\ Arrives(i, "post") /\ ~Answered(q)
      BY <1>3, PostEndsShape DEF PostEnds, Refresh, Answered
    <2> HIDE DEF q
    <2>2. Rest(i) \in Seq(Requests)
      BY RestFacts
    <2> QED BY <1>1, <1>3, <2>1, <2>2, GrowsCases DEF Ends, Grows
  <1>4. ASSUME NEW i \in DOMAIN flight, RefreshEnds(i) PROVE Ends(i)
    <2>1. /\ Rest(i) \in Seq(Requests) /\ Draws(Rest(i), flight')
      BY <1>4, RefreshEndsShape
    <2>2. UNCHANGED <<server, lost>> /\ Arrives(i, "refresh")
      BY <1>4 DEF RefreshEnds
    <2> QED BY <1>1, <1>4, <2>1, <2>2, GrowsCases DEF Ends
  <1>5. ASSUME NEW i \in DOMAIN flight, LoadEnds(i) PROVE Ends(i)
    <2>1. /\ Rest(i) \in Seq(Requests) /\ Draws(Rest(i), flight')
      BY <1>5, LoadEndsShape
    <2>2. UNCHANGED <<server, lost>> /\ Arrives(i, "load")
      BY <1>5 DEF LoadEnds
    <2> QED BY <1>1, <1>5, <2>1, <2>2, GrowsCases DEF Ends
  <1>6. ASSUME NEW i \in DOMAIN flight, RunEnds(i) PROVE Ends(i)
    <2>1. UNCHANGED <<server, lost>> /\ Arrives(i, "run") /\ flight' = Rest(i)
      BY <1>6 DEF RunEnds
    <2>2. Rest(i) \in Seq(Requests)
      BY RestFacts
    <2> QED BY <1>1, <1>6, <2>1, <2>2, GrowsCases DEF Ends
  <1> QED BY <1>1, <1>2, <1>3, <1>4, <1>5, <1>6, ClickGrows DEF Next, Network

\* What stays in flight when request i ends, and where it was.
LEMMA EndsFacts ==
    ASSUME TypeInv, TypeInv', NEW i \in DOMAIN flight, Ends(i)
    PROVE  /\ \A j \in 1 .. Len(flight) : j # i =>
                \E k \in 1 .. Len(flight') : SameRequest(flight[j], flight'[k]) /\ flight'[k].answer = flight[j].answer
           /\ \A k \in 1 .. Len(flight') : Answered(flight'[k]) =>
                \E j \in 1 .. Len(flight) : SameRequest(flight[j], flight'[k]) /\ flight'[k].answer = flight[j].answer
  <1>1. Len(flight) \in Nat /\ i \in 1 .. Len(flight) /\ flight' \in Seq(Requests)
    BY RequestsAt DEF TypeInv
  <1>2. /\ Rest(i) \in Seq(Requests) /\ Len(Rest(i)) = Len(flight) - 1
        /\ \A k \in 1 .. Len(flight) - 1 : Rest(i)[k] = flight[IF k < i THEN k ELSE k + 1]
    BY RestFacts
  <1>3. /\ \A j \in 1 .. Len(Rest(i)) :
             j \in 1 .. Len(flight') /\ SameRequest(Rest(i)[j], flight'[j]) /\ flight'[j].answer = Rest(i)[j].answer
        /\ \A k \in 1 .. Len(flight') : k \in 1 .. Len(Rest(i)) \/ ~Answered(flight'[k])
    BY <1>1, <1>2, GrowsFacts DEF Ends
  <1>4. ASSUME NEW j \in 1 .. Len(flight), j # i
        PROVE  \E k \in 1 .. Len(flight') : SameRequest(flight[j], flight'[k]) /\ flight'[k].answer = flight[j].answer
    <2> DEFINE k == IF j < i THEN j ELSE j - 1
    <2>1. k \in 1 .. Len(flight) - 1 /\ (IF k < i THEN k ELSE k + 1) = j
      BY <1>1, <1>4
    <2> HIDE DEF k
    <2>2. k \in 1 .. Len(Rest(i)) /\ Rest(i)[k] = flight[j]
      BY <1>2, <2>1
    <2>3. k \in 1 .. Len(flight') /\ SameRequest(flight[j], flight'[k]) /\ flight'[k].answer = flight[j].answer
      BY <1>3, <2>2
    <2> QED BY <2>3
  <1>5. ASSUME NEW k \in 1 .. Len(flight'), Answered(flight'[k])
        PROVE  \E j \in 1 .. Len(flight) : SameRequest(flight[j], flight'[k]) /\ flight'[k].answer = flight[j].answer
    <2>1. k \in 1 .. Len(flight) - 1
      BY <1>2, <1>3, <1>5
    <2> DEFINE j == IF k < i THEN k ELSE k + 1
    <2>2. j \in 1 .. Len(flight)
      BY <1>1, <2>1
    <2>3. Rest(i)[k] = flight[j]
      BY <1>2, <2>1
    <2> HIDE DEF j
    <2>4. SameRequest(flight[j], flight'[k]) /\ flight'[k].answer = flight[j].answer
      BY <1>2, <1>3, <2>1, <2>3
    <2> QED BY <2>2, <2>4
  <1> QED BY <1>4, <1>5

-----------------------------------------------------------------------------
(* What is known of a case's events.                                       *)

\* A decision about t was made, and the page does not know it yet.
Awaited(t) ==
    \E i \in 1 .. Len(flight) : flight[i].kind = "post" /\ flight[i].case = t /\ flight[i].answer = "ok"

\* n is the number of t's events, or was until such a decision.
Known(n, t) == n = log[t] \/ Awaited(t) \/ t \in behind

Target(r) == IF r.case # None THEN r.case ELSE First

Refreshing(t) == \E i \in 1 .. Len(flight) : flight[i].kind = "refresh" /\ Target(flight[i]) = t

CacheInv ==
    /\ \A t \in Cases : cache[t] # 0 => Known(cache[t], t)
    /\ \A i \in 1 .. Len(flight) : flight[i].kind \in {"load", "run"} /\ Answered(flight[i])
                                  => Known(flight[i].answer, flight[i].case)

\* The answer to a decision about t comes in: its events are forgotten, and all the
\* cases asked for.
Forgets(i, t) ==
    /\ PostEnds(i) /\ i \in DOMAIN flight
    /\ flight[i].kind = "post" /\ flight[i].case = t /\ flight[i].answer = "ok"

\* The answer to a decision has its case's events forgotten, and the cases asked for.
LEMMA ForgetsFacts ==
    ASSUME TypeInv, TypeInv', NEW t \in Cases, NEW i, Forgets(i, t)
    PROVE  /\ cache' = [cache EXCEPT ![t] = 0] /\ cache'[t] = 0 /\ Refreshing(t)' /\ UNCHANGED server
           /\ behind' = IF LoadIsBehind(t) THEN behind \cup {t} ELSE behind \ {t}
           /\ Len(flight') = Len(flight) /\ Len(flight) \in 1 .. Len(flight)
           /\ flight'[Len(flight)].kind = "refresh" /\ ~Answered(flight'[Len(flight)])
  <1> DEFINE q == Refresh(t, flight[i].op, flight[i].held)
  <1>0. i \in DOMAIN flight /\ PostEnds(i) /\ flight[i].answer # "error" /\ flight[i].case = t
    BY DEF Forgets
  <1>1. /\ cache' = [cache EXCEPT ![t] = 0] /\ Forget(t) /\ Sent(Rest(i), flight', 0, q) /\ UNCHANGED server
    BY <1>0, PostEndsShape
  <1>2. cache'[t] = 0
    BY <1>1 DEF TypeInv
  <1>3. q.kind = "refresh" /\ Target(q) = t /\ ~Answered(q)
    BY CasesAssumption DEF Refresh, Target, Answered
  <1> HIDE DEF q
  <1>4. Rest(i) \in Seq(Requests) /\ Len(Rest(i)) = Len(flight) - 1
    BY <1>0, RestFacts
  <1>5. Len(Rest(i)) \in Nat /\ Len(flight') = Len(Rest(i)) - 0 + 1 /\ flight'[Len(flight')] = q
    BY <1>1, <1>4, RequestsAt DEF Sent
  <1>6. Len(flight) \in Nat
    BY RequestsAt DEF TypeInv
  <1>7. Len(flight') = Len(flight) /\ Len(flight) \in 1 .. Len(flight)
    BY <1>4, <1>5, <1>6
  <1>8. behind' = IF LoadIsBehind(t) THEN behind \cup {t} ELSE behind \ {t}
    BY <1>1 DEF Forget
  <1> QED BY <1>1, <1>2, <1>3, <1>5, <1>7, <1>8 DEF Refreshing, Target

\* Only the answer to a decision about t makes the page forget what it knows of t.
LEMMA KnownStep ==
    ASSUME TypeInv, TypeInv', ~lost', [Next]_vars, NEW t \in Cases, NEW n, Known(n, t)
    PROVE  n = log'[t] \/ Awaited(t)' \/ t \in behind' \/ \E i \in DOMAIN flight : Forgets(i, t)
  <1>1. ASSUME NEW i \in 1 .. Len(flight), Serve(i) PROVE n = log'[t] \/ Awaited(t)' \/ t \in behind'
    <2> DEFINE r == flight[i]
    <2>1. /\ \/ UNCHANGED server /\ \E a : Answers(i, a)
             \/ /\ r.kind = "post" /\ Answers(i, "ok")
                /\ \E s \in Statuses : Decided(r.case, s)
          /\ ~Answered(r) /\ r \in Requests /\ UNCHANGED behind
      BY <1>1, RequestsAt, ServeShape DEF TypeInv, faults
    <2>2. PICK a : Answers(i, a)
      BY <2>1
    <2>3. CASE Awaited(t)
      <3>1. PICK j \in 1 .. Len(flight) : flight[j].kind = "post" /\ flight[j].case = t /\ flight[j].answer = "ok"
        BY <2>3 DEF Awaited
      <3>2. j # i
        BY <2>1, <3>1, CasesAssumption DEF Answered
      <3>3. flight'[j] = flight[j] /\ Len(flight') = Len(flight)
        BY <2>2, <3>2 DEF Answers
      <3> QED BY <3>1, <3>3 DEF Awaited
    <2>4. CASE n = log[t] /\ UNCHANGED server
      BY <2>4 DEF server
    <2>5. CASE n = log[t] /\ r.kind = "post" /\ Answers(i, "ok") /\ \E s \in Statuses : Decided(r.case, s)
      <3>1. CASE r.case = t
        <4>1. flight'[i].kind = "post" /\ flight'[i].case = t /\ flight'[i].answer = "ok" /\ i \in 1 .. Len(flight')
          BY <2>5, <3>1 DEF Answers, SameRequest
        <4> QED BY <4>1 DEF Awaited
      <3>2. CASE r.case # t
        <4>1. log' = [log EXCEPT ![r.case] = @ + 1]
          BY <2>5 DEF Decided
        <4>2. log'[t] = log[t]
          BY <3>2, <4>1 DEF TypeInv
        <4> QED BY <2>5, <4>2
      <3> QED BY <3>1, <3>2
    <2>6. CASE t \in behind
      BY <2>1, <2>6
    <2> QED BY <2>1, <2>3, <2>4, <2>5, <2>6 DEF Known
  <1>2. ASSUME Grows(flight, flight'), UNCHANGED <<server, cache, faults>>
        PROVE  n = log'[t] \/ Awaited(t)' \/ t \in behind'
    <2>1. CASE Awaited(t)
      <3>1. PICK j \in 1 .. Len(flight) : flight[j].kind = "post" /\ flight[j].case = t /\ flight[j].answer = "ok"
        BY <2>1 DEF Awaited
      <3>2. j \in 1 .. Len(flight') /\ SameRequest(flight[j], flight'[j]) /\ flight'[j].answer = flight[j].answer
        BY <1>2, GrowsFacts DEF TypeInv
      <3> QED BY <3>1, <3>2 DEF Awaited, SameRequest
    <2>2. CASE n = log[t] \/ t \in behind
      BY <1>2, <2>2 DEF server, faults
    <2> QED BY <2>1, <2>2 DEF Known
  <1>3. ASSUME NEW i \in DOMAIN flight, Ends(i), ~Forgets(i, t)
        PROVE  n = log'[t] \/ Awaited(t)' \/ t \in behind'
    <2>1. CASE Awaited(t)
      <3>1. PICK j \in 1 .. Len(flight) : flight[j].kind = "post" /\ flight[j].case = t /\ flight[j].answer = "ok"
        BY <2>1 DEF Awaited
      <3>2. j # i
        BY <1>3, <3>1 DEF Ends, Arrives, Forgets
      <3>3. PICK k \in 1 .. Len(flight') : SameRequest(flight[j], flight'[k]) /\ flight'[k].answer = flight[j].answer
        BY <1>3, <3>2, EndsFacts
      <3> QED BY <3>1, <3>3 DEF Awaited, SameRequest
    <2>2. CASE n = log[t]
      BY <1>3, <2>2 DEF Ends, server
    <2>3. CASE t \in behind
      <3>1. CASE PostEnds(i)
        <4>1. \/ UNCHANGED behind
              \/ flight[i].answer = "ok" /\ flight[i].kind = "post" /\ flight[i].case \in Cases /\ Forget(flight[i].case)
          BY <3>1, PostEndsShape DEF Posts
        <4>2. flight[i].case # t \/ UNCHANGED behind
          BY <1>3, <3>1, <4>1 DEF Forgets
        <4> QED BY <2>3, <4>1, <4>2 DEF Forget
      <3>2. CASE ~PostEnds(i)
        <4>1. UNCHANGED behind
          BY <1>3, <3>2 DEF Ends, RefreshEnds, LoadEnds, RunEnds
        <4> QED BY <2>3, <4>1
      <3> QED BY <3>1, <3>2
    <2> QED BY <2>1, <2>2, <2>3 DEF Known
  <1>4. \A i \in DOMAIN flight : ~Lose(i)
    BY DEF Lose
  <1> QED BY <1>1, <1>2, <1>3, <1>4, Steps

\* What a step does to the cache.
LEMMA CacheSteps ==
    ASSUME TypeInv, TypeInv', [Next]_vars
    PROVE  \/ UNCHANGED cache
           \/ \E t \in Cases : cache' = [cache EXCEPT ![t] = 0]
           \/ \E i \in 1 .. Len(flight) :
                /\ flight[i].kind \in {"load", "run"} /\ flight[i].case \in Cases /\ Answered(flight[i])
                /\ cache' = [cache EXCEPT ![flight[i].case] = flight[i].answer]
  <1>1. \A i \in 1 .. Len(flight) : Serve(i) => UNCHANGED cache
    BY DEF Serve
  <1>2. \A i \in DOMAIN flight : Lose(i) => UNCHANGED cache
    BY DEF Lose
  <1>3. DOMAIN flight = 1 .. Len(flight)
    BY RequestsAt DEF TypeInv
  <1>4. ASSUME NEW i \in DOMAIN flight, PostEnds(i)
        PROVE  UNCHANGED cache \/ \E t \in Cases : cache' = [cache EXCEPT ![t] = 0]
    BY <1>4, PostEndsShape DEF Posts
  <1>5. \A i \in DOMAIN flight : RefreshEnds(i) => UNCHANGED cache
    BY DEF RefreshEnds
  <1>6. ASSUME NEW i \in DOMAIN flight, LoadEnds(i) \/ RunEnds(i)
        PROVE  /\ flight[i].kind \in {"load", "run"} /\ flight[i].case \in Cases /\ Answered(flight[i])
               /\ cache' = [cache EXCEPT ![flight[i].case] = flight[i].answer]
    BY <1>6, LoadEndsShape, RunEndsShape DEF LoadEnds, RunEnds, Arrives
  <1> QED BY <1>1, <1>2, <1>3, <1>4, <1>5, <1>6, Steps DEF Ends

\* A list of events gets old by a decision, whose answer will have it forgotten.
LEMMA CacheStep ==
    ASSUME TypeInv, TypeInv', CacheInv, ~lost', [Next]_vars
    PROVE  CacheInv'
  <1>1. /\ cache \in [Cases -> Nat] /\ DOMAIN flight = 1 .. Len(flight)
        /\ \A i \in 1 .. Len(flight) : flight[i] \in Requests
    BY RequestsAt DEF TypeInv
  <1>2. ASSUME NEW t \in Cases, cache'[t] # 0 PROVE Known(cache[t], t)'
    <2>0. \A i : ~Forgets(i, t)
      BY <1>2, ForgetsFacts
    <2>1. CASE cache'[t] = cache[t]
      <3>1. Known(cache[t], t)
        BY <1>2, <2>1 DEF CacheInv
      <3>2. cache[t] = log'[t] \/ Awaited(t)' \/ t \in behind'
        BY <2>0, <3>1, KnownStep
      <3> QED BY <2>1, <3>2 DEF Known
    <2>2. ASSUME NEW i \in 1 .. Len(flight), flight[i].kind \in {"load", "run"}, Answered(flight[i]),
                 flight[i].case = t, cache' = [cache EXCEPT ![flight[i].case] = flight[i].answer]
          PROVE  Known(cache[t], t)'
      <3>1. Known(flight[i].answer, t) /\ cache'[t] = flight[i].answer
        BY <1>1, <2>2 DEF CacheInv
      <3>2. flight[i].answer = log'[t] \/ Awaited(t)' \/ t \in behind'
        BY <2>0, <3>1, KnownStep
      <3> QED BY <3>1, <3>2 DEF Known
    <2>3. CASE UNCHANGED cache \/ \E c \in Cases : cache' = [cache EXCEPT ![c] = 0]
      BY <1>1, <1>2, <2>1, <2>3
    <2>4. ASSUME NEW i \in 1 .. Len(flight), cache' = [cache EXCEPT ![flight[i].case] = flight[i].answer],
                 flight[i].case # t
          PROVE  cache'[t] = cache[t]
      BY <1>1, <2>4
    <2> QED BY <2>1, <2>2, <2>3, <2>4, CacheSteps
  <1>3. ASSUME NEW i \in 1 .. Len(flight), flight[i].kind \in {"load", "run"}, Answered(flight[i])
        PROVE  \E t \in Cases : /\ t = flight[i].case
                                /\ flight[i].answer = log'[t] \/ Awaited(t)' \/ t \in behind'
    <2>1. flight[i].case \in Cases
      BY <1>1, <1>3, RequestKinds DEF Loads, LoadRuns
    <2>2. PICK t \in Cases : t = flight[i].case
      BY <2>1
    <2>3. Known(flight[i].answer, t)
      BY <1>3, <2>2 DEF CacheInv
    <2>4. ASSUME NEW k \in DOMAIN flight, Forgets(k, t) PROVE flight[i].answer = log'[t] \/ t \in behind'
      <3>1. UNCHANGED server /\ behind' = IF LoadIsBehind(t) THEN behind \cup {t} ELSE behind \ {t}
        BY <2>4, ForgetsFacts
      <3>2. flight[i].answer # log[t] => LoadIsBehind(t)
        BY <1>1, <1>3, <2>2 DEF LoadIsBehind
      <3> QED BY <3>1, <3>2 DEF server
    <2>5. flight[i].answer = log'[t] \/ Awaited(t)' \/ t \in behind'
      BY <2>3, <2>4, KnownStep
    <2> QED BY <2>2, <2>5
  <1>4. ASSUME NEW k \in 1 .. Len(flight'), flight'[k].kind \in {"load", "run"}, Answered(flight'[k])
        PROVE  Known(flight[k].answer, flight[k].case)'
    <2>1. ASSUME NEW j \in 1 .. Len(flight), SameRequest(flight[j], flight'[k]), flight'[k].answer = flight[j].answer
          PROVE  Known(flight[k].answer, flight[k].case)'
      <3>1. flight[j].kind \in {"load", "run"} /\ Answered(flight[j]) /\ flight'[k].case = flight[j].case
        BY <1>4, <2>1 DEF SameRequest, Answered
      <3> QED BY <1>3, <2>1, <3>1 DEF Known
    <2>2. ASSUME Grows(flight, flight') PROVE Known(flight[k].answer, flight[k].case)'
      <3>1. k \in 1 .. Len(flight) /\ SameRequest(flight[k], flight'[k]) /\ flight'[k].answer = flight[k].answer
        BY <1>4, <2>2, GrowsFacts DEF TypeInv
      <3> QED BY <2>1, <3>1
    <2>3. ASSUME NEW i \in 1 .. Len(flight), Serve(i) PROVE Known(flight[k].answer, flight[k].case)'
      <3> DEFINE r == flight[i]
      <3>1. /\ \/ r.kind \in {"load", "run"} /\ Answers(i, log[r.case]) /\ UNCHANGED server
               \/ r.kind \notin {"load", "run"} /\ \E a : Answers(i, a)
        BY <1>1, <2>3, ServeShape
      <3>2. PICK a : Answers(i, a)
        BY <3>1
      <3>3. k \in 1 .. Len(flight)
        BY <3>2 DEF Answers
      <3>4. CASE k # i
        <4>1. flight'[k] = flight[k]
          BY <3>2, <3>3, <3>4 DEF Answers
        <4> QED BY <2>1, <3>3, <4>1 DEF SameRequest
      <3>5. CASE k = i
        <4>1. r.kind \in {"load", "run"} /\ r.case = flight'[k].case
          BY <1>4, <3>2, <3>5 DEF Answers, SameRequest
        <4>2. flight'[k].answer = log[r.case] /\ UNCHANGED server
          BY <3>1, <3>5, <4>1 DEF Answers
        <4> QED BY <4>1, <4>2 DEF Known, server
      <3> QED BY <3>4, <3>5
    <2>4. ASSUME NEW i \in DOMAIN flight, Ends(i) PROVE Known(flight[k].answer, flight[k].case)'
      BY <1>4, <2>1, <2>4, EndsFacts
    <2>5. \A i \in DOMAIN flight : ~Lose(i)
      BY DEF Lose
    <2> QED BY <2>2, <2>3, <2>4, <2>5, Steps
  <1> QED BY <1>2, <1>4 DEF CacheInv

-----------------------------------------------------------------------------
(* Sessions in which nothing is lost or overtaken.  Their answers are      *)
(* always the oldest request's.                                            *)

Orderly == ~lost /\ ~crossed

\* The first d requests are done, and the page may have sent another.
Moved(f, g, d) ==
    /\ g \in Seq(Requests) /\ Len(g) \in {Len(f) - d, Len(f) - d + 1}
    /\ \A i \in 1 .. Len(f) - d : SameRequest(f[i + d], g[i]) /\ g[i].answer = f[i + d].answer

\* A step of the page.
Goes(d) ==
    /\ UNCHANGED server /\ d <= Len(flight) /\ Moved(flight, flight', d)
    /\ Len(flight') = Len(flight) - d + 1 => ~Answered(flight'[Len(flight')])

\* Requests that are done, and one that is sent, move the others up in their order.
LEMMA SinceMoved ==
    ASSUME NEW f \in Seq(Requests), NEW g \in Seq(Requests), NEW d \in {0, 1}, NEW r
    PROVE  /\ Since(f, g, d) => Moved(f, g, d) /\ Len(g) = Len(f) - d
           /\ Sent(f, g, d, r) => Moved(f, g, d) /\ Len(g) = Len(f) - d + 1 /\ g[Len(g)] = r
  <1>1. Len(f) \in Nat /\ Len(g) \in Nat
    BY LenProperties
  <1>2. ASSUME Since(f, g, d) PROVE Moved(f, g, d) /\ Len(g) = Len(f) - d
    BY <1>1, <1>2 DEF Since, Moved
  <1>3. ASSUME Sent(f, g, d, r)
        PROVE  Moved(f, g, d) /\ Len(g) = Len(f) - d + 1 /\ g[Len(g)] = r
    <2>1. Len(g) = Len(f) - d + 1 /\ Len(g) - 1 = Len(f) - d /\ g[Len(g)] = r
      BY <1>1, <1>3 DEF Sent
    <2> QED BY <1>3, <2>1 DEF Sent, Moved
  <1> QED BY <1>2, <1>3

\* What the page does after the first d requests.
LEMMA GrowsGoes ==
    ASSUME TypeInv, TypeInv', NEW f \in Seq(Requests), NEW d \in {0, 1}, d <= Len(flight), Since(flight, f, d),
           Grows(f, flight'), UNCHANGED server
    PROVE  Goes(d)
  <1>1. flight \in Seq(Requests) /\ Len(flight) \in Nat /\ flight' \in Seq(Requests)
    BY RequestsAt DEF TypeInv
  <1>2. CASE Since(f, flight', 0)
    <2>1. Since(flight, flight', d)
      BY <1>1, <1>2, SinceThen
    <2>2. Moved(flight, flight', d) /\ Len(flight') = Len(flight) - d
      BY <1>1, <2>1, SinceMoved
    <2> QED BY <1>1, <2>2 DEF Goes
  <1>3. ASSUME NEW r, ~Answered(r), Sent(f, flight', 0, r) PROVE Goes(d)
    <2>1. Sent(flight, flight', d, r)
      BY <1>1, <1>3, SinceThen
    <2>2. Moved(flight, flight', d) /\ flight'[Len(flight')] = r
      BY <1>1, <2>1, SinceMoved
    <2> QED BY <1>3, <2>2 DEF Goes
  <1> QED BY <1>2, <1>3 DEF Grows

\* An orderly step is the server's, or the page's.
LEMMA OrderlySteps ==
    ASSUME TypeInv, TypeInv', Orderly', [Next]_vars
    PROVE  /\ Orderly
           /\ \/ \E i \in 1 .. Len(flight) : Serve(i)
              \/ Goes(0) /\ (Operator \/ UNCHANGED vars)
              \/ /\ Goes(1)
                 /\ \/ PostEnds(1) /\ flight[1].kind = "post"
                    \/ RefreshEnds(1) /\ flight[1].kind = "refresh"
                    \/ LoadEnds(1) /\ flight[1].kind = "load"
                    \/ RunEnds(1) /\ flight[1].kind = "run"
  <1>1. /\ flight \in Seq(Requests) /\ Since(flight, flight, 0)
        /\ DOMAIN flight = 1 .. Len(flight) /\ Len(flight) \in Nat
    BY RequestsAt DEF TypeInv
  <1>2. ASSUME Grows(flight, flight'), UNCHANGED <<server, cache, faults>> PROVE Orderly /\ Goes(0)
    <2>1. Orderly /\ 0 <= Len(flight) /\ 0 \in {0, 1}
      BY <1>1, <1>2 DEF faults, Orderly
    <2> QED BY <1>1, <1>2, <2>1, GrowsGoes
  <1>3. ASSUME NEW i \in DOMAIN flight, Ends(i)
        PROVE  /\ Orderly /\ Goes(1)
               /\ \/ PostEnds(1) /\ flight[1].kind = "post"
                  \/ RefreshEnds(1) /\ flight[1].kind = "refresh"
                  \/ LoadEnds(1) /\ flight[1].kind = "load"
                  \/ RunEnds(1) /\ flight[1].kind = "run"
    <2>1. i = 1 /\ Orderly
      BY <1>3 DEF Ends, Arrives, Orderly
    <2>2. 1 \in DOMAIN flight /\ 1 <= Len(flight) /\ 1 \in {0, 1}
      BY <1>1, <1>3, <2>1
    <2>3. Rest(1) \in Seq(Requests) /\ Since(flight, Rest(1), 1)
      BY <2>2, RestFacts
    <2>4. Grows(Rest(1), flight') /\ UNCHANGED server
      BY <1>3, <2>1 DEF Ends
    <2>5. Goes(1)
      BY <1>1, <2>2, <2>3, <2>4, GrowsGoes
    <2> QED BY <1>3, <2>1, <2>5 DEF Ends, Arrives
  <1>4. ASSUME NEW i \in DOMAIN flight, Serve(i) PROVE Orderly
    BY <1>4 DEF Serve, faults, Orderly
  <1>5. ASSUME NEW i \in DOMAIN flight, Lose(i) PROVE FALSE
    BY <1>5 DEF Lose, Orderly
  <1> QED BY <1>1, <1>2, <1>3, <1>4, <1>5, Steps

\* Where the requests of a list come from, and where they go.
LEMMA MovedFacts ==
    ASSUME NEW f \in Seq(Requests), NEW g \in Seq(Requests), NEW d \in {0, 1}, d <= Len(f),
           Moved(f, g, d)
    PROVE  /\ Len(f) \in Nat /\ Len(g) \in Nat
           /\ \A i \in 1 .. Len(g) :
                \/ /\ i + d \in 1 .. Len(f) /\ i <= Len(f) - d
                   /\ SameRequest(f[i + d], g[i]) /\ g[i].answer = f[i + d].answer
                \/ i = Len(g) /\ Len(g) = Len(f) - d + 1
           /\ \A j \in 1 .. Len(f) : j > d =>
                /\ j - d \in 1 .. Len(g) /\ j - d <= Len(f) - d
                /\ SameRequest(f[j], g[j - d]) /\ g[j - d].answer = f[j].answer
  <1>1. Len(f) \in Nat /\ Len(g) \in Nat /\ Len(g) \in {Len(f) - d, Len(f) - d + 1}
    BY LenProperties DEF Moved
  <1>2. \A i \in 1 .. Len(f) - d : SameRequest(f[i + d], g[i]) /\ g[i].answer = f[i + d].answer
    BY DEF Moved
  <1>3. ASSUME NEW i \in 1 .. Len(g)
        PROVE  \/ /\ i + d \in 1 .. Len(f) /\ i <= Len(f) - d
                  /\ SameRequest(f[i + d], g[i]) /\ g[i].answer = f[i + d].answer
               \/ i = Len(g) /\ Len(g) = Len(f) - d + 1
    <2>1. CASE i <= Len(f) - d
      <3>1. i \in 1 .. Len(f) - d /\ i + d \in 1 .. Len(f)
        BY <1>1, <2>1
      <3> QED BY <1>2, <2>1, <3>1
    <2>2. CASE ~(i <= Len(f) - d)
      BY <1>1, <2>2
    <2> QED BY <2>1, <2>2
  <1>4. ASSUME NEW j \in 1 .. Len(f), j > d
        PROVE  /\ j - d \in 1 .. Len(g) /\ j - d <= Len(f) - d
               /\ SameRequest(f[j], g[j - d]) /\ g[j - d].answer = f[j].answer
    <2>1. j - d \in 1 .. Len(f) - d /\ (j - d) + d = j /\ j - d \in 1 .. Len(g)
      BY <1>1, <1>4
    <2> QED BY <1>2, <2>1
  <1> QED BY <1>1, <1>3, <1>4

\* Where they are after a step of the page.
LEMMA GoesFacts ==
    ASSUME TypeInv, TypeInv', NEW d \in {0, 1}, Goes(d)
    PROVE  /\ Len(flight) \in Nat /\ Len(flight') \in Nat
           /\ \A i \in 1 .. Len(flight') :
                \/ /\ i + d \in 1 .. Len(flight) /\ i <= Len(flight) - d
                   /\ SameRequest(flight[i + d], flight'[i]) /\ flight'[i].answer = flight[i + d].answer
                \/ i = Len(flight') /\ Len(flight') = Len(flight) - d + 1 /\ ~Answered(flight'[i])
           /\ \A j \in 1 .. Len(flight) : j > d =>
                /\ j - d \in 1 .. Len(flight') /\ j - d <= Len(flight) - d
                /\ SameRequest(flight[j], flight'[j - d]) /\ flight'[j - d].answer = flight[j].answer
  <1>1. flight \in Seq(Requests) /\ flight' \in Seq(Requests) /\ d <= Len(flight) /\ Moved(flight, flight', d)
    BY DEF TypeInv, Goes
  <1>2. Len(flight') = Len(flight) - d + 1 => ~Answered(flight'[Len(flight')])
    BY DEF Goes
  <1>3. /\ Len(flight) \in Nat /\ Len(flight') \in Nat
        /\ \A i \in 1 .. Len(flight') :
             \/ /\ i + d \in 1 .. Len(flight) /\ i <= Len(flight) - d
                /\ SameRequest(flight[i + d], flight'[i]) /\ flight'[i].answer = flight[i + d].answer
             \/ i = Len(flight') /\ Len(flight') = Len(flight) - d + 1
        /\ \A j \in 1 .. Len(flight) : j > d =>
             /\ j - d \in 1 .. Len(flight') /\ j - d <= Len(flight) - d
             /\ SameRequest(flight[j], flight'[j - d]) /\ flight'[j - d].answer = flight[j].answer
    BY <1>1, MovedFacts
  <1> QED BY <1>2, <1>3

-----------------------------------------------------------------------------
(* The list of cases.                                                      *)

\* A list of cases after the j-th request will be the server's.
Coming(j) ==
    \E i \in 1 .. Len(flight) :
        \/ i > j /\ flight[i].kind = "refresh" /\ flight[i].answer \in {None, status}
        \/ flight[i].kind = "post" /\ flight[i].answer = "ok"

TicketsInv ==
    /\ tickets # status => Coming(0)
    /\ \A j \in 1 .. Len(flight) :
         flight[j].kind = "refresh" /\ flight[j].answer \notin {None, status} => Coming(j)

\* The promise is kept by the server,
LEMMA ComingServed ==
    ASSUME TypeInv, NEW k \in 1 .. Len(flight), Serve(k), NEW j, Coming(j) \/ status' # status
    PROVE  Coming(j)'
  <1> DEFINE r == flight[k]
  <1>1. k \in DOMAIN flight
    BY RequestsAt DEF TypeInv
  <1>2. /\ \/ r.kind = "refresh" /\ Answers(k, status) /\ UNCHANGED server
           \/ r.kind # "refresh" /\ (\E a : Answers(k, a)) /\ UNCHANGED server
           \/ /\ r.kind = "post" /\ Answers(k, "ok")
        /\ ~Answered(r)
    BY <1>1, ServeShape
  <1>3. CASE r.kind = "post" /\ Answers(k, "ok")
    <2>1. flight'[k].kind = "post" /\ flight'[k].answer = "ok" /\ k \in 1 .. Len(flight')
      BY <1>3 DEF Answers, SameRequest
    <2> QED BY <2>1 DEF Coming
  <1>4. CASE UNCHANGED status /\ Coming(j) /\ (r.kind = "refresh" => Answers(k, status)) /\ \E a : Answers(k, a)
    <2>1. PICK i \in 1 .. Len(flight) :
             \/ i > j /\ flight[i].kind = "refresh" /\ flight[i].answer \in {None, status}
             \/ flight[i].kind = "post" /\ flight[i].answer = "ok"
      BY <1>4 DEF Coming
    <2>2. i \in 1 .. Len(flight') /\ (i # k => flight'[i] = flight[i])
      BY <1>4 DEF Answers
    <2>3. CASE i # k
      BY <1>4, <2>1, <2>2, <2>3 DEF Coming
    <2>4. CASE i = k
      <3>1. r.kind = "refresh" /\ i > j
        BY <1>2, <2>1, <2>4, CasesAssumption DEF Answered
      <3>2. flight'[i].kind = "refresh" /\ flight'[i].answer = status
        BY <1>4, <2>4, <3>1 DEF Answers, SameRequest
      <3> QED BY <1>4, <2>2, <3>1, <3>2 DEF Coming
    <2> QED BY <2>3, <2>4
  <1> QED BY <1>2, <1>3, <1>4 DEF server

\* and by the page.
LEMMA ComingGoes ==
    ASSUME TypeInv, TypeInv', Orderly', NEW d \in {0, 1}, Goes(d), NEW j \in Nat, j >= d, j <= Len(flight),
           Coming(j), flight[1].kind = "post" => \A t \in Cases : d = 1 /\ flight[1].case = t
                        /\ flight[1].answer = "ok" => Forgets(1, t)
    PROVE  Coming(j - d)'
  <1>1. UNCHANGED status /\ Len(flight) \in Nat
    BY RequestsAt DEF Goes, server, TypeInv
  <1>2. PICK i \in 1 .. Len(flight) :
           \/ i > j /\ flight[i].kind = "refresh" /\ flight[i].answer \in {None, status}
           \/ flight[i].kind = "post" /\ flight[i].answer = "ok"
    BY DEF Coming
  <1>3. CASE i > d
    <2>1. /\ i - d \in 1 .. Len(flight') /\ SameRequest(flight[i], flight'[i - d])
          /\ flight'[i - d].answer = flight[i].answer
      BY <1>3, GoesFacts
    <2>2. i > j => i - d > j - d
      BY <1>1
    <2> QED BY <1>1, <1>2, <2>1, <2>2 DEF Coming, SameRequest
  <1>4. CASE ~(i > d)
    <2>1. i = 1 /\ d = 1 /\ ~(i > j)
      BY <1>1, <1>4
    <2>2. flight[1] \in Requests /\ flight[1].kind = "post" /\ flight[1].answer = "ok"
      BY <1>2, <2>1, RequestsAt DEF TypeInv
    <2>3. flight[1].case \in Cases
      BY <2>2, RequestKinds DEF Posts
    <2>4. Forgets(1, flight[1].case)
      BY <2>1, <2>2, <2>3
    <2>5. /\ Len(flight') = Len(flight) /\ Len(flight) \in 1 .. Len(flight)
          /\ flight'[Len(flight)].kind = "refresh" /\ ~Answered(flight'[Len(flight)])
      BY <2>3, <2>4, ForgetsFacts
    <2>6. Len(flight) > j - d
      BY <1>1, <2>1
    <2> QED BY <2>5, <2>6 DEF Coming, Answered
  <1> QED BY <1>3, <1>4

\* A list of cases gets old by a decision, whose answer will have it asked for again.
LEMMA TicketsStep ==
    ASSUME TypeInv, TypeInv', TicketsInv, Orderly', [Next]_vars
    PROVE  TicketsInv'
  <1>1. Len(flight) \in Nat /\ DOMAIN flight = 1 .. Len(flight)
    BY RequestsAt DEF TypeInv
  <1>2. ASSUME NEW k \in 1 .. Len(flight), Serve(k) PROVE TicketsInv'
    <2>1. UNCHANGED tickets
      BY <1>2 DEF Serve
    <2>2. ASSUME tickets' # status' PROVE Coming(0)'
      <3>1. Coming(0) \/ status' # status
        BY <2>1, <2>2 DEF TicketsInv
      <3> QED BY <1>2, <3>1, ComingServed
    <2>3. ASSUME NEW j \in 1 .. Len(flight'), flight'[j].kind = "refresh", flight'[j].answer \notin {None, status'}
          PROVE  Coming(j)'
      <3>1. PICK a : Answers(k, a)
        BY <1>1, <1>2, ServeShape
      <3>2. flight[k].kind = "refresh" => Answers(k, status) /\ UNCHANGED server
        BY <1>1, <1>2, ServeShape
      <3>3. CASE j = k
        <4>1. flight[k].kind = "refresh"
          BY <2>3, <3>1, <3>3 DEF Answers, SameRequest
        <4> QED BY <2>3, <3>2, <3>3, <4>1 DEF Answers, server
      <3>4. CASE j # k
        <4>1. j \in 1 .. Len(flight) /\ flight'[j] = flight[j]
          BY <3>1, <3>4 DEF Answers
        <4>2. Coming(j) \/ status' # status
          BY <2>3, <4>1 DEF TicketsInv
        <4> QED BY <1>2, <4>2, ComingServed
      <3> QED BY <3>3, <3>4
    <2> QED BY <2>2, <2>3 DEF TicketsInv, Coming
  <1>3. ASSUME NEW d \in {0, 1}, Goes(d),
               \A t \in Cases : flight[1].kind = "post" /\ d = 1 /\ flight[1].case = t
                               /\ flight[1].answer = "ok" => Forgets(1, t)
        PROVE  \A j \in 1 .. Len(flight') : flight'[j].kind = "refresh" /\ flight'[j].answer \notin {None, status'}
                                         => Coming(j)'
    <2>1. ASSUME NEW j \in 1 .. Len(flight'), flight'[j].kind = "refresh", flight'[j].answer \notin {None, status'}
          PROVE  Coming(j)'
      <3>1. /\ j + d \in 1 .. Len(flight)
            /\ SameRequest(flight[j + d], flight'[j]) /\ flight'[j].answer = flight[j + d].answer
        BY <1>3, <2>1, GoesFacts DEF Answered
      <3>2. UNCHANGED status
        BY <1>3 DEF Goes, server
      <3>3. Coming(j + d)
        BY <2>1, <3>1, <3>2 DEF TicketsInv, SameRequest
      <3>4. j + d \in Nat /\ j + d >= d /\ j + d <= Len(flight) /\ (j + d) - d = j
        BY <1>1, <3>1
      <3> DEFINE m == j + d
      <3>5. m \in Nat /\ m >= d /\ m <= Len(flight) /\ Coming(m) /\ m - d = j
        BY <3>3, <3>4
      <3> HIDE DEF m
      <3>6. Coming(m - d)'
        BY <1>3, <3>5, ComingGoes
      <3> QED BY <3>5, <3>6
    <2> QED BY <2>1
  <1>4. ASSUME Goes(0), Operator \/ UNCHANGED vars PROVE TicketsInv'
    <2>1. UNCHANGED <<tickets, status>>
      BY <1>4 DEF Operator, PickCase, PickRun, SetView, PerformAction, OpenDialog, Cancel, RejectSelected, vars,
         server
    <2>2. ASSUME Coming(0) PROVE Coming(0)'
      <3>1. 0 \in {0, 1} /\ 0 \in Nat /\ 0 >= 0 /\ 0 <= Len(flight) /\ 0 - 0 = 0 /\ 0 # 1
        BY <1>1
      <3>2. Coming(0 - 0)'
        BY <1>4, <2>2, <3>1, ComingGoes
      <3> QED BY <3>1, <3>2
    <2>3. 0 \in {0, 1} /\ 0 # 1
      OBVIOUS
    <2> QED BY <1>3, <1>4, <2>1, <2>2, <2>3 DEF TicketsInv, Coming
  <1>5. ASSUME Goes(1), NEW kind, Arrives(1, kind), 1 \in DOMAIN flight, Coming(1),
               kind = "post" => PostEnds(1)
        PROVE  Coming(0)'
    <2>1. 1 \in {0, 1} /\ 1 \in Nat /\ 1 >= 1 /\ 1 <= Len(flight) /\ 1 - 1 = 0
      BY <1>1, <1>5
    <2>2. \A t \in Cases : flight[1].kind = "post" /\ flight[1].case = t /\ flight[1].answer = "ok" => Forgets(1, t)
      BY <1>5 DEF Forgets, Arrives
    <2>3. Coming(1 - 1)'
      BY <1>5, <2>1, <2>2, ComingGoes
    <2> QED BY <2>1, <2>3
  <1>6. ASSUME Goes(1), NEW kind \in {"post", "load", "run"}, flight[1].kind = kind, Arrives(1, kind),
               UNCHANGED tickets, kind = "post" => PostEnds(1)
        PROVE  TicketsInv'
    <2>1. 1 \in DOMAIN flight /\ UNCHANGED status
      BY <1>1, <1>6 DEF Goes, server
    <2>2. ASSUME tickets' # status' PROVE Coming(0)'
      <3>1. Coming(0)
        BY <1>6, <2>1, <2>2 DEF TicketsInv
      <3>2. Coming(1)
        <4>1. PICK i \in 1 .. Len(flight) :
                \/ i > 0 /\ flight[i].kind = "refresh" /\ flight[i].answer \in {None, status}
                \/ flight[i].kind = "post" /\ flight[i].answer = "ok"
          BY <3>1 DEF Coming
        <4>2. flight[i].kind = "refresh" => i # 1
          BY <1>6
        <4>3. i # 1 => i > 1
          BY <1>1
        <4> QED BY <4>1, <4>2, <4>3 DEF Coming
      <3> QED BY <1>5, <1>6, <2>1, <3>2
    <2>3. \A t \in Cases : flight[1].kind = "post" /\ 1 = 1 /\ flight[1].case = t /\ flight[1].answer = "ok"
                           => Forgets(1, t)
      BY <1>6, <2>1 DEF Forgets
    <2>4. \A j \in 1 .. Len(flight') : flight'[j].kind = "refresh" /\ flight'[j].answer \notin {None, status'}
                                   => Coming(j)'
      BY <1>3, <1>6, <2>3
    <2> QED BY <2>2, <2>4 DEF TicketsInv, Coming
  <1>7. ASSUME Goes(1), RefreshEnds(1), flight[1].kind = "refresh" PROVE TicketsInv'
    <2>1. 1 \in DOMAIN flight /\ UNCHANGED status /\ Arrives(1, "refresh")
      BY <1>1, <1>7 DEF Goes, server, RefreshEnds
    <2>2. tickets' = flight[1].answer /\ flight[1].answer # None
      BY <1>7 DEF RefreshEnds, Arrives, Answered
    <2>3. ASSUME tickets' # status' PROVE Coming(0)'
      <3>1. Coming(1)
        BY <1>1, <1>7, <2>1, <2>2, <2>3 DEF TicketsInv
      <3> QED BY <1>5, <1>7, <2>1, <3>1
    <2>4. \A j \in 1 .. Len(flight') : flight'[j].kind = "refresh" /\ flight'[j].answer \notin {None, status'}
                                   => Coming(j)'
      BY <1>3, <1>7
    <2> QED BY <2>3, <2>4 DEF TicketsInv, Coming
  <1>8. PostEnds(1) => Arrives(1, "post") /\ UNCHANGED tickets
    BY DEF PostEnds
  <1>9. LoadEnds(1) => Arrives(1, "load") /\ UNCHANGED tickets
    BY DEF LoadEnds
  <1>10. RunEnds(1) => Arrives(1, "run") /\ UNCHANGED tickets
    BY DEF RunEnds
  <1> QED BY <1>2, <1>4, <1>6, <1>7, <1>8, <1>9, <1>10, OrderlySteps

-----------------------------------------------------------------------------
(* The page: a button that is missing waits for a request.                 *)

PageInv ==
    /\ page.case = None => selected = None /\ tickets = [t \in Cases |-> "none"] /\ page.status = "none"
    /\ page.case # None => page.status = tickets[page.case] /\ selected # None
    /\ \A op \in Buttons(page.status) \ page.on :
         \E i \in 1 .. Len(flight) : Held(flight[i]) /\ flight[i].op = op

\* g is f, perhaps with more at its end.
Kept(f, g) == Len(f) <= Len(g) /\ \A j \in 1 .. Len(f) : g[j] = f[j]

\* Entering the run view keeps the requests.
LEMMA RunsKept ==
    ASSUME TypeInv, NEW sel \in Cases, NEW tks \in [Cases -> Statuses \cup {"none"}],
           NEW ch \in [Cases -> Nat], NEW f \in Seq(Requests),
           NEW op \in Ops \cup {"none"}, RenderRuns(sel, tks, ch, f, op)
    PROVE  Kept(f, flight')
  <1> DEFINE r == LoadRun(sel, tks[sel], op)
  <1>1. tks[sel] \in Statuses \cup {"none"}
    OBVIOUS
  <1>2. r \in Requests
    BY <1>1, NewRequests DEF LoadRun, Requests
  <1>3. flight' = f \/ flight' = Append(f, r)
    BY DEF RenderRuns
  <1> HIDE DEF r
  <1>4. Len(f) \in Nat /\ Len(Append(f, r)) = Len(f) + 1 /\ \A i \in 1 .. Len(f) : Append(f, r)[i] = f[i]
    BY <1>2, RequestsAt, SentFacts
  <1> QED BY <1>3, <1>4 DEF Kept

\* Every request but the one that ends is kept.
LEMMA RestKept ==
    ASSUME TypeInv, NEW i \in DOMAIN flight, NEW j \in 1 .. Len(flight), j # i, Kept(Rest(i), flight'),
           flight' \in Seq(Requests)
    PROVE  \E k \in 1 .. Len(flight') : flight'[k] = flight[j]
  <1>1. Len(flight) \in Nat /\ Len(flight') \in Nat /\ i \in 1 .. Len(flight)
    BY RequestsAt DEF TypeInv
  <1>2. Len(Rest(i)) = Len(flight) - 1 /\ \A k \in 1 .. Len(flight) - 1 : Rest(i)[k] = flight[IF k < i THEN k ELSE k + 1]
    BY RestFacts
  <1> DEFINE k == IF j < i THEN j ELSE j - 1
  <1>3. k \in 1 .. Len(flight) - 1 /\ (IF k < i THEN k ELSE k + 1) = j
    BY <1>1
  <1> HIDE DEF k
  <1>4. k \in 1 .. Len(Rest(i)) /\ Rest(i)[k] = flight[j]
    BY <1>2, <1>3
  <1>5. k \in 1 .. Len(flight') /\ flight'[k] = flight[j]
    BY <1>1, <1>2, <1>4 DEF Kept
  <1> QED BY <1>5

\* The end of a load keeps the requests.
LEMMA LoadKept ==
    ASSUME TypeInv, NEW i \in DOMAIN flight, LoadEnds(i)
    PROVE  Kept(Rest(i), flight')
  <1> DEFINE r == flight[i]
             ch == cache'
  <1>1. /\ r \in Loads /\ Rest(i) \in Seq(Requests) /\ ch \in [Cases -> Nat]
    BY LoadEndsShape
  <1>2. r.op \in Ops \cup {"none"}
    BY <1>1 DEF Loads
  <1>3. IF r.chained /\ view = "runs"
        THEN RenderRuns(selected, tickets, ch, Rest(i), r.op)
        ELSE flight' = Rest(i) /\ UNCHANGED run
    BY DEF LoadEnds
  <1> HIDE DEF r, ch
  <1>4. CASE r.chained /\ view = "runs"
    <2>1. tickets \in [Cases -> Statuses \cup {"none"}] /\ selected \in Cases
      BY <1>4 DEF TypeInv
    <2> QED BY <1>1, <1>2, <1>3, <1>4, <2>1, RunsKept
  <1>5. CASE ~(r.chained /\ view = "runs")
    BY <1>1, <1>3, <1>5, RequestsAt DEF Kept
  <1> QED BY <1>4, <1>5

\* A button that is missing keeps waiting, or works again, when request i ends.
LEMMA PageRest ==
    ASSUME TypeInv, PageInv, NEW i \in DOMAIN flight, Kept(Rest(i), flight'), flight' \in Seq(Requests),
           page'.case = page.case, page'.status = page.status, UNCHANGED <<tickets, selected>>,
           page.on \subseteq page'.on,
           Held(flight[i]) => \/ flight[i].op \in page'.on
                              \/ \E k \in 1 .. Len(flight') : Held(flight'[k]) /\ flight'[k].op = flight[i].op
    PROVE  PageInv'
  <1>1. ASSUME NEW op \in Buttons(page.status), op \notin page'.on
        PROVE  \E k \in 1 .. Len(flight') : Held(flight'[k]) /\ flight'[k].op = op
    <2>1. PICK j \in 1 .. Len(flight) : Held(flight[j]) /\ flight[j].op = op
      BY <1>1 DEF PageInv
    <2>2. CASE j = i
      BY <1>1, <2>1, <2>2
    <2>3. CASE j # i
      <3>1. \E k \in 1 .. Len(flight') : flight'[k] = flight[j]
        BY <2>3, RestKept
      <3> QED BY <2>1, <3>1
    <2> QED BY <2>2, <2>3
  <1>2. \A op \in Buttons(page'.status) \ page'.on :
          \E k \in 1 .. Len(flight') : Held(flight'[k]) /\ flight'[k].op = op
    BY <1>1
  <1>3. /\ page'.case = None => selected' = None /\ tickets' = [t \in Cases |-> "none"] /\ page'.status = "none"
        /\ page'.case # None => page'.status = tickets'[page'.case] /\ selected' # None
    BY DEF PageInv
  <1> QED BY <1>2, <1>3 DEF PageInv, Held

\* and when the page is not drawn and none ends.
LEMMA PageClick ==
    ASSUME TypeInv, PageInv, Kept(flight, flight'), flight' \in Seq(Requests),
           UNCHANGED <<page, tickets>>, selected # None => selected' # None, selected = None => selected' = None
    PROVE  PageInv'
  <1>1. Len(flight) \in Nat /\ Len(flight') \in Nat
    BY RequestsAt DEF TypeInv
  <1>2. \A i \in 1 .. Len(flight) : i \in 1 .. Len(flight') /\ flight'[i] = flight[i]
    BY <1>1 DEF Kept
  <1>3. ASSUME NEW op \in Buttons(page.status) \ page.on
        PROVE  \E i \in 1 .. Len(flight') : Held(flight'[i]) /\ flight'[i].op = op
    <2>1. PICK i \in 1 .. Len(flight) : Held(flight[i]) /\ flight[i].op = op
      BY DEF PageInv
    <2> QED BY <1>2, <2>1
  <1> QED BY <1>3 DEF PageInv, Held

\* The first page is empty.
LEMMA PageInit == Init => PageInv
  BY CasesAssumption DEF Init, PageInv, Buttons

\* A button is taken away by the request it starts; a redraw gives a page those of its status.
LEMMA PageStep == TypeInv /\ TypeInv' /\ PageInv /\ [Next]_vars => PageInv'
  <1> SUFFICES ASSUME TypeInv, TypeInv', PageInv, [Next]_vars PROVE PageInv'
    OBVIOUS
  <1>1. /\ flight \in Seq(Requests) /\ flight' \in Seq(Requests) /\ cache \in [Cases -> Nat]
        /\ tickets \in [Cases -> Statuses \cup {"none"}] /\ "none" \in Ops \cup {"none"}
        /\ Kept(flight, flight) /\ DOMAIN flight = 1 .. Len(flight)
    <2>1. flight \in Seq(Requests)
      BY DEF TypeInv
    <2>2. Len(flight) \in Nat /\ DOMAIN flight = 1 .. Len(flight)
      BY <2>1, RequestsAt
    <2>3. Kept(flight, flight)
      BY <2>2 DEF Kept
    <2> QED BY <2>1, <2>2, <2>3 DEF TypeInv
  <1>2. ASSUME NEW sel \in Cases, NEW tks, tks = tickets', selected' = sel,
               page' = [case |-> sel, status |-> tks[sel], on |-> Buttons(tks[sel])]
        PROVE  PageInv'
    <2>1. sel # None
      BY CasesAssumption
    <2>2. page'.case = sel /\ page'.status = tickets'[sel] /\ page'.on = Buttons(page'.status)
      BY <1>2
    <2> QED BY <1>2, <2>1, <2>2 DEF PageInv
  <1>3. ASSUME NEW t \in Cases, PickCase(t) PROVE PageInv'
    <2>1. FALSE \in BOOLEAN /\ UNCHANGED tickets /\ selected' = t
          /\ RenderSelected(t, tickets, cache, flight, "none", FALSE)
      BY <1>3 DEF PickCase
    <2>2. page' = [case |-> t, status |-> tickets[t], on |-> Buttons(tickets[t])]
      BY <1>1, <2>1, DrawShape
    <2> QED BY <1>2, <2>1, <2>2
  <1>4. ASSUME NEW t \in Cases, PickRun(t) PROVE PageInv'
    <2>1. Kept(flight, flight')
      BY <1>1, <1>4, RunsKept DEF PickRun
    <2>2. t # None
      BY CasesAssumption
    <2> QED BY <1>1, <1>4, <2>1, <2>2, PageClick DEF PickRun, Click
  <1>5. ASSUME NEW v \in {"cases", "runs"}, SetView(v) PROVE PageInv'
    <2>1. selected \in Cases
      BY <1>5 DEF SetView, Click, TypeInv
    <2>2. Kept(flight, flight')
      <3>1. CASE v = "runs"
        BY <1>1, <1>5, <2>1, <3>1, RunsKept DEF SetView
      <3>2. CASE v # "runs"
        BY <1>1, <1>5, <3>2 DEF SetView
      <3> QED BY <3>1, <3>2
    <2> QED BY <1>1, <1>5, <2>2, PageClick DEF SetView
  <1>6. ASSUME NEW op \in Ops, PerformAction(op) PROVE PageInv'
    <2> DEFINE r == Post(op, selected, page.case)
    <2>1. selected \in Cases /\ page.case \in Cases \cup {None} /\ op # "reject"
      BY <1>6 DEF PerformAction, Click, TypeInv, Drawn
    <2>2. r \in Requests /\ Held(r) /\ r.op = op
      BY <2>1, NewRequests DEF Requests, Post, Held
    <2>3. flight' = Append(flight, r) /\ page' = [page EXCEPT !.on = page.on \ {op}]
          /\ UNCHANGED <<tickets, selected>>
      BY <1>6 DEF PerformAction
    <2> HIDE DEF r
    <2>4. Len(flight) \in Nat /\ Len(flight') = Len(flight) + 1 /\ flight'[Len(flight) + 1] = r
          /\ \A i \in 1 .. Len(flight) : flight'[i] = flight[i]
      BY <1>1, <2>2, <2>3, RequestsAt, SentFacts
    <2>5. page'.case = page.case /\ page'.status = page.status /\ page'.on = page.on \ {op}
      BY <2>3 DEF TypeInv, Drawn
    <2>6. ASSUME NEW o \in Buttons(page.status) \ page'.on
          PROVE  \E i \in 1 .. Len(flight') : Held(flight'[i]) /\ flight'[i].op = o
      <3>1. CASE o = op
        <4>1. Len(flight) + 1 \in 1 .. Len(flight')
          BY <2>4
        <4> QED BY <2>2, <2>4, <3>1, <4>1
      <3>2. CASE o # op
        <4>1. PICK i \in 1 .. Len(flight) : Held(flight[i]) /\ flight[i].op = o
          BY <2>5, <2>6, <3>2 DEF PageInv
        <4>2. i \in 1 .. Len(flight') /\ flight'[i] = flight[i]
          BY <2>4
        <4> QED BY <4>1, <4>2
      <3> QED BY <3>1, <3>2
    <2>7. \A o \in Buttons(page'.status) \ page'.on :
            \E i \in 1 .. Len(flight') : Held(flight'[i]) /\ flight'[i].op = o
      BY <2>5, <2>6
    <2>8. /\ page'.case = None => selected' = None /\ tickets' = [t \in Cases |-> "none"] /\ page'.status = "none"
          /\ page'.case # None => page'.status = tickets'[page'.case] /\ selected' # None
      BY <2>3, <2>5 DEF PageInv
    <2> QED BY <2>7, <2>8 DEF PageInv, Held
  <1>7. CASE OpenDialog \/ Cancel
    BY <1>1, <1>7, PageClick DEF OpenDialog, Cancel
  <1>8. CASE RejectSelected
    <2> DEFINE r == Post("reject", selected, dialog)
    <2>1. selected \in Cases /\ dialog \in Cases \cup {None} /\ "reject" \in Ops
      BY <1>8 DEF RejectSelected, TypeInv, Ops
    <2>2. r \in Requests
      BY <2>1, NewRequests DEF Requests, Post
    <2>3. flight' = Append(flight, r) /\ UNCHANGED <<page, tickets, selected>>
      BY <1>8 DEF RejectSelected, screen
    <2> HIDE DEF r
    <2>4. Len(flight) \in Nat /\ Len(flight') = Len(flight) + 1 /\ \A i \in 1 .. Len(flight) : flight'[i] = flight[i]
      BY <1>1, <2>2, <2>3, RequestsAt, SentFacts
    <2>5. Kept(flight, flight')
      BY <2>4 DEF Kept
    <2> QED BY <1>1, <2>3, <2>5, PageClick
  <1>9. ASSUME NEW i \in DOMAIN flight, Serve(i) PROVE PageInv'
    <2>1. PICK a : Answers(i, a)
      BY <1>9, ServeShape
    <2>2. UNCHANGED <<tickets, selected, page>>
      BY <1>9 DEF Serve, screen
    <2>3. \A j \in 1 .. Len(flight) : /\ j \in 1 .. Len(flight') /\ (Held(flight'[j]) <=> Held(flight[j]))
                                      /\ flight'[j].op = flight[j].op
      BY <2>1 DEF Answers, SameRequest
    <2>4. ASSUME NEW op \in Buttons(page.status) \ page.on
          PROVE  \E j \in 1 .. Len(flight') : Held(flight'[j]) /\ flight'[j].op = op
      BY <2>3 DEF PageInv
    <2> QED BY <2>2, <2>4 DEF PageInv, Held
  <1>10. ASSUME NEW i \in DOMAIN flight PROVE Rest(i) \in Seq(Requests) /\ Kept(Rest(i), Rest(i))
    BY RestFacts, RequestsAt DEF Kept
  <1>11. ASSUME NEW i \in DOMAIN flight, PostEnds(i) PROVE PageInv'
    <2> DEFINE r == flight[i]
               q == Refresh(r.case, r.op, r.held)
    <2>1. /\ r \in Posts
          /\ \/ flight' = Rest(i) /\ Caught(r)
             \/ flight' = Append(Rest(i), q) /\ UNCHANGED page
          /\ page'.case = page.case /\ page'.status = page.status
          /\ UNCHANGED <<tickets, selected>>
      BY <1>11, PostEndsShape
    <2>2. CASE flight' = Rest(i) /\ Caught(r)
      <3>1. page'.on = IF Held(r) THEN page.on \cup {r.op} ELSE page.on
        BY <2>2, CaughtFacts
      <3>2. Kept(Rest(i), flight')
        BY <1>10, <2>2
      <3> QED BY <1>1, <2>1, <3>1, <3>2, PageRest
    <2>3. CASE flight' = Append(Rest(i), q) /\ UNCHANGED page
      <3>1. q \in Requests
        BY <2>1, NewRequests DEF Posts, Requests
      <3>2. Held(r) => Held(q) /\ q.op = r.op
        BY DEF Held, Refresh
      <3> HIDE DEF q
      <3>3. Rest(i) \in Seq(Requests) /\ Since(Rest(i), Rest(i), 0) /\ Len(Rest(i)) \in Nat
        BY <1>10, RequestsAt
      <3>4. /\ Len(flight') = Len(Rest(i)) + 1 /\ flight'[Len(Rest(i)) + 1] = q
            /\ \A k \in 1 .. Len(Rest(i)) : flight'[k] = Rest(i)[k]
        BY <2>3, <3>1, <3>3, SentFacts
      <3>5. Kept(Rest(i), flight') /\ Len(Rest(i)) + 1 \in 1 .. Len(flight')
        BY <3>3, <3>4 DEF Kept
      <3>6. Held(r) => \E k \in 1 .. Len(flight') : Held(flight'[k]) /\ flight'[k].op = r.op
        BY <3>2, <3>4, <3>5
      <3> QED BY <1>1, <2>1, <2>3, <3>5, <3>6, PageRest
    <2> QED BY <2>1, <2>2, <2>3
  <1>12. ASSUME NEW i \in DOMAIN flight, RefreshEnds(i) PROVE PageInv'
    <2> DEFINE sel == IF flight[i].case # None THEN flight[i].case ELSE First
               tks == flight[i].answer
    <2>1. /\ sel \in Cases /\ tickets' = tks /\ selected' = sel
          /\ page' = [case |-> sel, status |-> tks[sel], on |-> Buttons(tks[sel])]
      BY <1>12, RefreshEndsShape
    <2> HIDE DEF sel, tks
    <2> QED BY <1>2, <2>1
  <1>13. ASSUME NEW i \in DOMAIN flight, LoadEnds(i) \/ RunEnds(i) PROVE PageInv'
    <2>1. ~Held(flight[i]) /\ UNCHANGED <<page, tickets, selected>>
      BY <1>13 DEF LoadEnds, RunEnds, Arrives, Held
    <2>2. Kept(Rest(i), flight')
      BY <1>10, <1>13, LoadKept DEF RunEnds
    <2> QED BY <1>1, <2>1, <2>2, PageRest
  <1>14. ASSUME NEW i \in DOMAIN flight, Lose(i) PROVE PageInv'
    <2>1. Caught(flight[i]) /\ flight' = Rest(i) /\ UNCHANGED <<tickets, selected>>
      BY <1>14 DEF Lose
    <2>2. /\ page'.case = page.case /\ page'.status = page.status
          /\ page'.on = IF Held(flight[i]) THEN page.on \cup {flight[i].op} ELSE page.on
      BY <2>1, CaughtFacts
    <2>3. Kept(Rest(i), flight')
      BY <1>10, <2>1
    <2> QED BY <1>1, <2>1, <2>2, <2>3, PageRest
  <1>15. CASE UNCHANGED vars
    BY <1>1, <1>15, PageClick DEF vars, screen
  <1> QED BY <1>3, <1>4, <1>5, <1>6, <1>7, <1>8, <1>9, <1>11, <1>12, <1>13, <1>14, <1>15 DEF Next, Operator, Network

-----------------------------------------------------------------------------
(* What is drawn is known, or will be drawn again.                         *)

Fresh(n, t) == Known(n, t) \/ Refreshing(t)

\* What is known of a case stays known, or the cases are asked for.
LEMMA KnownFresh ==
    ASSUME TypeInv, TypeInv', Orderly', [Next]_vars, NEW t \in Cases, NEW n, Known(n, t)
    PROVE  n = log'[t] \/ Awaited(t)' \/ t \in behind' \/ Refreshing(t)'
  BY KnownStep, ForgetsFacts DEF Orderly

\* The cases are asked for until the answer comes in.
LEMMA RefreshingStep ==
    ASSUME TypeInv, TypeInv', Orderly', [Next]_vars, NEW t, Refreshing(t),
           ~(RefreshEnds(1) /\ Goes(1) /\ flight[1].kind = "refresh")
    PROVE  Refreshing(t)'
  <1>1. PICK j \in 1 .. Len(flight) : flight[j].kind = "refresh" /\ Target(flight[j]) = t
    BY DEF Refreshing
  <1>2. ASSUME NEW k \in 1 .. Len(flight), Serve(k) PROVE Refreshing(t)'
    <2>1. PICK a : Answers(k, a)
      BY <1>2, RequestsAt, ServeShape DEF TypeInv
    <2>2. j \in 1 .. Len(flight') /\ SameRequest(flight[j], flight'[j])
      BY <2>1 DEF Answers, SameRequest
    <2> QED BY <1>1, <2>2 DEF Refreshing, SameRequest, Target
  <1>3. ASSUME NEW d \in {0, 1}, Goes(d), d = 1 => flight[1].kind # "refresh" PROVE Refreshing(t)'
    <2>1. Len(flight) \in Nat
      BY RequestsAt DEF TypeInv
    <2>2. j > d
      BY <1>1, <1>3, <2>1
    <2>3. j - d \in 1 .. Len(flight') /\ SameRequest(flight[j], flight'[j - d])
      BY <1>3, <2>2, GoesFacts
    <2> QED BY <1>1, <2>3 DEF Refreshing, SameRequest, Target
  <1>4. 0 \in {0, 1} /\ 1 \in {0, 1} /\ 0 # 1 /\ "refresh" \notin {"post", "load", "run"}
    OBVIOUS
  <1> QED BY <1>2, <1>3, <1>4, OrderlySteps

\* Events stay fresh through every step but the one that ends the refresh they are due to.
LEMMA FreshStep ==
    ASSUME TypeInv, TypeInv', Orderly', [Next]_vars, NEW t \in Cases, NEW n, Fresh(n, t),
           ~(RefreshEnds(1) /\ Goes(1) /\ flight[1].kind = "refresh")
    PROVE  n = log'[t] \/ Awaited(t)' \/ t \in behind' \/ Refreshing(t)'
  BY KnownFresh, RefreshingStep DEF Fresh

LoadsAt(f) == {i \in 1 .. Len(f) : f[i].kind = "load"}

\* The run view is drawn when r ends.
Pending(r) == r.kind = "run" \/ (r.kind = "load" /\ r.chained)

PendingAt(f) == {i \in 1 .. Len(f) : Pending(f[i])}

\* The requests follow those before, without the first d.
Follows(d) == Goes(d) \/ (d = 0 /\ \E k \in 1 .. Len(flight) : Serve(k))

\* The requests that stay are the same, each moved up by as many as are done.
LEMMA FollowsFacts ==
    ASSUME TypeInv, TypeInv', NEW d \in {0, 1}, Follows(d)
    PROVE  /\ Len(flight) \in Nat /\ Len(flight') \in Nat
           /\ \A i \in 1 .. Len(flight') : i <= Len(flight) - d =>
                i + d \in 1 .. Len(flight) /\ SameRequest(flight[i + d], flight'[i])
           /\ \A j \in 1 .. Len(flight) : j > d =>
                j - d \in 1 .. Len(flight') /\ SameRequest(flight[j], flight'[j - d])
  <1>1. Len(flight) \in Nat /\ Len(flight') \in Nat
    BY RequestsAt DEF TypeInv
  <1>2. CASE Goes(d)
    <2>1. ASSUME NEW i \in 1 .. Len(flight'), i <= Len(flight) - d
          PROVE  i + d \in 1 .. Len(flight) /\ SameRequest(flight[i + d], flight'[i])
      BY <1>1, <1>2, <2>1, GoesFacts
    <2>2. ASSUME NEW j \in 1 .. Len(flight), j > d
          PROVE  j - d \in 1 .. Len(flight') /\ SameRequest(flight[j], flight'[j - d])
      BY <1>2, <2>2, GoesFacts
    <2> QED BY <1>1, <2>1, <2>2
  <1>3. ASSUME d = 0, NEW k \in 1 .. Len(flight), Serve(k)
        PROVE  /\ \A i \in 1 .. Len(flight') : i + d \in 1 .. Len(flight) /\ SameRequest(flight[i + d], flight'[i])
               /\ \A j \in 1 .. Len(flight) : j - d \in 1 .. Len(flight') /\ SameRequest(flight[j], flight'[j - d])
    <2>1. PICK a : Answers(k, a)
      BY <1>3, RequestsAt, ServeShape DEF TypeInv
    <2>2. Len(flight') = Len(flight) /\ \A i \in 1 .. Len(flight) : SameRequest(flight[i], flight'[i])
      BY <2>1 DEF Answers, SameRequest
    <2>3. \A i \in 1 .. Len(flight) : i + d = i /\ i - d = i
      BY <1>3
    <2> QED BY <2>2, <2>3
  <1> QED BY <1>1, <1>2, <1>3 DEF Follows

\* The last of the requests that matter is the one it was, or there is none left.
LEMMA LastOf ==
    ASSUME NEW d \in {0, 1}, NEW n \in Nat, NEW m \in Nat, NEW F \in SUBSET (1 .. n), NEW G \in SUBSET (1 .. m),
           \A j \in F : j > d => j - d \in G, \A i \in G : i + d \in F
    PROVE  /\ \A i \in G : (\A j \in G : j <= i) => i + d \in F /\ \A j \in F : j <= i + d
           /\ G = {} => F \subseteq 1 .. d
  <1>1. ASSUME NEW i \in G, \A j \in G : j <= i, NEW j \in F PROVE j <= i + d
    <2>1. CASE j > d
      <3>1. j - d <= i
        BY <1>1, <2>1
      <3> QED BY <3>1
    <2>2. CASE ~(j > d)
      BY <2>2
    <2> QED BY <2>1, <2>2
  <1>2. ASSUME G = {}, NEW j \in F PROVE j \in 1 .. d
    BY <1>2
  <1> QED BY <1>1, <1>2

\* Of the loads, and of the requests the run view waits for.
LEMMA LastLoad ==
    ASSUME TypeInv, TypeInv', NEW d \in {0, 1}, Follows(d),
           \A i \in LoadsAt(flight') : i <= Len(flight) - d
    PROVE  /\ \A i \in LoadsAt(flight') : (\A j \in LoadsAt(flight') : j <= i) =>
                /\ i + d \in LoadsAt(flight) /\ \A j \in LoadsAt(flight) : j <= i + d
                /\ flight'[i].case = flight[i + d].case
           /\ LoadsAt(flight') = {} => LoadsAt(flight) \subseteq 1 .. d
  <1> DEFINE F == LoadsAt(flight)
             G == LoadsAt(flight')
  <1>1. Len(flight) \in Nat /\ Len(flight') \in Nat
    BY FollowsFacts
  <1>2. F \in SUBSET (1 .. Len(flight)) /\ G \in SUBSET (1 .. Len(flight'))
    BY DEF LoadsAt
  <1>3. \A j \in F : j > d => j - d \in G
    BY FollowsFacts DEF LoadsAt, SameRequest
  <1>4. \A i \in G : i + d \in F /\ flight'[i].case = flight[i + d].case
    BY FollowsFacts DEF LoadsAt, SameRequest
  <1> HIDE DEF F, G
  <1> QED BY <1>1, <1>2, <1>3, <1>4, LastOf DEF F, G

\* A step that sends nothing a view waits for leaves the last request it waits for the last.
LEMMA LastPending ==
    ASSUME TypeInv, TypeInv', NEW d \in {0, 1}, Follows(d),
           \A i \in PendingAt(flight') : i <= Len(flight) - d
    PROVE  /\ \A i \in PendingAt(flight') : (\A j \in PendingAt(flight') : j <= i) =>
                /\ i + d \in PendingAt(flight) /\ \A j \in PendingAt(flight) : j <= i + d
                /\ SameRequest(flight[i + d], flight'[i])
           /\ PendingAt(flight') = {} => PendingAt(flight) \subseteq 1 .. d
  <1> DEFINE F == PendingAt(flight)
             G == PendingAt(flight')
  <1>1. Len(flight) \in Nat /\ Len(flight') \in Nat
    BY FollowsFacts
  <1>2. F \in SUBSET (1 .. Len(flight)) /\ G \in SUBSET (1 .. Len(flight'))
    BY DEF PendingAt
  <1>3. \A j \in F : j > d => j - d \in G
    BY FollowsFacts DEF PendingAt, Pending, SameRequest
  <1>4. \A i \in G : i + d \in F /\ SameRequest(flight[i + d], flight'[i])
    BY FollowsFacts DEF PendingAt, Pending, SameRequest
  <1> HIDE DEF F, G
  <1> QED BY <1>1, <1>2, <1>3, <1>4, LastOf DEF F, G

\* The run view is drawn for t, or asks for its events.
DrawsRun(t) ==
    /\ Goes(0) /\ RenderRuns(t, tickets, cache, flight, "none")
    /\ selected' = t /\ UNCHANGED <<tickets, cache, page, caseTimeline>>

\* Nothing is drawn, and no events are asked for.
DrawsNone(d) ==
    /\ Goes(d)
    /\ d = 1 => flight[1].kind = "post"
    /\ \A i \in 1 .. Len(flight') : i > Len(flight) - d => flight'[i].kind \in {"post", "refresh"}
    /\ UNCHANGED <<tickets, selected, caseTimeline, runView>> /\ page'.case = page.case
    /\ view' \in {view, "cases"}

\* What a step draws.
LEMMA DrawSteps ==
    ASSUME TypeInv, TypeInv', Orderly', [Next]_vars
    PROVE  \/ \E k \in 1 .. Len(flight) : Serve(k)
           \/ RefreshEnds(1) /\ Goes(1) /\ flight[1].kind = "refresh"
           \/ \E t \in Cases : PickCase(t) /\ Goes(0)
           \/ \E t \in Cases : DrawsRun(t)
           \/ \E d \in {0, 1} : DrawsNone(d)
           \/ LoadEnds(1) /\ Goes(1) /\ flight[1].kind = "load"
           \/ RunEnds(1) /\ Goes(1) /\ flight[1].kind = "run"
  <1>1. /\ flight \in Seq(Requests) /\ flight' \in Seq(Requests) /\ Since(flight, flight, 0)
        /\ DOMAIN flight = 1 .. Len(flight) /\ Len(flight) \in Nat /\ Len(flight') \in Nat
    <2>1. flight \in Seq(Requests) /\ flight' \in Seq(Requests)
      BY DEF TypeInv
    <2> QED BY <2>1, RequestsAt
  <1>2. ASSUME NEW t \in Cases, Goes(0), PickRun(t) PROVE DrawsRun(t)
    BY <1>2 DEF PickRun, DrawsRun
  <1>3. ASSUME NEW v \in {"cases", "runs"}, Goes(0), SetView(v)
        PROVE  (\E t \in Cases : DrawsRun(t)) \/ DrawsNone(0)
    <2>1. selected \in Cases
      BY <1>3 DEF SetView, Click, TypeInv
    <2>2. CASE v = "runs"
      <3>1. DrawsRun(selected)
        BY <1>3, <2>2 DEF SetView, DrawsRun
      <3> QED BY <2>1, <3>1
    <2>3. CASE v # "runs"
      <3>1. v = "cases" /\ flight' = flight
        BY <1>3, <2>3 DEF SetView
      <3>2. \A i \in 1 .. Len(flight') : ~(i > Len(flight) - 0)
        BY <1>1, <3>1
      <3>3. UNCHANGED <<tickets, selected, caseTimeline, runView, page>> /\ view' = "cases"
        BY <1>3, <3>1 DEF SetView
      <3>4. 0 # 1
        OBVIOUS
      <3> QED BY <1>3, <3>2, <3>3, <3>4 DEF DrawsNone
    <2> QED BY <2>2, <2>3
  <1>4. ASSUME NEW r, r \in Requests, r.kind = "post", flight' = Append(flight, r)
        PROVE  \A i \in 1 .. Len(flight') : i > Len(flight) - 0 => flight'[i].kind \in {"post", "refresh"}
    <2>1. Len(flight') = Len(flight) + 1 /\ flight'[Len(flight) + 1] = r
      BY <1>1, <1>4, SentFacts
    <2>2. \A i \in 1 .. Len(flight') : i > Len(flight) - 0 => i = Len(flight) + 1
      BY <1>1, <2>1
    <2> QED BY <1>4, <2>1, <2>2
  <1>5. ASSUME NEW op \in Ops, Goes(0), PerformAction(op) PROVE DrawsNone(0)
    <2> DEFINE r == Post(op, selected, page.case)
    <2>1. selected \in Cases /\ page.case \in Cases \cup {None}
      BY <1>5 DEF PerformAction, Click, TypeInv, Drawn
    <2>2. r \in Requests /\ r.kind = "post"
      BY <2>1, NewRequests DEF Requests, Post
    <2>3. flight' = Append(flight, r) /\ page' = [page EXCEPT !.on = page.on \ {op}]
          /\ UNCHANGED <<tickets, selected, caseTimeline, runView, view>>
      BY <1>5 DEF PerformAction
    <2>4. page'.case = page.case /\ 0 # 1
      BY <2>3 DEF TypeInv, Drawn
    <2> HIDE DEF r
    <2>5. \A i \in 1 .. Len(flight') : i > Len(flight) - 0 => flight'[i].kind \in {"post", "refresh"}
      BY <1>4, <2>2, <2>3
    <2> QED BY <1>5, <2>3, <2>4, <2>5 DEF DrawsNone
  <1>6. ASSUME Goes(0), RejectSelected PROVE DrawsNone(0)
    <2> DEFINE r == Post("reject", selected, dialog)
    <2>1. selected \in Cases /\ dialog \in Cases \cup {None} /\ "reject" \in Ops /\ 0 # 1
      BY <1>6 DEF RejectSelected, TypeInv, Ops
    <2>2. r \in Requests /\ r.kind = "post"
      BY <2>1, NewRequests DEF Requests, Post
    <2>3. flight' = Append(flight, r) /\ UNCHANGED <<tickets, selected, caseTimeline, runView, view, page>>
      BY <1>6 DEF RejectSelected, screen
    <2> HIDE DEF r
    <2>4. \A i \in 1 .. Len(flight') : i > Len(flight) - 0 => flight'[i].kind \in {"post", "refresh"}
      BY <1>4, <2>2, <2>3
    <2> QED BY <1>6, <2>1, <2>3, <2>4 DEF DrawsNone
  <1>7. ASSUME Goes(0), OpenDialog \/ Cancel \/ UNCHANGED vars PROVE DrawsNone(0)
    <2>1. UNCHANGED <<tickets, selected, caseTimeline, runView, view, page, flight>>
      BY <1>7 DEF OpenDialog, Cancel, vars, screen
    <2>2. 0 # 1 /\ \A i \in 1 .. Len(flight') : ~(i > Len(flight) - 0)
      BY <1>1, <2>1
    <2> QED BY <1>7, <2>1, <2>2 DEF DrawsNone
  <1>8. ASSUME Goes(1), PostEnds(1), flight[1].kind = "post" PROVE DrawsNone(1)
    <2> DEFINE r == flight[1]
               q == Refresh(r.case, r.op, r.held)
    <2>1. 1 \in DOMAIN flight
      BY <1>1, <1>8 DEF Goes
    <2>2. /\ flight' = Rest(1) \/ Sent(Rest(1), flight', 0, q)
          /\ page'.case = page.case /\ UNCHANGED <<tickets, selected, caseTimeline, runView, view>>
      BY <1>8, <2>1, PostEndsShape
    <2>3. Len(Rest(1)) = Len(flight) - 1
      BY <2>1, RestFacts
    <2>4. q.kind = "refresh"
      BY DEF Refresh
    <2> HIDE DEF q
    <2>5. ASSUME NEW i \in 1 .. Len(flight'), i > Len(flight) - 1 PROVE flight'[i].kind \in {"post", "refresh"}
      <3>1. CASE flight' = Rest(1)
        BY <1>1, <2>3, <2>5, <3>1
      <3>2. CASE Sent(Rest(1), flight', 0, q)
        <4>1. Len(flight') = Len(Rest(1)) - 0 + 1 /\ flight'[Len(flight')] = q
          BY <3>2 DEF Sent
        <4>2. i = Len(flight')
          BY <1>1, <2>3, <2>5, <4>1
        <4> QED BY <2>4, <4>1, <4>2
      <3> QED BY <2>2, <3>1, <3>2
    <2> QED BY <1>8, <2>2, <2>5 DEF DrawsNone
  <1> QED BY <1>2, <1>3, <1>5, <1>6, <1>7, <1>8, OrderlySteps DEF Operator

\* The last load in flight is for the page's timeline; without one, it is drawn, and
\* fresh.
TimelineInv == ~pastLoad =>
    /\ \A i \in LoadsAt(flight) : (\A j \in LoadsAt(flight) : j <= i) => flight[i].case = page.case
    /\ LoadsAt(flight) = {} =>
         /\ timeline.case = page.case
         /\ page.case # None => Fresh(timeline.log, page.case)

\* A page that is drawn has its timeline drawn from the cache, unless a load is to bring
\* another's, or asks for it last.
LEMMA DrawnTimeline ==
    ASSUME TypeInv, TypeInv', CacheInv', UNCHANGED cache,
           NEW sel \in Cases, NEW tks \in [Cases -> Statuses \cup {"none"}], NEW f \in Seq(Requests),
           NEW op \in Ops \cup {"none"}, NEW chained \in BOOLEAN,
           RenderSelected(sel, tks, cache, f, op, chained)
    PROVE  TimelineInv'
  <1>1. /\ page' = [case |-> sel, status |-> tks[sel], on |-> Buttons(tks[sel])]
        /\ flight' \in Seq(Requests)
        /\ cache[sel] # 0 => /\ timeline' = [case |-> sel, log |-> cache[sel]]
                            /\ pastLoad' = ~LoadIsFor(f, sel)
                            /\ Since(f, flight', 0)
        /\ cache[sel] = 0 => Sent(f, flight', 0, Load(sel, op, chained))
    <2>1. page' = [case |-> sel, status |-> tks[sel], on |-> Buttons(tks[sel])]
      BY DEF RenderSelected
    <2>2. cache[sel] # 0 => timeline' = [case |-> sel, log |-> cache[sel]] /\ pastLoad' = ~LoadIsFor(f, sel)
      BY DEF RenderSelected
    <2>3. flight' \in Seq(Requests)
      BY DrawShape
    <2>4. cache[sel] # 0 => Since(f, flight', 0)
      BY DrawShape
    <2>5. cache[sel] = 0 => Sent(f, flight', 0, Load(sel, op, chained))
      BY DrawShape
    <2> QED BY <2>1, <2>2, <2>3, <2>4, <2>5
  <1>2. page'.case = sel /\ Len(f) \in Nat /\ DOMAIN f = 1 .. Len(f) /\ Len(flight') \in Nat
    BY <1>1, RequestsAt
  <1>3. CASE cache[sel] # 0
    <2> SUFFICES ASSUME ~pastLoad' PROVE TimelineInv'
      BY DEF TimelineInv
    <2>1. LoadIsFor(f, sel) /\ Since(f, flight', 0)
      BY <1>1, <1>3
    <2>2. Len(flight') = Len(f) /\ \A i \in 1 .. Len(f) : SameRequest(f[i], flight'[i])
      BY <1>2, <2>1 DEF Since
    <2>3. \A i \in 1 .. Len(f) : i \in LoadsAt(flight') <=> f[i].kind = "load"
      BY <2>2 DEF LoadsAt, SameRequest
    <2>4. ASSUME NEW i \in LoadsAt(flight'), \A j \in LoadsAt(flight') : j <= i
          PROVE  flight'[i].case = page'.case
      <3>1. i \in 1 .. Len(f) /\ f[i].kind = "load"
        BY <2>2, <2>3 DEF LoadsAt
      <3>2. \A j \in DOMAIN f : j > i => f[j].kind # "load"
        BY <1>2, <2>3, <2>4, <3>1
      <3>3. f[i].case = sel
        BY <1>2, <2>1, <3>1, <3>2 DEF LoadIsFor
      <3> QED BY <1>2, <2>2, <3>1, <3>3 DEF SameRequest
    <2>5. Known(cache[sel], sel)'
      BY <1>3 DEF CacheInv
    <2>6. timeline'.case = sel /\ timeline'.log = cache'[sel]
      BY <1>1, <1>3
    <2>7. timeline'.log = log'[sel] \/ Awaited(sel)' \/ sel \in behind'
      BY <2>5, <2>6 DEF Known
    <2> QED BY <1>2, <2>4, <2>6, <2>7 DEF TimelineInv, LoadsAt, Fresh, Known, Awaited
  <1>4. CASE cache[sel] = 0
    <2> DEFINE r == Load(sel, op, chained)
    <2>1. r.kind = "load" /\ r.case = sel
      BY DEF Load
    <2>2. Sent(f, flight', 0, r)
      BY <1>1, <1>4
    <2> HIDE DEF r
    <2>3. Len(flight') = Len(f) - 0 + 1 /\ flight'[Len(flight')] = r
      BY <2>2 DEF Sent
    <2>4. Len(flight') \in LoadsAt(flight')
      BY <1>2, <2>1, <2>3 DEF LoadsAt
    <2>5. ASSUME NEW i \in LoadsAt(flight'), \A j \in LoadsAt(flight') : j <= i
          PROVE  flight'[i].case = page'.case
      <3>1. i = Len(flight')
        BY <1>2, <2>4, <2>5 DEF LoadsAt
      <3> QED BY <1>2, <2>1, <2>3, <3>1
    <2> QED BY <2>4, <2>5 DEF TimelineInv, LoadsAt
  <1> QED BY <1>3, <1>4

\* A page that is drawn shows its events or asks for them at once.
LEMMA TimelineStep ==
    ASSUME TypeInv, TypeInv', CacheInv, CacheInv', TimelineInv, Orderly', [Next]_vars
    PROVE  TimelineInv'
  <1>1. /\ flight \in Seq(Requests) /\ DOMAIN flight = 1 .. Len(flight) /\ Len(flight) \in Nat
        /\ Len(flight') \in Nat /\ page.case \in Cases \cup {None}
    <2>1. flight \in Seq(Requests) /\ flight' \in Seq(Requests)
      BY DEF TypeInv
    <2> QED BY <2>1, RequestsAt DEF TypeInv, Drawn
  <1>2. ASSUME RefreshEnds(1), Goes(1), flight[1].kind = "refresh" PROVE TimelineInv'
    <2> DEFINE sel == IF flight[1].case # None THEN flight[1].case ELSE First
               tks == flight[1].answer
               op  == flight[1].op
    <2>1. 1 \in DOMAIN flight
      BY <1>1, <1>2 DEF Goes
    <2>2. /\ flight[1] \in Refreshes /\ tks \in [Cases -> Statuses] /\ sel \in Cases
          /\ Rest(1) \in Seq(Requests) /\ RenderSelected(sel, tks, cache, Rest(1), op, TRUE)
          /\ UNCHANGED cache
      BY <1>2, <2>1, RefreshEndsShape
    <2>3. op \in Ops \cup {"none"} /\ TRUE \in BOOLEAN
      BY <2>2 DEF Refreshes
    <2> HIDE DEF sel, tks, op
    <2>4. tks \in [Cases -> Statuses \cup {"none"}]
      BY <2>2
    <2> QED BY <2>2, <2>3, <2>4, DrawnTimeline
  <1>3. ASSUME NEW t \in Cases, PickCase(t), Goes(0) PROVE TimelineInv'
    <2>1. /\ RenderSelected(t, tickets, cache, flight, "none", FALSE) /\ UNCHANGED cache
          /\ tickets \in [Cases -> Statuses \cup {"none"}] /\ "none" \in Ops \cup {"none"} /\ FALSE \in BOOLEAN
      BY <1>3 DEF PickCase, TypeInv
    <2> QED BY <1>1, <2>1, DrawnTimeline
  <1>4. ASSUME NEW d \in {0, 1}, Follows(d), page'.case = page.case, UNCHANGED caseTimeline,
               \A i \in LoadsAt(flight') : i <= Len(flight) - d,
               d = 1 => flight[1].kind # "load",
               ~(RefreshEnds(1) /\ Goes(1) /\ flight[1].kind = "refresh")
        PROVE  TimelineInv'
    <2> SUFFICES ASSUME ~pastLoad' PROVE TimelineInv'
      BY DEF TimelineInv
    <2>0. ~pastLoad
      BY <1>4
    <2>1. /\ \A i \in LoadsAt(flight') : (\A j \in LoadsAt(flight') : j <= i) =>
               /\ i + d \in LoadsAt(flight) /\ \A j \in LoadsAt(flight) : j <= i + d
               /\ flight'[i].case = flight[i + d].case
          /\ LoadsAt(flight') = {} => LoadsAt(flight) \subseteq 1 .. d
      BY <1>4, LastLoad
    <2>2. \A i \in LoadsAt(flight') : (\A j \in LoadsAt(flight') : j <= i) => flight'[i].case = page'.case
      BY <1>4, <2>0, <2>1 DEF TimelineInv
    <2>3. ASSUME LoadsAt(flight') = {}
          PROVE  /\ timeline'.case = page'.case
                 /\ page'.case # None => Fresh(timeline.log, page.case)'
      <3>1. LoadsAt(flight) = {}
        BY <1>4, <2>1, <2>3 DEF LoadsAt
      <3>2. timeline.case = page.case /\ (page.case # None => Fresh(timeline.log, page.case))
        BY <2>0, <3>1 DEF TimelineInv
      <3>3. ASSUME page.case # None PROVE Fresh(timeline.log, page.case)'
        <4>1. PICK t \in Cases : t = page.case
          BY <1>1, <3>3
        <4>2. timeline.log = log'[t] \/ Awaited(t)' \/ t \in behind' \/ Refreshing(t)'
          BY <1>4, <3>2, <3>3, <4>1, FreshStep
        <4> QED BY <1>4, <4>1, <4>2 DEF Fresh, Known
      <3> QED BY <1>4, <3>2, <3>3
    <2> QED BY <2>2, <2>3 DEF TimelineInv, LoadsAt
  <1>5. ASSUME LoadEnds(1), Goes(1), flight[1].kind = "load" PROVE TimelineInv'
    <2> SUFFICES ASSUME ~pastLoad' PROVE TimelineInv'
      BY DEF TimelineInv
    <2>0. ~pastLoad
      BY <1>5 DEF LoadEnds
    <2> DEFINE r == flight[1]
    <2>1. 1 \in DOMAIN flight /\ 1 \in 1 .. Len(flight) /\ 1 \in {0, 1}
      BY <1>1, <1>5 DEF Goes
    <2>2. /\ r.case \in Cases /\ timeline' = [case |-> r.case, log |-> r.answer] /\ UNCHANGED page
          /\ flight' = Rest(1) \/ Sent(Rest(1), flight', 0, LoadRun(selected, tickets[selected], r.op))
          /\ Answered(r)
      BY <1>5, <2>1, LoadEndsShape DEF LoadEnds, Arrives
    <2>3. Len(Rest(1)) = Len(flight) - 1
      BY <2>1, RestFacts
    <2>4. ASSUME NEW i \in LoadsAt(flight') PROVE i <= Len(flight) - 1
      <3> DEFINE q == LoadRun(selected, tickets[selected], r.op)
      <3>1. q.kind # "load"
        BY DEF LoadRun
      <3> HIDE DEF q
      <3>2. CASE flight' = Rest(1)
        BY <1>1, <2>3, <3>2 DEF LoadsAt
      <3>3. CASE Sent(Rest(1), flight', 0, q)
        <4>1. Len(flight') = Len(Rest(1)) - 0 + 1 /\ flight'[Len(flight')] = q
          BY <3>3 DEF Sent
        <4>2. i # Len(flight') /\ i \in 1 .. Len(flight')
          BY <3>1, <4>1 DEF LoadsAt
        <4> QED BY <1>1, <2>3, <4>1, <4>2
      <3> QED BY <2>2, <3>2, <3>3 DEF q
    <2>5. /\ \A i \in LoadsAt(flight') : (\A j \in LoadsAt(flight') : j <= i) =>
               /\ i + 1 \in LoadsAt(flight) /\ \A j \in LoadsAt(flight) : j <= i + 1
               /\ flight'[i].case = flight[i + 1].case
          /\ LoadsAt(flight') = {} => LoadsAt(flight) \subseteq 1 .. 1
      BY <1>5, <2>1, <2>4, LastLoad DEF Follows
    <2>6. \A i \in LoadsAt(flight') : (\A j \in LoadsAt(flight') : j <= i) => flight'[i].case = page'.case
      BY <2>0, <2>2, <2>5 DEF TimelineInv
    <2>7. ASSUME LoadsAt(flight') = {}
          PROVE  /\ timeline'.case = page'.case
                 /\ page'.case # None => Fresh(timeline.log, page.case)'
      <3>1. 1 \in LoadsAt(flight) /\ \A j \in LoadsAt(flight) : j <= 1
        BY <1>5, <2>1, <2>5, <2>7 DEF LoadsAt
      <3>2. r.case = page.case
        BY <2>0, <3>1 DEF TimelineInv
      <3>3. PICK t \in Cases : t = r.case
        BY <2>2
      <3>4. Known(r.answer, t)
        BY <1>5, <2>1, <2>2, <3>3 DEF CacheInv
      <3>5. r.answer = log'[t] \/ Awaited(t)' \/ t \in behind' \/ Refreshing(t)'
        BY <3>4, KnownFresh
      <3>6. timeline'.case = r.case /\ timeline'.log = r.answer
        BY <2>2
      <3> QED BY <2>2, <3>2, <3>3, <3>5, <3>6 DEF Fresh, Known
    <2> QED BY <2>6, <2>7 DEF TimelineInv, LoadsAt
  <1>6. CASE RefreshEnds(1) /\ Goes(1) /\ flight[1].kind = "refresh"
    BY <1>2, <1>6
  <1>7. CASE ~(RefreshEnds(1) /\ Goes(1) /\ flight[1].kind = "refresh")
    <2>1. ASSUME NEW k \in 1 .. Len(flight), Serve(k) PROVE TimelineInv'
      <3>1. Follows(0) /\ 0 \in {0, 1} /\ 0 # 1
        BY <2>1 DEF Follows
      <3>2. UNCHANGED <<page, caseTimeline>>
        BY <2>1 DEF Serve, screen
      <3>3. PICK a : Answers(k, a)
        BY <1>1, <2>1, ServeShape
      <3>4. \A i \in LoadsAt(flight') : i <= Len(flight) - 0
        BY <1>1, <3>3 DEF Answers, LoadsAt
      <3> QED BY <1>4, <1>7, <3>1, <3>2, <3>4
    <2>2. ASSUME NEW t \in Cases, DrawsRun(t) PROVE TimelineInv'
      <3>1. Follows(0) /\ 0 \in {0, 1} /\ 0 # 1
        BY <2>2 DEF Follows, DrawsRun
      <3>2. UNCHANGED <<page, caseTimeline>> /\ RenderRuns(t, tickets, cache, flight, "none")
        BY <2>2 DEF DrawsRun
      <3> DEFINE q == LoadRun(t, tickets[t], "none")
      <3>3. q.kind # "load"
        BY DEF LoadRun
      <3>4. flight' = flight \/ Sent(flight, flight', 0, q)
        <4>1. /\ cache \in [Cases -> Nat] /\ tickets \in [Cases -> Statuses \cup {"none"}]
              /\ "none" \in Ops \cup {"none"}
          BY DEF TypeInv
        <4> QED BY <1>1, <3>2, <4>1, RunsShape
      <3> HIDE DEF q
      <3>5. ASSUME NEW i \in LoadsAt(flight') PROVE i <= Len(flight) - 0
        <4>1. CASE flight' = flight
          BY <1>1, <4>1 DEF LoadsAt
        <4>2. CASE Sent(flight, flight', 0, q)
          <5>1. Len(flight') = Len(flight) - 0 + 1 /\ flight'[Len(flight')] = q
            BY <4>2 DEF Sent
          <5>2. i # Len(flight') /\ i \in 1 .. Len(flight')
            BY <3>3, <5>1 DEF LoadsAt
          <5> QED BY <1>1, <5>1, <5>2
        <4> QED BY <3>4, <4>1, <4>2
      <3> QED BY <1>4, <1>7, <3>1, <3>2, <3>5
    <2>3. ASSUME NEW d \in {0, 1}, DrawsNone(d) PROVE TimelineInv'
      <3>1. Follows(d) /\ page'.case = page.case /\ UNCHANGED caseTimeline /\ (d = 1 => flight[1].kind # "load")
        BY <2>3 DEF Follows, DrawsNone
      <3>2. ASSUME NEW i \in LoadsAt(flight') PROVE i <= Len(flight) - d
        <4>1. i \in 1 .. Len(flight') /\ flight'[i].kind \notin {"post", "refresh"}
          BY DEF LoadsAt
        <4>2. ~(i > Len(flight) - d)
          BY <2>3, <4>1 DEF DrawsNone
        <4> QED BY <1>1, <4>1, <4>2
      <3> QED BY <1>4, <1>7, <3>1, <3>2
    <2>4. ASSUME RunEnds(1), Goes(1), flight[1].kind = "run" PROVE TimelineInv'
      <3>1. 1 \in DOMAIN flight /\ 1 \in {0, 1} /\ Follows(1)
        BY <1>1, <2>4 DEF Goes, Follows
      <3>2. UNCHANGED <<page, caseTimeline>> /\ flight' = Rest(1)
        BY <2>4 DEF RunEnds
      <3>3. Len(flight') = Len(flight) - 1
        BY <3>1, <3>2, RestFacts
      <3>4. \A i \in LoadsAt(flight') : i <= Len(flight) - 1
        BY <1>1, <3>3 DEF LoadsAt
      <3> QED BY <1>4, <1>7, <2>4, <3>1, <3>2, <3>4
    <2> QED BY <1>3, <1>5, <1>7, <2>1, <2>2, <2>3, <2>4, DrawSteps
  <1> QED BY <1>6, <1>7

\* While the run view is shown, the last request it waits for is for the selected run,
\* or draws it; without one, it is drawn, and fresh.
RunInv ==
    view = "runs" /\ ~pastRun =>
      /\ \A i \in PendingAt(flight) : (\A j \in PendingAt(flight) : j <= i) /\ flight[i].kind = "run" =>
           flight[i].case = selected /\ flight[i].status = tickets[selected]
      /\ PendingAt(flight) = {} =>
           run.case = selected /\ run.status = tickets[selected] /\ Fresh(run.log, selected)

\* A run view that asks for its events does so last.
LEMMA RunSent ==
    ASSUME TypeInv', Len(flight') \in PendingAt(flight'), NEW q, flight'[Len(flight')] = q,
           q.kind = "run" => q.case = selected' /\ q.status = tickets'[q.case]
    PROVE  RunInv'
  <1>1. Len(flight') \in Nat
    BY RequestsAt DEF TypeInv
  <1>2. ASSUME NEW i \in PendingAt(flight'), \A j \in PendingAt(flight') : j <= i, flight'[i].kind = "run"
        PROVE  flight'[i].case = selected' /\ flight'[i].status = tickets'[selected']
    <2>1. i = Len(flight')
      BY <1>1, <1>2 DEF PendingAt
    <2> QED BY <1>2, <2>1
  <1> QED BY <1>2 DEF RunInv, PendingAt, Pending

\* A run view that is drawn is drawn from the cache, unless a request is to bring
\* another's run, or asks for its events.
LEMMA DrawnRun ==
    ASSUME TypeInv, TypeInv', CacheInv',
           NEW sel \in Cases, NEW tks \in [Cases -> Statuses \cup {"none"}],
           NEW ch \in [Cases -> Nat], NEW f \in Seq(Requests),
           NEW op \in Ops \cup {"none"}, RenderRuns(sel, tks, ch, f, op),
           selected' = sel, tickets' = tks, cache' = ch
    PROVE  RunInv'
  <1> DEFINE q == LoadRun(sel, tks[sel], op)
  <1>1. q.kind = "run" /\ q.case = sel /\ q.status = tks[sel]
    BY DEF LoadRun
  <1>2. \/ /\ ch[sel] # 0 /\ run' = [case |-> sel, status |-> tks[sel], log |-> ch[sel]] /\ flight' = f
           /\ pastRun' = ~RunIsFor(f, sel, tks[sel])
        \/ /\ ch[sel] = 0 /\ UNCHANGED run
           /\ Sent(f, flight', 0, q)
           /\ flight' = Append(f, q)
    BY RunsShape
  <1> HIDE DEF q
  <1>3. Len(f) \in Nat /\ DOMAIN f = 1 .. Len(f)
    BY RequestsAt
  <1>4. CASE /\ ch[sel] # 0 /\ run' = [case |-> sel, status |-> tks[sel], log |-> ch[sel]] /\ flight' = f
             /\ pastRun' = ~RunIsFor(f, sel, tks[sel])
    <2> SUFFICES ASSUME ~pastRun' PROVE RunInv'
      BY DEF RunInv
    <2>1. RunIsFor(f, sel, tks[sel])
      BY <1>4
    <2>2. ASSUME NEW i \in PendingAt(f), \A j \in PendingAt(f) : j <= i, f[i].kind = "run"
          PROVE  f[i].case = sel /\ f[i].status = tks[sel]
      <3>1. \A j \in DOMAIN f : j > i => f[j].kind # "run"
        BY <1>3, <2>2 DEF PendingAt, Pending
      <3>2. i \in DOMAIN f
        BY <1>3 DEF PendingAt
      <3> QED BY <2>1, <2>2, <3>1, <3>2 DEF RunIsFor
    <2>3. Known(cache[sel], sel)'
      BY <1>4 DEF CacheInv
    <2>4. run'.case = sel /\ run'.status = tks[sel] /\ run'.log = cache'[sel]
      BY <1>4
    <2>5. run'.log = log'[sel] \/ Awaited(sel)' \/ sel \in behind'
      BY <2>3, <2>4 DEF Known
    <2>6. Fresh(run.log, selected)'
      BY <2>5 DEF Fresh, Known, Awaited
    <2> QED BY <1>4, <2>2, <2>4, <2>6 DEF RunInv, PendingAt, Pending
  <1>5. CASE Sent(f, flight', 0, q)
    <2>1. Len(flight') = Len(f) - 0 + 1 /\ flight'[Len(flight')] = q
      BY <1>5 DEF Sent
    <2>2. Len(flight') \in PendingAt(flight')
      BY <1>1, <1>3, <2>1 DEF PendingAt, Pending
    <2> QED BY <1>1, <2>1, <2>2, RunSent
  <1> QED BY <1>2, <1>4, <1>5

\* A run view that is drawn shows its events or asks for them at once.
LEMMA RunStep ==
    ASSUME TypeInv, TypeInv', CacheInv, CacheInv', RunInv, Orderly', [Next]_vars
    PROVE  RunInv'
  <1>1. /\ flight \in Seq(Requests) /\ DOMAIN flight = 1 .. Len(flight) /\ Len(flight) \in Nat
        /\ Len(flight') \in Nat
    <2>1. flight \in Seq(Requests) /\ flight' \in Seq(Requests)
      BY DEF TypeInv
    <2> QED BY <2>1, RequestsAt
  <1>3. ASSUME RefreshEnds(1), Goes(1), flight[1].kind = "refresh" PROVE RunInv'
    <2> DEFINE sel == IF flight[1].case # None THEN flight[1].case ELSE First
               tks == flight[1].answer
               op  == flight[1].op
               r   == Load(sel, op, TRUE)
    <2>1. 1 \in DOMAIN flight
      BY <1>1, <1>3 DEF Goes
    <2>2. /\ flight[1] \in Refreshes /\ tks \in [Cases -> Statuses] /\ sel \in Cases
          /\ tickets' = tks /\ selected' = sel
          /\ Rest(1) \in Seq(Requests)
          /\ RenderSelected(sel, tks, cache, Rest(1), op, TRUE)
          /\ cache[sel] = 0 => /\ Sent(Rest(1), flight', 0, r)
                              /\ UNCHANGED <<timeline, run>>
          /\ UNCHANGED <<view, cache>>
      BY <1>3, <2>1, RefreshEndsShape
    <2>3. op \in Ops \cup {"none"}
      BY <2>2 DEF Refreshes
    <2>4. r.kind = "load" /\ r.chained
      BY DEF Load
    <2> HIDE DEF sel, r, tks, op
    <2>5. CASE cache[sel] = 0
      <3>1. Len(flight') = Len(Rest(1)) - 0 + 1 /\ flight'[Len(flight')] = r /\ Len(Rest(1)) \in Nat
        BY <2>2, <2>5, RequestsAt DEF Sent
      <3>2. Len(flight') \in PendingAt(flight')
        BY <2>4, <3>1 DEF PendingAt, Pending
      <3>3. r.kind # "run"
        BY <2>4
      <3> QED BY <3>1, <3>2, <3>3, RunSent
    <2>6. CASE cache[sel] # 0 /\ view = "runs"
      <3> DEFINE f == Redrawn(Rest(1))
      <3>1. RenderRuns(sel, tks, cache, f, op)
        BY <2>2, <2>6 DEF RenderSelected
      <3>2. f \in Seq(Requests)
        BY <2>2, RedrawnFacts DEF Since
      <3> HIDE DEF f
      <3>3. tks \in [Cases -> Statuses \cup {"none"}] /\ cache \in [Cases -> Nat] /\ cache' = cache
        BY <2>2 DEF TypeInv
      <3> QED BY <2>2, <2>3, <3>1, <3>2, <3>3, DrawnRun
    <2>7. CASE view # "runs"
      BY <2>2, <2>7 DEF RunInv
    <2> QED BY <2>5, <2>6, <2>7
  <1>4. ASSUME NEW d \in {0, 1}, Follows(d), UNCHANGED <<tickets, selected, runView>>, view' \in {view, "cases"},
               \A i \in PendingAt(flight') : i <= Len(flight) - d,
               d = 1 => ~Pending(flight[1]),
               ~(RefreshEnds(1) /\ Goes(1) /\ flight[1].kind = "refresh")
        PROVE  RunInv'
    <2> SUFFICES ASSUME view' = "runs", ~pastRun' PROVE RunInv'
      BY DEF RunInv
    <2>0. view = "runs" /\ ~pastRun /\ selected \in Cases
      BY <1>4 DEF TypeInv
    <2>1. /\ \A i \in PendingAt(flight') : (\A j \in PendingAt(flight') : j <= i) =>
               /\ i + d \in PendingAt(flight) /\ \A j \in PendingAt(flight) : j <= i + d
               /\ SameRequest(flight[i + d], flight'[i])
          /\ PendingAt(flight') = {} => PendingAt(flight) \subseteq 1 .. d
      BY <1>4, LastPending
    <2>2. \A i \in PendingAt(flight') : (\A j \in PendingAt(flight') : j <= i) /\ flight'[i].kind = "run" =>
            flight'[i].case = selected' /\ flight'[i].status = tickets'[selected']
      BY <1>4, <2>0, <2>1 DEF RunInv, SameRequest
    <2>3. ASSUME PendingAt(flight') = {}
          PROVE  /\ run'.case = selected' /\ run'.status = tickets'[selected']
                 /\ Fresh(run.log, selected)'
      <3>1. PendingAt(flight) = {}
        BY <1>4, <2>1, <2>3 DEF PendingAt
      <3>2. run.case = selected /\ run.status = tickets[selected] /\ Fresh(run.log, selected)
        BY <2>0, <3>1 DEF RunInv
      <3>3. run.log = log'[selected] \/ Awaited(selected)' \/ selected \in behind' \/ Refreshing(selected)'
        <4>1. PICK t \in Cases : t = selected
          BY <2>0
        <4>2. run.log = log'[t] \/ Awaited(t)' \/ t \in behind' \/ Refreshing(t)'
          BY <1>4, <3>2, <4>1, FreshStep
        <4> QED BY <1>4, <4>1, <4>2 DEF Awaited, Refreshing
      <3> QED BY <1>4, <3>2, <3>3 DEF Fresh, Known
    <2> QED BY <2>2, <2>3 DEF RunInv, PendingAt, Pending
  <1>5. ASSUME PendingAt(flight') = {}, run'.case = selected', run'.status = tickets'[selected'],
               NEW t \in Cases, selected' = t, run'.log = log'[t] \/ Awaited(t)' \/ t \in behind' \/ Refreshing(t)'
        PROVE  RunInv'
    <2>1. Fresh(run.log, selected)'
      BY <1>5 DEF Fresh, Known, Awaited, Refreshing
    <2> QED BY <1>5, <2>1 DEF RunInv, PendingAt, Pending
  <1>6. ASSUME NEW t \in Cases, DrawsRun(t) PROVE RunInv'
    <2>1. /\ cache \in [Cases -> Nat] /\ tickets \in [Cases -> Statuses \cup {"none"}]
          /\ "none" \in Ops \cup {"none"} /\ RenderRuns(t, tickets, cache, flight, "none")
          /\ selected' = t /\ tickets' = tickets /\ cache' = cache
      BY <1>6 DEF TypeInv, DrawsRun
    <2> QED BY <1>1, <2>1, DrawnRun
  <1>7. ASSUME RunEnds(1), Goes(1), flight[1].kind = "run" PROVE RunInv'
    <2> SUFFICES ASSUME view' = "runs", ~pastRun' PROVE RunInv'
      BY DEF RunInv
    <2>0. view = "runs" /\ ~pastRun
      BY <1>7 DEF RunEnds
    <2> DEFINE r == flight[1]
    <2>1. 1 \in DOMAIN flight /\ 1 \in 1 .. Len(flight) /\ 1 \in {0, 1} /\ Follows(1)
      BY <1>1, <1>7 DEF Goes, Follows
    <2>2. /\ r.case \in Cases /\ flight' = Rest(1) /\ UNCHANGED <<tickets, selected, view>> /\ Answered(r)
          /\ run' = [case |-> r.case, status |-> r.status, log |-> r.answer]
      BY <1>7, <2>1, RunEndsShape DEF RunEnds, Arrives
    <2>3. Len(flight') = Len(flight) - 1
      BY <2>1, <2>2, RestFacts
    <2>4. \A i \in PendingAt(flight') : i <= Len(flight) - 1
      BY <1>1, <2>3 DEF PendingAt
    <2>5. /\ \A i \in PendingAt(flight') : (\A j \in PendingAt(flight') : j <= i) =>
               /\ i + 1 \in PendingAt(flight) /\ \A j \in PendingAt(flight) : j <= i + 1
               /\ SameRequest(flight[i + 1], flight'[i])
          /\ PendingAt(flight') = {} => PendingAt(flight) \subseteq 1 .. 1
      BY <2>1, <2>4, LastPending
    <2>6. \A i \in PendingAt(flight') : (\A j \in PendingAt(flight') : j <= i) /\ flight'[i].kind = "run" =>
            flight'[i].case = selected' /\ flight'[i].status = tickets'[selected']
      BY <2>0, <2>2, <2>5 DEF RunInv, SameRequest
    <2>7. CASE PendingAt(flight') = {}
      <3>1. 1 \in PendingAt(flight) /\ \A j \in PendingAt(flight) : j <= 1
        BY <1>7, <2>1, <2>5, <2>7 DEF PendingAt, Pending
      <3>2. r.case = selected /\ r.status = tickets[selected]
        BY <1>7, <2>0, <2>2, <3>1 DEF RunInv
      <3>3. PICK t \in Cases : t = r.case
        BY <2>2
      <3>4. Known(r.answer, t)
        BY <1>7, <2>1, <2>2, <3>3 DEF CacheInv
      <3>5. r.answer = log'[t] \/ Awaited(t)' \/ t \in behind' \/ Refreshing(t)'
        BY <3>4, KnownFresh
      <3>6. run'.case = r.case /\ run'.status = r.status /\ run'.log = r.answer
        BY <2>2
      <3> QED BY <1>5, <2>2, <2>7, <3>2, <3>3, <3>5, <3>6
    <2>8. CASE PendingAt(flight') # {}
      BY <2>6, <2>8 DEF RunInv, PendingAt, Pending
    <2> QED BY <2>7, <2>8
  <1>8. ASSUME LoadEnds(1), Goes(1), flight[1].kind = "load", flight[1].chained, view = "runs" PROVE RunInv'
    <2> DEFINE op == flight[1].op
               ch == cache'
    <2>1. 1 \in DOMAIN flight
      BY <1>1, <1>8 DEF Goes
    <2>2. flight[1] \in Loads /\ Rest(1) \in Seq(Requests) /\ ch \in [Cases -> Nat]
      BY <1>8, <2>1, LoadEndsShape
    <2>3. RenderRuns(selected, tickets, ch, Rest(1), op) /\ UNCHANGED <<tickets, selected>>
      BY <1>8 DEF LoadEnds
    <2>4. op \in Ops \cup {"none"}
      BY <2>2 DEF Loads
    <2>5. cache' = ch
      OBVIOUS
    <2> HIDE DEF op, ch
    <2>6. selected \in Cases /\ tickets \in [Cases -> Statuses \cup {"none"}]
      BY <1>8 DEF TypeInv
    <2> QED BY <2>2, <2>3, <2>4, <2>5, <2>6, DrawnRun
  <1>9. CASE RefreshEnds(1) /\ Goes(1) /\ flight[1].kind = "refresh"
    BY <1>3, <1>9
  <1>10. CASE ~(RefreshEnds(1) /\ Goes(1) /\ flight[1].kind = "refresh")
    <2>1. ASSUME NEW k \in 1 .. Len(flight), Serve(k) PROVE RunInv'
      <3>1. Follows(0) /\ 0 \in {0, 1} /\ 0 # 1
        BY <2>1 DEF Follows
      <3>2. UNCHANGED <<tickets, selected, runView, view>>
        BY <2>1 DEF Serve, screen
      <3>3. PICK a : Answers(k, a)
        BY <1>1, <2>1, ServeShape
      <3>4. \A i \in PendingAt(flight') : i <= Len(flight) - 0
        BY <1>1, <3>3 DEF Answers, PendingAt
      <3> QED BY <1>4, <1>10, <3>1, <3>2, <3>4
    <2>2. ASSUME NEW d \in {0, 1}, DrawsNone(d) PROVE RunInv'
      <3>1. /\ Follows(d) /\ UNCHANGED <<tickets, selected, runView>> /\ view' \in {view, "cases"}
            /\ (d = 1 => ~Pending(flight[1]))
        BY <2>2 DEF Follows, DrawsNone, Pending
      <3>2. ASSUME NEW i \in PendingAt(flight') PROVE i <= Len(flight) - d
        <4>1. i \in 1 .. Len(flight') /\ flight'[i].kind \notin {"post", "refresh"}
          BY DEF PendingAt, Pending
        <4>2. ~(i > Len(flight) - d)
          BY <2>2, <4>1 DEF DrawsNone
        <4> QED BY <1>1, <4>1, <4>2
      <3> QED BY <1>4, <1>10, <3>1, <3>2
    <2>3. ASSUME NEW t \in Cases, PickCase(t) PROVE RunInv'
      BY <2>3 DEF PickCase, RunInv
    <2>4. ASSUME LoadEnds(1), Goes(1), flight[1].kind = "load", ~(flight[1].chained /\ view = "runs") PROVE RunInv'
      <3>1. UNCHANGED <<tickets, selected, runView, view>> /\ flight' = Rest(1)
        BY <2>4 DEF LoadEnds
      <3>2. CASE view = "runs"
        <4>1. 1 \in DOMAIN flight /\ 1 \in {0, 1} /\ Follows(1)
          BY <1>1, <2>4 DEF Goes, Follows
        <4>2. Len(flight') = Len(flight) - 1
          BY <3>1, <4>1, RestFacts
        <4>3. \A i \in PendingAt(flight') : i <= Len(flight) - 1
          BY <1>1, <4>2 DEF PendingAt
        <4>4. ~Pending(flight[1])
          BY <2>4, <3>2 DEF Pending
        <4> QED BY <1>4, <1>10, <3>1, <4>1, <4>3, <4>4
      <3>3. CASE view # "runs"
        BY <3>1, <3>3 DEF RunInv
      <3> QED BY <3>2, <3>3
    <2> QED BY <1>6, <1>7, <1>8, <1>10, <2>1, <2>2, <2>3, <2>4, DrawSteps
  <1> QED BY <1>9, <1>10

-----------------------------------------------------------------------------
(* When every answer is in.                                                *)

ConsoleInv == /\ ~lost => CacheInv
              /\ Orderly => TicketsInv /\ TimelineInv /\ RunInv

\* All of it holds when the first list of cases is under way.
LEMMA ConsoleInit == Init => ConsoleInv
  <1> SUFFICES ASSUME Init PROVE ConsoleInv
    OBVIOUS
  <1> DEFINE r == [kind |-> "refresh", case |-> None, op |-> "none", held |-> FALSE, answer |-> None]
  <1>1. r.kind = "refresh" /\ r.answer = None /\ ~Answered(r) /\ Target(r) = First
    BY DEF Answered, Target
  <1>2. flight = <<r>>
    BY DEF Init
  <1> HIDE DEF r
  <1>3. 1 .. Len(flight) = {1} /\ flight[1] = r
    BY <1>2
  <1>5. CacheInv
    BY <1>1, <1>3, CasesAssumption DEF CacheInv, Init
  <1>6. TicketsInv
    <2>1. 1 > 0
      OBVIOUS
    <2>2. Coming(0)
      BY <1>1, <1>3, <2>1 DEF Coming
    <2> QED BY <1>1, <1>3, <2>2 DEF TicketsInv
  <1>7. TimelineInv
    <2>1. LoadsAt(flight) = {}
      BY <1>1, <1>3 DEF LoadsAt
    <2>2. timeline.case = None /\ page.case = None
      BY DEF Init, Blank
    <2> QED BY <2>1, <2>2 DEF TimelineInv
  <1>8. RunInv
    BY DEF Init, RunInv
  <1> QED BY <1>5, <1>6, <1>7, <1>8 DEF ConsoleInv

\* A request that was lost stays so.
LEMMA LostStays == [Next]_vars /\ lost => lost'
  BY DEF Next, Operator, Network, PickCase, PickRun, SetView, PerformAction, OpenDialog, Cancel,
         RejectSelected, Serve, PostEnds, RefreshEnds, LoadEnds, RunEnds, Lose, vars, faults

\* The cache is kept right as long as nothing is lost, and all of it as long as nothing
\* is overtaken either; both are for good.
LEMMA ConsoleStep == TypeInv /\ TypeInv' /\ ConsoleInv /\ [Next]_vars => ConsoleInv'
  <1> SUFFICES ASSUME TypeInv, TypeInv', ConsoleInv, [Next]_vars PROVE ConsoleInv'
    OBVIOUS
  <1>1. ASSUME ~lost' PROVE CacheInv /\ CacheInv'
    <2>1. ~lost
      BY <1>1, LostStays
    <2>2. CacheInv
      BY <2>1 DEF ConsoleInv
    <2> QED BY <1>1, <2>2, CacheStep
  <1>2. ASSUME Orderly' PROVE (TicketsInv /\ TimelineInv /\ RunInv)'
    <2>1. TicketsInv /\ TimelineInv /\ RunInv /\ CacheInv /\ CacheInv'
      BY <1>1, <1>2, OrderlySteps DEF ConsoleInv, Orderly
    <2>2. TicketsInv'
      BY <1>2, <2>1, TicketsStep
    <2>3. TimelineInv'
      BY <1>2, <2>1, TimelineStep
    <2>4. RunInv'
      BY <1>2, <2>1, RunStep
    <2> QED BY <2>2, <2>3, <2>4
  <1> QED BY <1>1, <1>2 DEF ConsoleInv

\* All of it holds in every reachable state.
LEMMA ConsoleInvariant == Spec => [](TypeInv /\ PageInv /\ ConsoleInv)
  <1>1. Init => TypeInv /\ PageInv /\ ConsoleInv
    BY TypeInit, PageInit, ConsoleInit
  <1>2. TypeInv /\ PageInv /\ ConsoleInv /\ [Next]_vars => (TypeInv /\ PageInv /\ ConsoleInv)'
    BY TypeStep, PageStep, ConsoleStep
  <1> QED BY <1>1, <1>2, PTL DEF Spec

\* Nothing is awaited, and nothing will come.
LEMMA QuietFacts ==
    ASSUME TypeInv, PageInv, ConsoleInv, Quiet
    PROVE  /\ CacheInv /\ TimelineInv /\ RunInv /\ tickets = status
           /\ LoadsAt(flight) = {} /\ PendingAt(flight) = {}
           /\ \A t : ~Awaited(t) /\ ~Refreshing(t)
           /\ page.case \in Cases /\ selected # None
           /\ page.on = Buttons(page.status) /\ page.status = status[page.case]
  <1>1. CacheInv /\ TicketsInv /\ TimelineInv /\ RunInv
    BY DEF ConsoleInv, Quiet, Orderly
  <1>2. 1 .. Len(flight) = {}
    BY DEF Quiet
  <1>3. tickets = status
    BY <1>1, <1>2 DEF TicketsInv, Coming
  <1>4. page.case # None
    <2>1. tickets[First] \in Statuses
      BY <1>3, CasesAssumption DEF TypeInv
    <2>2. tickets # [t \in Cases |-> "none"]
      BY <2>1, CasesAssumption DEF Statuses
    <2> QED BY <2>2 DEF PageInv
  <1>5. page.case \in Cases /\ selected # None /\ page.status = status[page.case]
    BY <1>3, <1>4 DEF PageInv, TypeInv, Drawn
  <1>6. page.on = Buttons(page.status)
    BY <1>2 DEF PageInv, TypeInv
  <1> QED BY <1>1, <1>2, <1>3, <1>5, <1>6 DEF LoadsAt, PendingAt, Awaited, Refreshing

\* In whatever order the answers come, the cache keeps no list of events from before a
\* decision that ended, but of cases whose load was answered before the decision and
\* still under way when its answer came (app.js:344-349, 529, 551).  Nothing is lost.
THEOREM CacheTheorem == Spec => []QuietCacheIsFresh
  <1>1. TypeInv /\ PageInv /\ ConsoleInv => QuietCacheIsFresh
    <2> SUFFICES ASSUME TypeInv, PageInv, ConsoleInv, flight = <<>>, ~lost, NEW t \in Cases \ behind
                 PROVE  cache[t] \in {0, log[t]}
      BY DEF QuietCacheIsFresh
    <2>1. CacheInv
      BY DEF ConsoleInv
    <2>2. 1 .. Len(flight) = {}
      OBVIOUS
    <2> QED BY <2>1, <2>2 DEF CacheInv, Known, Awaited
  <1> QED BY <1>1, ConsoleInvariant, PTL

\* The page shows the status the server has, and offers the decisions it takes, however
\* decisions and refreshes overlapped (app.js:506-514, 517-556), once every answer came
\* in the order of the requests.
THEOREM PageTheorem == Spec => []QuietPageIsCurrent
  <1>1. TypeInv /\ PageInv /\ ConsoleInv => QuietPageIsCurrent
    <2> SUFFICES ASSUME TypeInv, PageInv, ConsoleInv, Quiet
                 PROVE  /\ tickets = status
                        /\ page.status = status[page.case] /\ page.on = Buttons(page.status)
      BY DEF QuietPageIsCurrent
    <2> QED BY QuietFacts
  <1> QED BY <1>1, ConsoleInvariant, PTL

\* The timeline is that of the case on the page, and complete (app.js:431-433), once
\* every answer came in the order of the requests; but a draw from the cache that passed
\* another case's load, and a case that is behind, are excepted.
THEOREM TimelineTheorem == Spec => []QuietTimelineIsPage
  <1>1. TypeInv /\ PageInv /\ ConsoleInv => QuietTimelineIsPage
    <2> SUFFICES ASSUME TypeInv, PageInv, ConsoleInv, Quiet, ~pastLoad, page.case \notin behind
                 PROVE  timeline = [case |-> page.case, log |-> log[page.case]]
      BY DEF QuietTimelineIsPage
    <2>1. /\ TimelineInv /\ LoadsAt(flight) = {} /\ page.case \in Cases
          /\ \A t : ~Awaited(t) /\ ~Refreshing(t)
      BY QuietFacts
    <2>2. page.case # None
      BY <2>1, CasesAssumption
    <2>3. timeline.case = page.case /\ timeline.log = log[page.case]
      BY <2>1, <2>2 DEF TimelineInv, Fresh, Known
    <2> QED BY <2>3 DEF TypeInv, Views
  <1> QED BY <1>1, ConsoleInvariant, PTL

\* The run view shows the selected case, as the server has it (app.js:470-503), with the
\* same exceptions: no draw from the cache passed another run's load, and the selected
\* case is not behind.
THEOREM RunTheorem == Spec => []QuietRunIsSelected
  <1>1. TypeInv /\ PageInv /\ ConsoleInv => QuietRunIsSelected
    <2> SUFFICES ASSUME TypeInv, PageInv, ConsoleInv, Quiet, view = "runs", ~pastRun,
                        selected \notin behind
                 PROVE  run = [case |-> selected, status |-> status[selected], log |-> log[selected]]
      BY DEF QuietRunIsSelected
    <2>1. /\ RunInv /\ PendingAt(flight) = {} /\ tickets = status
          /\ \A t : ~Awaited(t) /\ ~Refreshing(t)
      BY QuietFacts
    <2>2. run.case = selected /\ run.status = status[selected] /\ run.log = log[selected]
      BY <2>1 DEF RunInv, Fresh, Known
    <2> QED BY <2>2 DEF TypeInv
  <1> QED BY <1>1, ConsoleInvariant, PTL
=============================================================================
