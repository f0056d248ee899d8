------------------------- MODULE EffectGatewayFinality -------------------------
(***************************************************************************)
(* Theorems about the record of a delivery, for any keys and workers and   *)
(* any number of crashes, when at most one operator replays: a success is  *)
(* final, a caller that was told success can rely on it, every attempt     *)
(* leaves exactly one receipt, and the gateway implements EffectContract.  *)
(* Then come accounts of what is called and what is recorded, for the      *)
(* proofs about the callers of the gateway, and what holds as long as one  *)
(* request is handled at a time.                                           *)
(***************************************************************************)
EXTENDS EffectGatewayProofs, EffectRefinement

\* Two operators can undo a delivery: the UPDATE of replay does not repeat its test
\* (effects.py:224).
SingleOperator == \A o, p \in Operators : o = p

Settling == {"interrupt", "write"}

\* A worker about to settle an attempt either comes too late, because the attempt has
\* its receipt, or the row still is what it read.
Owns(w) ==
    \/ Receipted(receipts[key[w]], seen[w])
    \/ row[key[w]] = seen[w] /\ seen[w].state = "running"

OwnsInv   == \A w \in Workers : pc[w] \in Settling => Owns(w)
ReplayInv == \A k \in Keys : replaying[k] # {} => row[k].state = "dead_letter"
FinalInv  == OwnsInv /\ ReplayInv

\* SuccessIsFinal, of one step.
Finality == \A k \in Keys : row[k].state \in SuccessStates => row'[k] = row[k]

-----------------------------------------------------------------------------
\* A step that touches neither the row a worker owns nor its locals leaves it the owner;
\* so does one that settles the attempt for it.
LEMMA OwnsKept ==
    ASSUME OwnsInv, NEW w \in Workers, pc[w] \in Settling,
           key'[w] = key[w], seen'[w] = seen[w],
           receipts[key[w]] \subseteq receipts'[key[w]],
           \/ row[key[w]].state # "running"
           \/ row'[key[w]] = row[key[w]]
           \/ Receipted(receipts'[key[w]], row[key[w]])
    PROVE  Owns(w)'
  <1>1. Owns(w)
    BY DEF OwnsInv
  <1>2. CASE Receipted(receipts[key[w]], seen[w])
    BY <1>2 DEF Receipted, Owns
  <1>3. CASE row[key[w]] = seen[w] /\ seen[w].state = "running"
    BY <1>3 DEF Receipted, Owns
  <1> QED BY <1>1, <1>2, <1>3 DEF Owns

\* Only the owner's transaction goes through, and it goes through once.
LEMMA SettleOwned ==
    ASSUME TypeInv, FinalInv, NEW w \in Workers, pc[w] \in Settling, NEW c, Settle(w, c)
    PROVE  /\ key[w] \in Keys
           /\ row[key[w]] = seen[w] /\ row[key[w]].state = "running"
           /\ ~Receipted(receipts[key[w]], seen[w])
           /\ row' = [row EXCEPT ![key[w]].state = SettledState(seen[w], c)]
           /\ receipts' = [receipts EXCEPT ![key[w]] = @ \cup {ReceiptOf(seen[w], c)}]
           /\ Receipted(receipts'[key[w]], seen[w])
           /\ \A k \in Keys : receipts[k] \subseteq receipts'[k]
           /\ \A k \in Keys \ {key[w]} : row'[k] = row[k] /\ receipts'[k] = receipts[k]
  <1>1. key[w] \in Keys /\ Owns(w)
    BY DEF TypeInv, WorkersOK, FinalInv, OwnsInv, Settling
  <1>2. ~Receipted(receipts[key[w]], seen[w])
    BY DEF Settle
  <1>3. receipts' = [receipts EXCEPT ![key[w]] = @ \cup {ReceiptOf(seen[w], c)}]
    BY DEF Settle
  <1>4. ReceiptOf(seen[w], c) \in receipts'[key[w]]
    BY <1>1, <1>3 DEF TypeInv, TypeOK
  <1>5. Receipted(receipts'[key[w]], seen[w])
    BY <1>4 DEF Receipted, ReceiptOf
  <1> QED BY <1>1, <1>2, <1>3, <1>5 DEF Settle, Owns, TypeInv, TypeOK

\* Nobody is about to write when the gateway starts.
LEMMA InitFinal == Init => FinalInv
  BY DEF Init, FinalInv, OwnsInv, ReplayInv, Settling

\* Execute and the steps that only read the delivery database.
LEMMA ReadFinal ==
    ASSUME TypeInv, FinalInv, NEW w \in Workers,
           \/ \E k \in Keys : Execute(w, k)
           \/ RecoverRead(w) \/ Recovered(w) \/ RecordRead(w) \/ ReadBack(w)
           \/ \E c \in EffectClasses : Fire(w, c)
    PROVE  FinalInv' /\ Finality
  <1>1. /\ receipts' = receipts /\ replaying' = replaying
        /\ \A k \in Keys : row[k].state # "absent" => row'[k] = row[k]
    BY DEF Execute, RecoverRead, Recovered, RecordRead, ReadBack, Fire, durable, Registered,
           TypeInv, TypeOK
  <1>2. \A v \in Workers \ {w} : pc'[v] = pc[v] /\ key'[v] = key[v] /\ seen'[v] = seen[v]
    BY DEF Execute, RecoverRead, Recovered, RecordRead, ReadBack, Fire, Continue, Return, Raise,
           Goto, TypeInv, TypeOK
  <1>3. pc'[w] \in Settling => Owns(w)'
    <2>1. pc'[w] \in Settling =>
            /\ key[w] \in Keys /\ key'[w] = key[w] /\ row' = row
            /\ seen'[w] = row[key[w]] /\ row[key[w]].state = "running"
      BY DEF Execute, RecoverRead, Recovered, RecordRead, ReadBack, Fire, Continue, Return,
             Raise, Goto, Settling, TypeInv, TypeOK, WorkersOK, durable
    <2> QED BY <2>1 DEF Owns
  <1>4. ASSUME NEW v \in Workers \ {w}, pc'[v] \in Settling
        PROVE  Owns(v)'
    <2>1. pc[v] \in Settling /\ key[v] \in Keys /\ row[key[v]].state # "absent"
      BY <1>2, <1>4 DEF TypeInv, WorkersOK, Settling
    <2> QED BY <1>1, <1>2, <2>1, OwnsKept DEF FinalInv
  <1>5. ReplayInv'
    BY <1>1 DEF FinalInv, ReplayInv
  <1>6. Finality
    BY <1>1 DEF Finality, SuccessStates
  <1> QED BY <1>3, <1>4, <1>5, <1>6 DEF FinalInv, OwnsInv

\* An attempt starts only on a row that is not running, which nobody owns.
LEMMA StartFinal ==
    ASSUME TypeInv, FinalInv, NEW w \in Workers, Start(w)
    PROVE  FinalInv' /\ Finality
  <1>1. /\ receipts' = receipts /\ replaying' = replaying /\ key[w] \in Keys
        /\ \A k \in Keys : row'[k] = row[k] \/ row[k].state \in StartableStates
    BY DEF Start, MayStart, TypeInv, TypeOK, WorkersOK
  <1>2. /\ pc'[w] \notin Settling
        /\ \A v \in Workers \ {w} : pc'[v] = pc[v] /\ key'[v] = key[v] /\ seen'[v] = seen[v]
    BY DEF Start, Goto, Settling, TypeInv, TypeOK
  <1>3. ASSUME NEW v \in Workers, pc'[v] \in Settling
        PROVE  Owns(v)'
    <2>1. v # w /\ pc[v] \in Settling /\ key[v] \in Keys
      BY <1>2, <1>3 DEF TypeInv, WorkersOK, Settling
    <2> QED BY <1>1, <1>2, <2>1, OwnsKept DEF FinalInv, StartableStates
  <1>4. ReplayInv' /\ Finality
    BY <1>1 DEF FinalInv, ReplayInv, Finality, StartableStates, SuccessStates
  <1> QED BY <1>3, <1>4 DEF FinalInv, OwnsInv

\* An owner's settlement leaves the receipt that refuses every other.
LEMMA WriteFinal ==
    ASSUME TypeInv, FinalInv, NEW w \in Workers, Interrupt(w) \/ RecordWrite(w)
    PROVE  FinalInv' /\ Finality
  <1>1. /\ replaying' = replaying /\ key' = key /\ seen' = seen
        /\ pc[w] \in Settling /\ pc'[w] \notin Settling
        /\ \A v \in Workers \ {w} : pc'[v] = pc[v]
    BY DEF Interrupt, RecordWrite, Goto, Raise, Return, Settling, TypeInv, TypeOK
  <1>2. CASE UNCHANGED durable
    <2>1. \A v \in Workers : pc'[v] \in Settling => Owns(v)'
      BY <1>1, <1>2 DEF FinalInv, OwnsInv, Owns, durable
    <2> QED BY <1>1, <1>2, <2>1 DEF FinalInv, OwnsInv, ReplayInv, Finality, durable
  <1>3. ASSUME NEW c, Settle(w, c)
        PROVE  FinalInv' /\ Finality
    <2>1. /\ key[w] \in Keys
          /\ row[key[w]] = seen[w] /\ row[key[w]].state = "running"
          /\ Receipted(receipts'[key[w]], seen[w])
          /\ \A k \in Keys : receipts[k] \subseteq receipts'[k]
          /\ \A k \in Keys \ {key[w]} : row'[k] = row[k]
      BY <1>1, <1>3, SettleOwned
    <2>2. ASSUME NEW v \in Workers, pc'[v] \in Settling
          PROVE  Owns(v)'
      <3>1. pc[v] \in Settling /\ key[v] \in Keys /\ key'[v] = key[v] /\ seen'[v] = seen[v]
        BY <1>1, <2>2 DEF TypeInv, WorkersOK, Settling
      <3>2. row'[key[v]] = row[key[v]] \/ Receipted(receipts'[key[v]], row[key[v]])
        BY <2>1, <3>1
      <3> QED BY <2>1, <3>1, <3>2, OwnsKept DEF FinalInv
    <2>3. ReplayInv' /\ Finality
      BY <1>1, <2>1 DEF FinalInv, ReplayInv, Finality, SuccessStates
    <2> QED BY <2>2, <2>3 DEF FinalInv, OwnsInv
  <1> QED BY <1>2, <1>3 DEF Interrupt, RecordWrite, SettleRefused

\* A replay finds the dead letter it tested for, since nobody else replays.
LEMMA ReplayFinal ==
    ASSUME SingleOperator, TypeInv, FinalInv, NEW o \in Operators, NEW k \in Keys,
           ReplayCheck(o, k) \/ ReplayWrite(o, k)
    PROVE  FinalInv' /\ Finality
  <1>1. /\ receipts' = receipts /\ UNCHANGED locals
        /\ \A j \in Keys \ {k} : row'[j] = row[j] /\ replaying'[j] = replaying[j]
        /\ row[k].state = "dead_letter"
        /\ row'[k] = row[k] \/ replaying'[k] = {}
    BY DEF SingleOperator, ReplayCheck, ReplayWrite, durable, FinalInv, ReplayInv, TypeInv, TypeOK
  <1>2. ASSUME NEW v \in Workers, pc'[v] \in Settling
        PROVE  Owns(v)'
    <2>1. pc[v] \in Settling /\ key[v] \in Keys /\ key'[v] = key[v] /\ seen'[v] = seen[v]
      BY <1>1, <1>2 DEF TypeInv, WorkersOK, Settling, locals
    <2>2. row[key[v]].state # "running" \/ row'[key[v]] = row[key[v]]
      BY <1>1, <2>1
    <2> QED BY <1>1, <2>1, <2>2, OwnsKept DEF FinalInv
  <1>3. ReplayInv' /\ Finality
    BY <1>1 DEF FinalInv, ReplayInv, Finality, SuccessStates
  <1> QED BY <1>2, <1>3 DEF FinalInv, OwnsInv

\* Every step keeps owners owners, and a tested dead letter dead.
LEMMA FinalStep ==
    ASSUME SingleOperator, TypeInv, FinalInv, [Next]_gateVars
    PROVE  FinalInv' /\ Finality
  <1>1. ASSUME NEW w \in Workers, NEW k \in Keys, Execute(w, k)
        PROVE  FinalInv' /\ Finality
    BY <1>1, ReadFinal
  <1>2. ASSUME NEW w \in Workers, Proceed(w)
        PROVE  FinalInv' /\ Finality
    BY <1>2, ReadFinal, StartFinal, WriteFinal DEF Proceed
  <1>3. CASE Replay
    BY <1>3, ReplayFinal DEF Replay
  <1>4. CASE Crash
    BY <1>4 DEF Crash, durable, FinalInv, OwnsInv, ReplayInv, Settling, Finality
  <1>5. CASE UNCHANGED gateVars
    BY <1>5 DEF gateVars, FinalInv, OwnsInv, ReplayInv, Owns, Finality
  <1> QED BY <1>1, <1>2, <1>3, <1>4, <1>5 DEF Next

\* It holds in every reachable state when at most one operator replays.
LEMMA FinalInvariant ==
    ASSUME SingleOperator
    PROVE  Spec => []FinalInv
  <1>1. TypeInv /\ FinalInv /\ [Next]_gateVars => FinalInv'
    BY FinalStep
  <1> QED BY InitFinal, TypeInvariant, <1>1, PTL DEF Spec

\* And then no step changes a delivered row.
LEMMA FinalitySteps ==
    ASSUME SingleOperator
    PROVE  Spec => [][Finality]_gateVars
  <1>1. TypeInv /\ FinalInv /\ [Next]_gateVars => [Finality]_gateVars
    BY FinalStep
  <1> QED BY <1>1, FinalInvariant, TypeInvariant, PTL DEF Spec

\* No late record, recovery or replay takes a delivery back (effects.py:172), however
\* many workers race on the key and whenever the process dies.
THEOREM FinalityTheorem ==
    ASSUME SingleOperator
    PROVE  Spec => SuccessIsFinal
  BY FinalitySteps DEF SuccessIsFinal, Finality

-----------------------------------------------------------------------------
\* OutcomeIsDurable, with the key every outcome is about.
OutcomeInv ==
    \A w \in Workers :
        /\ out[w] # "none" => key[w] \in Keys
        /\ out[w] \in SuccessStates => row[key[w]].state = out[w]

\* What a call of execute returns is the state of the row it has just read.
LEMMA ReturnsTheRow ==
    ASSUME TypeInv, NEW w \in Workers,
           (\E k \in Keys : Execute(w, k)) \/ Proceed(w)
    PROVE  /\ \A v \in Workers \ {w} : out'[v] = out[v] /\ key'[v] = key[v]
           /\ key'[w] \in Keys
           /\ out'[w] \notin {"none", "raised"} => row'[key'[w]].state = out'[w]
  <1>1. ASSUME NEW k \in Keys, Execute(w, k)
        PROVE  /\ \A v \in Workers \ {w} : out'[v] = out[v] /\ key'[v] = key[v]
               /\ key'[w] \in Keys
               /\ out'[w] \notin {"none", "raised"} => row'[key'[w]].state = out'[w]
    <2>1. row'[k] = Registered(row[k]) /\ key' = [key EXCEPT ![w] = k]
      BY <1>1 DEF Execute, TypeInv, TypeOK
    <2>2. \/ out' = [out EXCEPT ![w] = Registered(row[k]).state]
          \/ out' = [out EXCEPT ![w] = "none"]
      BY <1>1 DEF Execute, Continue, Return, Goto
    <2> QED BY <2>1, <2>2 DEF TypeInv, TypeOK, SuccessStates
  <1>2. ASSUME Proceed(w)
        PROVE  /\ \A v \in Workers \ {w} : out'[v] = out[v] /\ key'[v] = key[v]
               /\ key'[w] \in Keys
               /\ out'[w] \notin {"none", "raised"} => row'[key'[w]].state = out'[w]
    <2>1. key' = key /\ key[w] \in Keys
      BY <1>2 DEF Proceed, RecoverRead, Interrupt, Recovered, Start, Fire, RecordRead, RecordWrite,
                  ReadBack, TypeInv, WorkersOK
    <2>2. \/ out' = [out EXCEPT ![w] = "none"]
          \/ out' = [out EXCEPT ![w] = "raised"]
          \/ out' = [out EXCEPT ![w] = row[key[w]].state] /\ row' = row
      BY <1>2 DEF Proceed, RecoverRead, Interrupt, Recovered, Start, Fire, RecordRead, RecordWrite,
                  ReadBack, Continue, Return, Raise, Goto, durable
    <2> QED BY <2>1, <2>2 DEF TypeInv, TypeOK, SuccessStates
  <1> QED BY <1>1, <1>2

\* What was returned was the row, which does not change once delivered.
LEMMA OutcomeStep ==
    ASSUME TypeInv, Finality, OutcomeInv, [Next]_gateVars
    PROVE  OutcomeInv'
  <1>1. ASSUME NEW w \in Workers, (\E k \in Keys : Execute(w, k)) \/ Proceed(w)
        PROVE  OutcomeInv'
    <2>1. /\ \A v \in Workers \ {w} : out'[v] = out[v] /\ key'[v] = key[v]
          /\ key'[w] \in Keys
          /\ out'[w] \notin {"none", "raised"} => row'[key'[w]].state = out'[w]
      BY <1>1, ReturnsTheRow
    <2> QED BY <2>1 DEF OutcomeInv, Finality, SuccessStates
  <1>2. CASE Replay
    BY <1>2 DEF Replay, ReplayCheck, ReplayWrite, locals, durable, OutcomeInv, Finality, SuccessStates
  <1>3. CASE Crash
    BY <1>3 DEF Crash, OutcomeInv, SuccessStates
  <1>4. CASE UNCHANGED gateVars
    BY <1>4 DEF gateVars, OutcomeInv
  <1> QED BY <1>1, <1>2, <1>3, <1>4 DEF Next

\* A caller that was told success finds it in the durable row for good
\* (effects.py:210).
THEOREM DurableTheorem ==
    ASSUME SingleOperator
    PROVE  Spec => []OutcomeIsDurable
  <1>1. Init => OutcomeInv
    BY DEF Init, OutcomeInv, SuccessStates
  <1>2. TypeInv /\ FinalInv /\ OutcomeInv /\ [Next]_gateVars => OutcomeInv'
    BY FinalStep, OutcomeStep
  <1>3. OutcomeInv => OutcomeIsDurable
    BY DEF OutcomeInv, OutcomeIsDurable
  <1> QED BY <1>1, <1>2, <1>3, TypeInvariant, FinalInvariant, PTL DEF Spec

-----------------------------------------------------------------------------
\* The attempts of row r's cycle that have ended.
Ended(r) == IF r.state = "running" THEN r.attempts - 1 ELSE r.attempts

\* The log holds exactly one receipt for each of them, and none of a later cycle.
Fits(log, r) ==
    /\ \A e \in log : e.cycle <= r.cycle
    /\ \A e \in log : e.cycle = r.cycle => e.attempt \in 1 .. Ended(r)
    /\ \A a \in 1 .. Ended(r) : \E e \in log : e.cycle = r.cycle /\ e.attempt = a
    /\ \A e, f \in log : e.cycle = f.cycle /\ e.attempt = f.attempt => e = f
    /\ r.state = "running" => r.attempts > 0

ReceiptsInv == \A k \in Keys : Fits(receipts[k], row[k])

\* A log keeps fitting its row when the row moves on, and when its attempt is settled.
LEMMA FitsFacts ==
    ASSUME NEW r \in Row, NEW log \in SUBSET Receipt, Fits(log, r)
    PROVE  /\ Fits(log, Registered(r))
           /\ r.state # "running" => Fits(log, Started(r))
           /\ r.state # "running" => Fits(log, Replayed(r))
           /\ \A c : r.state = "running" =>
                Fits(log \cup {ReceiptOf(r, c)}, [r EXCEPT !.state = SettledState(r, c)])
  <1>1. r.attempts \in Nat /\ r.cycle \in Nat /\ \A e \in log : e.cycle \in Nat /\ e.attempt \in Nat
    BY MaxAttemptsAssumption DEF Row, Receipt
  <1>2. Fits(log, Registered(r))
    BY DEF Fits, Registered, Ended, Row
  <1>3. ASSUME r.state # "running" PROVE Fits(log, Started(r))
    <2>1. Ended(Started(r)) = Ended(r)
      BY <1>1, <1>3 DEF Ended, Started
    <2> QED BY <1>1, <2>1 DEF Fits, Started
  <1>4. ASSUME r.state # "running" PROVE Fits(log, Replayed(r))
    BY <1>1, <1>4 DEF Fits, Replayed, Ended
  <1>5. ASSUME NEW c, r.state = "running"
        PROVE  Fits(log \cup {ReceiptOf(r, c)}, [r EXCEPT !.state = SettledState(r, c)])
    <2> DEFINE n   == ReceiptOf(r, c)
               new == [r EXCEPT !.state = SettledState(r, c)]
    <2>1. /\ n.cycle = r.cycle /\ n.attempt = r.attempts
          /\ new.cycle = r.cycle /\ new.attempts = r.attempts /\ new.state # "running"
      BY SettledTypes DEF ReceiptOf, Row
    <2>2. Ended(new) = r.attempts /\ Ended(r) = r.attempts - 1 /\ r.attempts > 0
      BY <1>5, <2>1 DEF Ended, Fits
    <2> HIDE DEF n, new
    <2>3. \A e \in log \cup {n} : e.cycle <= new.cycle
      BY <1>1, <2>1 DEF Fits
    <2>4. \A e \in log \cup {n} : e.cycle = new.cycle => e.attempt \in 1 .. Ended(new)
      BY <1>1, <2>1, <2>2 DEF Fits
    <2>5. \A a \in 1 .. Ended(new) : \E e \in log \cup {n} : e.cycle = new.cycle /\ e.attempt = a
      BY <1>1, <2>1, <2>2 DEF Fits
    <2>6. \A e \in log : e.cycle = n.cycle => e.attempt # n.attempt
      BY <1>1, <2>1, <2>2 DEF Fits
    <2>7. \A e, f \in log \cup {n} : e.cycle = f.cycle /\ e.attempt = f.attempt => e = f
      BY <2>6 DEF Fits
    <2> QED BY <2>1, <2>3, <2>4, <2>5, <2>7 DEF Fits, n, new
  <1> QED BY <1>2, <1>3, <1>4, <1>5

\* Every step keeps the logs fitting: only an owner settles, and only once.
LEMMA ReceiptsStep ==
    ASSUME SingleOperator, TypeInv, FinalInv, ReceiptsInv, [Next]_gateVars
    PROVE  ReceiptsInv'
  <1> USE DEF ReceiptsInv
  <1>0. \A k \in Keys : row[k] \in Row /\ receipts[k] \in SUBSET Receipt
    BY DEF TypeInv, TypeOK
  <1>1. ASSUME NEW w \in Workers, NEW k \in Keys, Execute(w, k)
        PROVE  ReceiptsInv'
    <2>1. receipts' = receipts /\ row' = [row EXCEPT ![k] = Registered(row[k])]
      BY <1>1 DEF Execute
    <2> QED BY <1>0, <2>1, FitsFacts DEF TypeInv, TypeOK
  <1>2. ASSUME NEW w \in Workers, pc[w] \in Settling, NEW c, Settle(w, c)
        PROVE  ReceiptsInv'
    <2>1. /\ key[w] \in Keys /\ row[key[w]] = seen[w] /\ row[key[w]].state = "running"
          /\ row' = [row EXCEPT ![key[w]].state = SettledState(seen[w], c)]
          /\ receipts' = [receipts EXCEPT ![key[w]] = @ \cup {ReceiptOf(seen[w], c)}]
      BY <1>2, SettleOwned
    <2>2. Fits(receipts'[key[w]], row'[key[w]])
      BY <1>0, <2>1, FitsFacts DEF TypeInv, TypeOK
    <2>3. \A k \in Keys \ {key[w]} : receipts'[k] = receipts[k] /\ row'[k] = row[k]
      BY <2>1 DEF TypeInv, TypeOK
    <2> QED BY <2>2, <2>3
  <1>3. ASSUME NEW w \in Workers, Start(w)
        PROVE  ReceiptsInv'
    <2>1. CASE UNCHANGED row
      BY <1>3, <2>1 DEF Start
    <2>2. CASE MayStart(row[key[w]]) /\ row' = [row EXCEPT ![key[w]] = Started(@)]
      BY <1>0, <1>3, <2>2, FitsFacts DEF Start, MayStart, StartableStates, TypeInv, TypeOK
    <2> QED BY <1>3, <2>1, <2>2 DEF Start
  <1>4. ASSUME NEW w \in Workers, Proceed(w)
        PROVE  ReceiptsInv'
    <2>1. \/ UNCHANGED durable \/ Start(w)
          \/ pc[w] \in Settling /\ \E c \in ReceiptClasses \cup {result[w]} : Settle(w, c)
      BY <1>4 DEF Proceed, RecoverRead, Interrupt, Recovered, Fire, RecordRead, RecordWrite, ReadBack,
                  SettleRefused, Settling, ReceiptClasses
    <2> QED BY <1>2, <1>3, <2>1 DEF durable
  <1>5. CASE Replay
    <2>1. PICK o \in Operators, k \in Keys : ReplayCheck(o, k) \/ ReplayWrite(o, k)
      BY <1>5 DEF Replay
    <2>2. CASE ReplayCheck(o, k)
      BY <2>2 DEF ReplayCheck, durable
    <2>3. CASE ReplayWrite(o, k)
      <3>1. row[k].state = "dead_letter" /\ receipts' = receipts
            /\ row' = [row EXCEPT ![k] = Replayed(@)]
        BY <2>3 DEF ReplayWrite, FinalInv, ReplayInv
      <3> QED BY <1>0, <3>1, FitsFacts DEF TypeInv, TypeOK
    <2> QED BY <2>1, <2>2, <2>3
  <1>6. CASE Crash \/ UNCHANGED gateVars
    BY <1>6 DEF Crash, gateVars, durable
  <1> QED BY <1>1, <1>4, <1>5, <1>6 DEF Next

\* Every attempt that ended has exactly one receipt, the running one has none
\* (effects.py:167), whatever raced and whatever crashed.
THEOREM ReceiptsTheorem ==
    ASSUME SingleOperator
    PROVE  Spec => []AttemptsReceipted
  <1>1. Init => ReceiptsInv
    BY MaxAttemptsAssumption DEF Init, ReceiptsInv, Fits, Ended, NoRow
  <1>2. TypeInv /\ FinalInv /\ ReceiptsInv /\ [Next]_gateVars => ReceiptsInv'
    BY ReceiptsStep
  <1>3. ReceiptsInv => AttemptsReceipted
    BY DEF ReceiptsInv, Fits, Ended, AttemptsReceipted
  <1> QED BY <1>1, <1>2, <1>3, TypeInvariant, FinalInvariant, PTL DEF Spec

-----------------------------------------------------------------------------
\* For the callers of the gateway: a key becomes delivered only when a worker records
\* the success of its own call, and the result of a call stands until it is recorded.
Recording == {"record", "write"}

\* A key becomes delivered in a worker's RecordWrite of its own good result.
LEMMA SuccessIsRecorded ==
    ASSUME TypeInv, [Next]_gateVars, NEW k \in Keys,
           row[k].state \notin SuccessStates, row'[k].state \in SuccessStates
    PROVE  \E w \in Workers : /\ pc[w] = "write" /\ key[w] = k
                              /\ result[w] \in {"success", "already_applied"}
  <1>1. ASSUME NEW w \in Workers, RecordWrite(w)
        PROVE  pc[w] = "write" /\ key[w] = k /\ result[w] \in {"success", "already_applied"}
    <2>1. row' = [row EXCEPT ![key[w]].state = SettledState(seen[w], result[w])]
      BY <1>1 DEF RecordWrite, Settle, SettleRefused, durable
    <2>2. key[w] = k /\ SettledState(seen[w], result[w]) \in SuccessStates
      BY <2>1 DEF TypeInv, TypeOK
    <2> QED BY <1>1, <2>2 DEF RecordWrite, SettledState, SuccessStates
  <1>2. ASSUME NEW w \in Workers, Interrupt(w)
        PROVE  FALSE
    <2>1. SettledState(seen[w], "interrupted") \notin SuccessStates
      BY DEF SettledState, SuccessStates
    <2>2. row' = [row EXCEPT ![key[w]].state = SettledState(seen[w], "interrupted")]
      BY <1>2 DEF Interrupt, Settle, SettleRefused, durable
    <2>3. row[k] \in Row
      BY DEF TypeInv, TypeOK
    <2> QED BY <2>1, <2>2, <2>3 DEF TypeInv, TypeOK, Row
  <1>3. ASSUME NEW w \in Workers,
               RecoverRead(w) \/ Recovered(w) \/ RecordRead(w) \/ ReadBack(w)
               \/ \E c \in EffectClasses : Fire(w, c)
        PROVE  FALSE
    BY <1>3 DEF RecoverRead, Recovered, RecordRead, ReadBack, Fire, durable
  <1>4. ASSUME NEW w \in Workers, NEW j \in Keys, Execute(w, j)
        PROVE  FALSE
    <2>1. row' = [row EXCEPT ![j] = Registered(row[j])]
      BY <1>4 DEF Execute
    <2> QED BY <2>1 DEF Registered, SuccessStates, TypeInv, TypeOK, Row
  <1>5. ASSUME NEW w \in Workers, Start(w)
        PROVE  FALSE
    <2>1. row' = row \/ row' = [row EXCEPT ![key[w]] = Started(row[key[w]])]
      BY <1>5 DEF Start
    <2>2. Started(row[key[w]]).state \notin SuccessStates
      BY DEF Started, SuccessStates
    <2> QED BY <2>1, <2>2 DEF TypeInv, TypeOK
  <1>6. CASE Replay \/ Crash \/ UNCHANGED gateVars
    BY <1>6 DEF Replay, ReplayCheck, ReplayWrite, Replayed, Crash, durable, locals, gateVars,
                SuccessStates, TypeInv, TypeOK
  <1> QED BY <1>1, <1>2, <1>3, <1>4, <1>5, <1>6 DEF Next, Proceed

\* A step that calls no effect leaves key and result of those about to record one.
LEMMA ResultsStand ==
    ASSUME TypeInv, [Next]_gateVars, fires' = fires, NEW w \in Workers, pc'[w] \in Recording
    PROVE  pc[w] \in Recording /\ key'[w] = key[w] /\ result'[w] = result[w]
  <1>1. ASSUME NEW v \in Workers, NEW k \in Keys, Execute(v, k)
        PROVE  pc[w] \in Recording /\ key'[w] = key[w] /\ result'[w] = result[w]
    BY <1>1 DEF Execute, Continue, Return, Goto, Recording, TypeInv, TypeOK
  <1>2. ASSUME NEW v \in Workers, NEW c \in EffectClasses, Fire(v, c)
        PROVE  FALSE
    <2>1. key[v] \in Keys
      BY <1>2 DEF Fire, TypeInv, WorkersOK
    <2> QED BY <1>2, <2>1 DEF Fire, TypeInv, TypeOK
  <1>3. ASSUME NEW v \in Workers,
               \/ RecoverRead(v) \/ Interrupt(v) \/ Recovered(v) \/ Start(v)
               \/ RecordRead(v) \/ RecordWrite(v) \/ ReadBack(v)
        PROVE  pc[w] \in Recording /\ key'[w] = key[w] /\ result'[w] = result[w]
    BY <1>3 DEF RecoverRead, Interrupt, Recovered, Start, RecordRead, RecordWrite, ReadBack,
                Continue, Return, Raise, Goto, Recording, TypeInv, TypeOK
  <1>4. CASE Replay \/ Crash \/ UNCHANGED gateVars
    BY <1>4 DEF Replay, ReplayCheck, ReplayWrite, Crash, locals, gateVars, Recording
  <1> QED BY <1>1, <1>2, <1>3, <1>4 DEF Next, Proceed

-----------------------------------------------------------------------------
\* What one step does to the record of a key.
Settled(k, c) ==
    /\ row[k].state = "running"
    /\ row'[k] = [row[k] EXCEPT !.state = SettledState(row[k], c)]
    /\ receipts'[k] = receipts[k] \cup {ReceiptOf(row[k], c)}
    /\ ReceiptOf(row[k], c) \notin receipts[k]

Attempted(k) ==
    /\ MayStart(row[k]) /\ row'[k] = Started(row[k])
    /\ receipts'[k] = receipts[k]

Reopened(k) ==
    /\ Operators # {}
    /\ row[k].state = "dead_letter" /\ row'[k] = Replayed(row[k])
    /\ receipts'[k] = receipts[k]

LeftAlone(k) ==
    /\ row'[k] \in {row[k], Registered(row[k])}
    /\ receipts'[k] = receipts[k]

\* A transaction that goes through settles the worker's key, and no other.
LEMMA SettleShape ==
    ASSUME TypeInv, FinalInv, NEW w \in Workers, pc[w] \in Settling, NEW c, Settle(w, c)
    PROVE  /\ key[w] \in Keys /\ Settled(key[w], c)
           /\ \A k \in Keys \ {key[w]} : LeftAlone(k)
  <1>1. /\ key[w] \in Keys
        /\ row[key[w]] = seen[w] /\ row[key[w]].state = "running"
        /\ ~Receipted(receipts[key[w]], seen[w])
        /\ row' = [row EXCEPT ![key[w]].state = SettledState(seen[w], c)]
        /\ receipts' = [receipts EXCEPT ![key[w]] = @ \cup {ReceiptOf(seen[w], c)}]
        /\ \A j \in Keys \ {key[w]} : row'[j] = row[j] /\ receipts'[j] = receipts[j]
    BY SettleOwned
  <1>2. ReceiptOf(seen[w], c) \notin receipts[key[w]]
    BY <1>1 DEF Receipted, ReceiptOf
  <1>3. Settled(key[w], c)
    BY <1>1, <1>2 DEF Settled, TypeInv, TypeOK
  <1> QED BY <1>1, <1>3 DEF LeftAlone

\* The record of a key changes in one of four ways, and an attempt is settled only by a
\* worker that recovers it or by one that called the effect.
LEMMA RowShapes ==
    ASSUME TypeInv, FinalInv, [Next]_gateVars, NEW k \in Keys
    PROVE  \/ LeftAlone(k)
           \/ \E w \in Workers : Start(w) /\ key[w] = k /\ pc'[w] = "effect" /\ Attempted(k)
           \/ \E w \in Workers : Interrupt(w) /\ key[w] = k /\ Settled(k, "interrupted")
           \/ \E w \in Workers : RecordWrite(w) /\ key[w] = k /\ Settled(k, result[w])
           \/ Reopened(k)
  <1>1. ASSUME NEW w \in Workers, NEW j \in Keys, Execute(w, j)
        PROVE  LeftAlone(k)
    BY <1>1 DEF Execute, LeftAlone, TypeInv, TypeOK
  <1>2. ASSUME NEW w \in Workers, Start(w)
        PROVE  LeftAlone(k) \/ (key[w] = k /\ pc'[w] = "effect" /\ Attempted(k))
    <2>1. CASE UNCHANGED row
      BY <1>2, <2>1 DEF Start, LeftAlone
    <2>2. CASE MayStart(row[key[w]]) /\ row' = [row EXCEPT ![key[w]] = Started(@)] /\ Goto(w, "effect")
      BY <1>2, <2>2 DEF Start, Goto, LeftAlone, Attempted, TypeInv, TypeOK
    <2> QED BY <1>2, <2>1, <2>2 DEF Start
  <1>3. ASSUME NEW w \in Workers, Interrupt(w)
        PROVE  LeftAlone(k) \/ (key[w] = k /\ Settled(k, "interrupted"))
    <2>1. pc[w] \in Settling
      BY <1>3 DEF Interrupt, Settling
    <2>2. CASE Settle(w, "interrupted")
      BY <2>1, <2>2, SettleShape
    <2>3. CASE UNCHANGED durable
      BY <2>3 DEF durable, LeftAlone
    <2> QED BY <1>3, <2>2, <2>3 DEF Interrupt, SettleRefused
  <1>4. ASSUME NEW w \in Workers, RecordWrite(w)
        PROVE  LeftAlone(k) \/ (key[w] = k /\ Settled(k, result[w]))
    <2>1. pc[w] \in Settling
      BY <1>4 DEF RecordWrite, Settling
    <2>2. CASE Settle(w, result[w])
      BY <2>1, <2>2, SettleShape
    <2>3. CASE UNCHANGED durable
      BY <2>3 DEF durable, LeftAlone
    <2> QED BY <1>4, <2>2, <2>3 DEF RecordWrite, SettleRefused
  <1>5. ASSUME NEW w \in Workers,
               RecoverRead(w) \/ Recovered(w) \/ RecordRead(w) \/ ReadBack(w)
               \/ \E c \in EffectClasses : Fire(w, c)
        PROVE  LeftAlone(k)
    BY <1>5 DEF RecoverRead, Recovered, RecordRead, ReadBack, Fire, durable, LeftAlone
  <1>6. ASSUME NEW o \in Operators, NEW j \in Keys, ReplayCheck(o, j) \/ ReplayWrite(o, j)
        PROVE  LeftAlone(k) \/ Reopened(k)
    <2>1. CASE ReplayCheck(o, j)
      BY <2>1 DEF ReplayCheck, durable, LeftAlone
    <2>2. CASE ReplayWrite(o, j)
      <3>1. row[j].state = "dead_letter"
        BY <2>2 DEF ReplayWrite, FinalInv, ReplayInv
      <3> QED BY <2>2, <3>1 DEF ReplayWrite, LeftAlone, Reopened, TypeInv, TypeOK
    <2> QED BY <1>6, <2>1, <2>2
  <1>7. CASE Crash \/ UNCHANGED gateVars
    BY <1>7 DEF Crash, gateVars, durable, LeftAlone
  <1> QED BY <1>1, <1>2, <1>3, <1>4, <1>5, <1>6, <1>7 DEF Next, Proceed, Replay

\* The log of a key is finite: every step adds at most one receipt.
LogsFinite == \A k \in Keys : IsFiniteSet(receipts[k])

\* No step makes a log infinite.
LEMMA LogsStep ==
    ASSUME TypeInv, FinalInv, LogsFinite, [Next]_gateVars
    PROVE  LogsFinite'
  <1> SUFFICES ASSUME NEW k \in Keys
               PROVE  IsFiniteSet(receipts'[k])
    BY DEF LogsFinite
  <1>1. receipts'[k] = receipts[k] \/ \E e : receipts'[k] = receipts[k] \cup {e}
    BY RowShapes DEF LeftAlone, Attempted, Settled, Reopened
  <1> QED BY <1>1, FS_AddElement DEF LogsFinite

\* Every log of a reachable state is finite.
LEMMA LogsInvariant ==
    ASSUME SingleOperator
    PROVE  Spec => []LogsFinite
  <1>1. Init => LogsFinite
    BY FS_EmptySet DEF Init, LogsFinite
  <1>2. TypeInv /\ FinalInv /\ LogsFinite /\ [Next]_gateVars => LogsFinite'
    BY LogsStep
  <1> QED BY <1>1, <1>2, TypeInvariant, FinalInvariant, PTL DEF Spec

\* The budget of key k has run out at least once: it still is a dead letter, or an
\* operator has renewed it.
WasDead(k) == row[k].state = "dead_letter" \/ row[k].cycle > 1

\* Neither a recovery nor a replay hides that the budget had run out.
LEMMA WasDeadStands ==
    ASSUME TypeInv, FinalInv, [Next]_gateVars, NEW k \in Keys, WasDead(k)
    PROVE  WasDead(k)'
  <1>1. row[k] \in Row /\ row[k].cycle \in Nat \ {0}
    BY DEF TypeInv, TypeOK, Row
  <1>2. CASE LeftAlone(k)
    BY <1>1, <1>2 DEF LeftAlone, WasDead, Registered, Row
  <1>3. CASE Attempted(k)
    BY <1>1, <1>3 DEF Attempted, MayStart, StartableStates, Started, WasDead
  <1>4. ASSUME NEW c, Settled(k, c)
        PROVE  WasDead(k)'
    BY <1>1, <1>4 DEF Settled, WasDead, Row
  <1>5. CASE Reopened(k)
    BY <1>1, <1>5 DEF Reopened, Replayed, WasDead
  <1> QED BY <1>2, <1>3, <1>4, <1>5, RowShapes

\* Without operators nothing renews a budget.
LEMMA FirstCycle ==
    ASSUME Operators = {}
    PROVE  Spec => [](\A k \in Keys : row[k].cycle = 1)
  <1> DEFINE Only == \A k \in Keys : row[k].cycle = 1
  <1>1. Init => Only
    BY DEF Init, NoRow
  <1>2. TypeInv /\ FinalInv /\ Only /\ [Next]_gateVars => Only'
    <2> SUFFICES ASSUME TypeInv, FinalInv, Only, [Next]_gateVars, NEW k \in Keys
                 PROVE  row'[k].cycle = 1
      OBVIOUS
    <2>1. row[k] \in Row
      BY DEF TypeInv, TypeOK
    <2>2. CASE LeftAlone(k)
      BY <2>1, <2>2 DEF LeftAlone, Registered, Row
    <2>3. CASE Attempted(k)
      BY <2>3 DEF Attempted, Started
    <2>4. ASSUME NEW c, Settled(k, c)
          PROVE  row'[k].cycle = 1
      BY <2>1, <2>4 DEF Settled, Row
    <2>5. ~Reopened(k)
      BY DEF Reopened
    <2> QED BY <2>2, <2>3, <2>4, <2>5, RowShapes
  <1>3. Spec => []FinalInv
    BY FinalInvariant DEF SingleOperator
  <1> QED BY <1>1, <1>2, <1>3, TypeInvariant, PTL DEF Spec

-----------------------------------------------------------------------------
\* Every call of an effect is paid for by an attempt that was granted: it has its
\* receipt, or its row is running.
GrantInv == \A k \in Keys : fires[k] + Cardinality(Firing(k)) <= Granted(k)

\* A running row has been granted at least one attempt.
LEMMA GrantedType ==
    ASSUME LogsFinite, NEW k \in Keys
    PROVE  Granted(k) \in Nat /\ (row[k].state = "running" => Granted(k) > 0)
  <1>1. Cardinality(receipts[k]) \in Nat
    BY FS_CardinalityType DEF LogsFinite
  <1> QED BY <1>1 DEF Granted

\* What is granted changes only when an attempt starts, by one.
LEMMA GrantedSteps ==
    ASSUME TypeInv, LogsFinite, NEW k \in Keys
    PROVE  /\ LeftAlone(k) => Granted(k)' = Granted(k)
           /\ Reopened(k) => Granted(k)' = Granted(k)
           /\ \A c : Settled(k, c) => Granted(k)' = Granted(k)
           /\ Attempted(k) => Granted(k)' = Granted(k) + 1
  <1>1. Cardinality(receipts[k]) \in Nat /\ IsFiniteSet(receipts[k]) /\ row[k] \in Row
    BY FS_CardinalityType DEF LogsFinite, TypeInv, TypeOK
  <1>2. LeftAlone(k) => Granted(k)' = Granted(k)
    BY <1>1 DEF LeftAlone, Registered, Row, Granted
  <1>3. Reopened(k) => Granted(k)' = Granted(k)
    BY <1>1 DEF Reopened, Replayed, Granted
  <1>4. ASSUME NEW c, Settled(k, c)
        PROVE  Granted(k)' = Granted(k)
    <2>1. Cardinality(receipts'[k]) = Cardinality(receipts[k]) + 1
      BY <1>1, <1>4, FS_AddElement DEF Settled
    <2>2. row'[k].state # "running"
      BY <1>1, <1>4, SettledTypes DEF Settled, Row
    <2> QED BY <1>1, <1>4, <2>1, <2>2 DEF Settled, Granted
  <1>5. Attempted(k) => Granted(k)' = Granted(k) + 1
    BY <1>1 DEF Attempted, MayStart, StartableStates, Started, Granted
  <1> QED BY <1>2, <1>3, <1>4, <1>5

\* Workers hold the attempts of a key: only Start adds one, and a call uses it up.
LEMMA FiringSteps ==
    ASSUME TypeInv, [Next]_gateVars, NEW k \in Keys
    PROVE  \/ Firing(k)' \subseteq Firing(k) /\ fires'[k] = fires[k]
           \/ \E w \in Workers : /\ Start(w) /\ pc'[w] = "effect" /\ key[w] = k
                                 /\ Firing(k)' = Firing(k) \cup {w} /\ fires'[k] = fires[k]
           \/ \E w \in Workers : /\ w \in Firing(k) /\ Firing(k)' = Firing(k) \ {w}
                                 /\ fires'[k] = fires[k] + 1 /\ row' = row /\ receipts' = receipts
  <1>1. ASSUME NEW w \in Workers, NEW j \in Keys, Execute(w, j)
        PROVE  Firing(k)' \subseteq Firing(k) /\ fires'[k] = fires[k]
    BY <1>1 DEF Execute, Continue, Return, Goto, Firing, TypeInv, TypeOK
  <1>2. ASSUME NEW w \in Workers, Start(w)
        PROVE  \/ Firing(k)' \subseteq Firing(k) /\ fires'[k] = fires[k]
               \/ /\ Start(w) /\ pc'[w] = "effect" /\ key[w] = k
                  /\ Firing(k)' = Firing(k) \cup {w} /\ fires'[k] = fires[k]
    <2>1. /\ key' = key /\ fires' = fires
          /\ pc' = [pc EXCEPT ![w] = "read"] \/ pc' = [pc EXCEPT ![w] = "effect"]
      BY <1>2 DEF Start, Goto
    <2> QED BY <1>2, <2>1 DEF Firing, TypeInv, TypeOK
  <1>3. ASSUME NEW w \in Workers, NEW c \in EffectClasses, Fire(w, c)
        PROVE  \/ Firing(k)' \subseteq Firing(k) /\ fires'[k] = fires[k]
               \/ /\ w \in Firing(k) /\ Firing(k)' = Firing(k) \ {w}
                  /\ fires'[k] = fires[k] + 1 /\ row' = row /\ receipts' = receipts
    <2>1. /\ pc[w] = "effect" /\ key' = key /\ row' = row /\ receipts' = receipts
          /\ pc' = [pc EXCEPT ![w] = "record"]
          /\ fires' = [fires EXCEPT ![key[w]] = @ + 1]
      BY <1>3 DEF Fire, Goto, durable
    <2> QED BY <2>1 DEF Firing, TypeInv, TypeOK
  <1>4. ASSUME NEW w \in Workers,
               \/ RecoverRead(w) \/ Interrupt(w) \/ Recovered(w)
               \/ RecordRead(w) \/ RecordWrite(w) \/ ReadBack(w)
        PROVE  Firing(k)' \subseteq Firing(k) /\ fires'[k] = fires[k]
    BY <1>4 DEF RecoverRead, Interrupt, Recovered, RecordRead, RecordWrite, ReadBack,
                Continue, Return, Raise, Goto, Firing, TypeInv, TypeOK
  <1>5. CASE Replay \/ Crash \/ UNCHANGED gateVars
    BY <1>5 DEF Replay, ReplayCheck, ReplayWrite, Crash, locals, gateVars, Firing
  <1> QED BY <1>1, <1>2, <1>3, <1>4, <1>5 DEF Next, Proceed

\* An attempt that is let through is granted, and changes nothing else.
LEMMA StartShape ==
    ASSUME TypeInv, NEW w \in Workers, Start(w), pc'[w] = "effect"
    PROVE  /\ key[w] \in Keys /\ Attempted(key[w]) /\ fires' = fires
           /\ row' = [row EXCEPT ![key[w]] = Started(@)] /\ receipts' = receipts
  <1>1. row' = [row EXCEPT ![key[w]] = Started(@)] /\ MayStart(row[key[w]])
    BY DEF Start, Goto, TypeInv, TypeOK
  <1> QED BY <1>1 DEF Start, Attempted, TypeInv, TypeOK, WorkersOK

\* A call uses up an attempt its worker holds; nothing else calls.
LEMMA GrantStep ==
    ASSUME TypeInv, FinalInv, LogsFinite, GrantInv, [Next]_gateVars
    PROVE  GrantInv'
  <1> SUFFICES ASSUME NEW k \in Keys
               PROVE  fires'[k] + Cardinality(Firing(k)') <= Granted(k)'
    BY DEF GrantInv
  <1>1. /\ fires[k] \in Nat /\ Granted(k) \in Nat
        /\ IsFiniteSet(Firing(k)) /\ Cardinality(Firing(k)) \in Nat
        /\ fires[k] + Cardinality(Firing(k)) <= Granted(k)
    BY GrantedType, FiringFinite DEF GrantInv, TypeInv, TypeOK
  <1>2. Granted(k)' >= Granted(k)
    BY <1>1, RowShapes, GrantedSteps
  <1>3. CASE Firing(k)' \subseteq Firing(k) /\ fires'[k] = fires[k]
    <2>1. Cardinality(Firing(k)') <= Cardinality(Firing(k)) /\ Cardinality(Firing(k)') \in Nat
      BY <1>1, <1>3, FS_Subset, FS_CardinalityType
    <2>2. Granted(k)' \in Nat
      BY <1>1, RowShapes, GrantedSteps
    <2> QED BY <1>1, <1>2, <1>3, <2>1, <2>2
  <1>4. ASSUME NEW w \in Workers, Start(w), pc'[w] = "effect", key[w] = k,
               Firing(k)' = Firing(k) \cup {w}, fires'[k] = fires[k]
        PROVE  fires'[k] + Cardinality(Firing(k)') <= Granted(k)'
    <2>1. w \notin Firing(k)
      BY <1>4 DEF Firing, Start
    <2>2. Cardinality(Firing(k)') = Cardinality(Firing(k)) + 1
      BY <1>1, <1>4, <2>1, FS_AddElement
    <2>3. Granted(k)' = Granted(k) + 1
      BY <1>4, StartShape, GrantedSteps
    <2> QED BY <1>1, <1>4, <2>2, <2>3
  <1>5. ASSUME NEW w \in Firing(k), Firing(k)' = Firing(k) \ {w}, fires'[k] = fires[k] + 1
        PROVE  fires'[k] + Cardinality(Firing(k)') <= Granted(k)'
    <2>1. Cardinality(Firing(k)') = Cardinality(Firing(k)) - 1
      BY <1>1, <1>5, FS_RemoveElement
    <2>2. Granted(k)' \in Nat
      BY <1>1, RowShapes, GrantedSteps
    <2> QED BY <1>1, <1>2, <1>5, <2>1, <2>2
  <1> QED BY <1>3, <1>4, <1>5, FiringSteps

\* At the start nothing was called and nothing granted.
LEMMA GrantInit == Init => GrantInv
  <1> SUFFICES ASSUME Init, NEW k \in Keys
               PROVE  fires[k] + Cardinality(Firing(k)) <= Granted(k)
    BY DEF GrantInv
  <1>1. Firing(k) = {} /\ fires[k] = 0 /\ receipts[k] = {} /\ row[k] = NoRow
    BY DEF Init, Firing
  <1> QED BY <1>1, FS_EmptySet DEF Granted, NoRow

\* Calls are paid for in every reachable state.
LEMMA GrantInvariant ==
    ASSUME SingleOperator
    PROVE  Spec => []GrantInv
  <1>1. TypeInv /\ FinalInv /\ LogsFinite /\ GrantInv /\ [Next]_gateVars => GrantInv'
    BY GrantStep
  <1> QED BY GrantInit, <1>1, TypeInvariant, FinalInvariant, LogsInvariant, PTL DEF Spec

-----------------------------------------------------------------------------
\* The abstract state a key maps to, and its step when only that key's part changes.
Same(k) ==
    PhaseOf(row'[k]) = PhaseOf(row[k]) /\ Left(row'[k]) = Left(row[k]) /\ Granted(k)' = Granted(k)

\* A step that leaves every key's part as it is stutters in the contract.
LEMMA SameFrame ==
    ASSUME fires' = fires, \A k \in Keys : Same(k)
    PROVE  UNCHANGED Contract!contractVars
  BY DEF Same, Contract!contractVars

\* Registering a key is invisible to the contract.
LEMMA AloneIsSame ==
    ASSUME TypeInv, LogsFinite, NEW k \in Keys, LeftAlone(k)
    PROVE  Same(k)
  <1>1. row[k] \in Row /\ row'[k] \in {row[k], Registered(row[k])}
    BY DEF TypeInv, TypeOK, LeftAlone
  <1>2. PhaseOf(row'[k]) = PhaseOf(row[k]) /\ Left(row'[k]) = Left(row[k])
    BY <1>1 DEF Registered, Row, PhaseOf, Left, SuccessStates
  <1> QED BY <1>2, GrantedSteps DEF Same

\* start_attempt is the contract's Grant.
LEMMA StartGrants ==
    ASSUME TypeInv, LogsFinite, NEW w \in Workers, NEW k \in Keys, key[w] = k,
           Start(w), pc'[w] = "effect"
    PROVE  Contract!Grant(k)
  <1>1. /\ Attempted(k) /\ fires' = fires
        /\ row' = [row EXCEPT ![k] = Started(@)] /\ receipts' = receipts
    BY StartShape
  <1>2. row[k] \in Row /\ row[k].attempts \in Nat /\ MaxAttempts \in Nat
    BY <1>1, MaxAttemptsAssumption DEF TypeInv, TypeOK, Row
  <1>3. PhaseOf(row[k]) = "open" /\ PhaseOf(row'[k]) = "open"
    BY <1>1 DEF Attempted, MayStart, StartableStates, Started, PhaseOf, SuccessStates
  <1>4. Left(row[k]) > 0 /\ Left(row'[k]) = Left(row[k]) - 1
    BY <1>1, <1>2 DEF Attempted, MayStart, Started, Left
  <1>5. Granted(k)' = Granted(k) + 1
    BY <1>1, GrantedSteps
  <1>6. \A j \in Keys \ {k} : Same(j)
    BY <1>1, AloneIsSame DEF LeftAlone, TypeInv, TypeOK
  <1>7. [j \in Keys |-> Left(row'[j])] = [[j \in Keys |-> Left(row[j])] EXCEPT ![k] = @ - 1]
    BY <1>1, <1>4, <1>6 DEF Same
  <1>8. [j \in Keys |-> Granted(j)'] = [[j \in Keys |-> Granted(j)] EXCEPT ![k] = @ + 1]
    BY <1>1, <1>5, <1>6 DEF Same
  <1>9. [j \in Keys |-> PhaseOf(row'[j])] = [j \in Keys |-> PhaseOf(row[j])]
    BY <1>3, <1>6 DEF Same
  <1> QED BY <1>1, <1>3, <1>4, <1>7, <1>8, <1>9 DEF Contract!Grant

\* A call of the effect is the contract's Fire.
LEMMA FireIsPaid ==
    ASSUME TypeInv, LogsFinite, GrantInv, NEW w \in Workers, NEW c \in EffectClasses, Fire(w, c)
    PROVE  Contract!Fire(key[w])
  <1>1. /\ key[w] \in Keys /\ row' = row /\ receipts' = receipts /\ w \in Firing(key[w])
        /\ fires' = [fires EXCEPT ![key[w]] = @ + 1]
    BY DEF Fire, durable, Firing, TypeInv, WorkersOK
  <1>2. Cardinality(Firing(key[w])) > 0
    BY <1>1, FiringFinite, FS_EmptySet
  <1>3. fires[key[w]] < Granted(key[w])
    BY <1>1, <1>2, FiringFinite, GrantedType DEF GrantInv, TypeInv, TypeOK
  <1>4. \A k \in Keys : Same(k)
    BY <1>1, AloneIsSame DEF LeftAlone
  <1> QED BY <1>1, <1>3, <1>4 DEF Contract!Fire, Same

\* The end of an attempt is Succeed, Die, or invisible when a retry is left.
LEMMA SettleDecides ==
    ASSUME TypeInv, FinalInv, LogsFinite, NEW w \in Workers, pc[w] \in Settling, NEW c,
           Settle(w, c), fires' = fires, NEW k \in Keys, key[w] = k
    PROVE  \/ Contract!Succeed(k) \/ Contract!Die(k)
           \/ UNCHANGED Contract!contractVars
  <1>1. /\ Settled(k, c)
        /\ \A j \in Keys \ {k} : LeftAlone(j)
    BY SettleShape
  <1>2. row[k] \in Row /\ row[k].state = "running" /\ row'[k] = [row[k] EXCEPT !.state = SettledState(row[k], c)]
    BY <1>1 DEF Settled, TypeInv, TypeOK
  <1>3. Left(row'[k]) = Left(row[k]) /\ row'[k].state = SettledState(row[k], c)
    BY <1>2 DEF Left, Row
  <1>4. Granted(k)' = Granted(k) /\ Granted(k) > 0 /\ PhaseOf(row[k]) = "open"
    BY <1>1, <1>2, GrantedSteps, GrantedType DEF PhaseOf, SuccessStates
  <1>5. PhaseOf(row'[k]) \in {"success", "dead", "open"}
    BY DEF PhaseOf
  <1>6. \A j \in Keys \ {k} : Same(j)
    BY <1>1, AloneIsSame
  <1>7. [j \in Keys |-> Left(row'[j])] = [j \in Keys |-> Left(row[j])]
    BY <1>3, <1>6 DEF Same
  <1>8. [j \in Keys |-> Granted(j)'] = [j \in Keys |-> Granted(j)]
    BY <1>4, <1>6 DEF Same
  <1>9. [j \in Keys |-> PhaseOf(row'[j])]
          = [[j \in Keys |-> PhaseOf(row[j])] EXCEPT ![k] = PhaseOf(row'[k])]
    BY <1>1, <1>6 DEF Same
  <1>10. CASE PhaseOf(row'[k]) = "success"
    BY <1>1, <1>4, <1>7, <1>8, <1>9, <1>10 DEF Contract!Succeed
  <1>11. CASE PhaseOf(row'[k]) = "dead"
    BY <1>1, <1>4, <1>7, <1>8, <1>9, <1>11 DEF Contract!Die
  <1>12. CASE PhaseOf(row'[k]) = "open"
    <2>1. \A j \in Keys : Same(j)
      BY <1>1, <1>3, <1>4, <1>6, <1>12 DEF Same
    <2> QED BY <2>1, SameFrame
  <1> QED BY <1>5, <1>10, <1>11, <1>12

\* The UPDATE of replay is the contract's Renew.
LEMMA ReplayRenews ==
    ASSUME TypeInv, FinalInv, LogsFinite, NEW o \in Operators, NEW k \in Keys, ReplayWrite(o, k)
    PROVE  Contract!Renew(k)
  <1>1. /\ row[k] \in Row /\ row[k].state = "dead_letter" /\ fires' = fires /\ receipts' = receipts
        /\ row' = [row EXCEPT ![k] = Replayed(@)] /\ Reopened(k)
    BY DEF ReplayWrite, Reopened, FinalInv, ReplayInv, TypeInv, TypeOK
  <1>2. row'[k] = Replayed(row[k])
    BY <1>1 DEF Reopened
  <1>3. PhaseOf(row[k]) = "dead" /\ PhaseOf(row'[k]) = "open" /\ Left(row'[k]) = MaxAttempts
    BY <1>1, <1>2, MaxAttemptsAssumption DEF Replayed, PhaseOf, Left, SuccessStates
  <1>4. \A j \in Keys \ {k} : Same(j)
    BY <1>1, AloneIsSame DEF LeftAlone, TypeInv, TypeOK
  <1>5. Granted(k)' = Granted(k)
    BY <1>1, GrantedSteps
  <1>6. [j \in Keys |-> Left(row'[j])] = [[j \in Keys |-> Left(row[j])] EXCEPT ![k] = MaxAttempts]
    BY <1>3, <1>4 DEF Same
  <1>7. [j \in Keys |-> Granted(j)'] = [j \in Keys |-> Granted(j)]
    BY <1>4, <1>5 DEF Same
  <1>8. [j \in Keys |-> PhaseOf(row'[j])] = [[j \in Keys |-> PhaseOf(row[j])] EXCEPT ![k] = "open"]
    BY <1>3, <1>4 DEF Same
  <1> QED BY <1>1, <1>3, <1>6, <1>7, <1>8 DEF Contract!Renew

\* Every step of the gateway is one of the contract, or a stutter.
LEMMA ContractStep ==
    ASSUME TypeInv, FinalInv, LogsFinite, GrantInv, [Next]_gateVars
    PROVE  [Contract!Next]_(Contract!contractVars)
  <1>1. ASSUME fires' = fires, \A k \in Keys : LeftAlone(k)
        PROVE  UNCHANGED Contract!contractVars
    BY <1>1, AloneIsSame, SameFrame
  <1>2. ASSUME NEW w \in Workers, NEW k \in Keys, Execute(w, k)
        PROVE  UNCHANGED Contract!contractVars
    BY <1>1, <1>2 DEF Execute, LeftAlone, TypeInv, TypeOK
  <1>3. ASSUME NEW w \in Workers, Start(w)
        PROVE  [Contract!Next]_(Contract!contractVars)
    <2>1. CASE pc'[w] = "effect"
      <3>1. key[w] \in Keys
        BY <1>3, <2>1, StartShape
      <3> QED BY <1>3, <2>1, <3>1, StartGrants DEF Contract!Next
    <2>2. CASE UNCHANGED <<row, receipts, fires>>
      BY <1>1, <2>2 DEF LeftAlone
    <2> QED BY <1>3, <2>1, <2>2 DEF Start, Goto, TypeInv, TypeOK
  <1>4. ASSUME NEW w \in Workers, NEW c \in EffectClasses, Fire(w, c)
        PROVE  Contract!Next
    BY <1>4, FireIsPaid DEF Contract!Next, Fire, TypeInv, WorkersOK
  <1>5. ASSUME NEW w \in Workers, Interrupt(w) \/ RecordWrite(w)
        PROVE  [Contract!Next]_(Contract!contractVars)
    <2>1. pc[w] \in Settling /\ fires' = fires /\ key[w] \in Keys
      BY <1>5 DEF Interrupt, RecordWrite, Settling, TypeInv, WorkersOK
    <2>2. ASSUME NEW c, Settle(w, c)
          PROVE  [Contract!Next]_(Contract!contractVars)
      BY <2>1, <2>2, SettleDecides DEF Contract!Next
    <2>3. CASE UNCHANGED durable
      BY <1>1, <2>1, <2>3 DEF durable, LeftAlone
    <2> QED BY <1>5, <2>2, <2>3 DEF Interrupt, RecordWrite, SettleRefused
  <1>6. ASSUME NEW w \in Workers, RecoverRead(w) \/ Recovered(w) \/ RecordRead(w) \/ ReadBack(w)
        PROVE  UNCHANGED Contract!contractVars
    BY <1>1, <1>6 DEF RecoverRead, Recovered, RecordRead, ReadBack, durable, LeftAlone
  <1>7. ASSUME NEW o \in Operators, NEW k \in Keys, ReplayCheck(o, k) \/ ReplayWrite(o, k)
        PROVE  [Contract!Next]_(Contract!contractVars)
    <2>1. CASE ReplayWrite(o, k)
      BY <2>1, ReplayRenews DEF Contract!Next
    <2>2. CASE ReplayCheck(o, k)
      BY <1>1, <2>2 DEF ReplayCheck, durable, LeftAlone
    <2> QED BY <1>7, <2>1, <2>2
  <1>8. CASE Crash \/ UNCHANGED gateVars
    BY <1>1, <1>8 DEF Crash, durable, gateVars, LeftAlone
  <1> QED BY <1>2, <1>3, <1>4, <1>5, <1>6, <1>7, <1>8 DEF Next, Proceed, Replay

\* The gateway starts where the contract does.
LEMMA ContractInit == Init => Contract!Init
  <1> SUFFICES ASSUME Init
               PROVE  Contract!Init
    OBVIOUS
  <1>1. \A k \in Keys : /\ PhaseOf(row[k]) = "open" /\ Left(row[k]) = MaxAttempts /\ Granted(k) = 0
    BY MaxAttemptsAssumption, FS_EmptySet DEF Init, NoRow, PhaseOf, Left, Granted, SuccessStates
  <1> QED BY <1>1 DEF Init, Contract!Init

\* The gateway, with any keys, workers and crashes, keeps the contract the approval loop
\* counts on: calls are paid for, success is final, only a replay renews the budget
\* (effects.py:145).
THEOREM ContractTheorem ==
    ASSUME SingleOperator
    PROVE  Spec => ImplementsContract
  <1>1. TypeInv /\ FinalInv /\ LogsFinite /\ GrantInv /\ [Next]_gateVars
        => [Contract!Next]_(Contract!contractVars)
    BY ContractStep
  <1> QED BY <1>1, ContractInit, TypeInvariant, FinalInvariant, LogsInvariant, GrantInvariant, PTL
          DEF Spec, ImplementsContract, Contract!Spec

-----------------------------------------------------------------------------
\* A call of the effect ended well.
Good == {"success", "already_applied"}

\* Workers that hold an attempt of k and have not brought its effect to a good end.
Owing(k) ==
    {w \in Workers : /\ key[w] = k
                     /\ pc[w] = "effect" \/ (pc[w] \in Recording /\ result[w] \notin Good)}

Recoveries(k) == {e \in receipts[k] : e.class = "interrupted"}

\* The record of k still stands for an effect: an attempt of it runs or went well.
Stands(k) == IF row[k].state \in {"running"} \cup SuccessStates THEN 1 ELSE 0

\* There are finitely many workers to owe an effect.
LEMMA OwingFinite == \A k \in Keys : IsFiniteSet(Owing(k)) /\ Cardinality(Owing(k)) \in Nat
  BY WorkersAssumption, FS_Subset, FS_CardinalityType DEF Owing

\* There are finitely many recoveries of a key.
LEMMA RecoveriesFinite ==
    ASSUME LogsFinite, NEW k \in Keys
    PROVE  IsFiniteSet(Recoveries(k)) /\ Cardinality(Recoveries(k)) \in Nat
  BY FS_Subset, FS_CardinalityType DEF LogsFinite, Recoveries

\* What a step does to the record of a key that nobody settles.
LEMMA StandsSteps ==
    ASSUME TypeInv, NEW k \in Keys
    PROVE  /\ LeftAlone(k) => Stands(k)' = Stands(k) /\ Recoveries(k)' = Recoveries(k)
           /\ Reopened(k) => Stands(k)' = Stands(k) /\ Recoveries(k)' = Recoveries(k)
           /\ Attempted(k) => Stands(k)' = 1 /\ Stands(k) = 0 /\ Recoveries(k)' = Recoveries(k)
  <1>1. row[k] \in Row
    BY DEF TypeInv, TypeOK
  <1> QED BY <1>1 DEF LeftAlone, Registered, Reopened, Replayed, Attempted, MayStart, Started,
                      StartableStates, SuccessStates, Stands, Recoveries, Row

\* What settling an attempt does to what the record stands for.
LEMMA SettledStands ==
    ASSUME TypeInv, LogsFinite, NEW k \in Keys, NEW c, Settled(k, c)
    PROVE  /\ Stands(k) = 1
           /\ c \in Good => Stands(k)' = 1
           /\ c \notin Good => Stands(k)' = 0
           /\ c = "interrupted" => Cardinality(Recoveries(k)') = Cardinality(Recoveries(k)) + 1
           /\ c # "interrupted" => Recoveries(k)' = Recoveries(k)
  <1>1. row[k] \in Row /\ row[k].state = "running"
    BY DEF TypeInv, TypeOK, Settled
  <1>2. row'[k].state = SettledState(row[k], c)
    BY <1>1 DEF Settled, Row
  <1>3. c \in Good <=> SettledState(row[k], c) \in {"running"} \cup SuccessStates
    BY DEF SettledState, Good, SuccessStates
  <1>4. Stands(k) = 1 /\ Stands(k)' = IF c \in Good THEN 1 ELSE 0
    BY <1>1, <1>2, <1>3 DEF Stands
  <1>5. ReceiptOf(row[k], c).class = c
    BY DEF ReceiptOf
  <1>6. ASSUME c = "interrupted"
        PROVE  Cardinality(Recoveries(k)') = Cardinality(Recoveries(k)) + 1
    <2>1. /\ Recoveries(k)' = Recoveries(k) \cup {ReceiptOf(row[k], c)}
          /\ ReceiptOf(row[k], c) \notin Recoveries(k)
      BY <1>5, <1>6 DEF Settled, Recoveries
    <2> QED BY <2>1, RecoveriesFinite, FS_AddElement
  <1>7. c # "interrupted" => Recoveries(k)' = Recoveries(k)
    BY <1>5 DEF Settled, Recoveries
  <1> QED BY <1>4, <1>6, <1>7

\* The books of a key: what its record and its recoveries account for, and what its
\* workers still owe, move together, except that a call that goes well pays.
Balanced(k) ==
    Cardinality(Owing(k)') + Cardinality(Recoveries(k)) + Stands(k)
      <= Cardinality(Owing(k)) + Cardinality(Recoveries(k)') + Stands(k)'

Paid(k, w) ==
    /\ w \in Owing(k) /\ Owing(k)' = Owing(k) \ {w}
    /\ LeftAlone(k)

\* A step that makes no worker owe more and settles nothing.
LEMMA LessOwing ==
    ASSUME TypeInv, LogsFinite, NEW k \in Keys, Owing(k)' \subseteq Owing(k),
           LeftAlone(k) \/ Reopened(k)
    PROVE  Balanced(k)
  <1>1. Cardinality(Owing(k)') <= Cardinality(Owing(k)) /\ Cardinality(Owing(k)') \in Nat
    BY OwingFinite, FS_Subset, FS_CardinalityType
  <1> QED BY <1>1, OwingFinite, RecoveriesFinite, StandsSteps DEF Balanced, Stands

\* An attempt that starts makes its worker owe an effect, and the record stand for one.
LEMMA StartBalanced ==
    ASSUME TypeInv, LogsFinite, NEW k \in Keys, NEW w \in Workers, Start(w)
    PROVE  Balanced(k)
  <1>1. CASE pc'[w] = "effect" /\ key[w] = k
    <2>1. Owing(k)' = Owing(k) \cup {w} /\ w \notin Owing(k)
      BY <1>1 DEF Start, Goto, Owing, Recording, TypeInv, TypeOK
    <2>2. Cardinality(Owing(k)') = Cardinality(Owing(k)) + 1
      BY <2>1, OwingFinite, FS_AddElement
    <2>3. Attempted(k)
      BY <1>1, StartShape
    <2> QED BY <2>2, <2>3, OwingFinite, RecoveriesFinite, StandsSteps DEF Balanced
  <1>2. CASE ~(pc'[w] = "effect" /\ key[w] = k)
    <2>1. Owing(k)' \subseteq Owing(k)
      BY <1>2 DEF Start, Goto, Owing, Recording, TypeInv, TypeOK
    <2>2. LeftAlone(k)
      BY <1>2 DEF Start, Goto, LeftAlone, TypeInv, TypeOK
    <2> QED BY <2>1, <2>2, LessOwing
  <1> QED BY <1>1, <1>2

\* A call that does not go well leaves its worker owing.
LEMMA FireBalanced ==
    ASSUME TypeInv, LogsFinite, NEW k \in Keys, NEW w \in Workers, NEW c \in EffectClasses,
           Fire(w, c)
    PROVE  IF key[w] = k /\ c \in Good THEN Paid(k, w) ELSE Balanced(k)
  <1>1. /\ pc[w] = "effect" /\ key' = key /\ LeftAlone(k)
        /\ pc' = [pc EXCEPT ![w] = "record"] /\ result' = [result EXCEPT ![w] = c]
    BY DEF Fire, Goto, durable, LeftAlone
  <1>2. CASE key[w] = k /\ c \in Good
    BY <1>1, <1>2 DEF Paid, Owing, Recording, TypeInv, TypeOK
  <1>3. CASE ~(key[w] = k /\ c \in Good)
    <2>1. Owing(k)' \subseteq Owing(k)
      BY <1>1, <1>3 DEF Owing, Recording, TypeInv, TypeOK
    <2> QED BY <1>1, <1>3, <2>1, LessOwing
  <1> QED BY <1>2, <1>3

\* A failure that is recorded clears worker and record; a recovery is entered in the log.
LEMMA SettleBalanced ==
    ASSUME TypeInv, FinalInv, LogsFinite, NEW k \in Keys, NEW w \in Workers,
           Interrupt(w) \/ RecordWrite(w)
    PROVE  Balanced(k)
  <1>1. /\ key' = key /\ result' = result /\ pc'[w] \notin Recording \cup {"effect"}
        /\ \A v \in Workers \ {w} : pc'[v] = pc[v]
        /\ pc[w] \in Settling
    BY DEF Interrupt, RecordWrite, Goto, Raise, Return, Recording, Settling, TypeInv, TypeOK
  <1>2. Owing(k)' = Owing(k) \ {w}
    BY <1>1 DEF Owing
  <1>3. CASE UNCHANGED durable
    BY <1>2, <1>3, LessOwing DEF durable, LeftAlone
  <1>4. ASSUME NEW c, Settle(w, c), c = IF pc[w] = "interrupt" THEN "interrupted" ELSE result[w]
        PROVE  Balanced(k)
    <2>1. CASE key[w] # k
      <3>1. LeftAlone(k)
        BY <1>1, <1>4, <2>1, SettleShape
      <3> QED BY <1>2, <3>1, LessOwing
    <2>2. CASE key[w] = k
      <3>1. Settled(k, c)
        BY <1>1, <1>4, <2>2, SettleShape
      <3>2. CASE pc[w] = "interrupt"
        <4>1. c = "interrupted" /\ Owing(k)' = Owing(k)
          BY <1>2, <1>4, <3>2 DEF Owing, Recording
        <4>2. c \notin Good
          BY <4>1 DEF Good
        <4> QED BY <3>1, <4>1, <4>2, SettledStands, OwingFinite, RecoveriesFinite DEF Balanced
      <3>3. CASE pc[w] = "write"
        <4>1. c = result[w] /\ c # "interrupted"
          BY <1>4, <3>3 DEF TypeInv, WorkersOK, EffectClasses
        <4>2. CASE c \in Good
          <5>1. Owing(k)' = Owing(k)
            BY <1>2, <3>3, <4>1, <4>2 DEF Owing
          <5> QED BY <3>1, <4>1, <4>2, <5>1, SettledStands, OwingFinite, RecoveriesFinite
                  DEF Balanced
        <4>3. CASE c \notin Good
          <5>1. w \in Owing(k)
            BY <2>2, <3>3, <4>1, <4>3 DEF Owing, Recording
          <5>2. Cardinality(Owing(k)') = Cardinality(Owing(k)) - 1
            BY <1>2, <5>1, OwingFinite, FS_RemoveElement
          <5> QED BY <3>1, <4>1, <4>3, <5>2, SettledStands, OwingFinite, RecoveriesFinite
                  DEF Balanced
        <4> QED BY <4>2, <4>3
      <3> QED BY <1>1, <3>2, <3>3 DEF Settling
    <2> QED BY <2>1, <2>2
  <1> QED BY <1>3, <1>4 DEF Interrupt, RecordWrite, SettleRefused

\* The books balance through every step but a call that goes well.
LEMMA BooksStep ==
    ASSUME TypeInv, FinalInv, LogsFinite, [Next]_gateVars, NEW k \in Keys
    PROVE  \/ Balanced(k)
           \/ \E w \in Workers, c \in Good : Fire(w, c) /\ key[w] = k /\ Paid(k, w)
  <1>1. ASSUME NEW w \in Workers, NEW j \in Keys, Execute(w, j)
        PROVE  Balanced(k)
    <2>1. Owing(k)' \subseteq Owing(k)
      BY <1>1 DEF Execute, Continue, Return, Goto, Owing, Recording, TypeInv, TypeOK
    <2>2. LeftAlone(k)
      BY <1>1 DEF Execute, LeftAlone, TypeInv, TypeOK
    <2> QED BY <2>1, <2>2, LessOwing
  <1>2. ASSUME NEW w \in Workers,
               RecoverRead(w) \/ Recovered(w) \/ RecordRead(w) \/ ReadBack(w)
        PROVE  Balanced(k)
    <2>1. Owing(k)' \subseteq Owing(k)
      BY <1>2 DEF RecoverRead, Recovered, RecordRead, ReadBack, Continue, Return, Raise, Goto,
                  Owing, Recording, TypeInv, TypeOK
    <2>2. LeftAlone(k)
      BY <1>2 DEF RecoverRead, Recovered, RecordRead, ReadBack, durable, LeftAlone
    <2> QED BY <2>1, <2>2, LessOwing
  <1>3. ASSUME NEW w \in Workers, NEW c \in EffectClasses, Fire(w, c)
        PROVE  Balanced(k) \/ (c \in Good /\ Fire(w, c) /\ key[w] = k /\ Paid(k, w))
    BY <1>3, FireBalanced
  <1>4. CASE Replay
    <2>1. PICK o \in Operators, j \in Keys : ReplayCheck(o, j) \/ ReplayWrite(o, j)
      BY <1>4 DEF Replay
    <2>2. Owing(k)' \subseteq Owing(k)
      BY <2>1 DEF ReplayCheck, ReplayWrite, locals, Owing
    <2>3. LeftAlone(k) \/ Reopened(k)
      BY <2>1 DEF ReplayCheck, ReplayWrite, durable, LeftAlone, Reopened, FinalInv, ReplayInv,
                  TypeInv, TypeOK
    <2> QED BY <2>2, <2>3, LessOwing
  <1>5. CASE Crash \/ UNCHANGED gateVars
    <2>1. Owing(k)' \subseteq Owing(k)
      BY <1>5 DEF Crash, gateVars, Owing, Recording
    <2>2. LeftAlone(k)
      BY <1>5 DEF Crash, durable, gateVars, LeftAlone
    <2> QED BY <2>1, <2>2, LessOwing
  <1> QED BY <1>1, <1>2, <1>3, <1>4, <1>5, StartBalanced, SettleBalanced DEF Next, Proceed

-----------------------------------------------------------------------------
\* Whoever was told that the budget has run out was told so by the record.
DeadOutcomes ==
    \A w \in Workers : out[w] = "dead_letter" => key[w] \in Keys /\ WasDead(key[w])

\* Every step keeps it: WasDead never becomes false again.
LEMMA DeadOutcomesStep ==
    ASSUME TypeInv, FinalInv, DeadOutcomes, [Next]_gateVars
    PROVE  DeadOutcomes'
  <1>1. ASSUME NEW w \in Workers, (\E k \in Keys : Execute(w, k)) \/ Proceed(w)
        PROVE  DeadOutcomes'
    <2>1. /\ \A v \in Workers \ {w} : out'[v] = out[v] /\ key'[v] = key[v]
          /\ key'[w] \in Keys
          /\ out'[w] \notin {"none", "raised"} => row'[key'[w]].state = out'[w]
      BY <1>1, ReturnsTheRow
    <2>2. out'[w] = "dead_letter" => WasDead(key[w])'
      BY <2>1 DEF WasDead
    <2>3. ASSUME NEW v \in Workers \ {w}, out'[v] = "dead_letter"
          PROVE  key'[v] \in Keys /\ WasDead(key[v])'
      <3>1. PICK k \in Keys : k = key[v] /\ WasDead(k) /\ key'[v] = k
        BY <2>1, <2>3 DEF DeadOutcomes
      <3>2. WasDead(k)'
        BY <3>1, WasDeadStands
      <3> QED BY <3>1, <3>2 DEF WasDead
    <2> QED BY <2>1, <2>2, <2>3 DEF DeadOutcomes, WasDead
  <1>2. CASE Replay \/ UNCHANGED gateVars
    <2>1. out' = out /\ key' = key
      BY <1>2 DEF Replay, ReplayCheck, ReplayWrite, locals, gateVars
    <2>2. \A k \in Keys : WasDead(k) => WasDead(k)'
      BY WasDeadStands
    <2> QED BY <2>1, <2>2 DEF DeadOutcomes, WasDead
  <1>3. CASE Crash
    BY <1>3 DEF Crash, DeadOutcomes
  <1> QED BY <1>1, <1>2, <1>3 DEF Next

\* It holds in every reachable state when at most one operator replays.
LEMMA DeadOutcomesInvariant ==
    ASSUME SingleOperator
    PROVE  Spec => []DeadOutcomes
  <1>1. Init => DeadOutcomes
    BY DEF Init, DeadOutcomes
  <1>2. TypeInv /\ FinalInv /\ DeadOutcomes /\ [Next]_gateVars => DeadOutcomes'
    BY DeadOutcomesStep
  <1> QED BY <1>1, <1>2, TypeInvariant, FinalInvariant, PTL DEF Spec

-----------------------------------------------------------------------------
\* What the comment at effects.py:167 takes for granted: nobody else is calling
\* execute while an attempt is recovered.
SingleWorker == \A v, w \in Workers : v = w

\* The attempt of a worker that is about to call the effect is the running one.
CallInv == \A w \in Workers : pc[w] = "effect" => row[key[w]].state = "running"

\* NoFireAfterSuccess, of one step.
QuietSuccess == \A k \in Keys : row[k].state \in SuccessStates => fires'[k] = fires[k]

\* Only the worker itself can end its attempt, and it calls the effect first.
LEMMA CallStep ==
    ASSUME SingleWorker, TypeInv, FinalInv, CallInv, [Next]_gateVars
    PROVE  CallInv'
  <1>1. ASSUME NEW w \in Workers, Start(w)
        PROVE  CallInv'
    <2>1. ASSUME NEW v \in Workers, pc'[v] = "effect"
          PROVE  row'[key'[v]].state = "running"
      <3>1. v = w /\ key' = key
        BY <1>1 DEF SingleWorker, Start
      <3>2. key[w] \in Keys /\ Attempted(key[w])
        BY <1>1, <2>1, <3>1, StartShape
      <3>3. row[key[w]] \in Row
        BY <3>2 DEF TypeInv, TypeOK
      <3> QED BY <3>1, <3>2, <3>3 DEF Attempted, Started, Row
    <2> QED BY <2>1 DEF CallInv
  <1>2. ASSUME NEW w \in Workers,
               \/ \E k \in Keys : Execute(w, k)
               \/ RecoverRead(w) \/ Interrupt(w) \/ Recovered(w) \/ RecordRead(w)
               \/ RecordWrite(w) \/ ReadBack(w) \/ \E c \in EffectClasses : Fire(w, c)
        PROVE  CallInv'
    <2>1. pc'[w] # "effect"
      BY <1>2 DEF Execute, RecoverRead, Interrupt, Recovered, RecordRead, RecordWrite, ReadBack,
                  Fire, Continue, Return, Raise, Goto, TypeInv, TypeOK
    <2> QED BY <2>1 DEF SingleWorker, CallInv
  <1>3. CASE Replay
    <2>1. PICK o \in Operators, k \in Keys : ReplayCheck(o, k) \/ ReplayWrite(o, k)
      BY <1>3 DEF Replay
    <2>2. pc' = pc /\ key' = key
      BY <2>1 DEF ReplayCheck, ReplayWrite, locals
    <2>3. row' = row \/ (row[k].state = "dead_letter" /\ \A j \in Keys \ {k} : row'[j] = row[j])
      BY <2>1 DEF ReplayCheck, ReplayWrite, durable, FinalInv, ReplayInv, TypeInv, TypeOK
    <2>4. \A w \in Workers : pc[w] = "effect" => key[w] \in Keys
      BY DEF TypeInv, WorkersOK
    <2> QED BY <2>2, <2>3, <2>4 DEF CallInv
  <1>4. CASE Crash
    BY <1>4 DEF Crash, CallInv
  <1>5. CASE UNCHANGED gateVars
    BY <1>5 DEF gateVars, CallInv
  <1> QED BY <1>1, <1>2, <1>3, <1>4, <1>5 DEF Next, Proceed

\* A call of the effect finds its key running, hence not delivered.
LEMMA QuietSteps ==
    ASSUME TypeInv, CallInv, [Next]_gateVars
    PROVE  QuietSuccess
  <1>1. ASSUME NEW w \in Workers, NEW c \in EffectClasses, Fire(w, c)
        PROVE  QuietSuccess
    <2>1. row[key[w]].state = "running" /\ fires' = [fires EXCEPT ![key[w]] = @ + 1]
      BY <1>1 DEF Fire, CallInv
    <2> QED BY <2>1 DEF QuietSuccess, SuccessStates, TypeInv, TypeOK
  <1>2. CASE fires' = fires
    BY <1>2 DEF QuietSuccess
  <1>3. fires' = fires \/ \E w \in Workers, c \in EffectClasses : Fire(w, c)
    BY DEF Next, Proceed, Execute, RecoverRead, Interrupt, Recovered, Start, RecordRead,
           RecordWrite, ReadBack, Replay, ReplayCheck, ReplayWrite, Crash, gateVars
  <1> QED BY <1>1, <1>2, <1>3

\* When one request at a time is handled and at most one operator replays, the effect of
\* a delivered key is never called again, however often the process died before
\* (effects.py:172-173).
THEOREM NoRefireTheorem ==
    ASSUME SingleWorker, SingleOperator
    PROVE  Spec => NoFireAfterSuccess
  <1>1. Init => CallInv
    BY DEF Init, CallInv
  <1>2. TypeInv /\ FinalInv /\ CallInv /\ [Next]_gateVars => CallInv'
    BY CallStep
  <1>3. TypeInv /\ CallInv /\ [Next]_gateVars => QuietSuccess
    BY QuietSteps
  <1>4. QuietSuccess => [\A k \in Keys : row[k].state \in SuccessStates => fires'[k] = fires[k]]_gateVars
    BY DEF QuietSuccess
  <1> QED BY <1>1, <1>2, <1>3, <1>4, TypeInvariant, FinalInvariant, PTL DEF Spec, NoFireAfterSuccess

\* The comment at effects.py:167 is true of one request at a time: the receipt of an
\* interrupted attempt is written by the one thread that could have been alive in it.
LEMMA RecoverySteps ==
    ASSUME SingleWorker, TypeInv, [Next]_gateVars, NEW k \in Keys,
           NEW e \in receipts'[k] \ receipts[k], e.class = "interrupted"
    PROVE  LiveOn(k) = {}
  <1>1. ASSUME NEW w \in Workers, Interrupt(w)
        PROVE  LiveOn(k) = {}
    BY <1>1 DEF Interrupt, LiveOn, SingleWorker
  <1>2. ASSUME NEW w \in Workers, RecordWrite(w)
        PROVE  FALSE
    <2>1. receipts' = [receipts EXCEPT ![key[w]] = @ \cup {ReceiptOf(seen[w], result[w])}]
      BY <1>2 DEF RecordWrite, Settle, SettleRefused, durable
    <2>2. e = ReceiptOf(seen[w], result[w])
      BY <2>1 DEF TypeInv, TypeOK
    <2>3. result[w] # "interrupted"
      BY <1>2 DEF RecordWrite, TypeInv, WorkersOK, EffectClasses
    <2> QED BY <2>2, <2>3 DEF ReceiptOf
  <1>3. CASE receipts' = receipts
    BY <1>3
  <1>4. receipts' = receipts \/ \E w \in Workers : Interrupt(w) \/ RecordWrite(w)
    BY DEF Next, Proceed, Execute, RecoverRead, Recovered, Start, Fire, RecordRead, ReadBack,
           Replay, ReplayCheck, ReplayWrite, Crash, durable, gateVars
  <1> QED BY <1>1, <1>2, <1>3, <1>4

\* So what gateway_recovers_live violates is a matter of concurrent requests alone: no
\* crash and no replay makes execute recover an attempt whose worker is alive.
THEOREM RecoveryTheorem ==
    ASSUME SingleWorker
    PROVE  Spec => RecoversOnlyTheDead
  <1>1. TypeInv /\ [Next]_gateVars
        => [\A k \in Keys :
              (\E e \in receipts'[k] \ receipts[k] : e.class = "interrupted") => LiveOn(k) = {}]_gateVars
    BY RecoverySteps
  <1> QED BY <1>1, TypeInvariant, PTL DEF Spec, RecoversOnlyTheDead
=============================================================================
