---------------------------- MODULE DeliveryStore ----------------------------
(***************************************************************************)
(* The rows DeliveryGuard (src/vendor, a packaged wheel) keeps for Relay:  *)
(* one delivery_actions row per idempotency key and an append-only log of  *)
(* delivery_attempts receipts, as support_desk/effects.py uses them.       *)
(*                                                                         *)
(* Every public method of the store opens its own connection and commits   *)
(* before it returns, but record_success, record_failure,                  *)
(* recover_interrupted and replay read the row OUTSIDE the transaction     *)
(* that writes it.  The operators below are therefore split the same way:  *)
(* what is decided from the row that was read, and what the transaction    *)
(* does to the row it finds.  EffectGateway places the steps in between.   *)
(***************************************************************************)
EXTENDS Naturals

CONSTANT MaxAttempts        \* SUPPORT_MAX_ACTION_ATTEMPTS, kept in every row

ASSUME MaxAttemptsAssumption == MaxAttempts \in Nat \ {0}

SuccessStates   == {"delivered", "already_applied"}
TerminalStates  == SuccessStates \cup {"dead_letter"}
StartableStates == {"pending", "retrying"}

\* "absent" is a key that was never registered.
RowStates == {"absent", "running"} \cup StartableStates \cup TerminalStates

\* What an effect call ends with; "interrupted" is the receipt written for a
\* worker that is presumed dead.
EffectClasses  == {"success", "already_applied", "retryable", "terminal"}
ReceiptClasses == EffectClasses \cup {"interrupted"}

Row     == [state: RowStates, attempts: 0 .. MaxAttempts, cycle: Nat \ {0}]
Receipt == [cycle: Nat \ {0}, attempt: 0 .. MaxAttempts, class: ReceiptClasses]

NoRow == [state |-> "absent", attempts |-> 0, cycle |-> 1]

\* register: insert a pending row, or find the row the key already has.
Registered(r) == IF r.state = "absent" THEN [r EXCEPT !.state = "pending"] ELSE r

\* start_attempt, one BEGIN IMMEDIATE transaction.
MayStart(r) == r.state \in StartableStates /\ r.attempts < MaxAttempts
Started(r)  == [state |-> "running", attempts |-> r.attempts + 1, cycle |-> r.cycle]

\* UNIQUE(action_id, cycle, cycle_attempt) of delivery_attempts.
Receipted(log, r) == \E e \in log : e.cycle = r.cycle /\ e.attempt = r.attempts
ReceiptOf(r, c)   == [cycle |-> r.cycle, attempt |-> r.attempts, class |-> c]

\* The state record_success, record_failure and recover_interrupted decide from
\* the row r they read.
SettledState(r, c) ==
    CASE c = "success"         -> "delivered"
      [] c = "already_applied" -> "already_applied"
      [] c = "terminal"        -> "dead_letter"
      [] OTHER -> IF r.attempts >= MaxAttempts THEN "dead_letter" ELSE "retrying"

\* replay's UPDATE, which does not test the state again.
Replayed(r) == [state |-> "pending", attempts |-> 0, cycle |-> r.cycle + 1]
=============================================================================
