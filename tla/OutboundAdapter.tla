--------------------------- MODULE OutboundAdapter ---------------------------
(***************************************************************************)
(* support_desk/outbound.py: how OutboundHTTPAdapter.send ends, as the     *)
(* class effects.py gives the exception or result that reaches it.  A      *)
(* response is one of the kinds send tells apart; what the target did      *)
(* before it answered is a separate question, and the adapter cannot know  *)
(* it for the answers in Ambiguous.                                        *)
(***************************************************************************)

\* send gives up before it opens a connection: validate_destination or the
\* secret resolver refuses.
Unsent == {"missing_destination", "invalid_destination", "destination_not_allowlisted",
           "unsafe_destination", "destination_resolution_failed", "secret_resolution_error"}

\* Answers of a target that did nothing, and of one that did what was asked.
Refusals == {"rate_limit", "redirect_rejected", "client_error"}
Accepted == {"success", "conflict_already_applied"}

\* Ends of an exchange after which the target may have acted or not.  "dropped"
\* is an httpx exception send does not catch (a connection closed without an
\* answer), which execute normalizes to a failure nobody may retry.
Ambiguous == {"timeout", "network_error", "server_error", "malformed_response", "dropped"}

Answers == Unsent \cup Refusals \cup Accepted \cup Ambiguous

Retryable == {"timeout", "network_error", "server_error", "rate_limit"}

ClassOf(a) ==
    CASE a = "success"                  -> "success"
      [] a = "conflict_already_applied" -> "already_applied"
      [] a \in Retryable                -> "retryable"
      [] OTHER                          -> "terminal"

\* The number of times a target that honours the idempotency header may have
\* applied the request after answer a, when it had applied it n times before.
AppliedAfter(n, a) ==
    LET once == IF n = 0 THEN 1 ELSE n
    IN  CASE a = "success"                  -> IF n = 0 THEN {1} ELSE {}
          [] a = "conflict_already_applied" -> IF n = 0 THEN {} ELSE {n}
          [] a \in Ambiguous                -> {n, once}
          [] OTHER                          -> {n}
=============================================================================
