------------------------- MODULE NotificationDedup -------------------------
(***************************************************************************)
(* NotificationDedupPolicy.evaluate (Business/notification_dedup_policy.py)*)
(* and the row of notification_dedup_state it decides from: is an alert    *)
(* sent now, or suppressed because nothing changed or because the last one *)
(* is too recent.                                                          *)
(***************************************************************************)
EXTENDS Integers

CONSTANT MinInterval    \* min_interval_seconds; 0 switches the limit off

ASSUME DedupAssumption == MinInterval \in Nat

\* An alert channel that has never been written has no row.
NoState == [last_signature |-> "", last_sent_at |-> 0, last_status |-> ""]

\* Without the rate limit.
DecisionOnChangeOnly(state, new_signature, now) ==
  IF new_signature = state.last_signature THEN "SUPPRESS_NO_CHANGE" ELSE "SEND"

\* The signature and the time are those of the last alert sent; both are ""
\* and 0 until one has been.
evaluate(state, new_signature, now) ==
  CASE state.last_signature = "" -> "SEND"
    [] new_signature = state.last_signature -> "SUPPRESS_NO_CHANGE"
    [] OTHER -> IF now - state.last_sent_at < MinInterval
                THEN "SUPPRESS_RATE_LIMITED" ELSE "SEND"
=============================================================================
