--------------------------- MODULE OrderLifecycle ---------------------------
(***************************************************************************)
(* What the order, trade and idempotency-key tables promise to those who   *)
(* read them, whoever writes them: an order moves forward through its      *)
(* statuses, is traded at most once and only while PENDING, is FILLED only *)
(* by its trade, and completes at most one request.  Nothing is undone.    *)
(***************************************************************************)
EXTENDS Naturals, Sequences

CONSTANT Keys

VARIABLES
  status,      \* the status of each order, by order id
  traded,      \* the orders with a row in trades
  completed    \* <<key, order>>: the rows of order_idempotency_keys

vars == <<status, traded, completed>>

Init == status = << >> /\ traded = {} /\ completed = {}

Insert ==
  /\ status' = Append(status, "NEW")
  /\ UNCHANGED <<traded, completed>>

Advance(o, from, to) ==
  /\ status[o] = from
  /\ status' = [status EXCEPT ![o] = to]
  /\ UNCHANGED <<traded, completed>>

Trade(o) ==
  /\ status[o] = "PENDING" /\ o \notin traded
  /\ traded' = traded \cup {o}
  /\ UNCHANGED <<status, completed>>

Fill(o) ==
  /\ o \in traded
  /\ Advance(o, "PENDING", "FILLED")

Complete(k, o) ==
  /\ status[o] = "FILLED"
  /\ \A c \in completed : c[1] # k /\ c[2] # o
  /\ completed' = completed \cup {<<k, o>>}
  /\ UNCHANGED <<status, traded>>

Next ==
  \/ Insert
  \/ \E o \in DOMAIN status :
       \/ Advance(o, "NEW", "VALIDATED")
       \/ Advance(o, "NEW", "REJECTED")
       \/ Advance(o, "VALIDATED", "PENDING")
       \/ Trade(o)
       \/ Fill(o)
       \/ \E k \in Keys : Complete(k, o)

Spec == Init /\ [][Next]_vars
=============================================================================
