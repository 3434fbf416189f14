------------------------------- MODULE Inbox -------------------------------
(***************************************************************************)
(* What the senders of Telegram commands are promised: the messages are    *)
(* handled in the order in which they arrived, and the server, which       *)
(* forgets what is acknowledged, is told only of messages handled before.  *)
(***************************************************************************)
EXTENDS Naturals

VARIABLES
  arrived,   \* messages are numbered from 1; the last one that arrived
  handled,   \* those that were handled, at least once
  acked      \* the last message the server has forgotten

vars == <<arrived, handled, acked>>

Init == arrived = 0 /\ handled = {} /\ acked = 0

Arrive == arrived' = arrived + 1 /\ UNCHANGED <<handled, acked>>

Handle(u) ==
  /\ 1 .. u - 1 \subseteq handled
  /\ handled' = handled \cup {u}
  /\ UNCHANGED <<arrived, acked>>

Acknowledge(u) ==
  /\ acked < u /\ 1 .. u \subseteq handled
  /\ acked' = u
  /\ UNCHANGED <<arrived, handled>>

Next == Arrive \/ \E u \in 1 .. arrived : Handle(u) \/ Acknowledge(u)

Spec == Init /\ [][Next]_vars
=============================================================================
