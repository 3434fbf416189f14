---------------------------- MODULE BriefApproval ----------------------------
(***************************************************************************)
(* BriefApprovalService.approve_and_submit                                 *)
(* (Services/brief_approval_service.py): an approved decision brief becomes*)
(* one paper order, and a row of brief_approvals links the two.            *)
(*                                                                         *)
(* submit_order is seen as its callers see it, through the promise of      *)
(* OrderLifecycle: an order is inserted, moves forward, is traded, and the *)
(* key of the brief is recorded last.  The call can raise after any of     *)
(* these steps, and what was committed stays.  PaperTrading shows that the *)
(* engine keeps this promise.                                              *)
(***************************************************************************)
EXTENDS Naturals, Sequences, FiniteSets

CONSTANTS
  Approvers,        \* processes that call approve_and_submit
  Briefs,           \* rows of decision_briefs, which are never updated
  ActionableBriefs, \* those with status SUCCESS
  MaxCalls,         \* bound on the calls of approve_and_submit
  MaxRaises,        \* bound on calls that raise, or die, after the gates
  MaxLinkFailures   \* bound on failed inserts into brief_approvals

ASSUME BriefAssumption ==
  /\ Briefs # {} /\ ActionableBriefs \subseteq Briefs
  /\ {MaxCalls, MaxRaises, MaxLinkFailures} \subseteq Nat

VARIABLES
  status, traded, completed,  \* the tables that submit_order writes
  links,                      \* brief_approvals
  call,                       \* what each process is doing
  origin, raced,              \* history: the brief each order was made for;
                              \* briefs of which two calls have overlapped
  calls, raises, link_failures

lifecycle == <<status, traded, completed>>
counts    == <<calls, raises, link_failures>>
history   == <<origin, raced>>
vars      == <<lifecycle, links, call, history, counts>>

\* decision-brief-<id> is the idempotency key: a key for each brief.
Engine == INSTANCE OrderLifecycle WITH Keys <- Briefs

Labels ==
  {"idle", "check", "gates", "insert", "NEW", "VALIDATED", "PENDING", "traded",
   "FILLED", "link"}

Idle == [pc |-> "idle", brief |-> CHOOSE b \in Briefs : TRUE, order |-> 0]

TypeOK ==
  /\ status \in Seq({"NEW", "VALIDATED", "PENDING", "FILLED"})
  /\ traded \subseteq DOMAIN status
  /\ completed \subseteq Briefs \X DOMAIN status
  /\ links \subseteq Briefs \X DOMAIN status
  /\ call \in [Approvers ->
       [pc : Labels, brief : Briefs, order : {0} \cup DOMAIN status]]
  /\ origin \in [DOMAIN status -> Briefs] /\ raced \subseteq Briefs

Init ==
  /\ Engine!Init
  /\ links = {}
  /\ call = [p \in Approvers |-> Idle]
  /\ origin = << >> /\ raced = {}
  /\ calls = 0 /\ raises = 0 /\ link_failures = 0

(***************************************************************************)
(* Helpers                                                                 *)
(***************************************************************************)
At(p, label) == call[p].pc = label

Goto(p, label) == call' = [call EXCEPT ![p].pc = label]

Return(p) == call' = [call EXCEPT ![p] = Idle]

Linked(b) == \E l \in links : l[1] = b

\* The key is not looked at.
KeyNeverUsed(b) == FALSE

KeyUsed(b) == \E c \in completed : c[1] = b

NewLink(p) == <<call[p].brief, call[p].order>>

(***************************************************************************)
(* approve_and_submit, up to the engine                                    *)
(***************************************************************************)
\* approved = TRUE; any other value is refused before anything is read.
Call(p, b) ==
  /\ At(p, "idle")
  /\ calls < MaxCalls
  /\ calls' = calls + 1
  /\ call' = [call EXCEPT ![p].pc = "check", ![p].brief = b]
  /\ raced' = IF \E q \in Approvers : ~At(q, "idle") /\ call[q].brief = b
              THEN raced \cup {b} ELSE raced
  /\ UNCHANGED <<lifecycle, links, origin, raises, link_failures>>

Check(p) ==
  /\ At(p, "check")
  /\ IF call[p].brief \in ActionableBriefs /\ ~Linked(call[p].brief)
     THEN Goto(p, "gates")
     ELSE Return(p)
  /\ UNCHANGED <<lifecycle, links, history, counts>>

(***************************************************************************)
(* submit_order                                                            *)
(***************************************************************************)
\* Of the gates, the one for the key is of interest.
PassGates(p) ==
  /\ At(p, "gates") /\ ~KeyUsed(call[p].brief)
  /\ Goto(p, "insert")
  /\ UNCHANGED <<lifecycle, links, history, counts>>

InsertOrder(p) ==
  /\ At(p, "insert")
  /\ Engine!Insert
  /\ call' = [call EXCEPT ![p].pc = "NEW", ![p].order = Len(status) + 1]
  /\ origin' = Append(origin, call[p].brief)
  /\ UNCHANGED <<raced, links, counts>>

\* The key is used, or another gate refuses the order.
RefusedByGate(p) ==
  /\ At(p, "gates")
  /\ Return(p)
  /\ UNCHANGED <<lifecycle, links, history, counts>>

EngineStep(p) ==
  LET o == call[p].order
  IN  /\ \/ At(p, "NEW") /\ Engine!Advance(o, "NEW", "VALIDATED")
                         /\ Goto(p, "VALIDATED")
         \/ At(p, "VALIDATED") /\ Engine!Advance(o, "VALIDATED", "PENDING")
                               /\ Goto(p, "PENDING")
         \/ At(p, "PENDING") /\ Engine!Trade(o) /\ Goto(p, "traded")
         \/ At(p, "traded") /\ Engine!Fill(o) /\ Goto(p, "FILLED")
         \/ At(p, "FILLED") /\ Engine!Complete(call[p].brief, o)
                            /\ Goto(p, "link")
      /\ UNCHANGED <<links, history, counts>>

\* The error is ignored and the trade returned.
ReturnTheTrade(p) == Goto(p, "link")

RaiseTheError(p) == Return(p)

\* Another call has recorded the key in the meantime.
RefuseKey(p) ==
  /\ At(p, "FILLED") /\ KeyUsed(call[p].brief)
  /\ RaiseTheError(p)
  /\ UNCHANGED <<lifecycle, links, history, counts>>

\* A service refuses, a statement fails, the process dies.
Raise(p) ==
  /\ call[p].pc \in Labels \ {"idle", "check", "gates"}
  /\ raises < MaxRaises
  /\ raises' = raises + 1
  /\ Return(p)
  /\ UNCHANGED <<lifecycle, links, history, calls, link_failures>>

(***************************************************************************)
(* The link; its failure is reported and nothing undone                    *)
(***************************************************************************)
\* The primary key admits one link for a brief.
CreateLink(p) ==
  /\ At(p, "link")
  /\ links' = IF Linked(call[p].brief) THEN links ELSE links \cup {NewLink(p)}
  /\ Return(p)
  /\ UNCHANGED <<lifecycle, history, counts>>

LinkFails(p) ==
  /\ At(p, "link")
  /\ link_failures < MaxLinkFailures
  /\ link_failures' = link_failures + 1
  /\ Return(p)
  /\ UNCHANGED <<lifecycle, links, history, calls, raises>>

Next ==
  \E p \in Approvers :
    \/ \E b \in Briefs : Call(p, b)
    \/ Check(p)
    \/ PassGates(p) \/ RefusedByGate(p)
    \/ InsertOrder(p) \/ EngineStep(p)
    \/ RefuseKey(p) \/ Raise(p)
    \/ CreateLink(p) \/ LinkFails(p)

Spec == Init /\ [][Next]_vars

(***************************************************************************)
(* Properties                                                              *)
(***************************************************************************)
TradedFor(b) == {o \in traded : origin[o] = b}

\* A link tells the truth: it names the one order that completed the request
\* of its brief, and that order is filled and traded, also when several calls
\* for a brief race and leave several traded orders.
LinkNamesTheOrder ==
  \A l \in links :
    /\ l \in completed
    /\ l[2] \in TradedFor(l[1]) /\ status[l[2]] = "FILLED"
    /\ \A c \in completed : c[1] = l[1] => c = l

\* Calls one after the other trade a brief again only after a call that raised
\* in the engine: a link that was not written is no reason.
SecondOrderNeedsRaise ==
  \A b \in Briefs \ raced : Cardinality(TradedFor(b)) <= 1 + raises

\* However calls race, raise and lose their links: what a brief is linked to is
\* its order, and what it has traded twice is explained by an overlap or a raise
\* (brief_approval_service.py:205-249).
BriefOrdersSound == LinkNamesTheOrder /\ SecondOrderNeedsRaise

\* "calling approve_and_submit twice for the same brief never submits a second
\* paper order": it does when the two calls overlap.
NeverASecondOrder == \A b \in Briefs : Cardinality(TradedFor(b)) <= 1
=============================================================================
