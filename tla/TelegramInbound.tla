--------------------------- MODULE TelegramInbound ---------------------------
(***************************************************************************)
(* TelegramInboundControlPlane.poll_once                                   *)
(* (Orchestration/telegram_inbound_control_plane.py): fetch the updates    *)
(* above the durable offset, and for each one in order check the sender,   *)
(* execute the command, reply, write an audit row and move the offset.     *)
(*                                                                         *)
(* A poller is one run of the command line; it can die between any two     *)
(* steps, and nothing keeps two of them from polling at the same time.     *)
(***************************************************************************)
EXTENDS Naturals, Sequences, FiniteSetsExt

CONSTANTS
  Pollers,
  Kind,         \* what each of the updates to come is
  BatchSize,    \* external: the most updates that getUpdates returns
  MaxFailures,  \* bound on statements and requests that fail
  MaxCrashes    \* bound on pollers that die

Updates == DOMAIN Kind

Kinds == {"command", "unknown", "unauthorized", "no text"}

ASSUME InboundAssumption ==
  /\ Kind \in Seq(Kinds)
  /\ BatchSize \in Nat \ {0}
  /\ {MaxFailures, MaxCrashes} \subseteq Nat

VARIABLES
  arrived, confirmed, \* external: the server keeps confirmed + 1 .. arrived
  offset,             \* telegram_inbound_state.last_update_id, 0 if no row
  audit,              \* telegram_command_audit: <<update, status>>
  poller,             \* what each process is doing
  failures, crashes,
  \* history, read by no action:
  executed, replied,  \* how often each update was executed, those replied to
  handled             \* updates that _process_update returned from

bounds  == <<failures, crashes>>
history == <<executed, replied, handled>>
vars    == <<arrived, confirmed, offset, audit, poller, bounds, history>>

Statuses ==
  {"EXECUTED", "EXECUTED_REPLY_FAILED", "REJECTED_UNAUTHORIZED",
   "UNKNOWN_COMMAND", "ERROR"}

Labels ==
  {"idle", "fetch", "next", "process", "reply", "audit", "audit error", "get",
   "insert", "update"}

Idle == [pc |-> "idle", mark |-> 0, batch |-> {}, status |-> ""]

TypeOK ==
  /\ arrived \in {0} \cup Updates /\ confirmed \in 0 .. arrived
  /\ offset \in 0 .. arrived
  /\ audit \subseteq Updates \X Statuses
  /\ poller \in [Pollers ->
       [pc : Labels, mark : 0 .. arrived, batch : SUBSET (1 .. arrived),
        status : Statuses \cup {""}]]
  /\ \A p \in Pollers :
       poller[p].pc \notin {"idle", "fetch", "next"} => poller[p].batch # {}
  /\ executed \in [Updates -> Nat] /\ replied \subseteq Updates
  /\ handled \subseteq Updates

Init ==
  /\ arrived = 0 /\ confirmed = 0 /\ offset = 0 /\ audit = {}
  /\ poller = [p \in Pollers |-> Idle]
  /\ failures = 0 /\ crashes = 0
  /\ executed = [u \in Updates |-> 0] /\ replied = {} /\ handled = {}

(***************************************************************************)
(* Helpers                                                                 *)
(***************************************************************************)
At(p, label) == poller[p].pc = label

Goto(p, label) == poller' = [poller EXCEPT ![p].pc = label]

Stop(p) == poller' = [poller EXCEPT ![p] = Idle]

\* The update at hand: batches are sorted.
Current(p) == Min(poller[p].batch)

WithStatus(p, label, status) ==
  poller' = [poller EXCEPT ![p].pc = label, ![p].status = status]

\* The update is done with, and its offset comes next.
Processed(p) ==
  /\ Goto(p, "get")
  /\ handled' = handled \cup {Current(p)}
  /\ UNCHANGED <<executed, replied>>

\* A statement or a request that does not work.
OneFails ==
  /\ failures < MaxFailures
  /\ failures' = failures + 1
  /\ UNCHANGED crashes

(***************************************************************************)
(* The server                                                              *)
(***************************************************************************)
Arrive ==
  /\ arrived + 1 \in Updates
  /\ arrived' = arrived + 1
  /\ UNCHANGED <<confirmed, offset, audit, poller, bounds, history>>

\* A request with an offset confirms all updates before it.
Confirm(mark) == confirmed' = Max({confirmed, mark})

\* The earliest unconfirmed updates, and perhaps one that was confirmed a
\* moment ago.
Batches ==
  LET kept == {u \in confirmed' + 1 .. arrived : u <= confirmed' + BatchSize}
  IN  {kept} \cup (IF confirmed' > 0 THEN {kept \cup {confirmed'}} ELSE {})

(***************************************************************************)
(* poll_once                                                               *)
(***************************************************************************)
ReadOffset(p) ==
  /\ At(p, "idle")
  /\ poller' = [poller EXCEPT ![p].pc = "fetch", ![p].mark = offset]
  /\ UNCHANGED <<arrived, confirmed, offset, audit, bounds, history>>

Fetch(p) ==
  /\ At(p, "fetch")
  /\ Confirm(poller[p].mark)
  /\ \E batch \in Batches :
       poller' = [poller EXCEPT ![p].pc = "next", ![p].batch = batch]
  /\ UNCHANGED <<arrived, offset, audit, bounds, history>>

\* The request, or the response to it, is lost.
FetchFails(p) ==
  /\ At(p, "fetch")
  /\ Confirm(poller[p].mark) \/ UNCHANGED confirmed
  /\ OneFails
  /\ Stop(p)
  /\ UNCHANGED <<arrived, offset, audit, history>>

\* What was fetched is taken to be new.
NeverDuplicate(p) == FALSE

Duplicate(p) == Current(p) <= poller[p].mark

NextUpdate(p) ==
  /\ At(p, "next")
  /\ IF poller[p].batch = {} THEN Stop(p)
     ELSE IF Duplicate(p)
     THEN poller' = [poller EXCEPT ![p].batch = @ \ {Current(p)}]
     ELSE Goto(p, "process")
  /\ UNCHANGED <<arrived, confirmed, offset, audit, bounds, history>>

(***************************************************************************)
(* _process_update                                                         *)
(***************************************************************************)
SkipNoText(p) ==
  /\ At(p, "process") /\ Kind[Current(p)] = "no text"
  /\ Processed(p)
  /\ UNCHANGED <<arrived, confirmed, offset, audit, bounds>>

\* A sender who is not on the list is audited and gets no reply; a message
\* that is no command gets one.
Refuse(p) ==
  /\ At(p, "process")
  /\ \/ Kind[Current(p)] = "unauthorized"
        /\ WithStatus(p, "audit", "REJECTED_UNAUTHORIZED")
     \/ Kind[Current(p)] = "unknown" /\ WithStatus(p, "reply", "UNKNOWN_COMMAND")
  /\ UNCHANGED <<arrived, confirmed, offset, audit, bounds, history>>

\* TelegramCommandExecutor.execute turns an exception into an outcome.
Execute(p) ==
  /\ At(p, "process") /\ Kind[Current(p)] = "command"
  /\ executed' = [executed EXCEPT ![Current(p)] = @ + 1]
  /\ \/ WithStatus(p, "reply", "EXECUTED") /\ UNCHANGED bounds
     \/ WithStatus(p, "reply", "ERROR") /\ OneFails
  /\ UNCHANGED <<arrived, confirmed, offset, audit, replied, handled>>

Reply(p) ==
  /\ At(p, "reply")
  /\ replied' = replied \cup {Current(p)}
  /\ Goto(p, "audit")
  /\ UNCHANGED <<arrived, confirmed, offset, audit, bounds, executed, handled>>

\* The reply that did not get through is not mentioned.
StatusAsExecuted(status) == status

StatusWithoutReply(status) ==
  IF status = "EXECUTED" THEN "EXECUTED_REPLY_FAILED" ELSE status

ReplyFails(p) ==
  /\ At(p, "reply")
  /\ OneFails
  /\ WithStatus(p, "audit", StatusWithoutReply(poller[p].status))
  /\ UNCHANGED <<arrived, confirmed, offset, audit, history>>

Audit(p) ==
  /\ At(p, "audit")
  /\ audit' = audit \cup {<<Current(p), poller[p].status>>}
  /\ Processed(p)
  /\ UNCHANGED <<arrived, confirmed, offset, bounds>>

\* The exception leads to an audit row of its own.
AuditInstead(p) == Goto(p, "audit error") /\ UNCHANGED history

AuditFails(p) ==
  /\ At(p, "audit")
  /\ OneFails
  /\ AuditInstead(p)
  /\ UNCHANGED <<arrived, confirmed, offset, audit>>

\* When that row cannot be written either there is none.
AuditError(p) ==
  /\ At(p, "audit error")
  /\ \/ audit' = audit \cup {<<Current(p), "ERROR">>} /\ UNCHANGED bounds
     \/ OneFails /\ UNCHANGED audit
  /\ Processed(p)
  /\ UNCHANGED <<arrived, confirmed, offset>>

(***************************************************************************)
(* set_last_update_id                                                      *)
(***************************************************************************)
GetState(p) ==
  /\ At(p, "get")
  /\ Goto(p, IF offset = 0 THEN "insert" ELSE "update")
  /\ UNCHANGED <<arrived, confirmed, offset, audit, bounds, history>>

\* The whole batch is acknowledged with its first update.
SavedOffsetOfBatch(p) == Max(poller[p].batch)

SavedOffset(p) == Current(p)

\* The insert fails when another poller has inserted the row in between; an
\* error here ends the poll.
SetLastUpdateId(p) ==
  /\ poller[p].pc \in {"insert", "update"}
  /\ IF At(p, "insert") /\ offset # 0
     THEN Stop(p) /\ UNCHANGED offset
     ELSE /\ offset' = SavedOffset(p)
          /\ poller' = [poller EXCEPT ![p] =
               [Idle EXCEPT !.pc = "next", !.mark = Current(p),
                            !.batch = poller[p].batch \ {Current(p)}]]
  /\ UNCHANGED <<arrived, confirmed, audit, bounds, history>>

SetLastUpdateIdFails(p) ==
  /\ poller[p].pc \in {"get", "insert", "update"}
  /\ OneFails
  /\ Stop(p)
  /\ UNCHANGED <<arrived, confirmed, offset, audit, history>>

Crash(p) ==
  /\ ~At(p, "idle")
  /\ crashes < MaxCrashes
  /\ crashes' = crashes + 1
  /\ Stop(p)
  /\ UNCHANGED <<arrived, confirmed, offset, audit, failures, history>>

Step(p) ==
  \/ ReadOffset(p) \/ Fetch(p) \/ NextUpdate(p)
  \/ SkipNoText(p) \/ Refuse(p) \/ Execute(p) \/ Reply(p)
  \/ Audit(p) \/ AuditError(p) \/ GetState(p) \/ SetLastUpdateId(p)

Next ==
  \/ Arrive
  \/ \E p \in Pollers :
       \/ Step(p)
       \/ FetchFails(p) \/ ReplyFails(p) \/ AuditFails(p)
       \/ SetLastUpdateIdFails(p) \/ Crash(p)

Spec == Init /\ [][Next]_vars

\* Somebody keeps polling, and a poll that neither dies nor fails goes on.
FairSpec == Spec /\ \A p \in Pollers : WF_vars(Step(p))

(***************************************************************************)
(* Properties                                                              *)
(***************************************************************************)
Promise == INSTANCE Inbox WITH acked <- confirmed

\* No update is lost or overtaken, whoever dies, fails or polls at the same
\* time: updates are handled in order, and the server is never told of one
\* that was not handled.
ImplementsInbox == Promise!Spec

\* Nothing that arrived stays unhandled while somebody polls.
EveryUpdateHandled == \A u \in Updates : arrived >= u ~> u \in handled

\* With one poller at a time a command runs again only after the poller died,
\* or a statement failed, before the offset was written.
RepeatsAreCrashes == \A u \in Updates : executed[u] <= 1 + crashes + failures

\* The audit log does not claim more than happened: a row EXECUTED stands for
\* a command that ran and whose reply was sent, and a sender who is rejected in
\* one row is executed and replied to in none.
AuditTellsTruth ==
  \A u \in Updates :
    /\ <<u, "EXECUTED">> \in audit => executed[u] > 0 /\ u \in replied
    /\ <<u, "EXECUTED_REPLY_FAILED">> \in audit => executed[u] > 0
    /\ <<u, "REJECTED_UNAUTHORIZED">> \in audit =>
         executed[u] = 0 /\ u \notin replied

\* Every message that was handled is in the audit log, unless the log failed
\* twice for it.
UnauditedNeedsTwoFailures ==
  \A u \in handled :
    Kind[u] # "no text" /\ failures < 2 => \E s \in Statuses : <<u, s>> \in audit

\* The audit log says what happened, and of every message.
AuditIsComplete == TypeOK /\ AuditTellsTruth /\ UnauditedNeedsTwoFailures

\* Nothing runs again without cause, and all of it is on record.
PollSound == RepeatsAreCrashes /\ AuditIsComplete
=============================================================================
