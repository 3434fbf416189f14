------------------------ MODULE TelegramInboundProofs ------------------------
(***************************************************************************)
(* Updates are handled in order and never lost, whatever the number of     *)
(* pollers, failures and crashes; the audit log is complete and truthful;  *)
(* and with one poller nothing runs again without cause.                   *)
(***************************************************************************)
EXTENDS TelegramInbound, WellFoundedInduction, TLAPS

LEMMA Least ==
  ASSUME NEW T \in SUBSET Nat, T # {}
  PROVE  Min(T) \in T /\ \A x \in T : Min(T) <= x
<1> DEFINE R == {ss \in Nat \X Nat : ss[1] < ss[2]}
<1>1. IsWellFoundedOn(OpToRel(<, Nat), Nat)
  BY NatLessThanWellFounded, Zenon
<1>2. IsWellFoundedOn(R, Nat)
  BY <1>1, Zenon DEF OpToRel
<1>3. \A x, y \in Nat : x < y => <<x, y>> \in R
  OBVIOUS
<1> HIDE DEF R
<1>4. PICK x \in T : \A y \in T : ~(<<y, x>> \in R)
  BY <1>2, WFMin
<1>5. \A y \in T : x <= y
  <2>1. \A y \in T : x \in Nat /\ y \in Nat /\ ~(y < x)
    BY <1>3, <1>4
  <2>2. QED
    BY <2>1
<1>6. QED
  BY <1>5 DEF Min

LEMMA MaxOfTwo ==
  ASSUME NEW m \in Nat, NEW n \in Nat
  PROVE  /\ Max({m, n}) \in {m, n}
         /\ Max({m, n}) >= m /\ Max({m, n}) >= n
<1>1. \E x \in {m, n} : \A y \in {m, n} : x >= y
  BY DEF Max
<1>2. QED
  BY <1>1 DEF Max

(***************************************************************************)
(* Types                                                                   *)
(***************************************************************************)
PollerType(n) ==
  [pc : Labels, mark : 0 .. n, batch : SUBSET (1 .. n),
   status : Statuses \cup {""}]

HasCurrent(p) == poller[p].pc \notin {"idle", "fetch", "next"}

LEMMA ArrivedType ==
  ASSUME TypeOK
  PROVE  /\ arrived \in Nat /\ 1 .. arrived \subseteq Updates
         /\ confirmed \in Nat /\ offset \in Nat
         /\ poller \in [Pollers -> PollerType(arrived)]
<1>1. Updates = 1 .. Len(Kind) /\ Len(Kind) \in Nat
  BY InboundAssumption DEF Updates
<1>2. arrived \in Nat /\ 1 .. arrived \subseteq Updates
  <2>1. arrived \in {0} \cup Updates
    BY DEF TypeOK
  <2>2. arrived = 0 \/ arrived \in 1 .. Len(Kind)
    BY <1>1, <2>1
  <2>3. QED
    BY <1>1, <2>2
<1>3. poller \in [Pollers -> PollerType(arrived)]
  BY DEF TypeOK, PollerType
<1>4. confirmed \in 0 .. arrived /\ offset \in 0 .. arrived
  BY DEF TypeOK
<1>5. QED
  BY <1>2, <1>3, <1>4

\* The update at hand is the first of the batch.
LEMMA CurrentType ==
  ASSUME TypeOK, NEW p \in Pollers, poller[p].batch # {}
  PROVE  /\ Current(p) \in poller[p].batch /\ Current(p) \in 1 .. arrived
         /\ Current(p) \in Updates /\ Current(p) \in Nat
         /\ \A u \in poller[p].batch : Current(p) <= u
<1>1. /\ poller[p].batch \in SUBSET (1 .. arrived)
      /\ 1 .. arrived \subseteq Updates
  BY ArrivedType DEF PollerType
<1>2. poller[p].batch \in SUBSET Nat
  BY <1>1
<1>3. /\ Current(p) \in poller[p].batch
      /\ \A u \in poller[p].batch : Current(p) <= u
  BY <1>2, Least DEF Current
<1>4. QED
  BY <1>1, <1>2, <1>3

\* A step of p moves p along and leaves its batch and the others alone.
Moves(p, labels) ==
  /\ poller'[p].pc \in labels
  /\ poller'[p].mark = poller[p].mark /\ poller'[p].batch = poller[p].batch
  /\ \A q \in Pollers \ {p} : poller'[q] = poller[q]
  /\ poller' \in [Pollers -> PollerType(arrived)]

LEMMA MovesWider ==
  ASSUME NEW p, NEW few, NEW labels, Moves(p, few), few \subseteq labels
  PROVE  Moves(p, labels)
BY DEF Moves

LEMMA GotoMoves ==
  ASSUME TypeOK, NEW p \in Pollers, NEW label \in Labels, Goto(p, label)
  PROVE  /\ Moves(p, {label}) /\ poller'[p].pc = label
         /\ poller'[p].status = poller[p].status
<1>1. poller \in [Pollers -> PollerType(arrived)]
  BY ArrivedType
<1>2. QED
  BY <1>1 DEF Goto, Moves, PollerType

LEMMA WithStatusMoves ==
  ASSUME TypeOK, NEW p \in Pollers, NEW label \in Labels,
         NEW status \in Statuses \cup {""}, WithStatus(p, label, status)
  PROVE  /\ Moves(p, {label}) /\ poller'[p].pc = label
         /\ poller'[p].status = status
<1>1. poller \in [Pollers -> PollerType(arrived)]
  BY ArrivedType
<1>2. QED
  BY <1>1 DEF WithStatus, Moves, PollerType

LEMMA CountedUp ==
  ASSUME NEW S, NEW f \in [S -> Nat], NEW x \in S, NEW g, g = [f EXCEPT ![x] = @ + 1]
  PROVE  /\ g \in [S -> Nat] /\ g[x] = f[x] + 1
         /\ \A y \in S \ {x} : g[y] = f[y]
OBVIOUS

LEMMA StopMoves ==
  ASSUME TypeOK, NEW p \in Pollers, Stop(p)
  PROVE  /\ poller'[p] = Idle /\ poller'[p].pc = "idle"
         /\ poller'[p].mark = 0 /\ poller'[p].batch = {}
         /\ \A q \in Pollers \ {p} : poller'[q] = poller[q]
         /\ poller' \in [Pollers -> PollerType(arrived)]
<1>1. poller \in [Pollers -> PollerType(arrived)] /\ arrived \in Nat
  BY ArrivedType
<1>2. Idle \in PollerType(arrived)
  <2>1. 0 \in 0 .. arrived /\ "idle" \in Labels
    BY <1>1 DEF Labels
  <2>2. QED
    BY <2>1 DEF Idle, PollerType
<1>3. poller' = [poller EXCEPT ![p] = Idle]
  BY DEF Stop
<1>4. Idle.pc = "idle" /\ Idle.mark = 0 /\ Idle.batch = {}
  BY DEF Idle
<1>5. QED
  BY <1>1, <1>2, <1>3, <1>4

(***************************************************************************)
(* Order: what a poller holds is the next that is to be handled            *)
(***************************************************************************)
Saving == {"get", "insert", "update"}

Handled(n) == 1 .. n \subseteq handled

OrderInv ==
  /\ Handled(confirmed) /\ Handled(offset)
  /\ \A p \in Pollers :
       /\ Handled(poller[p].mark)
       /\ \A u \in poller[p].batch : 1 .. u - 1 \subseteq handled \cup poller[p].batch
       /\ poller[p].pc \in Saving => Current(p) \in handled

LEMMA FirstIsNext ==
  ASSUME TypeOK, OrderInv, NEW p \in Pollers, poller[p].batch # {}
  PROVE  Handled(Current(p) - 1)
<1>1. /\ Current(p) \in poller[p].batch /\ Current(p) \in Nat
      /\ \A u \in poller[p].batch : Current(p) <= u
  BY CurrentType
<1>2. 1 .. Current(p) - 1 \subseteq handled \cup poller[p].batch
  BY <1>1 DEF OrderInv
<1>3. ASSUME NEW v \in 1 .. Current(p) - 1 PROVE v \notin poller[p].batch
  BY <1>1
<1>4. QED
  BY <1>2, <1>3 DEF Handled

\* The conjuncts of OrderInv that are about one poller.
InOrder(p) ==
  /\ Handled(poller[p].mark)
  /\ \A u \in poller[p].batch : 1 .. u - 1 \subseteq handled \cup poller[p].batch
  /\ poller[p].pc \in Saving => Current(p) \in handled

LEMMA PollerKeepsOrder ==
  ASSUME OrderInv, NEW p \in Pollers, InOrder(p)', handled \subseteq handled',
         \A q \in Pollers \ {p} : poller'[q] = poller[q],
         Handled(confirmed)', Handled(offset)'
  PROVE  OrderInv'
<1>1. \A q \in Pollers \ {p} : Current(q)' = Current(q)
  BY DEF Current
<1>2. QED
  BY <1>1 DEF OrderInv, InOrder, Handled

LEMMA MovesKeepOrder ==
  ASSUME TypeOK, OrderInv, NEW p \in Pollers, Moves(p, Labels),
         UNCHANGED <<confirmed, offset>>, handled \subseteq handled',
         poller'[p].pc \in Saving => Current(p) \in handled'
  PROVE  OrderInv'
<1>1. /\ poller'[p].mark = poller[p].mark /\ poller'[p].batch = poller[p].batch
      /\ \A q \in Pollers \ {p} : poller'[q] = poller[q]
  BY DEF Moves
<1>2. \A q \in Pollers : Current(q)' = Current(q)
  BY <1>1 DEF Current
<1>3. QED
  BY <1>1, <1>2 DEF OrderInv, Handled

(***************************************************************************)
(* The steps that work on the update at hand                               *)
(***************************************************************************)
Working(p) ==
  \/ SkipNoText(p) \/ Refuse(p) \/ Execute(p) \/ Reply(p) \/ ReplyFails(p)
  \/ Audit(p) \/ AuditFails(p) \/ AuditError(p) \/ GetState(p)

WorkLabels == {"process", "reply", "audit", "audit error"} \cup Saving

LEMMA WorkingFrame ==
  ASSUME TypeOK, NEW p \in Pollers, Working(p)
  PROVE  /\ HasCurrent(p) /\ poller[p].batch # {} /\ Current(p) \in Updates
         /\ UNCHANGED <<arrived, confirmed, offset>>
         /\ Moves(p, WorkLabels)
<1>1. poller[p].pc \in {"process", "reply", "audit", "audit error", "get"}
  BY DEF Working, SkipNoText, Refuse, Execute, Reply, ReplyFails, Audit, AuditFails,
         AuditError, GetState, At
<1>2. HasCurrent(p) /\ poller[p].batch # {}
  BY <1>1 DEF HasCurrent, TypeOK
<1>3. UNCHANGED <<arrived, confirmed, offset>>
  BY DEF Working, SkipNoText, Refuse, Execute, Reply, ReplyFails, Audit, AuditFails,
         AuditError, GetState
<1>4. StatusWithoutReply(poller[p].status) \in Statuses \cup {""}
  <2>1. poller[p].status \in Statuses \cup {""}
    BY ArrivedType DEF PollerType
  <2>2. QED
    BY <2>1 DEF StatusWithoutReply, Statuses
<1>5. \E label \in WorkLabels :
        \/ Goto(p, label)
        \/ \E status \in Statuses \cup {""} : WithStatus(p, label, status)
  BY <1>4
  DEF Working, SkipNoText, Refuse, Execute, Reply, ReplyFails, Audit, AuditFails,
      AuditError, GetState, Processed, AuditInstead, WorkLabels, Saving, Statuses
<1>6. PICK label \in WorkLabels : Moves(p, {label})
  <2>1. PICK label \in WorkLabels :
          \/ Goto(p, label)
          \/ \E status \in Statuses \cup {""} : WithStatus(p, label, status)
    BY <1>5
  <2>2. label \in Labels
    BY DEF WorkLabels, Saving, Labels
  <2>3. Moves(p, {label})
    BY <2>1, <2>2, GotoMoves, WithStatusMoves
  <2>4. QED
    BY <2>3
<1>7. Moves(p, WorkLabels)
  BY <1>6, MovesWider
<1>8. QED
  BY <1>2, <1>3, <1>7, CurrentType

LEMMA WorkingLabel ==
  ASSUME TypeOK, NEW p \in Pollers
  PROVE  /\ Processed(p) \/ GetState(p) => poller'[p].pc \in Saving
         /\ Refuse(p) => poller'[p].pc \in {"reply", "audit"}
         /\ Execute(p) => poller'[p].pc = "reply"
         /\ Reply(p) \/ ReplyFails(p) => poller'[p].pc = "audit"
         /\ AuditFails(p) => poller'[p].pc = "audit error"
<1>1. poller \in [Pollers -> PollerType(arrived)]
  BY ArrivedType
<1>2. \A label : Goto(p, label) => poller'[p].pc = label
  BY <1>1 DEF Goto, PollerType
<1>3. ASSUME NEW label, NEW status, WithStatus(p, label, status)
      PROVE  poller'[p].pc = label
  <2>1. poller[p] \in PollerType(arrived)
    BY <1>1
  <2>2. poller'[p] = [poller[p] EXCEPT !.pc = label, !.status = status]
    BY <1>1, <1>3 DEF WithStatus
  <2>3. QED
    BY <2>1, <2>2 DEF PollerType
<1>4. QED
  BY <1>2, <1>3
  DEF Processed, GetState, Refuse, Execute, Reply, ReplyFails, AuditFails,
      AuditInstead, Saving

LEMMA WorkingHandles ==
  ASSUME TypeOK, NEW p \in Pollers, Working(p)
  PROVE  /\ handled' \in {handled, handled \cup {Current(p)}}
         /\ poller'[p].pc \in Saving =>
              Current(p) \in handled' \/ poller[p].pc \in Saving
<1>1. CASE Processed(p)
  BY <1>1 DEF Processed
<1>2. CASE Refuse(p) \/ ReplyFails(p) \/ AuditFails(p) \/ Execute(p) \/ Reply(p)
  <2>1. poller'[p].pc \notin Saving
    BY <1>2, WorkingLabel DEF Saving
  <2>2. handled' = handled
    BY <1>2 DEF Refuse, ReplyFails, AuditFails, Execute, Reply, AuditInstead, history
  <2>3. QED
    BY <2>1, <2>2
<1>3. CASE GetState(p)
  BY <1>3 DEF GetState, At, Saving, history
<1>4. QED
  BY <1>1, <1>2, <1>3 DEF Working, SkipNoText, Audit, AuditError

(***************************************************************************)
(* The steps between the updates                                           *)
(***************************************************************************)
Stopping(p) == FetchFails(p) \/ SetLastUpdateIdFails(p) \/ Crash(p)

LEMMA ConfirmedMark ==
  ASSUME TypeOK, OrderInv, NEW p \in Pollers,
         Confirm(poller[p].mark) \/ UNCHANGED confirmed
  PROVE  /\ confirmed' \in 0 .. arrived /\ confirmed' >= confirmed
         /\ Handled(confirmed')
<1>1. /\ confirmed \in 0 .. arrived /\ arrived \in Nat
      /\ poller[p].mark \in 0 .. arrived
  BY ArrivedType DEF PollerType, TypeOK
<1>2. PICK mark : mark = poller[p].mark
  OBVIOUS
<1>3. Handled(confirmed) /\ Handled(mark)
  BY <1>2 DEF OrderInv
<1>4. CASE UNCHANGED confirmed
  BY <1>1, <1>3, <1>4
<1>5. CASE confirmed' = Max({confirmed, mark})
  <2>1. confirmed' \in {confirmed, mark} /\ confirmed' >= confirmed
    BY <1>1, <1>2, <1>5, MaxOfTwo
  <2>2. QED
    BY <1>1, <1>2, <1>3, <2>1
<1>6. QED
  BY <1>2, <1>4, <1>5 DEF Confirm

LEMMA BatchIsNext ==
  ASSUME TypeOK, OrderInv, NEW p \in Pollers, Confirm(poller[p].mark),
         NEW batch \in Batches
  PROVE  /\ batch \subseteq 1 .. arrived
         /\ \A u \in batch : 1 .. u - 1 \subseteq handled \cup batch
<1>1. confirmed' \in 0 .. arrived /\ Handled(confirmed')
  BY ConfirmedMark
<1>2. arrived \in Nat /\ BatchSize \in Nat
  BY ArrivedType, InboundAssumption
<1>3. PICK c : c = confirmed'
  OBVIOUS
<1>4. PICK kept : kept = {u \in c + 1 .. arrived : u <= c + BatchSize}
  OBVIOUS
<1>5. batch = kept \/ (c > 0 /\ batch = kept \cup {c})
  BY <1>3, <1>4 DEF Batches
<1>6. batch \subseteq 1 .. arrived
  BY <1>1, <1>2, <1>3, <1>4, <1>5
<1>7. ASSUME NEW u \in batch, NEW v \in 1 .. u - 1
      PROVE  v \in handled \cup batch
  <2>1. u \in Nat /\ v \in Nat /\ v < u /\ c \in Nat /\ u <= arrived
    BY <1>1, <1>2, <1>3, <1>6
  <2>2. CASE v <= c
    BY <1>1, <1>3, <2>1, <2>2 DEF Handled
  <2>3. CASE v > c
    <3>1. u \in kept
      BY <1>5, <2>1, <2>3
    <3>2. v \in kept
      BY <1>2, <1>4, <2>1, <2>3, <3>1
    <3>3. QED
      BY <1>5, <3>2
  <2>4. QED
    BY <2>1, <2>2, <2>3
<1>8. QED
  BY <1>6, <1>7

LEMMA WorkingKeepsOrder ==
  ASSUME TypeOK, OrderInv, NEW p \in Pollers, Working(p)
  PROVE  OrderInv'
<1>1. /\ Moves(p, WorkLabels) /\ UNCHANGED <<arrived, confirmed, offset>>
  BY WorkingFrame
<1>2. Moves(p, Labels)
  <2>1. WorkLabels \subseteq Labels
    BY DEF WorkLabels, Saving, Labels
  <2>2. QED
    BY <1>1, <2>1, MovesWider
<1>3. /\ handled \subseteq handled'
      /\ poller'[p].pc \in Saving => Current(p) \in handled' \/ poller[p].pc \in Saving
  BY WorkingHandles
<1>4. poller'[p].pc \in Saving => Current(p) \in handled'
  BY <1>3 DEF OrderInv
<1>5. QED
  BY <1>1, <1>2, <1>3, <1>4, MovesKeepOrder

LEMMA StoppingKeepsOrder ==
  ASSUME TypeOK, OrderInv, NEW p \in Pollers, Stopping(p)
  PROVE  OrderInv'
<1>1. Stop(p) /\ UNCHANGED <<offset, handled>>
  BY DEF Stopping, FetchFails, SetLastUpdateIdFails, Crash, history
<1>2. Handled(confirmed')
  <2>1. Confirm(poller[p].mark) \/ UNCHANGED confirmed
    BY DEF Stopping, FetchFails, SetLastUpdateIdFails, Crash
  <2>2. QED
    BY <2>1, ConfirmedMark
<1>3. /\ poller'[p].pc = "idle" /\ poller'[p].mark = 0 /\ poller'[p].batch = {}
      /\ \A q \in Pollers \ {p} : poller'[q] = poller[q]
  BY <1>1, StopMoves
<1>4. QED
  <2>1. InOrder(p)'
    BY <1>3 DEF InOrder, Handled, Saving
  <2>2. Handled(confirmed)' /\ Handled(offset)'
    BY <1>1, <1>2 DEF OrderInv, Handled
  <2>3. QED
    BY <1>1, <1>3, <2>1, <2>2, PollerKeepsOrder

\* The steps of poll_once around the updates set pc, mark and batch anew.
LEMMA ReadOffsetSets ==
  ASSUME TypeOK, NEW p \in Pollers, ReadOffset(p)
  PROVE  /\ poller'[p].pc = "fetch" /\ poller'[p].mark = offset
         /\ poller[p].pc = "idle" /\ poller'[p].batch = poller[p].batch
         /\ \A q \in Pollers \ {p} : poller'[q] = poller[q]
         /\ poller' \in [Pollers -> PollerType(arrived)]
<1>1. poller \in [Pollers -> PollerType(arrived)] /\ offset \in 0 .. arrived
  BY ArrivedType DEF TypeOK
<1>2. "fetch" \in Labels
  BY DEF Labels
<1>3. QED
  BY <1>1, <1>2 DEF ReadOffset, At, PollerType

LEMMA FetchSets ==
  ASSUME TypeOK, OrderInv, NEW p \in Pollers, Fetch(p)
  PROVE  /\ poller'[p].pc = "next" /\ poller'[p].mark = poller[p].mark
         /\ \A u \in poller'[p].batch :
              1 .. u - 1 \subseteq handled \cup poller'[p].batch
         /\ \A q \in Pollers \ {p} : poller'[q] = poller[q]
         /\ poller' \in [Pollers -> PollerType(arrived)]
<1>1. PICK batch \in Batches :
        poller' = [poller EXCEPT ![p].pc = "next", ![p].batch = batch]
  BY DEF Fetch
<1>2. /\ batch \subseteq 1 .. arrived
      /\ \A u \in batch : 1 .. u - 1 \subseteq handled \cup batch
  BY BatchIsNext DEF Fetch
<1>3. poller \in [Pollers -> PollerType(arrived)] /\ "next" \in Labels
  BY ArrivedType DEF Labels
<1>4. /\ poller'[p].pc = "next" /\ poller'[p].mark = poller[p].mark
      /\ poller'[p].batch = batch
      /\ \A q \in Pollers \ {p} : poller'[q] = poller[q]
      /\ poller' \in [Pollers -> PollerType(arrived)]
  BY <1>1, <1>2, <1>3 DEF PollerType
<1>5. QED
  BY <1>2, <1>4

\* The three outcomes of looking for the next update.
LEMMA NextUpdateSets ==
  ASSUME TypeOK, NEW p \in Pollers, NextUpdate(p)
  PROVE  \/ poller[p].batch = {} /\ Stop(p)
         \/ /\ poller[p].batch # {} /\ Current(p) <= poller[p].mark
            /\ poller'[p].pc = "next" /\ poller'[p].mark = poller[p].mark
            /\ poller'[p].batch = poller[p].batch \ {Current(p)}
            /\ \A q \in Pollers \ {p} : poller'[q] = poller[q]
            /\ poller' \in [Pollers -> PollerType(arrived)]
         \/ /\ poller[p].batch # {} /\ Current(p) > poller[p].mark
            /\ Moves(p, {"process"})
<1>1. poller \in [Pollers -> PollerType(arrived)] /\ poller[p].pc = "next"
  BY ArrivedType DEF NextUpdate, At
<1>2. CASE poller[p].batch = {}
  BY <1>2 DEF NextUpdate
<1>3. CASE poller[p].batch # {} /\ Duplicate(p)
  <2>1. PICK u : u = Current(p)
    OBVIOUS
  <2>2. poller' = [poller EXCEPT ![p].batch = @ \ {u}]
    BY <1>3, <2>1 DEF NextUpdate
  <2>3. /\ poller'[p].pc = "next" /\ poller'[p].mark = poller[p].mark
        /\ poller'[p].batch = poller[p].batch \ {u}
        /\ \A q \in Pollers \ {p} : poller'[q] = poller[q]
        /\ poller' \in [Pollers -> PollerType(arrived)]
    BY <1>1, <2>2 DEF PollerType
  <2>4. QED
    BY <1>3, <2>1, <2>3 DEF Duplicate
<1>4. CASE poller[p].batch # {} /\ ~Duplicate(p)
  <2>1. Current(p) \in Nat /\ poller[p].mark \in Nat
    <3>1. Current(p) \in Nat
      BY <1>4, CurrentType
    <3>2. poller[p].mark \in 0 .. arrived
      BY <1>1 DEF PollerType
    <3>3. QED
      BY <3>1, <3>2, ArrivedType
  <2>2. Goto(p, "process") /\ "process" \in Labels
    BY <1>4 DEF NextUpdate, Labels
  <2>3. QED
    BY <1>4, <2>1, <2>2, GotoMoves DEF Duplicate
<1>5. QED
  BY <1>2, <1>3, <1>4

LEMMA SaveSets ==
  ASSUME TypeOK, NEW p \in Pollers, SetLastUpdateId(p)
  PROVE  \/ Stop(p) /\ UNCHANGED offset /\ poller[p].pc = "insert" /\ offset # 0
         \/ /\ offset' = Current(p) /\ poller[p].pc \in {"insert", "update"}
            /\ poller[p].batch # {}
            /\ poller'[p].pc = "next" /\ poller'[p].mark = Current(p)
            /\ poller'[p].batch = poller[p].batch \ {Current(p)}
            /\ \A q \in Pollers \ {p} : poller'[q] = poller[q]
            /\ poller' \in [Pollers -> PollerType(arrived)]
<1>1. /\ poller \in [Pollers -> PollerType(arrived)]
      /\ poller[p].pc \in {"insert", "update"} /\ arrived \in Nat
  BY ArrivedType DEF SetLastUpdateId
<1>2. poller[p].batch # {}
  BY <1>1 DEF TypeOK
<1>3. PICK u : u = Current(p)
  OBVIOUS
<1>4. u \in 1 .. arrived
  BY <1>2, <1>3, CurrentType
<1>5. CASE At(p, "insert") /\ offset # 0
  BY <1>5 DEF SetLastUpdateId, At
<1>6. CASE ~(At(p, "insert") /\ offset # 0)
  <2>1. PICK x : x = [Idle EXCEPT !.pc = "next", !.mark = u,
                                 !.batch = poller[p].batch \ {u}]
    OBVIOUS
  <2>2. x = [pc |-> "next", mark |-> u, batch |-> poller[p].batch \ {u}, status |-> ""]
    BY <2>1 DEF Idle
  <2>3. poller' = [poller EXCEPT ![p] = x] /\ offset' = u
    BY <1>3, <1>6, <2>1 DEF SetLastUpdateId, SavedOffset
  <2>4. x \in PollerType(arrived)
    <3>1. u \in 0 .. arrived /\ "next" \in Labels
      BY <1>1, <1>4 DEF Labels
    <3>2. poller[p].batch \in SUBSET (1 .. arrived)
      BY <1>1 DEF PollerType
    <3>3. QED
      BY <2>2, <3>1, <3>2 DEF PollerType
  <2>5. /\ poller'[p] = x /\ \A q \in Pollers \ {p} : poller'[q] = poller[q]
        /\ poller' \in [Pollers -> PollerType(arrived)]
    BY <1>1, <2>3, <2>4
  <2>6. QED
    BY <1>1, <1>2, <1>3, <2>2, <2>3, <2>5
<1>7. QED
  BY <1>5, <1>6

LEMMA ReadOffsetKeepsOrder ==
  ASSUME TypeOK, OrderInv, NEW p \in Pollers, ReadOffset(p)
  PROVE  OrderInv'
<1>1. /\ UNCHANGED <<confirmed, offset, handled>>
      /\ poller'[p].pc = "fetch" /\ poller'[p].mark = offset
      /\ poller'[p].batch = poller[p].batch
      /\ \A q \in Pollers \ {p} : poller'[q] = poller[q]
  BY ReadOffsetSets DEF ReadOffset, history
<1>2. InOrder(p)'
  BY <1>1 DEF InOrder, OrderInv, Handled, Saving
<1>3. QED
  BY <1>1, <1>2, PollerKeepsOrder DEF OrderInv, Handled

LEMMA FetchKeepsOrder ==
  ASSUME TypeOK, OrderInv, NEW p \in Pollers, Fetch(p)
  PROVE  OrderInv'
<1>1. UNCHANGED <<offset, handled>> /\ Handled(confirmed')
  BY ConfirmedMark DEF Fetch, history
<1>2. /\ poller'[p].pc = "next" /\ poller'[p].mark = poller[p].mark
      /\ \A u \in poller'[p].batch :
           1 .. u - 1 \subseteq handled \cup poller'[p].batch
      /\ \A q \in Pollers \ {p} : poller'[q] = poller[q]
  BY FetchSets
<1>3. InOrder(p)'
  BY <1>1, <1>2 DEF InOrder, OrderInv, Handled, Saving
<1>4. QED
  BY <1>1, <1>2, <1>3, PollerKeepsOrder DEF OrderInv, Handled

\* What is taken out of a batch was handled.
LEMMA DoneKeepsOrder ==
  ASSUME TypeOK, OrderInv, NEW p \in Pollers, poller[p].batch # {},
         Current(p) \in handled, UNCHANGED handled,
         poller'[p].pc = "next", poller'[p].mark \in {poller[p].mark, Current(p)},
         poller'[p].batch = poller[p].batch \ {Current(p)},
         \A q \in Pollers \ {p} : poller'[q] = poller[q],
         confirmed' = confirmed, offset' \in {offset, Current(p)}
  PROVE  OrderInv'
<1>1. PICK u : u = Current(p)
  OBVIOUS
<1>2. u \in Nat /\ Handled(u - 1) /\ u \in handled
  BY <1>1, CurrentType, FirstIsNext
<1>3. Handled(u)
  BY <1>2 DEF Handled
<1>4. Handled(poller[p].mark) /\ Handled(offset) /\ Handled(confirmed)
  BY DEF OrderInv
<1>5. \A v \in poller'[p].batch : 1 .. v - 1 \subseteq handled \cup poller'[p].batch
  BY <1>1, <1>2 DEF OrderInv
<1>6. InOrder(p)'
  BY <1>1, <1>3, <1>4, <1>5 DEF InOrder, Handled, Saving
<1>7. Handled(confirmed)' /\ Handled(offset)'
  BY <1>1, <1>3, <1>4 DEF Handled
<1>8. QED
  BY <1>6, <1>7, PollerKeepsOrder

LEMMA StopKeepsOrder ==
  ASSUME TypeOK, OrderInv, NEW p \in Pollers, Stop(p),
         UNCHANGED <<confirmed, offset, handled>>
  PROVE  OrderInv'
<1>1. /\ poller'[p].pc = "idle" /\ poller'[p].mark = 0 /\ poller'[p].batch = {}
      /\ \A q \in Pollers \ {p} : poller'[q] = poller[q]
  BY StopMoves
<1>2. InOrder(p)'
  BY <1>1 DEF InOrder, Handled, Saving
<1>3. QED
  BY <1>1, <1>2, PollerKeepsOrder DEF OrderInv, Handled

LEMMA NextUpdateKeepsOrder ==
  ASSUME TypeOK, OrderInv, NEW p \in Pollers, NextUpdate(p)
  PROVE  OrderInv'
<1>1. UNCHANGED <<arrived, confirmed, offset, handled>>
  BY DEF NextUpdate, history
<1>2. CASE poller[p].batch = {} /\ Stop(p)
  BY <1>1, <1>2, StopKeepsOrder
<1>3. CASE /\ poller[p].batch # {} /\ Current(p) <= poller[p].mark
           /\ poller'[p].pc = "next" /\ poller'[p].mark = poller[p].mark
           /\ poller'[p].batch = poller[p].batch \ {Current(p)}
           /\ \A q \in Pollers \ {p} : poller'[q] = poller[q]
  <2>1. PICK u, mark : u = Current(p) /\ mark = poller[p].mark
    OBVIOUS
  <2>2. u \in 1 .. arrived /\ arrived \in Nat /\ mark \in 0 .. arrived /\ u <= mark
    BY <1>3, <2>1, CurrentType, ArrivedType DEF PollerType
  <2>3. u \in 1 .. mark /\ Handled(mark)
    BY <2>1, <2>2 DEF OrderInv
  <2>4. QED
    BY <1>1, <1>3, <2>1, <2>3, DoneKeepsOrder DEF Handled
<1>4. CASE Moves(p, {"process"})
  <2>1. Moves(p, Labels)
    <3>1. {"process"} \subseteq Labels
      BY DEF Labels
    <3>2. QED
      BY <1>4, <3>1, MovesWider
  <2>2. poller'[p].pc \notin Saving
    BY <1>4 DEF Moves, Saving
  <2>3. QED
    BY <1>1, <2>1, <2>2, MovesKeepOrder
<1>5. QED
  BY <1>2, <1>3, <1>4, NextUpdateSets

LEMMA SaveKeepsOrder ==
  ASSUME TypeOK, OrderInv, NEW p \in Pollers, SetLastUpdateId(p)
  PROVE  OrderInv'
<1>1. UNCHANGED <<confirmed, handled>>
  BY DEF SetLastUpdateId, history
<1>2. CASE Stop(p) /\ UNCHANGED offset
  BY <1>1, <1>2, StopKeepsOrder
<1>3. CASE /\ offset' = Current(p) /\ poller[p].pc \in {"insert", "update"}
           /\ poller[p].batch # {}
           /\ poller'[p].pc = "next" /\ poller'[p].mark = Current(p)
           /\ poller'[p].batch = poller[p].batch \ {Current(p)}
           /\ \A q \in Pollers \ {p} : poller'[q] = poller[q]
  <2>1. Current(p) \in handled
    BY <1>3 DEF OrderInv, Saving
  <2>2. QED
    BY <1>1, <1>3, <2>1, DoneKeepsOrder
<1>4. QED
  BY <1>2, <1>3, SaveSets

LEMMA NextKeepsOrder ==
  ASSUME TypeOK, OrderInv, [Next]_vars
  PROVE  OrderInv'
<1>1. CASE UNCHANGED <<confirmed, offset, poller, handled>>
  BY <1>1 DEF OrderInv, Handled, Current
<1>2. CASE Arrive \/ UNCHANGED vars
  BY <1>1, <1>2 DEF Arrive, vars, history
<1>3. ASSUME NEW p \in Pollers,
             Step(p) \/ FetchFails(p) \/ ReplyFails(p) \/ AuditFails(p)
               \/ SetLastUpdateIdFails(p) \/ Crash(p)
      PROVE  OrderInv'
  <2>1. \/ Working(p) \/ Stopping(p) \/ ReadOffset(p) \/ Fetch(p)
        \/ NextUpdate(p) \/ SetLastUpdateId(p)
    BY <1>3 DEF Step, Working, Stopping
  <2>2. QED
    BY <2>1, WorkingKeepsOrder, StoppingKeepsOrder, ReadOffsetKeepsOrder,
       FetchKeepsOrder, NextUpdateKeepsOrder, SaveKeepsOrder
<1>4. QED
  BY <1>2, <1>3 DEF Next

(***************************************************************************)
(* The audit log: what a status claims is true when it is written          *)
(***************************************************************************)
Claim(p) ==
  LET j == poller[p]
      u == Current(p)
  IN  /\ j.pc = "reply" =>
           \/ /\ j.status \in {"EXECUTED", "ERROR"}
              /\ Kind[u] = "command" /\ executed[u] > 0
           \/ j.status = "UNKNOWN_COMMAND" /\ Kind[u] = "unknown"
      /\ j.pc = "audit" =>
           /\ j.status \in Statuses
           /\ j.status = "EXECUTED" => executed[u] > 0 /\ u \in replied
           /\ j.status = "EXECUTED_REPLY_FAILED" => executed[u] > 0
           /\ j.status = "REJECTED_UNAUTHORIZED" => Kind[u] = "unauthorized"
      /\ j.pc = "audit error" => failures >= 1

RowsTrue ==
  /\ \A u \in Updates :
       /\ executed[u] > 0 => Kind[u] = "command"
       /\ u \in replied => Kind[u] \in {"command", "unknown"}
       /\ <<u, "EXECUTED">> \in audit => executed[u] > 0 /\ u \in replied
       /\ <<u, "EXECUTED_REPLY_FAILED">> \in audit => executed[u] > 0
       /\ <<u, "REJECTED_UNAUTHORIZED">> \in audit => Kind[u] = "unauthorized"

AuditInv ==
  /\ TypeOK /\ failures \in Nat /\ crashes \in Nat
  /\ \A p \in Pollers : Claim(p)
  /\ RowsTrue
  /\ UnauditedNeedsTwoFailures

\* What only grows.
Grows ==
  /\ executed \in [Updates -> Nat] /\ executed' \in [Updates -> Nat]
  /\ \A u \in Updates : executed[u] <= executed'[u]
  /\ replied \subseteq replied' /\ audit \subseteq audit'
  /\ failures \in Nat /\ failures' \in Nat /\ failures <= failures'

LEMMA ClaimsKept ==
  ASSUME TypeOK, Grows, NEW q \in Pollers, Claim(q), poller'[q] = poller[q]
  PROVE  Claim(q)'
<1>1. PICK j, u : j = poller[q] /\ u = Current(q)
  OBVIOUS
<1>2. poller'[q] = j /\ Current(q)' = u
  BY <1>1 DEF Current
<1>3. j.pc \notin {"idle", "fetch", "next"} => u \in Updates
  BY <1>1, CurrentType DEF TypeOK
<1>4. u \in Updates => (executed[u] > 0 => executed'[u] > 0)
  BY DEF Grows
<1>5. failures >= 1 => failures' >= 1
  BY DEF Grows
<1>6. QED
  BY <1>1, <1>2, <1>3, <1>4, <1>5 DEF Claim, Grows

LEMMA OneFailsGrows ==
  ASSUME AuditInv, OneFails
  PROVE  failures' = failures + 1 /\ failures' \in Nat /\ crashes' = crashes
BY DEF OneFails, AuditInv

LEMMA BoundsGrow ==
  ASSUME AuditInv, UNCHANGED bounds \/ OneFails
  PROVE  /\ failures' \in Nat /\ crashes' \in Nat /\ failures <= failures'
<1>1. CASE UNCHANGED bounds
  BY <1>1 DEF bounds, AuditInv
<1>2. CASE OneFails
  BY <1>2, OneFailsGrows DEF AuditInv
<1>3. QED
  BY <1>1, <1>2

\* A step of p that handles, executes and replies to nothing new, and writes no row.
LEMMA QuietKeepsAudit ==
  ASSUME AuditInv, NEW p \in Pollers, TypeOK', Claim(p)', UNCHANGED <<audit, history>>,
         failures' \in Nat, crashes' \in Nat, failures <= failures',
         \A q \in Pollers \ {p} : poller'[q] = poller[q]
  PROVE  AuditInv'
<1>1. Grows
  <2>1. executed \in [Updates -> Nat]
    BY DEF AuditInv, TypeOK
  <2>2. \A u \in Updates : executed[u] <= executed[u]
    BY <2>1
  <2>3. QED
    BY <2>1, <2>2 DEF Grows, AuditInv, history
<1>2. \A q \in Pollers : Claim(q)'
  BY <1>1, ClaimsKept DEF AuditInv
<1>3. RowsTrue'
  BY DEF AuditInv, RowsTrue, history
<1>4. failures' < 2 => failures < 2
  BY DEF AuditInv
<1>5. UnauditedNeedsTwoFailures'
  BY <1>4 DEF AuditInv, UnauditedNeedsTwoFailures, history
<1>6. QED
  BY <1>2, <1>3, <1>5 DEF AuditInv

LEMMA TypeKept ==
  ASSUME TypeOK, NEW p \in Pollers, arrived' = arrived,
         poller' \in [Pollers -> PollerType(arrived)],
         \A q \in Pollers \ {p} : poller'[q] = poller[q],
         poller'[p].pc \notin {"idle", "fetch", "next"} => poller'[p].batch # {},
         confirmed' \in 0 .. arrived, offset' \in 0 .. arrived,
         audit' \subseteq Updates \X Statuses, executed' \in [Updates -> Nat],
         replied' \subseteq Updates, handled' \subseteq Updates
  PROVE  TypeOK'
<1>1. \A q \in Pollers :
        poller'[q].pc \notin {"idle", "fetch", "next"} => poller'[q].batch # {}
  BY DEF TypeOK
<1>2. arrived' \in {0} \cup Updates
  BY DEF TypeOK
<1>3. poller' \in [Pollers ->
        [pc : Labels, mark : 0 .. arrived', batch : SUBSET (1 .. arrived'),
         status : Statuses \cup {""}]]
  BY DEF PollerType
<1>4. QED
  BY <1>1, <1>2, <1>3 DEF TypeOK

\* A step that leaves the log and the history alone.
LEMMA QuietKeepsType ==
  ASSUME TypeOK, NEW p \in Pollers, UNCHANGED <<arrived, audit, history>>,
         poller' \in [Pollers -> PollerType(arrived)],
         \A q \in Pollers \ {p} : poller'[q] = poller[q],
         poller'[p].pc \notin {"idle", "fetch", "next"} => poller'[p].batch # {},
         confirmed' \in 0 .. arrived, offset' \in 0 .. arrived
  PROVE  TypeOK'
<1>1. /\ audit' \subseteq Updates \X Statuses /\ executed' \in [Updates -> Nat]
      /\ replied' \subseteq Updates /\ handled' \subseteq Updates
  BY DEF TypeOK, history
<1>2. QED
  BY <1>1, TypeKept

LEMMA WorkingKeepsType ==
  ASSUME AuditInv, NEW p \in Pollers, Working(p)
  PROVE  TypeOK'
<1>1. /\ poller[p].batch # {} /\ Current(p) \in Updates
      /\ UNCHANGED <<arrived, confirmed, offset>> /\ Moves(p, WorkLabels)
  BY WorkingFrame DEF AuditInv
<1>2. /\ poller' \in [Pollers -> PollerType(arrived)]
      /\ \A q \in Pollers \ {p} : poller'[q] = poller[q]
      /\ poller'[p].batch # {}
  BY <1>1 DEF Moves
<1>3. TypeOK
  BY DEF AuditInv
<1>4. handled' \subseteq Updates
  BY <1>1, <1>3, WorkingHandles DEF TypeOK
<1>5. replied' \subseteq Updates
  BY <1>1, <1>3
  DEF Working, SkipNoText, Refuse, Execute, Reply, ReplyFails, Audit, AuditFails,
      AuditError, GetState, Processed, AuditInstead, history, TypeOK
<1>6. executed' \in [Updates -> Nat]
  <2>1. CASE Execute(p)
    <3>1. executed' = [executed EXCEPT ![Current(p)] = @ + 1]
      BY <2>1 DEF Execute
    <3>2. executed \in [Updates -> Nat]
      BY <1>3 DEF TypeOK
    <3>3. QED
      BY <1>1, <3>1, <3>2, CountedUp
  <2>2. CASE ~Execute(p)
    BY <1>3, <2>2
    DEF Working, SkipNoText, Refuse, Reply, ReplyFails, Audit, AuditFails,
        AuditError, GetState, Processed, AuditInstead, history, TypeOK
  <2>3. QED
    BY <2>1, <2>2
<1>7. audit' \subseteq Updates \X Statuses
  <2>1. audit \subseteq Updates \X Statuses
    BY <1>3 DEF TypeOK
  <2>2. CASE Audit(p)
    <3>1. poller[p].status \in Statuses
      BY <2>2 DEF Audit, At, AuditInv, Claim
    <3>2. audit' = audit \cup {<<Current(p), poller[p].status>>}
      BY <2>2 DEF Audit
    <3>3. QED
      BY <1>1, <2>1, <3>1, <3>2
  <2>3. CASE AuditError(p)
    <3>1. "ERROR" \in Statuses
      BY DEF Statuses
    <3>2. \/ audit' = audit \cup {<<Current(p), "ERROR">>}
          \/ audit' = audit
      BY <2>3 DEF AuditError
    <3>3. QED
      BY <1>1, <2>1, <3>1, <3>2
  <2>4. CASE ~Audit(p) /\ ~AuditError(p)
    BY <2>1, <2>4
    DEF Working, SkipNoText, Refuse, Execute, Reply, ReplyFails, AuditFails, GetState
  <2>5. QED
    BY <2>2, <2>3, <2>4
<1>8. confirmed' \in 0 .. arrived /\ offset' \in 0 .. arrived
  BY <1>1, <1>3 DEF TypeOK
<1>9. QED
  BY <1>1, <1>2, <1>3, <1>4, <1>5, <1>6, <1>7, <1>8, TypeKept

\* What a working step has to show, for the update u at hand.
LEMMA WorkKeepsAudit ==
  ASSUME AuditInv, NEW p \in Pollers, Working(p), Claim(p)', RowsTrue',
         UnauditedNeedsTwoFailures',
         \A u \in Updates : executed[u] <= executed'[u],
         replied \subseteq replied', audit \subseteq audit',
         UNCHANGED bounds \/ OneFails
  PROVE  AuditInv'
<1>1. TypeOK' /\ TypeOK
  BY WorkingKeepsType DEF AuditInv
<1>2. \A q \in Pollers \ {p} : poller'[q] = poller[q]
  BY <1>1, WorkingFrame DEF Moves
<1>3. failures' \in Nat /\ crashes' \in Nat /\ failures <= failures'
  BY BoundsGrow
<1>4. executed \in [Updates -> Nat] /\ executed' \in [Updates -> Nat]
  BY <1>1 DEF TypeOK
<1>5. Grows
  BY <1>3, <1>4 DEF Grows, AuditInv
<1>6. \A q \in Pollers : Claim(q)'
  BY <1>1, <1>2, <1>5, ClaimsKept DEF AuditInv
<1>7. QED
  BY <1>1, <1>3, <1>6 DEF AuditInv

\* Nothing is handled but the update at hand, and that one is on record.
OnRecord(p) ==
  \/ handled' = handled
  \/ /\ handled' = handled \cup {Current(p)}
     /\ \/ Kind[Current(p)] = "no text"
        \/ \E x \in Statuses : <<Current(p), x>> \in audit'
        \/ failures' >= 2

LEMMA StillComplete ==
  ASSUME UnauditedNeedsTwoFailures, NEW p \in Pollers, audit \subseteq audit',
         failures \in Nat, failures' \in Nat, failures <= failures', OnRecord(p)
  PROVE  UnauditedNeedsTwoFailures'
<1>1. failures' < 2 => failures < 2
  OBVIOUS
<1>2. failures' < 2 => ~(failures' >= 2)
  OBVIOUS
<1>3. ASSUME NEW u \in handled', Kind[u] # "no text", failures' < 2
      PROVE  \E x \in Statuses : <<u, x>> \in audit'
  <2>1. CASE u \in handled
    BY <1>1, <1>3, <2>1 DEF UnauditedNeedsTwoFailures
  <2>2. CASE u \notin handled
    BY <1>2, <1>3, <2>2 DEF OnRecord
  <2>3. QED
    BY <2>1, <2>2
<1>4. QED
  BY <1>3 DEF UnauditedNeedsTwoFailures

LEMMA SkipNoTextKeepsAudit ==
  ASSUME AuditInv, NEW p \in Pollers, SkipNoText(p)
  PROVE  AuditInv'
<1>1. /\ Working(p) /\ TypeOK
      /\ UNCHANGED <<audit, bounds, executed, replied>>
      /\ Kind[Current(p)] = "no text" /\ handled' = handled \cup {Current(p)}
      /\ poller'[p].pc = "get"
  <2>1. poller'[p].pc = "get"
    BY GotoMoves DEF SkipNoText, Processed, AuditInv, Labels
  <2>2. QED
    BY <2>1 DEF SkipNoText, Processed, Working, AuditInv
<1>2. Claim(p)'
  BY <1>1 DEF Claim
<1>3. RowsTrue'
  BY <1>1 DEF AuditInv, RowsTrue
<1>4. UnauditedNeedsTwoFailures'
  <2>1. OnRecord(p)
    BY <1>1 DEF OnRecord
  <2>2. QED
    BY <1>1, <2>1, BoundsGrow, StillComplete DEF AuditInv
<1>5. \A u \in Updates : executed[u] <= executed'[u]
  <2>1. \A u \in Updates : executed[u] \in Nat
    BY <1>1 DEF TypeOK
  <2>2. executed' = executed
    BY <1>1
  <2>3. QED
    BY <2>1, <2>2
<1>6. QED
  BY <1>1, <1>2, <1>3, <1>4, <1>5, WorkKeepsAudit

LEMMA SilentKeepsAudit ==
  ASSUME AuditInv, NEW p \in Pollers, Working(p), Claim(p)',
         UNCHANGED <<audit, history>>, UNCHANGED bounds \/ OneFails
  PROVE  AuditInv'
<1>1. /\ TypeOK' /\ \A q \in Pollers \ {p} : poller'[q] = poller[q]
  BY WorkingKeepsType, WorkingFrame DEF AuditInv, Moves
<1>2. failures' \in Nat /\ crashes' \in Nat /\ failures <= failures'
  BY BoundsGrow
<1>3. QED
  BY <1>1, <1>2, QuietKeepsAudit

LEMMA RefuseKeepsAudit ==
  ASSUME AuditInv, NEW p \in Pollers, Refuse(p)
  PROVE  AuditInv'
<1>1. Working(p) /\ UNCHANGED <<audit, bounds, history>> /\ TypeOK
  BY DEF Refuse, Working, AuditInv
<1>2. PICK u : u = Current(p)
  OBVIOUS
<1>3. \A q \in Pollers : Current(q)' = Current(q) \/ poller'[q].batch # poller[q].batch
  BY DEF Current
<1>4. Current(p)' = u
  BY <1>1, <1>2, <1>3, WorkingFrame DEF Moves
<1>5. CASE Kind[u] = "unauthorized" /\ WithStatus(p, "audit", "REJECTED_UNAUTHORIZED")
  <2>1. /\ poller'[p].pc = "audit" /\ poller'[p].status = "REJECTED_UNAUTHORIZED"
    BY <1>1, <1>5, WithStatusMoves DEF Labels, Statuses
  <2>2. Claim(p)'
    BY <1>4, <1>5, <2>1 DEF Claim, Statuses
  <2>3. QED
    BY <1>1, <2>2, SilentKeepsAudit
<1>6. CASE Kind[u] = "unknown" /\ WithStatus(p, "reply", "UNKNOWN_COMMAND")
  <2>1. /\ poller'[p].pc = "reply" /\ poller'[p].status = "UNKNOWN_COMMAND"
    BY <1>1, <1>6, WithStatusMoves DEF Labels, Statuses
  <2>2. Claim(p)'
    BY <1>4, <1>6, <2>1 DEF Claim
  <2>3. QED
    BY <1>1, <2>2, SilentKeepsAudit
<1>7. QED
  BY <1>2, <1>5, <1>6 DEF Refuse

LEMMA CurrentStays ==
  ASSUME TypeOK, NEW p \in Pollers, Working(p), NEW u, u = Current(p)
  PROVE  Current(p)' = u /\ u \in Updates
<1>1. poller'[p].batch = poller[p].batch /\ Current(p) \in Updates
  BY WorkingFrame DEF Moves
<1>2. QED
  BY <1>1 DEF Current

LEMMA ExecuteKeepsAudit ==
  ASSUME AuditInv, NEW p \in Pollers, Execute(p)
  PROVE  AuditInv'
<1>1. PICK u : u = Current(p)
  OBVIOUS
<1>2. /\ Working(p) /\ TypeOK /\ Kind[u] = "command"
      /\ UNCHANGED <<audit, replied, handled>>
      /\ executed' = [executed EXCEPT ![u] = @ + 1]
      /\ UNCHANGED bounds \/ OneFails
  BY <1>1 DEF Execute, Working, AuditInv
<1>3. Current(p)' = u /\ u \in Updates
  BY <1>1, <1>2, CurrentStays
<1>4. executed \in [Updates -> Nat]
  BY <1>2 DEF TypeOK
<1>5. /\ executed'[u] = executed[u] + 1 /\ executed'[u] > 0
      /\ \A v \in Updates \ {u} : executed'[v] = executed[v]
      /\ \A v \in Updates : executed[v] <= executed'[v]
  BY <1>2, <1>3, <1>4, CountedUp
<1>6. PICK status \in {"EXECUTED", "ERROR"} : WithStatus(p, "reply", status)
  BY DEF Execute
<1>7. poller'[p].pc = "reply" /\ poller'[p].status = status
  BY <1>2, <1>6, WithStatusMoves DEF Labels, Statuses
<1>8. Claim(p)'
  BY <1>2, <1>3, <1>5, <1>7 DEF Claim
<1>9. RowsTrue'
  BY <1>2, <1>5 DEF AuditInv, RowsTrue
<1>10. UnauditedNeedsTwoFailures'
  <2>1. OnRecord(p)
    BY <1>2 DEF OnRecord
  <2>2. QED
    BY <1>2, <2>1, BoundsGrow, StillComplete DEF AuditInv
<1>11. QED
  BY <1>2, <1>5, <1>8, <1>9, <1>10, WorkKeepsAudit

LEMMA ReplyKeepsAudit ==
  ASSUME AuditInv, NEW p \in Pollers, Reply(p)
  PROVE  AuditInv'
<1>1. PICK u : u = Current(p)
  OBVIOUS
<1>2. /\ Working(p) /\ TypeOK /\ poller[p].pc = "reply"
      /\ UNCHANGED <<audit, bounds, executed, handled>>
      /\ replied' = replied \cup {u}
  BY <1>1 DEF Reply, Working, AuditInv, At
<1>3. Current(p)' = u /\ u \in Updates
  BY <1>1, <1>2, CurrentStays
<1>4. poller'[p].pc = "audit" /\ poller'[p].status = poller[p].status
  BY <1>2, GotoMoves DEF Reply, Labels
<1>5. \/ /\ poller[p].status \in {"EXECUTED", "ERROR"}
         /\ Kind[u] = "command" /\ executed[u] > 0
      \/ poller[p].status = "UNKNOWN_COMMAND" /\ Kind[u] = "unknown"
  BY <1>1, <1>2 DEF AuditInv, Claim
<1>6. Claim(p)'
  BY <1>2, <1>3, <1>4, <1>5 DEF Claim, Statuses
<1>7. RowsTrue'
  BY <1>2, <1>5 DEF AuditInv, RowsTrue
<1>8. UnauditedNeedsTwoFailures'
  <2>1. OnRecord(p)
    BY <1>2 DEF OnRecord
  <2>2. QED
    BY <1>2, <2>1, BoundsGrow, StillComplete DEF AuditInv
<1>9. \A v \in Updates : executed[v] <= executed'[v]
  <2>1. \A v \in Updates : executed[v] \in Nat
    BY <1>2 DEF TypeOK
  <2>2. executed' = executed
    BY <1>2
  <2>3. QED
    BY <2>1, <2>2
<1>10. QED
  BY <1>2, <1>6, <1>7, <1>8, <1>9, WorkKeepsAudit

LEMMA ReplyFailsKeepsAudit ==
  ASSUME AuditInv, NEW p \in Pollers, ReplyFails(p)
  PROVE  AuditInv'
<1>1. PICK u : u = Current(p)
  OBVIOUS
<1>2. /\ Working(p) /\ TypeOK /\ poller[p].pc = "reply"
      /\ UNCHANGED <<audit, history>> /\ OneFails
  BY DEF ReplyFails, Working, AuditInv, At
<1>3. Current(p)' = u /\ u \in Updates
  BY <1>1, <1>2, CurrentStays
<1>4. PICK status : status = StatusWithoutReply(poller[p].status)
  OBVIOUS
<1>5. /\ status \in {"EXECUTED_REPLY_FAILED", "ERROR", "UNKNOWN_COMMAND"}
      /\ status = "EXECUTED_REPLY_FAILED" => executed[u] > 0
  BY <1>1, <1>2, <1>4 DEF AuditInv, Claim, StatusWithoutReply
<1>6. poller'[p].pc = "audit" /\ poller'[p].status = status
  BY <1>2, <1>4, <1>5, WithStatusMoves DEF ReplyFails, Labels, Statuses
<1>7. Claim(p)'
  BY <1>2, <1>3, <1>5, <1>6 DEF Claim, Statuses, history
<1>8. QED
  BY <1>2, <1>7, SilentKeepsAudit

LEMMA AuditKeepsAudit ==
  ASSUME AuditInv, NEW p \in Pollers, Audit(p)
  PROVE  AuditInv'
<1>1. PICK u, status : u = Current(p) /\ status = poller[p].status
  OBVIOUS
<1>2. /\ Working(p) /\ TypeOK /\ poller[p].pc = "audit"
      /\ UNCHANGED <<bounds, executed, replied>>
      /\ audit' = audit \cup {<<u, status>>} /\ handled' = handled \cup {u}
  BY <1>1 DEF Audit, Processed, Working, AuditInv, At
<1>3. u \in Updates
  BY <1>1, <1>2, CurrentStays
<1>4. /\ status \in Statuses
      /\ status = "EXECUTED" => executed[u] > 0 /\ u \in replied
      /\ status = "EXECUTED_REPLY_FAILED" => executed[u] > 0
      /\ status = "REJECTED_UNAUTHORIZED" => Kind[u] = "unauthorized"
  BY <1>1, <1>2 DEF AuditInv, Claim
<1>5. poller'[p].pc = "get"
  BY <1>2, GotoMoves DEF Audit, Processed, Labels
<1>6. Claim(p)'
  BY <1>5 DEF Claim
<1>7. RowsTrue'
  BY <1>2, <1>4 DEF AuditInv, RowsTrue
<1>8. UnauditedNeedsTwoFailures'
  <2>1. OnRecord(p)
    BY <1>1, <1>2, <1>4 DEF OnRecord
  <2>2. QED
    BY <1>2, <2>1, BoundsGrow, StillComplete DEF AuditInv
<1>9. \A v \in Updates : executed[v] <= executed'[v]
  <2>1. \A v \in Updates : executed[v] \in Nat
    BY <1>2 DEF TypeOK
  <2>2. executed' = executed
    BY <1>2
  <2>3. QED
    BY <2>1, <2>2
<1>10. QED
  BY <1>2, <1>6, <1>7, <1>8, <1>9, WorkKeepsAudit

LEMMA AuditFailsKeepsAudit ==
  ASSUME AuditInv, NEW p \in Pollers, AuditFails(p)
  PROVE  AuditInv'
<1>1. Working(p) /\ TypeOK /\ UNCHANGED <<audit, history>> /\ OneFails
  BY DEF AuditFails, AuditInstead, Working, AuditInv
<1>2. poller'[p].pc = "audit error"
  BY <1>1, WorkingLabel DEF AuditFails
<1>3. failures' >= 1
  BY <1>1, OneFailsGrows DEF AuditInv
<1>4. Claim(p)'
  BY <1>2, <1>3 DEF Claim
<1>5. QED
  BY <1>1, <1>4, SilentKeepsAudit

LEMMA AuditErrorKeepsAudit ==
  ASSUME AuditInv, NEW p \in Pollers, AuditError(p)
  PROVE  AuditInv'
<1>1. PICK u : u = Current(p)
  OBVIOUS
<1>2. /\ Working(p) /\ TypeOK /\ poller[p].pc = "audit error"
      /\ UNCHANGED <<executed, replied>> /\ handled' = handled \cup {u}
      /\ UNCHANGED bounds \/ OneFails
      /\ \/ audit' = audit \cup {<<u, "ERROR">>}
         \/ OneFails /\ audit' = audit
  BY <1>1 DEF AuditError, Processed, Working, AuditInv, At
<1>3. poller'[p].pc = "get"
  BY <1>2, GotoMoves DEF AuditError, Processed, Labels
<1>4. Claim(p)'
  BY <1>3 DEF Claim
<1>5. RowsTrue'
  <2>1. \A v, x : x # "ERROR" /\ <<v, x>> \in audit' => <<v, x>> \in audit
    <3>1. audit' \subseteq audit \cup {<<u, "ERROR">>}
      BY <1>2
    <3>2. QED
      BY <3>1
  <2>2. executed' = executed /\ replied' = replied
    BY <1>2
  <2>3. QED
    BY <2>1, <2>2 DEF AuditInv, RowsTrue
<1>6. OneFails => failures' >= 2
  <2>1. failures >= 1 /\ failures \in Nat
    BY <1>2 DEF AuditInv, Claim
  <2>2. QED
    BY <2>1, OneFailsGrows
<1>7. UnauditedNeedsTwoFailures'
  <2>1. OnRecord(p)
    BY <1>1, <1>2, <1>6 DEF OnRecord, Statuses
  <2>2. QED
    BY <1>2, <2>1, BoundsGrow, StillComplete DEF AuditInv
<1>8. \A v \in Updates : executed[v] <= executed'[v]
  <2>1. \A v \in Updates : executed[v] \in Nat
    BY <1>2 DEF TypeOK
  <2>2. executed' = executed
    BY <1>2
  <2>3. QED
    BY <2>1, <2>2
<1>9. audit \subseteq audit' /\ replied \subseteq replied'
  BY <1>2
<1>10. QED
  BY <1>2, <1>4, <1>5, <1>7, <1>8, <1>9, WorkKeepsAudit

LEMMA WorkingKeepsAudit ==
  ASSUME AuditInv, NEW p \in Pollers, Working(p)
  PROVE  AuditInv'
<1>1. CASE GetState(p)
  <2>1. UNCHANGED <<audit, history>> /\ UNCHANGED bounds
    BY <1>1 DEF GetState
  <2>2. poller'[p].pc \in {"insert", "update"}
    BY <1>1, GotoMoves DEF GetState, AuditInv, Labels
  <2>3. Claim(p)'
    BY <2>2 DEF Claim
  <2>4. QED
    BY <2>1, <2>3, SilentKeepsAudit
<1>2. QED
  BY <1>1, SkipNoTextKeepsAudit, RefuseKeepsAudit, ExecuteKeepsAudit,
     ReplyKeepsAudit, ReplyFailsKeepsAudit, AuditKeepsAudit, AuditFailsKeepsAudit,
     AuditErrorKeepsAudit
  DEF Working

LEMMA QuietStepKeepsAudit ==
  ASSUME AuditInv, NEW p \in Pollers, UNCHANGED <<arrived, audit, history>>,
         UNCHANGED bounds \/ OneFails \/ (crashes' = crashes + 1 /\ UNCHANGED failures),
         poller'[p].pc \in {"idle", "fetch", "next"} \/ Moves(p, {"process"}),
         poller'[p].pc \notin {"idle", "fetch", "next"} => poller[p].batch # {},
         \A q \in Pollers \ {p} : poller'[q] = poller[q],
         poller' \in [Pollers -> PollerType(arrived)],
         confirmed' \in 0 .. arrived, offset' \in 0 .. arrived
  PROVE  AuditInv'
<1>1. poller'[p].pc \notin {"idle", "fetch", "next"} => poller'[p].batch # {}
  BY DEF Moves
<1>2. TypeOK'
  BY <1>1, QuietKeepsType DEF AuditInv
<1>3. poller'[p].pc \in {"idle", "fetch", "next", "process"}
  BY DEF Moves
<1>4. Claim(p)'
  BY <1>3 DEF Claim
<1>5. failures' \in Nat /\ crashes' \in Nat /\ failures <= failures'
  BY BoundsGrow DEF AuditInv
<1>6. QED
  BY <1>2, <1>4, <1>5, QuietKeepsAudit

LEMMA StopKeepsAudit ==
  ASSUME AuditInv, NEW p \in Pollers, Stop(p), UNCHANGED <<arrived, audit, history>>,
         UNCHANGED bounds \/ OneFails \/ (crashes' = crashes + 1 /\ UNCHANGED failures),
         confirmed' \in 0 .. arrived, offset' \in 0 .. arrived
  PROVE  AuditInv'
BY StopMoves, QuietStepKeepsAudit DEF AuditInv

LEMMA NextKeepsAudit ==
  ASSUME AuditInv, OrderInv, [Next]_vars
  PROVE  AuditInv'
<1>1. /\ TypeOK /\ confirmed \in 0 .. arrived /\ offset \in 0 .. arrived
      /\ arrived \in Nat
  BY ArrivedType DEF AuditInv, TypeOK
<1>2. CASE UNCHANGED vars
  BY <1>2
  DEF vars, bounds, history, AuditInv, TypeOK, Claim, Current, RowsTrue,
      UnauditedNeedsTwoFailures
<1>3. CASE Arrive
  <2>1. /\ arrived' = arrived + 1 /\ arrived' \in Updates
        /\ UNCHANGED <<confirmed, offset, audit, poller, bounds, history>>
    BY <1>3 DEF Arrive
  <2>2. TypeOK'
    <3>1. /\ 0 .. arrived \subseteq 0 .. arrived' /\ 1 .. arrived \subseteq 1 .. arrived'
      BY <1>1, <2>1
    <3>2. PollerType(arrived) \subseteq PollerType(arrived')
      BY <3>1 DEF PollerType
    <3>3. poller' \in [Pollers -> PollerType(arrived')]
      BY <1>1, <2>1, <3>2, ArrivedType
    <3>4. confirmed' \in 0 .. arrived' /\ offset' \in 0 .. arrived'
      BY <1>1, <2>1, <3>1
    <3>5. /\ poller' = poller /\ audit' = audit /\ executed' = executed
          /\ replied' = replied /\ handled' = handled
      BY <2>1 DEF history
    <3>6. QED
      BY <1>1, <2>1, <3>3, <3>4, <3>5 DEF TypeOK, PollerType
  <2>3. QED
    BY <2>1, <2>2
    DEF bounds, history, AuditInv, Claim, Current, RowsTrue, UnauditedNeedsTwoFailures
<1>4. ASSUME NEW p \in Pollers, Stopping(p) PROVE AuditInv'
  <2>1. confirmed' \in 0 .. arrived
    <3>1. Confirm(poller[p].mark) \/ UNCHANGED confirmed
      BY <1>4 DEF Stopping, FetchFails, SetLastUpdateIdFails, Crash
    <3>2. QED
      BY <1>1, <3>1, ConfirmedMark
  <2>2. /\ Stop(p) /\ UNCHANGED <<arrived, offset, audit, history>>
        /\ OneFails \/ (crashes' = crashes + 1 /\ UNCHANGED failures)
    BY <1>4 DEF Stopping, FetchFails, SetLastUpdateIdFails, Crash
  <2>3. QED
    BY <1>1, <2>1, <2>2, StopKeepsAudit
<1>5. ASSUME NEW p \in Pollers, ReadOffset(p) PROVE AuditInv'
  <2>1. UNCHANGED <<arrived, confirmed, offset, audit, bounds, history>>
    BY <1>5 DEF ReadOffset
  <2>2. QED
    BY <1>1, <1>5, <2>1, ReadOffsetSets, QuietStepKeepsAudit
<1>6. ASSUME NEW p \in Pollers, Fetch(p) PROVE AuditInv'
  <2>1. UNCHANGED <<arrived, offset, audit, bounds, history>>
    BY <1>6 DEF Fetch
  <2>2. confirmed' \in 0 .. arrived
    BY <1>1, <1>6, ConfirmedMark DEF Fetch
  <2>3. QED
    BY <1>1, <1>6, <2>1, <2>2, FetchSets, QuietStepKeepsAudit
<1>7. ASSUME NEW p \in Pollers, NextUpdate(p) PROVE AuditInv'
  <2>1. UNCHANGED <<arrived, confirmed, offset, audit, bounds, history>>
    BY <1>7 DEF NextUpdate
  <2>2. CASE Stop(p)
    BY <1>1, <2>1, <2>2, StopKeepsAudit
  <2>3. CASE /\ poller[p].batch # {} /\ poller'[p].pc = "next"
             /\ \A q \in Pollers \ {p} : poller'[q] = poller[q]
             /\ poller' \in [Pollers -> PollerType(arrived)]
    BY <1>1, <2>1, <2>3, QuietStepKeepsAudit
  <2>4. CASE poller[p].batch # {} /\ Moves(p, {"process"})
    <3>1. /\ \A q \in Pollers \ {p} : poller'[q] = poller[q]
          /\ poller' \in [Pollers -> PollerType(arrived)]
      BY <2>4 DEF Moves
    <3>2. QED
      BY <1>1, <2>1, <2>4, <3>1, QuietStepKeepsAudit
  <2>5. QED
    BY <1>1, <1>7, <2>2, <2>3, <2>4, NextUpdateSets
<1>8. ASSUME NEW p \in Pollers, SetLastUpdateId(p) PROVE AuditInv'
  <2>1. UNCHANGED <<arrived, confirmed, audit, bounds, history>>
    BY <1>8 DEF SetLastUpdateId
  <2>2. CASE Stop(p) /\ UNCHANGED offset
    BY <1>1, <2>1, <2>2, StopKeepsAudit
  <2>3. CASE /\ offset' = Current(p) /\ poller[p].batch # {}
             /\ poller'[p].pc = "next"
             /\ \A q \in Pollers \ {p} : poller'[q] = poller[q]
             /\ poller' \in [Pollers -> PollerType(arrived)]
    <3>1. offset' \in 1 .. arrived
      BY <1>1, <2>3, CurrentType
    <3>2. offset' \in 0 .. arrived
      BY <1>1, <3>1
    <3>3. QED
      BY <1>1, <2>1, <2>3, <3>2, QuietStepKeepsAudit
  <2>4. QED
    BY <1>1, <1>8, <2>2, <2>3, SaveSets
<1>9. ASSUME NEW p \in Pollers,
             Step(p) \/ FetchFails(p) \/ ReplyFails(p) \/ AuditFails(p)
               \/ SetLastUpdateIdFails(p) \/ Crash(p)
      PROVE  AuditInv'
  <2>1. \/ Working(p) \/ Stopping(p) \/ ReadOffset(p) \/ Fetch(p)
        \/ NextUpdate(p) \/ SetLastUpdateId(p)
    BY <1>9 DEF Step, Working, Stopping
  <2>2. QED
    BY <1>4, <1>5, <1>6, <1>7, <1>8, <2>1, WorkingKeepsAudit
<1>10. QED
  BY <1>2, <1>3, <1>9 DEF Next

LEMMA InitSound == Init => AuditInv /\ OrderInv
<1> SUFFICES ASSUME Init PROVE AuditInv /\ OrderInv
  OBVIOUS
<1>1. /\ arrived = 0 /\ confirmed = 0 /\ offset = 0 /\ audit = {}
      /\ poller = [p \in Pollers |-> Idle] /\ failures = 0 /\ crashes = 0
      /\ executed = [u \in Updates |-> 0] /\ replied = {} /\ handled = {}
  BY DEF Init
<1>2. Idle \in [pc : Labels, mark : 0 .. 0, batch : SUBSET (1 .. 0),
                status : Statuses \cup {""}]
  <2>1. 0 \in 0 .. 0 /\ "idle" \in Labels
    BY DEF Labels
  <2>2. QED
    BY <2>1 DEF Idle
<1>3. \A p \in Pollers :
        poller[p].pc = "idle" /\ poller[p].mark = 0 /\ poller[p].batch = {}
  BY <1>1 DEF Idle
<1>4. TypeOK
  <2>1. arrived \in {0} \cup Updates /\ confirmed \in 0 .. arrived /\ offset \in 0 .. arrived
    BY <1>1
  <2>2. poller \in [Pollers -> [pc : Labels, mark : 0 .. arrived,
                      batch : SUBSET (1 .. arrived), status : Statuses \cup {""}]]
    BY <1>1, <1>2
  <2>3. executed \in [Updates -> Nat]
    BY <1>1
  <2>4. QED
    BY <1>1, <1>3, <2>1, <2>2, <2>3 DEF TypeOK
<1>5. \A p \in Pollers : Claim(p)
  BY <1>3 DEF Claim
<1>6. RowsTrue /\ UnauditedNeedsTwoFailures
  BY <1>1 DEF RowsTrue, UnauditedNeedsTwoFailures
<1>7. OrderInv
  BY <1>1, <1>3 DEF OrderInv, Handled, Saving
<1>8. QED
  BY <1>1, <1>4, <1>5, <1>6, <1>7 DEF AuditInv

LEMMA InboxInv == Spec => [](AuditInv /\ OrderInv)
<1>1. AuditInv /\ OrderInv /\ [Next]_vars => (AuditInv /\ OrderInv)'
  BY NextKeepsAudit, NextKeepsOrder DEF AuditInv
<1>2. QED
  BY <1>1, InitSound, PTL DEF Spec

\* Whoever dies, fails or polls at the same time: the audit log does not claim
\* more than happened, and leaves out no message but one it failed twice for.
THEOREM AuditStaysComplete == Spec => []AuditIsComplete
<1>1. AuditInv => AuditIsComplete
  <2> SUFFICES ASSUME AuditInv PROVE AuditIsComplete
    OBVIOUS
  <2>1. TypeOK /\ RowsTrue /\ UnauditedNeedsTwoFailures
    BY DEF AuditInv
  <2>2. AuditTellsTruth
    <3>1. ASSUME NEW u \in Updates, <<u, "REJECTED_UNAUTHORIZED">> \in audit
          PROVE  executed[u] = 0 /\ u \notin replied
      <4>1. Kind[u] = "unauthorized" /\ ~(executed[u] > 0) /\ u \notin replied
        BY <2>1, <3>1 DEF RowsTrue
      <4>2. executed[u] \in Nat
        BY <2>1 DEF TypeOK
      <4>3. QED
        BY <4>1, <4>2
    <3>2. QED
      BY <2>1, <3>1 DEF AuditTellsTruth, RowsTrue
  <2>3. QED
    BY <2>1, <2>2 DEF AuditIsComplete
<1>2. QED
  BY <1>1, InboxInv, PTL

(***************************************************************************)
(* The refinement: pollers implement an inbox                              *)
(***************************************************************************)
LEMMA ConfirmAcknowledges ==
  ASSUME AuditInv, OrderInv, NEW p \in Pollers, UNCHANGED <<arrived, handled>>,
         Confirm(poller[p].mark) \/ UNCHANGED confirmed
  PROVE  [Promise!Next]_(Promise!vars)
<1>1. /\ confirmed' \in 0 .. arrived /\ confirmed' >= confirmed
      /\ Handled(confirmed') /\ confirmed \in Nat /\ arrived \in Nat
  BY ConfirmedMark, ArrivedType DEF AuditInv
<1>2. CASE confirmed' = confirmed
  BY <1>2 DEF Promise!vars
<1>3. CASE confirmed' # confirmed
  <2>1. confirmed' \in 1 .. arrived /\ confirmed < confirmed'
    BY <1>1, <1>3
  <2>2. Promise!Acknowledge(confirmed')
    BY <1>1, <2>1 DEF Promise!Acknowledge, Handled
  <2>3. QED
    BY <2>1, <2>2 DEF Promise!Next
<1>4. QED
  BY <1>2, <1>3

LEMMA WorkingHandlesNext ==
  ASSUME AuditInv, OrderInv, NEW p \in Pollers, Working(p)
  PROVE  [Promise!Next]_(Promise!vars)
<1>1. /\ UNCHANGED <<arrived, confirmed>> /\ poller[p].batch # {}
      /\ handled' \in {handled, handled \cup {Current(p)}}
  BY WorkingFrame, WorkingHandles DEF AuditInv
<1>2. PICK u : u = Current(p)
  OBVIOUS
<1>3. u \in 1 .. arrived /\ 1 .. u - 1 \subseteq handled
  BY <1>1, <1>2, CurrentType, FirstIsNext DEF AuditInv, Handled
<1>4. CASE handled' = handled
  BY <1>1, <1>4 DEF Promise!vars
<1>5. CASE handled' = handled \cup {u}
  <2>1. Promise!Handle(u)
    BY <1>1, <1>3, <1>5 DEF Promise!Handle
  <2>2. QED
    BY <1>3, <2>1 DEF Promise!Next
<1>6. QED
  BY <1>1, <1>2, <1>4, <1>5

LEMMA NextIsInbox ==
  ASSUME AuditInv, OrderInv, [Next]_vars
  PROVE  [Promise!Next]_(Promise!vars)
<1>1. CASE UNCHANGED <<arrived, confirmed, handled>>
  BY <1>1 DEF Promise!vars
<1>2. CASE Arrive
  BY <1>2 DEF Arrive, Promise!Next, Promise!Arrive, history
<1>3. ASSUME NEW p \in Pollers, Stopping(p) \/ Fetch(p)
      PROVE  [Promise!Next]_(Promise!vars)
  <2>1. /\ UNCHANGED <<arrived, handled>>
        /\ Confirm(poller[p].mark) \/ UNCHANGED confirmed
    BY <1>3
    DEF Stopping, Fetch, FetchFails, SetLastUpdateIdFails, Crash, history
  <2>2. QED
    BY <2>1, ConfirmAcknowledges
<1>4. ASSUME NEW p \in Pollers, ReadOffset(p) \/ NextUpdate(p) \/ SetLastUpdateId(p)
      PROVE  [Promise!Next]_(Promise!vars)
  BY <1>1, <1>4 DEF ReadOffset, NextUpdate, SetLastUpdateId, history
<1>5. ASSUME NEW p \in Pollers,
             Step(p) \/ FetchFails(p) \/ ReplyFails(p) \/ AuditFails(p)
               \/ SetLastUpdateIdFails(p) \/ Crash(p)
      PROVE  [Promise!Next]_(Promise!vars)
  <2>1. \/ Working(p) \/ Stopping(p) \/ ReadOffset(p) \/ Fetch(p)
        \/ NextUpdate(p) \/ SetLastUpdateId(p)
    BY <1>5 DEF Step, Working, Stopping
  <2>2. QED
    BY <1>3, <1>4, <2>1, WorkingHandlesNext
<1>6. CASE UNCHANGED vars
  BY <1>1, <1>6 DEF vars, history
<1>7. QED
  BY <1>2, <1>5, <1>6 DEF Next

\* Pollers that fail, die and overlap in any way handle the updates in the order
\* of their arrival, and the server is told only of those that were handled.
THEOREM PollersImplementInbox == Spec => ImplementsInbox
<1>1. Init => Promise!Init
  BY DEF Init, Promise!Init
<1>2. AuditInv /\ OrderInv /\ [Next]_vars => [Promise!Next]_(Promise!vars)
  BY NextIsInbox
<1>3. QED
  BY <1>1, <1>2, InboxInv, PTL DEF Spec, ImplementsInbox, Promise!Spec

(***************************************************************************)
(* One poller: an update runs again only after a failure or a crash        *)
(***************************************************************************)
OnePoller == \A p, q \in Pollers : p = q

\* The poller is between the execution of u and the write of its offset.
InHand(u) ==
  \E p \in Pollers :
    /\ poller[p].pc \in {"reply", "audit", "audit error"} \cup Saving
    /\ Current(p) = u

RepeatInv ==
  /\ \A p \in Pollers :
       /\ poller[p].pc # "idle" => poller[p].mark = offset
       /\ poller[p].pc \in WorkLabels => Current(p) > offset
       /\ poller[p].pc = "insert" => offset = 0
  /\ \A u \in Updates :
       /\ executed[u] <= 1 + crashes + failures
       /\ u > offset /\ ~InHand(u) => executed[u] <= crashes + failures

LEMMA SumOfNats == \A m, n \in Nat : m + n \in Nat
  OBVIOUS

\* What a step that executes nothing has to show.
LEMMA RepeatsKept ==
  ASSUME AuditInv, OnePoller, RepeatInv, NEW p \in Pollers,
         executed' = executed, crashes' \in Nat, failures' \in Nat,
         crashes' + failures' >= crashes + failures,
         poller'[p].pc # "idle" => poller'[p].mark = offset',
         poller'[p].pc \in WorkLabels => Current(p)' > offset',
         poller'[p].pc = "insert" => offset' = 0,
         \A u \in Updates : u > offset' /\ ~InHand(u)' =>
           \/ u > offset /\ ~InHand(u)
           \/ crashes' + failures' > crashes + failures
  PROVE  RepeatInv'
<1>1. \A q \in Pollers : q = p
  BY DEF OnePoller
<1>2. crashes \in Nat /\ failures \in Nat /\ \A u \in Updates : executed[u] \in Nat
  BY DEF AuditInv, TypeOK
<1>3. ASSUME NEW u \in Updates
      PROVE  /\ executed'[u] <= 1 + crashes' + failures'
             /\ u > offset' /\ ~InHand(u)' => executed'[u] <= crashes' + failures'
  <2>1. PICK n, before, after :
          /\ n = executed[u] /\ before = crashes + failures
          /\ after = crashes' + failures'
    OBVIOUS
  <2>2. n \in Nat /\ before \in Nat /\ after \in Nat /\ after >= before
    <3>1. n \in Nat
      BY <1>2, <2>1
    <3>2. crashes + failures \in Nat /\ crashes' + failures' \in Nat
      BY <1>2, SumOfNats, Zenon
    <3>3. before \in Nat /\ after \in Nat
      BY <2>1, <3>2
    <3>4. after >= before
      BY <2>1
    <3>5. QED
      BY <3>1, <3>3, <3>4
  <2>3. n <= 1 + before
    BY <1>2, <2>1 DEF RepeatInv
  <2>4. u > offset /\ ~InHand(u) => n <= before
    BY <2>1 DEF RepeatInv
  <2>5. u > offset' /\ ~InHand(u)' => n <= after
    BY <2>1, <2>2, <2>3, <2>4
  <2>6. n <= 1 + after
    BY <2>2, <2>3
  <2>7. QED
    BY <1>2, <2>1, <2>5, <2>6
<1>4. QED
  BY <1>1, <1>3 DEF RepeatInv

LEMMA BudgetGrows ==
  ASSUME AuditInv,
         UNCHANGED bounds \/ OneFails \/ (crashes' = crashes + 1 /\ UNCHANGED failures)
  PROVE  /\ crashes' \in Nat /\ failures' \in Nat
         /\ crashes' + failures' >= crashes + failures
         /\ ~UNCHANGED bounds => crashes' + failures' > crashes + failures
<1>1. crashes \in Nat /\ failures \in Nat
  BY DEF AuditInv
<1>2. CASE UNCHANGED bounds
  BY <1>1, <1>2 DEF bounds
<1>3. CASE OneFails
  BY <1>1, <1>3 DEF OneFails
<1>4. CASE crashes' = crashes + 1 /\ UNCHANGED failures
  BY <1>1, <1>4
<1>5. QED
  BY <1>2, <1>3, <1>4

\* Who gives up an update pays for it.
LEMMA StopKeepsRepeats ==
  ASSUME AuditInv, OnePoller, RepeatInv, NEW p \in Pollers, Stop(p),
         UNCHANGED <<offset, history>>,
         \/ OneFails \/ (crashes' = crashes + 1 /\ UNCHANGED failures)
         \/ UNCHANGED bounds /\ poller[p].pc = "next"
  PROVE  RepeatInv'
<1>1. /\ poller'[p].pc = "idle"
      /\ crashes' \in Nat /\ failures' \in Nat
      /\ crashes' + failures' >= crashes + failures
      /\ ~UNCHANGED bounds => crashes' + failures' > crashes + failures
  BY StopMoves, BudgetGrows DEF AuditInv
<1>2. ASSUME UNCHANGED bounds PROVE poller[p].pc = "next"
  BY <1>2 DEF OneFails, bounds, AuditInv
<1>3. poller[p].pc = "next" => \A u \in Updates : ~InHand(u)
  BY DEF OnePoller, InHand, Saving
<1>4. \A u \in Updates : u > offset' /\ ~InHand(u)' =>
        \/ u > offset /\ ~InHand(u)
        \/ crashes' + failures' > crashes + failures
  BY <1>1, <1>2, <1>3
<1>5. executed' = executed
  BY DEF history
<1>6. QED
  BY <1>1, <1>4, <1>5, RepeatsKept DEF WorkLabels, Saving

\* A step that goes on without a write, or with the update in hand before and after.
LEMMA GoOnKeepsRepeats ==
  ASSUME AuditInv, OnePoller, RepeatInv, NEW p \in Pollers,
         UNCHANGED <<offset, executed>>, UNCHANGED bounds \/ OneFails,
         poller'[p].pc # "idle" => poller'[p].mark = offset,
         poller'[p].pc \in WorkLabels => Current(p)' > offset,
         poller'[p].pc = "insert" => offset = 0,
         \/ poller[p].pc \notin {"reply", "audit", "audit error"} \cup Saving
         \/ /\ poller'[p].pc \in {"reply", "audit", "audit error"} \cup Saving
            /\ Current(p)' = Current(p)
  PROVE  RepeatInv'
<1>1. /\ crashes' \in Nat /\ failures' \in Nat
      /\ crashes' + failures' >= crashes + failures
  BY BudgetGrows
<1>2. \A u \in Updates : InHand(u) => InHand(u)'
  BY DEF OnePoller, InHand
<1>3. \A u \in Updates : u > offset' /\ ~InHand(u)' => u > offset /\ ~InHand(u)
  BY <1>2
<1>4. QED
  BY <1>1, <1>3, RepeatsKept

LEMMA ExecuteKeepsRepeats ==
  ASSUME AuditInv, OnePoller, RepeatInv, NEW p \in Pollers, Execute(p)
  PROVE  RepeatInv'
<1>1. PICK u : u = Current(p)
  OBVIOUS
<1>2. /\ TypeOK /\ Working(p) /\ poller[p].pc = "process"
      /\ executed' = [executed EXCEPT ![u] = @ + 1]
      /\ UNCHANGED bounds \/ OneFails
  BY <1>1 DEF Execute, At, Working, AuditInv
<1>3. /\ poller'[p].pc = "reply" /\ poller'[p].mark = poller[p].mark
      /\ offset' = offset /\ Current(p)' = u /\ u \in Updates
  BY <1>1, <1>2, WorkingFrame, WorkingLabel, CurrentStays DEF Moves
<1>4. /\ crashes' \in Nat /\ failures' \in Nat
      /\ crashes' + failures' >= crashes + failures
  BY <1>2, BudgetGrows
<1>5. \A v \in Updates : executed[v] \in Nat
  BY <1>2 DEF TypeOK
<1>6. \A q \in Pollers : q = p
  BY DEF OnePoller
<1>7. /\ \A v \in Updates : ~InHand(v)
      /\ \A v \in Updates : InHand(v)' <=> v = u
  BY <1>2, <1>3, <1>6 DEF InHand, Saving
<1>8. u > offset /\ executed[u] <= crashes + failures
  BY <1>1, <1>2, <1>3, <1>7 DEF RepeatInv, WorkLabels
<1>9. /\ executed'[u] = executed[u] + 1
      /\ \A v \in Updates \ {u} : executed'[v] = executed[v]
  BY <1>2, <1>3, CountedUp DEF TypeOK
<1>10. ASSUME NEW v \in Updates
       PROVE  /\ executed'[v] <= 1 + crashes' + failures'
              /\ v > offset' /\ ~InHand(v)' => executed'[v] <= crashes' + failures'
  <2>1. PICK n, before, after :
          /\ n = executed[v] /\ before = crashes + failures
          /\ after = crashes' + failures'
    OBVIOUS
  <2>2. n \in Nat /\ before \in Nat /\ after \in Nat /\ after >= before
    <3>1. crashes \in Nat /\ failures \in Nat
      BY DEF AuditInv
    <3>2. crashes + failures \in Nat /\ crashes' + failures' \in Nat
      BY <1>4, <3>1, SumOfNats, Zenon
    <3>3. before \in Nat /\ after \in Nat /\ after >= before
      BY <1>4, <2>1, <3>2
    <3>4. QED
      BY <1>5, <2>1, <3>3
  <2>3. n <= 1 + before /\ (v > offset /\ ~InHand(v) => n <= before)
    BY <2>1 DEF RepeatInv, AuditInv
  <2>4. CASE v = u
    <3>1. n <= before /\ executed'[v] = n + 1
      BY <1>8, <1>9, <2>1, <2>4
    <3>2. executed'[v] <= 1 + after
      BY <2>2, <3>1
    <3>3. QED
      BY <1>4, <1>7, <2>1, <2>4, <3>2
  <2>5. CASE v # u
    <3>1. executed'[v] = n /\ ~InHand(v)
      BY <1>7, <1>9, <2>1, <2>5
    <3>2. n <= 1 + after /\ (v > offset => n <= after)
      BY <2>2, <2>3, <3>1
    <3>3. QED
      BY <1>3, <1>4, <2>1, <3>1, <3>2
  <2>6. QED
    BY <2>4, <2>5
<1>11. \A q \in Pollers :
         /\ poller'[q].pc # "idle" => poller'[q].mark = offset'
         /\ poller'[q].pc \in WorkLabels => Current(q)' > offset'
         /\ poller'[q].pc = "insert" => offset' = 0
  BY <1>2, <1>3, <1>6, <1>8 DEF RepeatInv
<1>12. QED
  BY <1>10, <1>11 DEF RepeatInv

LEMMA WorkingKeepsRepeats ==
  ASSUME AuditInv, OnePoller, RepeatInv, NEW p \in Pollers, Working(p), ~Execute(p)
  PROVE  RepeatInv'
<1>1. /\ TypeOK /\ Moves(p, WorkLabels) /\ HasCurrent(p)
      /\ UNCHANGED <<arrived, confirmed, offset>>
  BY WorkingFrame DEF AuditInv
<1>2. Current(p)' = Current(p)
  BY <1>1, CurrentStays
<1>3. poller[p].pc \in WorkLabels
  BY <1>1 DEF HasCurrent, TypeOK, Labels, WorkLabels, Saving
<1>4. /\ poller[p].mark = offset /\ Current(p) > offset
  BY <1>3 DEF RepeatInv, WorkLabels, Saving
<1>5. /\ poller'[p].mark = offset /\ Current(p)' > offset
  BY <1>1, <1>2, <1>4 DEF Moves
<1>6. executed' = executed /\ (UNCHANGED bounds \/ OneFails)
  BY DEF Working, SkipNoText, Refuse, Reply, ReplyFails, Audit, AuditFails,
         AuditError, AuditInstead, GetState, Processed, history
<1>7. poller'[p].pc = "insert" => offset = 0
  <2>1. CASE GetState(p)
    BY <1>1, <2>1, GotoMoves DEF GetState, Labels
  <2>2. CASE Processed(p)
    <3>1. poller'[p].pc = "get"
      BY <1>1, <2>2, GotoMoves DEF Processed, Labels
    <3>2. QED
      BY <3>1
  <2>3. CASE Refuse(p) \/ Reply(p) \/ ReplyFails(p) \/ AuditFails(p)
    <3>1. poller'[p].pc \in {"reply", "audit", "audit error"}
      BY <1>1, <2>3, WorkingLabel
    <3>2. QED
      BY <3>1
  <2>4. QED
    BY <2>1, <2>2, <2>3 DEF Working, SkipNoText, Audit, AuditError
<1>8. \/ poller[p].pc \notin {"reply", "audit", "audit error"} \cup Saving
      \/ poller'[p].pc \in {"reply", "audit", "audit error"} \cup Saving
  <2>1. CASE Processed(p) \/ GetState(p)
    BY <1>1, <2>1, WorkingLabel
  <2>2. CASE Refuse(p) \/ Reply(p) \/ ReplyFails(p) \/ AuditFails(p)
    BY <1>1, <2>2, WorkingLabel
  <2>3. QED
    BY <2>1, <2>2 DEF Working, SkipNoText, Audit, AuditError
<1>9. QED
  BY <1>1, <1>2, <1>5, <1>6, <1>7, <1>8, GoOnKeepsRepeats

LEMMA PollKeepsRepeats ==
  ASSUME AuditInv, OrderInv, OnePoller, RepeatInv, NEW p \in Pollers,
         ReadOffset(p) \/ Fetch(p)
  PROVE  RepeatInv'
<1>1. /\ UNCHANGED <<offset, bounds, executed>> /\ poller'[p].mark = offset
      /\ poller'[p].pc \in {"fetch", "next"} /\ poller[p].pc \in {"idle", "fetch"}
  <2>1. CASE ReadOffset(p)
    BY <2>1, ReadOffsetSets DEF ReadOffset, AuditInv, history
  <2>2. CASE Fetch(p)
    <3>1. poller[p].pc = "fetch" /\ poller[p].mark = offset
      BY <2>2 DEF Fetch, At, RepeatInv
    <3>2. poller'[p].pc = "next" /\ poller'[p].mark = poller[p].mark
      BY <2>2, FetchSets DEF AuditInv
    <3>3. QED
      BY <2>2, <3>1, <3>2 DEF Fetch, history
  <2>3. QED
    BY <2>1, <2>2
<1>2. QED
  BY <1>1, GoOnKeepsRepeats DEF WorkLabels, Saving

LEMMA NextUpdateKeepsRepeats ==
  ASSUME AuditInv, OnePoller, RepeatInv, NEW p \in Pollers, NextUpdate(p)
  PROVE  RepeatInv'
<1>1. /\ TypeOK /\ UNCHANGED <<offset, executed, bounds, history>>
      /\ poller[p].pc = "next" /\ poller[p].mark = offset
  BY DEF NextUpdate, At, AuditInv, RepeatInv, history
<1>2. CASE Stop(p)
  BY <1>1, <1>2, StopKeepsRepeats
<1>3. CASE poller'[p].pc = "next" /\ poller'[p].mark = poller[p].mark
  BY <1>1, <1>3, GoOnKeepsRepeats DEF WorkLabels, Saving
<1>4. CASE Current(p) > poller[p].mark /\ Moves(p, {"process"})
  <2>1. Current(p)' = Current(p)
    BY <1>4 DEF Moves, Current
  <2>2. /\ poller'[p].pc = "process" /\ poller'[p].mark = offset
        /\ Current(p)' > offset
    BY <1>1, <1>4, <2>1 DEF Moves
  <2>3. QED
    BY <1>1, <2>2, GoOnKeepsRepeats DEF Saving
<1>5. QED
  BY <1>1, <1>2, <1>3, <1>4, NextUpdateSets

\* Once the offset is written, the update does not come back.
LEMMA SaveKeepsRepeats ==
  ASSUME AuditInv, OnePoller, RepeatInv, NEW p \in Pollers, SetLastUpdateId(p)
  PROVE  RepeatInv'
<1>1. /\ TypeOK /\ UNCHANGED <<executed, crashes, failures>>
      /\ crashes \in Nat /\ failures \in Nat
  BY DEF SetLastUpdateId, AuditInv, bounds, history
<1>2. /\ offset' = Current(p) /\ poller[p].pc \in {"insert", "update"}
      /\ poller[p].batch # {}
      /\ poller'[p].pc = "next" /\ poller'[p].mark = Current(p)
  BY <1>1, SaveSets DEF RepeatInv
<1>3. Current(p) > offset /\ Current(p) \in Nat /\ offset \in Nat
  BY <1>1, <1>2, CurrentType, ArrivedType DEF RepeatInv, WorkLabels, Saving
<1>4. \A u \in Updates : InHand(u) => u = Current(p)
  BY DEF OnePoller, InHand
<1>5. \A u \in Updates : u \in Nat
  BY InboundAssumption DEF Updates
<1>6. ASSUME NEW u \in Updates, u > offset' PROVE u > offset /\ ~InHand(u)
  <2>1. PICK c, o : c = Current(p) /\ o = offset
    OBVIOUS
  <2>2. c \in Nat /\ o \in Nat /\ c > o /\ u \in Nat /\ u > c
    BY <1>2, <1>3, <1>5, <1>6, <2>1
  <2>3. u > o /\ u # c
    BY <2>2
  <2>4. QED
    BY <1>4, <2>1, <2>3
<1>7. /\ crashes' \in Nat /\ failures' \in Nat
      /\ crashes' + failures' >= crashes + failures
  <2>1. PICK c, f : c = crashes /\ f = failures
    OBVIOUS
  <2>2. c \in Nat /\ f \in Nat /\ crashes' = c /\ failures' = f
    BY <1>1, <2>1
  <2>3. c + f >= c + f
    BY <2>2
  <2>4. QED
    BY <2>1, <2>2, <2>3
<1>8. QED
  BY <1>1, <1>2, <1>6, <1>7, RepeatsKept DEF WorkLabels, Saving

LEMMA StoppingKeepsRepeats ==
  ASSUME AuditInv, OnePoller, RepeatInv, NEW p \in Pollers, Stopping(p)
  PROVE  RepeatInv'
<1>1. /\ Stop(p) /\ UNCHANGED <<offset, history>>
      /\ OneFails \/ (crashes' = crashes + 1 /\ UNCHANGED failures)
  BY DEF Stopping, FetchFails, SetLastUpdateIdFails, Crash
<1>2. QED
  BY <1>1, StopKeepsRepeats

LEMMA NextKeepsRepeats ==
  ASSUME AuditInv, OrderInv, OnePoller, RepeatInv, [Next]_vars
  PROVE  RepeatInv'
<1>1. CASE UNCHANGED <<poller, offset, executed, bounds>>
  <2>1. /\ \A p \in Pollers : Current(p)' = Current(p)
        /\ \A u \in Updates : InHand(u)' = InHand(u)
    BY <1>1 DEF Current, InHand
  <2>2. QED
    BY <1>1, <2>1 DEF RepeatInv, bounds
<1>2. CASE Arrive \/ UNCHANGED vars
  BY <1>1, <1>2 DEF Arrive, vars, history
<1>3. ASSUME NEW p \in Pollers,
             Step(p) \/ FetchFails(p) \/ ReplyFails(p) \/ AuditFails(p)
               \/ SetLastUpdateIdFails(p) \/ Crash(p)
      PROVE  RepeatInv'
  <2>1. \/ Working(p) \/ Stopping(p) \/ ReadOffset(p) \/ Fetch(p)
        \/ NextUpdate(p) \/ SetLastUpdateId(p)
    BY <1>3 DEF Step, Working, Stopping
  <2>2. QED
    BY <2>1, ExecuteKeepsRepeats, WorkingKeepsRepeats, StoppingKeepsRepeats,
       PollKeepsRepeats, NextUpdateKeepsRepeats, SaveKeepsRepeats
<1>4. QED
  BY <1>2, <1>3 DEF Next

LEMMA InitRepeats == Init => RepeatInv
<1> SUFFICES ASSUME Init PROVE RepeatInv
  OBVIOUS
<1>1. /\ \A p \in Pollers : poller[p].pc = "idle"
      /\ \A u \in Updates : executed[u] = 0
      /\ failures = 0 /\ crashes = 0
  BY DEF Init, Idle
<1>2. \A p \in Pollers :
        poller[p].pc \notin WorkLabels /\ poller[p].pc \notin {"insert"}
  BY <1>1 DEF WorkLabels, Saving
<1>3. \A u \in Updates :
        executed[u] <= 1 + crashes + failures /\ executed[u] <= crashes + failures
  BY <1>1
<1>4. QED
  BY <1>1, <1>2, <1>3 DEF RepeatInv

\* One poller at a time: a command runs again only after the poller died or a
\* statement failed, and all that ran, was refused or was answered is on record.
THEOREM PollStaysSound ==
  ASSUME OnePoller
  PROVE  Spec => []PollSound
<1>1. AuditInv /\ OrderInv /\ RepeatInv /\ [Next]_vars => RepeatInv'
  BY NextKeepsRepeats
<1>2. Spec => []RepeatInv
  BY <1>1, InboxInv, InitRepeats, PTL DEF Spec
<1>3. RepeatInv => RepeatsAreCrashes
  BY DEF RepeatInv, RepeatsAreCrashes
<1>4. QED
  BY <1>2, <1>3, AuditStaysComplete, PTL DEF PollSound
=============================================================================
