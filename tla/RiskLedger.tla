----------------------------- MODULE RiskLedger ------------------------------
(***************************************************************************)
(* The decision journal and its risk gate: JournalService                  *)
(* (Services/journal_service.py), RiskLedgerPolicy                         *)
(* (Business/risk_ledger_policy.py) and the repositories of the journal    *)
(* and of the one row of limits.                                           *)
(*                                                                         *)
(* Every call is a process of the command line. Its statements are         *)
(* committed one by one, so that between the statistics that a decision is *)
(* judged on and the row that records it other calls may write, and the    *)
(* day may end. A call writes one row, with its last statement: one that   *)
(* dies before leaves nothing.                                             *)
(***************************************************************************)
EXTENDS Sums, Sequences, SequencesExt, FiniteSets

CONSTANTS
  Clerks,
  Plans,           \* the decision briefs, each with its plan
  RiskAmount,      \* of each: the planned loss, 0 if it has no priced plan
  AnyLimits,       \* the limits that a person may set
  MaxEntries,      \* bound on calls of record_decision
  MaxOutcomes,     \* bound on calls of record_outcome
  MaxSaves,        \* bound on calls of save
  MaxJournalCalls, \* bound on all of them
  LastDay

LimitsType ==
  [allowed : SUBSET Plans, max_risk : Nat, max_daily_loss : Nat,
   max_trades_per_day : Nat, loss_streak_cooldown : Nat]

ASSUME LedgerAssumption ==
  /\ IsFiniteSet(Clerks)
  /\ RiskAmount \in [Plans -> Nat]
  /\ AnyLimits \subseteq LimitsType
  /\ {MaxEntries, MaxOutcomes, MaxSaves, MaxJournalCalls, LastDay} \subseteq Nat

VARIABLES
  day,
  limits,       \* risk_limits: the row, if there is one
  journal,      \* journal_entries
  clerk,        \* what each process is doing
  closings,     \* closed_at: the clock of the outcomes
  entries, saves,
  \* history, read by no action:
  highest,      \* the largest max_trades_per_day ever set
  crowded       \* two calls have overlapped

ledgerVars ==
  <<day, limits, journal, clerk, closings, entries, saves, highest, crowded>>

Decisions == {"TAKE", "SKIP"}      \* SKIP stands for WAIT, too
Gates     == {"ACCEPTED", "RISK_REJECTED"}
Closed    == {"CLOSED_WIN", "CLOSED_LOSS"}   \* a WIN stands for a BREAKEVEN, too
Outcomes  == {"OPEN"} \cup Closed

\* realized is the loss in money: 0 if there is none, or no exit price.
JournalEntry ==
  [brief : Plans, decision : Decisions, gate : Gates, decided : 0 .. LastDay,
   outcome : {""} \cup Outcomes, realized : Nat, closed : Nat,
   closed_on : 0 .. LastDay]

\* The local variables of a call: what it read, and what it will write.
AtDesk == [pc : {"idle"}]
Judging ==
  [pc : {"limits", "stats"}, brief : Plans, decision : Decisions,
   limits : SUBSET AnyLimits]
Deciding ==
  [pc : {"record"}, brief : Plans, decision : Decisions, gate : Gates]
Closing ==
  [pc : {"close"}, entry : Nat \ {0}, outcome : Outcomes, realized : Nat,
   closed : Nat, closed_on : 0 .. LastDay]
Saving == [pc : {"save", "insert", "update"}, limits : AnyLimits]

LedgerTypeOK ==
  /\ day \in 0 .. LastDay
  /\ limits \in SUBSET AnyLimits /\ Cardinality(limits) <= 1
  /\ journal \in Seq(JournalEntry)
  /\ clerk \in [Clerks -> AtDesk \cup Judging \cup Deciding \cup Closing \cup Saving]
  /\ \A c \in Clerks : clerk[c].pc = "close" => clerk[c].entry \in DOMAIN journal
  /\ closings \in 0 .. MaxOutcomes /\ entries \in 0 .. MaxEntries
  /\ saves \in 0 .. MaxSaves
  /\ highest \in Nat /\ crowded \in BOOLEAN

LedgerInit ==
  /\ day = 0 /\ limits = {} /\ journal = << >>
  /\ clerk = [c \in Clerks |-> [pc |-> "idle"]]
  /\ closings = 0 /\ entries = 0 /\ saves = 0
  /\ highest = 0 /\ crowded = FALSE

(***************************************************************************)
(* Helpers                                                                 *)
(***************************************************************************)
Does(c, label) == clerk[c].pc = label

MayCall == entries + closings + saves < MaxJournalCalls

\* A call begins, or goes on, or ends.
Begin(c, state) ==
  /\ Does(c, "idle")
  /\ clerk' = [clerk EXCEPT ![c] = state]
  /\ crowded' = (crowded \/ \E d \in Clerks \ {c} : ~Does(d, "idle"))

GoOn(c, state) == clerk' = [clerk EXCEPT ![c] = state] /\ UNCHANGED crowded

Leave(c) == GoOn(c, [pc |-> "idle"])

Taken(entry) == entry.decision = "TAKE" /\ entry.gate = "ACCEPTED"

(***************************************************************************)
(* _compute_stats and RiskLedgerPolicy.evaluate                            *)
(***************************************************************************)
TradesOf(d) ==
  {i \in DOMAIN journal : Taken(journal[i]) /\ journal[i].decided = d}

TradesTakenToday == Cardinality(TradesOf(day))

\* What the rows of S have lost.
Lost(S) == SumOver([i \in DOMAIN journal |-> journal[i].realized], S)

Losses == {i \in DOMAIN journal : journal[i].outcome = "CLOSED_LOSS"}

LossOn(d) == Lost({i \in Losses : journal[i].closed_on = d})

\* Mutant: the losses of what was decided today.
LossOfTodaysDecisions == Lost({i \in Losses : journal[i].decided = day})

RealizedLossToday == LossOn(day)

\* The losses that were closed after everything else.
CurrentLossStreak ==
  Cardinality({i \in DOMAIN journal :
    /\ journal[i].outcome = "CLOSED_LOSS"
    /\ \A j \in DOMAIN journal :
         journal[j].outcome \in Closed \ {"CLOSED_LOSS"} =>
           journal[j].closed < journal[i].closed})

\* Mutant: one more than the limit.
WithinTradesInclusive(l) == TradesTakenToday <= l.max_trades_per_day

WithinTrades(l) == TradesTakenToday < l.max_trades_per_day

WithinLoss(l) == RealizedLossToday < l.max_daily_loss

OutOfCooldown(l) ==
  l.loss_streak_cooldown > 0 => CurrentLossStreak < l.loss_streak_cooldown

\* The plan of a brief is there and small enough.
WithinPlan(l, brief) ==
  /\ brief \in l.allowed
  /\ RiskAmount[brief] > 0 /\ RiskAmount[brief] <= l.max_risk

\* A TAKE needs limits, and to be within all of them.
evaluate(decision, brief, l) ==
  IF decision = "TAKE" =>
       \E x \in l : /\ WithinPlan(x, brief)
                    /\ WithinLoss(x) /\ WithinTrades(x) /\ OutOfCooldown(x)
  THEN "ACCEPTED" ELSE "RISK_REJECTED"

(***************************************************************************)
(* JournalService.record_decision                                          *)
(***************************************************************************)
BeginDecision(c, brief, decision) ==
  /\ MayCall /\ entries < MaxEntries /\ entries' = entries + 1
  /\ Begin(c, [pc |-> "limits", brief |-> brief, decision |-> decision,
               limits |-> {}])
  /\ UNCHANGED <<day, limits, journal, closings, saves, highest>>

ReadLimits(c) ==
  /\ Does(c, "limits")
  /\ GoOn(c, [clerk[c] EXCEPT !.pc = "stats", !.limits = limits])
  /\ UNCHANGED <<day, limits, journal, closings, entries, saves, highest>>

Judge(c) ==
  LET me == clerk[c]
  IN  /\ Does(c, "stats")
      /\ GoOn(c, [pc |-> "record", brief |-> me.brief, decision |-> me.decision,
                  gate |-> evaluate(me.decision, me.brief, me.limits)])
      /\ UNCHANGED <<day, limits, journal, closings, entries, saves, highest>>

\* decided_at is the time now, not that of the statistics.
RecordDecision(c) ==
  LET me == clerk[c]
  IN  /\ Does(c, "record")
      /\ journal' = Append(journal,
           [brief |-> me.brief, decision |-> me.decision, gate |-> me.gate,
            decided |-> day, outcome |-> "", realized |-> 0, closed |-> 0,
            closed_on |-> 0])
      /\ Leave(c)
      /\ UNCHANGED <<day, limits, closings, entries, saves, highest>>

(***************************************************************************)
(* JournalService.record_outcome: of an accepted TAKE, any number of times *)
(***************************************************************************)
\* A loss is known in money only with an exit price.
BeginOutcome(c, i, outcome, priced) ==
  /\ MayCall /\ closings < MaxOutcomes /\ closings' = closings + 1
  /\ i \in DOMAIN journal /\ Taken(journal[i])
  /\ Begin(c, [pc |-> "close", entry |-> i, outcome |-> outcome,
               realized |-> IF outcome = "CLOSED_LOSS" /\ priced
                            THEN RiskAmount[journal[i].brief] ELSE 0,
               closed |-> closings + 1, closed_on |-> day])
  /\ UNCHANGED <<day, limits, journal, entries, saves, highest>>

RecordOutcome(c) ==
  LET me == clerk[c]
  IN  /\ Does(c, "close")
      /\ journal' = [journal EXCEPT ![me.entry].outcome = me.outcome,
                                    ![me.entry].realized = me.realized,
                                    ![me.entry].closed = me.closed,
                                    ![me.entry].closed_on = me.closed_on]
      /\ Leave(c)
      /\ UNCHANGED <<day, limits, closings, entries, saves, highest>>

(***************************************************************************)
(* RiskLimitsRepository.save                                               *)
(***************************************************************************)
BeginSave(c, l) ==
  /\ MayCall /\ saves < MaxSaves /\ saves' = saves + 1
  /\ Begin(c, [pc |-> "save", limits |-> l])
  /\ UNCHANGED <<day, limits, journal, closings, entries, highest>>

ReadRow(c) ==
  /\ Does(c, "save")
  /\ GoOn(c, [clerk[c] EXCEPT !.pc = IF limits = {} THEN "insert" ELSE "update"])
  /\ UNCHANGED <<day, limits, journal, closings, entries, saves, highest>>

\* The insert fails when another call has inserted the row in between.
SaveRow(c) ==
  LET l == clerk[c].limits
  IN  /\ Does(c, "insert") \/ Does(c, "update")
      /\ IF Does(c, "insert") /\ limits # {} THEN UNCHANGED <<limits, highest>>
         ELSE /\ limits' = {l}
              /\ highest' = IF l.max_trades_per_day > highest
                            THEN l.max_trades_per_day ELSE highest
      /\ Leave(c)
      /\ UNCHANGED <<day, journal, closings, entries, saves>>

NextDay ==
  /\ day < LastDay
  /\ day' = day + 1
  /\ UNCHANGED <<limits, journal, clerk, closings, entries, saves, highest,
                 crowded>>

LedgerNext ==
  \/ NextDay
  \/ \E c \in Clerks :
       \/ \E b \in Plans, d \in Decisions : BeginDecision(c, b, d)
       \/ \E i \in 1 .. MaxEntries, o \in Outcomes, priced \in BOOLEAN :
            BeginOutcome(c, i, o, priced)
       \/ \E l \in AnyLimits : BeginSave(c, l)
       \/ ReadLimits(c) \/ Judge(c) \/ RecordDecision(c) \/ RecordOutcome(c)
       \/ ReadRow(c) \/ SaveRow(c)

LedgerSpec == LedgerInit /\ [][LedgerNext]_ledgerVars

(***************************************************************************)
(* Properties                                                              *)
(***************************************************************************)
\* A day never has more accepted TAKEs than the limit allowed, except one for
\* each other process that was judged at the same time: an end of the day in
\* the middle of a call, or a change of the limits, lets no other through.
TradesPerDay ==
  \A d \in 0 .. LastDay :
    Cardinality(TradesOf(d))
      <= highest + (IF crowded THEN Cardinality(Clerks) - 1 ELSE 0)

\* The losses of the day so far, counted on the day of the loss, are below l's.
WithinDailyLoss(l) == LossOn(Last(journal').decided) < l.max_daily_loss

\* Not all of the newest outcomes, as many as l names, are losses.
NoLossStreak(l) ==
  LET n      == l.loss_streak_cooldown
      Ended  == {i \in DOMAIN journal : journal[i].outcome \in Closed}
      Newest == {i \in Ended : Cardinality(
                   {j \in Ended : journal[j].closed > journal[i].closed}) < n}
  IN  n > 0 /\ Cardinality(Newest) = n =>
        \E i \in Newest : journal[i].outcome # "CLOSED_LOSS"

\* As long as calls do not overlap, a TAKE is accepted only while the losses of
\* the time of its row are below the limit of the day and no streak of losses
\* stands; the streak has no end of its own, whatever day it is, until another
\* outcome or other limits come.
AcceptedWithinLimits ==
  [][Len(journal') > Len(journal) /\ Taken(Last(journal')) /\ ~crowded' =>
       \A l \in limits : WithinDailyLoss(l) /\ NoLossStreak(l)]_ledgerVars
=============================================================================
