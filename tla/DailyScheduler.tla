--------------------------- MODULE DailyScheduler ---------------------------
(***************************************************************************)
(* IDXDailyScheduler (Orchestration/idx_daily_scheduler.py): the jobs of a *)
(* trading day, driven by ticks.  A tick is one process started by the     *)
(* operating system; it reads the clock once, goes through the jobs in     *)
(* order, and exits.  All that survives it is in three tables: one row per *)
(* job and date in scheduler_job_runs, one row per alert in                *)
(* notification_dedup_state, and the audit log.                            *)
(*                                                                         *)
(* Every statement is committed on its own, so a tick can die between any  *)
(* two of them, and a slow tick overlaps the next one.                     *)
(***************************************************************************)
EXTENDS NotificationDedup, Sequences, FiniteSetsExt

CONSTANTS
  Ticks,             \* processes; more than one makes ticks overlap
  DayLength, MaxTime,          \* the clock stops at MaxTime
  TradingDates, CoveredDates,  \* dates, numbered from 0, of the calendar
  PreMarketOpen, Session1Open, Session1Close,
  Session2Open, Session2Close, \* times of day
  RetryBase, RetryMax, FreshnessWindow,
  EvidenceConfigured,          \* an evidence adapter was supplied
  MaxExponent,       \* largest power of two a Python float can take in
  AttemptCap,        \* attempts beyond it are counted as it
  MaxFailures,       \* bound on collaborators that raise
  MaxCrashes         \* bound on ticks that die

ASSUME SchedulerAssumption ==
  /\ DayLength \in Nat \ {0} /\ MaxTime \in Nat
  /\ TradingDates \subseteq CoveredDates /\ CoveredDates \subseteq Nat
  /\ {PreMarketOpen, Session1Open, Session1Close, Session2Open, Session2Close,
      RetryBase, RetryMax, FreshnessWindow, MaxExponent, MaxFailures,
      MaxCrashes} \subseteq Nat
  /\ AttemptCap \in Nat \ {0}
  /\ EvidenceConfigured \in BOOLEAN

\* A fact of arithmetic that no prover has, as far as the attempts are counted.
ASSUME PowersOfTwo == \A n \in 0 .. AttemptCap : 2 ^ n \in Nat

VARIABLES
  clock,
  runs,        \* scheduler_job_runs, by job and date
  dedup,       \* notification_dedup_state, by alert
  last_good,   \* time of the last session scan in the audit log, -1 if none
  tick,        \* what each process is doing
  failures, crashes,
  \* history, read by no action:
  told,        \* the last message delivered for each alert
  repeats,     \* deliveries that repeated or crowded the last one, capped
  recaps       \* daily reports delivered for each date, capped

tables  == <<runs, dedup, last_good>>
bounds  == <<failures, crashes>>
history == <<told, repeats, recaps>>
vars    == <<clock, tables, tick, bounds, history>>

JobOrder ==
  <<"pre_market_check", "session_scan", "data_health_check",
    "market_close_recap", "daily_review", "evidence_profile_analysis">>

Jobs    == {JobOrder[i] : i \in DOMAIN JobOrder}
RunOnce == Jobs \ {"session_scan", "data_health_check"}
Dates   == 0 .. MaxTime \div DayLength
Alerts  == {"session_scan_brief", "data_freshness"}

NotRun == [status |-> "", attempt |-> 0, next_retry_at |-> 0]

Labels == {"idle", "gate", "start", "write start", "work", "apply", "notify",
           "record", "succeed", "audit", "fail"}

IdleTick ==
  [pc |-> "idle", now |-> 0, job |-> 1, attempt |-> 0, alert |-> "",
   signature |-> "", decision |-> "", prior |-> NoState]

Signatures == {"", "ranking 1", "ranking 2", "FRESH", "DEGRADED"}

Decisions == {"", "SEND", "SUPPRESS_NO_CHANGE", "SUPPRESS_RATE_LIMITED", "FAILED"}

JobRow ==
  [status : {"", "RUNNING", "SUCCESS", "FAILED"}, attempt : 0 .. AttemptCap,
   next_retry_at : Nat]

DedupRow ==
  [last_signature : Signatures, last_sent_at : Nat,
   last_status : {"", "SENT", "SUPPRESSED", "FAILED"}]

TickState ==
  [pc : Labels, now : 0 .. MaxTime, job : DOMAIN JobOrder, attempt : 0 .. AttemptCap,
   alert : Alerts \cup {""}, signature : Signatures, decision : Decisions,
   prior : DedupRow]

TypeOK ==
  /\ clock \in 0 .. MaxTime
  /\ runs \in [Jobs -> [Dates -> JobRow]]
  /\ dedup \in [Alerts -> DedupRow]
  /\ last_good \in Nat \cup {-1}
  /\ tick \in [Ticks -> TickState]
  /\ failures \in Nat /\ crashes \in Nat
  /\ told \in [Alerts -> [signature : Signatures, at : 0 .. MaxTime]]
  /\ repeats \in Nat /\ recaps \in [Dates -> Nat]

Init ==
  /\ clock = 0
  /\ runs = [j \in Jobs |-> [d \in Dates |-> NotRun]]
  /\ dedup = [a \in Alerts |-> NoState]
  /\ last_good = -1
  /\ tick = [p \in Ticks |-> IdleTick]
  /\ failures = 0 /\ crashes = 0
  /\ told = [a \in Alerts |-> [signature |-> "", at |-> 0]]
  /\ repeats = 0 /\ recaps = [d \in Dates |-> 0]

(***************************************************************************)
(* The calendar                                                            *)
(***************************************************************************)
Date(t) == t \div DayLength

TimeOfDay(t) == t % DayLength

PreMarket(t) == PreMarketOpen <= TimeOfDay(t) /\ TimeOfDay(t) < Session1Open

MarketOpen(t) ==
  \/ Session1Open <= TimeOfDay(t) /\ TimeOfDay(t) < Session1Close
  \/ Session2Open <= TimeOfDay(t) /\ TimeOfDay(t) < Session2Close

Closed(t) == TimeOfDay(t) >= Session2Close

(***************************************************************************)
(* Helpers                                                                 *)
(***************************************************************************)
At(p, label) == tick[p].pc = label

Job(p) == JobOrder[tick[p].job]

Row(p) == runs[Job(p)][Date(tick[p].now)]

SetRow(p, row) == runs' = [runs EXCEPT ![Job(p)][Date(tick[p].now)] = row]

Goto(p, label) == tick' = [tick EXCEPT ![p].pc = label]

\* On to the next job of the tick, or the tick ends.
NextJob(p) ==
  tick' = [tick EXCEPT ![p] =
    IF tick[p].job = Len(JobOrder) THEN IdleTick
    ELSE [IdleTick EXCEPT !.pc = "gate", !.now = tick[p].now,
                          !.job = tick[p].job + 1]]

\* An exception nothing in tick() catches: the jobs that follow are not run.
Uncaught(p) == tick' = [tick EXCEPT ![p] = IdleTick]

(***************************************************************************)
(* tick                                                                    *)
(***************************************************************************)
\* A tick reads the clock once, when it starts; time passes between ticks.
BeginTick(p, now) ==
  /\ At(p, "idle")
  /\ now \in clock .. MaxTime
  /\ clock' = now
  /\ Date(now) \in TradingDates
  /\ tick' = [tick EXCEPT ![p] = [IdleTick EXCEPT !.pc = "gate", !.now = now]]
  /\ UNCHANGED <<tables, bounds, history>>

\* _alert_year_not_covered calls a method that NotificationDedupPolicy does
\* not have.  On a date without trading that is covered a tick does nothing.
BeginTickUncovered(p, now) ==
  /\ At(p, "idle")
  /\ now \in clock .. MaxTime
  /\ clock' = now
  /\ Date(now) \notin CoveredDates
  /\ Uncaught(p)
  /\ UNCHANGED <<tables, bounds, history>>

(***************************************************************************)
(* The gates of a job: its time of day, that it has not succeeded today,   *)
(* and that a failed attempt has waited long enough                        *)
(***************************************************************************)
has_succeeded(j, d) == runs[j][d].status = "SUCCESS"

\* The review does not wait for the recap.
DueWithoutRecap(j, now) ==
  CASE j = "pre_market_check"  -> PreMarket(now)
    [] j = "session_scan"      -> MarketOpen(now)
    [] j = "data_health_check" -> TRUE
    [] OTHER -> Closed(now) /\ (j = "evidence_profile_analysis" => EvidenceConfigured)

Due(j, now) ==
  CASE j = "pre_market_check"   -> PreMarket(now)
    [] j = "session_scan"       -> MarketOpen(now)
    [] j = "data_health_check"  -> TRUE
    [] j = "market_close_recap" -> Closed(now)
    [] j = "daily_review"       ->
         Closed(now) /\ has_succeeded("market_close_recap", Date(now))
    [] OTHER                    -> Closed(now) /\ EvidenceConfigured

CoolingDown(j, now) ==
  LET row == runs[j][Date(now)]
  IN  row.status = "FAILED" /\ now < row.next_retry_at

\* A row left RUNNING by a dead tick counts as one that still runs.
MayAttemptUnlessRunning(j, now) ==
  /\ j # "data_health_check" => ~CoolingDown(j, now)
  /\ j \in RunOnce => runs[j][Date(now)].status \notin {"RUNNING", "SUCCESS"}

\* A failed attempt does not wait.
MayAttemptAtOnce(j, now) == j \in RunOnce => ~has_succeeded(j, Date(now))

\* A success does not count.
MayAttemptAgain(j, now) == j = "data_health_check" \/ ~CoolingDown(j, now)

may_attempt(j, now) ==
  CASE j \in RunOnce       -> ~has_succeeded(j, Date(now)) /\ ~CoolingDown(j, now)
    [] j = "session_scan"  -> ~CoolingDown(j, now)
    [] OTHER               -> TRUE

Gate(p) ==
  /\ At(p, "gate")
  /\ IF Due(Job(p), tick[p].now) /\ may_attempt(Job(p), tick[p].now)
     THEN Goto(p, "start")
     ELSE NextJob(p)
  /\ UNCHANGED <<clock, tables, bounds, history>>

(***************************************************************************)
(* SchedulerStateRepository.start: reads the row, then inserts or updates  *)
(***************************************************************************)
ReadRow(p) ==
  /\ At(p, "start")
  /\ tick' = [tick EXCEPT ![p].pc = "write start", ![p].attempt = Row(p).attempt]
  /\ UNCHANGED <<clock, tables, bounds, history>>

\* The insert fails on the primary key when another tick was faster.
WriteStart(p) ==
  /\ At(p, "write start")
  /\ IF tick[p].attempt = 0 /\ Row(p) # NotRun
     THEN Uncaught(p) /\ UNCHANGED runs
     ELSE /\ SetRow(p, [status |-> "RUNNING", next_retry_at |-> 0,
                        attempt |-> Min({tick[p].attempt + 1, AttemptCap})])
          /\ Goto(p, "work")
  /\ UNCHANGED <<clock, dedup, last_good, bounds, history>>

(***************************************************************************)
(* The work of the jobs                                                    *)
(***************************************************************************)
\* A readiness message, a summary of the day's rows, an analysis: nothing is
\* written that a job reads.
WorkWithoutEffect(p) ==
  /\ At(p, "work")
  /\ Job(p) \in {"pre_market_check", "daily_review", "evidence_profile_analysis"}
  /\ Goto(p, "succeed")
  /\ UNCHANGED <<clock, tables, bounds, history>>

\* run_daily_report: its last step sends the report.
SendReport(p) ==
  LET d == Date(tick[p].now)
  IN  /\ At(p, "work")
      /\ Job(p) = "market_close_recap"
      /\ recaps' = [recaps EXCEPT
           ![d] = Min({recaps[d] + 1, MaxFailures + MaxCrashes + 2})]
      /\ UNCHANGED <<told, repeats>>

MarketCloseRecap(p) ==
  /\ SendReport(p)
  /\ Goto(p, "succeed")
  /\ UNCHANGED <<clock, tables, bounds>>

\* The report is delivered, but the request that sends it raises.
ReportFails(p) ==
  /\ SendReport(p)
  /\ failures < MaxFailures
  /\ failures' = failures + 1
  /\ Goto(p, "fail")
  /\ UNCHANGED <<clock, tables, crashes>>

\* An alert with a signature is put before the dedup policy.
Evaluate(p, alert, signature) ==
  tick' = [tick EXCEPT ![p].pc = "apply", ![p].alert = alert,
             ![p].signature = signature,
             ![p].decision = evaluate(dedup[alert], signature, tick[p].now)]

\* The scan ranks the watchlist; all that counts here is whether the ranking
\* changed.
SessionScan(p) ==
  /\ At(p, "work")
  /\ Job(p) = "session_scan"
  /\ \E ranking \in {"ranking 1", "ranking 2"} :
       Evaluate(p, "session_scan_brief", ranking)
  /\ UNCHANGED <<clock, tables, bounds, history>>

\* DataFreshnessPolicy.evaluate of the last scan that the audit log holds.
Fresh(now) ==
  last_good # -1 /\ 0 <= now - last_good /\ now - last_good <= FreshnessWindow

DataHealthCheck(p) ==
  /\ At(p, "work")
  /\ Job(p) = "data_health_check"
  /\ Evaluate(p, "data_freshness",
              IF Fresh(tick[p].now) THEN "FRESH" ELSE "DEGRADED")
  /\ UNCHANGED <<clock, tables, bounds, history>>

(***************************************************************************)
(* _apply_dedup_decision                                                   *)
(***************************************************************************)
ReadPrevious(p) ==
  /\ At(p, "apply")
  /\ tick' = [tick EXCEPT ![p].prior = dedup[tick[p].alert],
       ![p].pc = IF tick[p].decision = "SEND" THEN "notify" ELSE "record"]
  /\ UNCHANGED <<clock, tables, bounds, history>>

\* The message reaches its reader.
Deliver(p) ==
  LET a    == tick[p].alert
      last == told[a]
  IN  /\ told' = [told EXCEPT ![a] = [signature |-> tick[p].signature,
                                      at |-> tick[p].now]]
      /\ repeats' =
           IF last.signature # ""
              /\ \/ last.signature = tick[p].signature
                 \/ tick[p].now - last.at < MinInterval
           THEN Min({repeats + 1, MaxFailures + MaxCrashes + 1})
           ELSE repeats
      /\ UNCHANGED recaps

Notify(p) ==
  /\ At(p, "notify")
  /\ Deliver(p)
  /\ Goto(p, "record")
  /\ UNCHANGED <<clock, tables, bounds>>

\* notify raises, with the message delivered or not.
NotifyFails(p) ==
  /\ At(p, "notify")
  /\ failures < MaxFailures
  /\ failures' = failures + 1
  /\ Deliver(p) \/ UNCHANGED history
  /\ tick' = [tick EXCEPT ![p].pc = "record", ![p].decision = "FAILED"]
  /\ UNCHANGED <<clock, tables, crashes>>

\* What is recorded of an alert: unless it was sent, the signature and the
\* time stay those of the last one that was.
Recorded(t) ==
  CASE t.decision = "SEND"   ->
         [last_signature |-> t.signature, last_sent_at |-> t.now,
          last_status |-> "SENT"]
    [] t.decision = "FAILED" -> [t.prior EXCEPT !.last_status = "FAILED"]
    [] OTHER                 -> [t.prior EXCEPT !.last_status = "SUPPRESSED"]

Record(p) ==
  /\ At(p, "record")
  /\ dedup' = [dedup EXCEPT ![tick[p].alert] = Recorded(tick[p])]
  /\ Goto(p, "succeed")
  /\ UNCHANGED <<clock, runs, last_good, bounds, history>>

(***************************************************************************)
(* The end of an attempt                                                   *)
(***************************************************************************)
MarkSuccess(p) ==
  /\ At(p, "succeed")
  /\ SetRow(p, [Row(p) EXCEPT !.status = "SUCCESS", !.next_retry_at = 0])
  /\ Goto(p, "audit")
  /\ UNCHANGED <<clock, dedup, last_good, bounds, history>>

\* The audit event of a session scan is the observation that the freshness
\* of the data is judged by.
AuditSuccess(p) ==
  /\ At(p, "audit")
  /\ last_good' = IF Job(p) = "session_scan" THEN tick[p].now ELSE last_good
  /\ NextJob(p)
  /\ UNCHANGED <<clock, runs, dedup, bounds, history>>

\* The work, or a statement it issues, raises.
WorkFails(p) ==
  /\ tick[p].pc \in {"work", "apply", "record"}
  /\ failures < MaxFailures
  /\ failures' = failures + 1
  /\ Goto(p, "fail")
  /\ UNCHANGED <<clock, tables, crashes, history>>

Backoff(attempt) == Min({RetryBase * 2 ^ (attempt - 1), RetryMax})

\* 2 ** (attempt - 1) is an integer of any size, but its product with the
\* float retry_base_seconds is not.
MarkFailed(p) ==
  /\ At(p, "fail")
  /\ IF Row(p).attempt - 1 > MaxExponent
     THEN Uncaught(p) /\ UNCHANGED runs
     ELSE /\ SetRow(p, [Row(p) EXCEPT
               !.status = "FAILED",
               !.next_retry_at = tick[p].now + Backoff(Row(p).attempt)])
          /\ NextJob(p)
  /\ UNCHANGED <<clock, dedup, last_good, bounds, history>>

\* The process dies.
Crash(p) ==
  /\ ~At(p, "idle")
  /\ crashes < MaxCrashes
  /\ crashes' = crashes + 1
  /\ tick' = [tick EXCEPT ![p] = IdleTick]
  /\ UNCHANGED <<clock, tables, failures, history>>

Step(p) ==
  \/ Gate(p) \/ ReadRow(p) \/ WriteStart(p)
  \/ WorkWithoutEffect(p) \/ MarketCloseRecap(p)
  \/ SessionScan(p) \/ DataHealthCheck(p)
  \/ ReadPrevious(p) \/ Notify(p) \/ Record(p)
  \/ MarkSuccess(p) \/ AuditSuccess(p) \/ MarkFailed(p)

Next ==
  \E p \in Ticks :
    \/ \E now \in 0 .. MaxTime : BeginTick(p, now) \/ BeginTickUncovered(p, now)
    \/ Step(p)
    \/ ReportFails(p) \/ NotifyFails(p) \/ WorkFails(p) \/ Crash(p)

Spec == Init /\ [][Next]_vars

\* The operating system starts tick after tick, time passes from one to the
\* next until the bound is reached, and a tick that runs proceeds.  Failures
\* and crashes need not happen.
FairSpec ==
  /\ Spec
  /\ SF_vars(\E p \in Ticks, now \in clock + 1 .. MaxTime : BeginTick(p, now))
  /\ \A p \in Ticks : WF_vars(BeginTick(p, clock)) /\ WF_vars(Step(p))

(***************************************************************************)
(* Properties                                                              *)
(***************************************************************************)
\* The backoffs of the first n attempts together.
Waits[n \in 0 .. AttemptCap] == IF n = 0 THEN 0 ELSE Waits[n - 1] + Backoff(n)

\* As long as no tick dies, the n-th attempt at the recap begins no sooner
\* than the close of the market and the backoffs of the n - 1 attempts before
\* it allow, however often the system ticks in the meantime: up to the attempt
\* whose backoff is no float any more, which leaves the row RUNNING and
\* lets the next one begin at once.
RetriesAreSpaced ==
  crashes = 0 =>
    \A d \in Dates :
      LET n == runs["market_close_recap"][d].attempt
      IN  n > 0 /\ n - 2 <= MaxExponent =>
            clock >= d * DayLength + Session2Close + Waits[n - 1]

\* A day is reviewed only after its report went out, even when ticks overlap
\* and the row of the recap goes back from SUCCESS to RUNNING.
ReviewAfterRecap ==
  \A d \in Dates : runs["daily_review"][d] # NotRun => recaps[d] > 0

\* The rows of a day stay well typed and in order under overlap.
RowsInOrder == TypeOK /\ ReviewAfterRecap

\* The daily report is delivered again only after a tick died or a delivery
\* raised between the report and the row that says so.
RecapRepeatsAreCrashes ==
  \A d \in Dates : recaps[d] <= 1 + crashes + failures

\* No spam: an alert is delivered twice with the same content, or within the
\* rate limit, only after a tick died or a delivery failed halfway.
AlertsNotRepeated == repeats <= crashes + failures

\* What the deduplication remembers as sent was delivered, and no later than
\* the last delivery: an alert is never suppressed in favour of one that
\* nobody got.
RememberedWasDelivered ==
  \A a \in Alerts : dedup[a].last_signature # "" =>
    told[a].signature # "" /\ dedup[a].last_sent_at <= told[a].at

\* Reports and alerts reach their readers once, but for deaths and failures in
\* between, and the deduplication is not deceived.
DeliveredSoundly ==
  RecapRepeatsAreCrashes /\ AlertsNotRepeated /\ RememberedWasDelivered

\* Restart safety: whatever dies and fails in a day, the day is recapped and
\* reviewed in the end, or the last failure came so late that its retry lies
\* beyond the day.  Ticks that do not overlap.
DaysAreReviewed ==
  LET Settled(j, d) ==
        \/ has_succeeded(j, d)
        \/ runs[j][d].status = "FAILED" /\ runs[j][d].next_retry_at > MaxTime
  IN  Date(MaxTime) \in TradingDates /\ Closed(MaxTime) =>
        <>[](\/ /\ Settled("market_close_recap", Date(MaxTime))
                /\ ~has_succeeded("market_close_recap", Date(MaxTime))
             \/ Settled("daily_review", Date(MaxTime)))

(***************************************************************************)
(* What a comment of the code says of it and the code does not keep        *)
(***************************************************************************)
\* "market_close_recap -- once per trading day": without a failure and without
\* a death the report of a day goes out once.
RecapOncePerDay ==
  failures = 0 /\ crashes = 0 => \A d \in Dates : recaps[d] <= 1
=============================================================================
