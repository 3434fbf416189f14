------------------------- MODULE DailySchedulerProofs -------------------------
(***************************************************************************)
(* The jobs of a day, for any clock, calendar, number of ticks, failures   *)
(* and crashes: rows stay typed and a review follows a report, whatever    *)
(* overlaps; and with one tick at a time reports and alerts are delivered  *)
(* again only after a death or a failure, and retries keep their distance. *)
(***************************************************************************)
EXTENDS DailyScheduler, WellFoundedInduction, TLAPS

LEMMA MinOfTwo ==
  ASSUME NEW a \in Int, NEW b \in Int
  PROVE  Min({a, b}) = IF a <= b THEN a ELSE b
<1> DEFINE m == IF a <= b THEN a ELSE b
<1>1. m \in {a, b} /\ \A y \in {a, b} : m <= y
  OBVIOUS
<1>2. \A x \in {a, b} : (\A y \in {a, b} : x <= y) => x = m
  OBVIOUS
<1>3. QED
  BY <1>1, <1>2 DEF Min

LEMMA AtMostTransitive == \A k, m, n \in Nat : k <= m /\ m <= n => k <= n
OBVIOUS

LEMMA DateType == ASSUME NEW t \in 0 .. MaxTime PROVE Date(t) \in Dates
BY SchedulerAssumption DEF Date, Dates

LEMMA JobList ==
  /\ DOMAIN JobOrder = 1 .. 6 /\ Len(JobOrder) = 6
  /\ \A i \in 1 .. 6 : JobOrder[i] \in Jobs
BY DEF JobOrder, Jobs

LEMMA JobNames ==
  Jobs = {"pre_market_check", "session_scan", "data_health_check",
          "market_close_recap", "daily_review", "evidence_profile_analysis"}
BY DEF JobOrder, Jobs

LEMMA Constants ==
  /\ MaxTime \in Nat /\ MaxFailures \in Nat /\ MaxCrashes \in Nat /\ MinInterval \in Nat
  /\ AttemptCap \in Nat /\ AttemptCap >= 1 /\ RetryBase \in Nat /\ RetryMax \in Nat
BY SchedulerAssumption, DedupAssumption

LEMMA TimesAreNumbers == 0 .. MaxTime \subseteq Nat
BY Constants

LEMMA BackoffType ==
  ASSUME NEW n \in 1 .. AttemptCap
  PROVE  Backoff(n) \in Nat
<1>1. PICK k : k = 2 ^ (n - 1)
  OBVIOUS
<1>2. n - 1 \in 0 .. AttemptCap
  BY Constants
<1>3. k \in Nat
  BY <1>1, <1>2, PowersOfTwo
<1>4. PICK b : b = RetryBase * k
  OBVIOUS
<1>5. b \in Nat
  BY <1>3, <1>4, Constants
<1>6. Backoff(n) = Min({b, RetryMax})
  BY <1>1, <1>4 DEF Backoff
<1>7. QED
  BY <1>5, <1>6, MinOfTwo, Constants

LEMMA IdleType ==
  /\ IdleTick \in TickState /\ IdleTick.pc = "idle" /\ IdleTick.job = 1
  /\ NoState \in DedupRow /\ NotRun \in JobRow /\ NotRun.attempt = 0 /\ NotRun.status = ""
BY JobList, Constants
DEF IdleTick, TickState, Labels, NoState, DedupRow, Signatures, Decisions, NotRun, JobRow

-----------------------------------------------------------------------------
(***************************************************************************)
(* How a tick moves                                                        *)
(***************************************************************************)
OthersSame(p) == \A q \in Ticks \ {p} : tick'[q] = tick[q]

\* The tick goes on with its job.
Stays(p, label) ==
  /\ OthersSame(p)
  /\ tick'[p].pc = label /\ tick'[p].now = tick[p].now /\ tick'[p].job = tick[p].job

\* It goes on and forgets nothing.
Keeps(p, label) ==
  /\ Stays(p, label)
  /\ tick'[p].alert = tick[p].alert /\ tick'[p].signature = tick[p].signature
  /\ tick'[p].decision = tick[p].decision /\ tick'[p].prior = tick[p].prior

\* The job is over, and the tick perhaps too.
Leaves(p) ==
  /\ OthersSame(p)
  /\ tick'[p].pc \in {"idle", "gate"}
  /\ tick'[p].pc = "gate" => tick'[p].now = tick[p].now

LEMMA TickFacts ==
  ASSUME TypeOK, NEW p \in Ticks
  PROVE  /\ tick[p] \in TickState
         /\ tick[p].pc \in Labels /\ tick[p].now \in 0 .. MaxTime
         /\ tick[p].job \in 1 .. 6 /\ tick[p].attempt \in 0 .. AttemptCap
         /\ tick[p].signature \in Signatures /\ tick[p].decision \in Decisions
         /\ tick[p].prior \in DedupRow /\ tick[p].alert \in Alerts \cup {""}
         /\ Job(p) \in Jobs /\ Date(tick[p].now) \in Dates /\ Row(p) \in JobRow
<1>1. tick[p] \in TickState
  BY DEF TypeOK
<1>2. /\ tick[p].pc \in Labels /\ tick[p].now \in 0 .. MaxTime
      /\ tick[p].job \in 1 .. 6 /\ tick[p].attempt \in 0 .. AttemptCap
      /\ tick[p].signature \in Signatures /\ tick[p].decision \in Decisions
      /\ tick[p].prior \in DedupRow /\ tick[p].alert \in Alerts \cup {""}
  BY <1>1, JobList DEF TickState
<1>3. Job(p) \in Jobs /\ Date(tick[p].now) \in Dates
  BY <1>2, JobList, DateType DEF Job
<1>4. QED
  BY <1>1, <1>2, <1>3 DEF TypeOK, Row

\* A new state of one tick.
LEMMA TickMoves ==
  ASSUME TypeOK, NEW p \in Ticks, NEW t \in TickState,
         tick' = [tick EXCEPT ![p] = t]
  PROVE  tick' \in [Ticks -> TickState] /\ tick'[p] = t /\ OthersSame(p)
BY DEF TypeOK, OthersSame

LEMMA GotoKeeps ==
  ASSUME TypeOK, NEW p \in Ticks, NEW label \in Labels, Goto(p, label)
  PROVE  tick' \in [Ticks -> TickState] /\ Keeps(p, label)
<1>1. PICK s \in TickState : s = tick[p]
  BY TickFacts
<1>2. PICK t : t = [s EXCEPT !.pc = label]
  OBVIOUS
<1>3. /\ t \in TickState
      /\ t.pc = label /\ t.now = s.now /\ t.job = s.job /\ t.alert = s.alert
      /\ t.signature = s.signature /\ t.decision = s.decision /\ t.prior = s.prior
  BY <1>1, <1>2 DEF TickState
<1>4. tick' = [tick EXCEPT ![p] = t]
  BY <1>1, <1>2 DEF Goto
<1>5. QED
  BY <1>1, <1>3, <1>4, TickMoves DEF Keeps, Stays

LEMMA UncaughtLeaves ==
  ASSUME TypeOK, NEW p \in Ticks, tick' = [tick EXCEPT ![p] = IdleTick]
  PROVE  tick' \in [Ticks -> TickState] /\ Leaves(p) /\ tick'[p].pc = "idle"
BY IdleType, TickMoves DEF Leaves

LEMMA NextJobLeaves ==
  ASSUME TypeOK, NEW p \in Ticks, NextJob(p)
  PROVE  tick' \in [Ticks -> TickState] /\ Leaves(p)
<1>1. CASE tick[p].job = Len(JobOrder)
  BY <1>1, UncaughtLeaves DEF NextJob
<1>2. CASE tick[p].job # Len(JobOrder)
  <2>1. PICK j, n : j = tick[p].job + 1 /\ n = tick[p].now
    OBVIOUS
  <2>2. j \in 1 .. 6 /\ n \in 0 .. MaxTime
    <3>1. PICK k \in 1 .. 6 : k = tick[p].job
      BY TickFacts
    <3>2. k # 6 /\ j = k + 1
      BY <1>2, <2>1, <3>1, JobList
    <3>3. j \in 1 .. 6
      BY <3>1, <3>2
    <3>4. QED
      BY <2>1, <3>3, TickFacts
  <2>3. PICK t : t = [IdleTick EXCEPT !.pc = "gate", !.now = n, !.job = j]
    OBVIOUS
  <2>4. t \in TickState /\ t.pc = "gate" /\ t.now = n
    BY <2>2, <2>3, IdleType, JobList DEF TickState, Labels
  <2>5. tick' = [tick EXCEPT ![p] = t]
    BY <1>2, <2>1, <2>3 DEF NextJob
  <2>6. QED
    BY <2>1, <2>4, <2>5, TickMoves DEF Leaves
<1>3. QED
  BY <1>1, <1>2

\* A row rewritten.
LEMMA RowSet ==
  ASSUME TypeOK, NEW p \in Ticks, NEW row \in JobRow, SetRow(p, row)
  PROVE  /\ runs' \in [Jobs -> [Dates -> JobRow]]
         /\ \A j \in Jobs, d \in Dates :
              runs'[j][d] = IF j = Job(p) /\ d = Date(tick[p].now) THEN row ELSE runs[j][d]
<1>1. PICK i, e : i = Job(p) /\ e = Date(tick[p].now)
  OBVIOUS
<1>2. i \in Jobs /\ e \in Dates
  BY <1>1, TickFacts
<1>3. runs' = [runs EXCEPT ![i][e] = row]
  BY <1>1 DEF SetRow
<1>4. QED
  BY <1>1, <1>2, <1>3 DEF TypeOK

-----------------------------------------------------------------------------
(***************************************************************************)
(* Types                                                                   *)
(***************************************************************************)
LEMMA TypeInit == Init => TypeOK
<1> SUFFICES ASSUME Init PROVE TypeOK
  OBVIOUS
<1>0. 0 \in 0 .. MaxTime
  BY Constants
<1>1. clock \in 0 .. MaxTime /\ failures \in Nat /\ crashes \in Nat /\ repeats \in Nat
  BY <1>0 DEF Init
<1>2. runs \in [Jobs -> [Dates -> JobRow]] /\ dedup \in [Alerts -> DedupRow]
  BY IdleType DEF Init
<1>3. tick \in [Ticks -> TickState] /\ last_good \in Nat \cup {-1}
  BY IdleType DEF Init
<1>4. told \in [Alerts -> [signature : Signatures, at : 0 .. MaxTime]]
  BY <1>0 DEF Init, Signatures
<1>5. recaps \in [Dates -> Nat]
  BY DEF Init
<1>6. QED
  BY <1>1, <1>2, <1>3, <1>4, <1>5 DEF TypeOK

LEMMA BeginMoves ==
  ASSUME TypeOK, NEW p \in Ticks, NEW now \in 0 .. MaxTime,
         BeginTick(p, now) \/ BeginTickUncovered(p, now)
  PROVE  /\ tick' \in [Ticks -> TickState] /\ clock' = now /\ clock <= now
         /\ tick[p].pc = "idle" /\ OthersSame(p)
         /\ \/ tick'[p].pc = "gate" /\ tick'[p].now = now
            \/ tick'[p].pc = "idle"
         /\ UNCHANGED <<tables, bounds, history>>
<1>1. CASE BeginTick(p, now)
  <2>1. PICK t : t = [IdleTick EXCEPT !.pc = "gate", !.now = now]
    OBVIOUS
  <2>2. t \in TickState /\ t.pc = "gate" /\ t.now = now
    BY <2>1, IdleType DEF TickState, Labels
  <2>3. tick' = [tick EXCEPT ![p] = t]
    BY <1>1, <2>1 DEF BeginTick
  <2>4. /\ tick' \in [Ticks -> TickState] /\ OthersSame(p)
        /\ tick'[p].pc = "gate" /\ tick'[p].now = now
    BY <2>2, <2>3, TickMoves
  <2>5. clock <= now
    BY <1>1, Constants DEF BeginTick, TypeOK
  <2>6. QED
    BY <1>1, <2>4, <2>5 DEF BeginTick, At
<1>2. CASE BeginTickUncovered(p, now)
  <2>1. clock <= now
    BY <1>2, Constants DEF BeginTickUncovered, TypeOK
  <2>2. QED
    BY <1>2, <2>1, UncaughtLeaves DEF BeginTickUncovered, Uncaught, Leaves, At
<1>3. QED
  BY <1>1, <1>2

LEMMA GateMoves ==
  ASSUME TypeOK, NEW p \in Ticks, Gate(p)
  PROVE  /\ tick' \in [Ticks -> TickState] /\ tick[p].pc = "gate"
         /\ \/ Leaves(p)
            \/ /\ Keeps(p, "start")
               /\ Due(Job(p), tick[p].now) /\ may_attempt(Job(p), tick[p].now)
         /\ UNCHANGED <<clock, tables, bounds, history>>
<1>1. "start" \in Labels
  BY DEF Labels
<1>2. QED
  BY <1>1, GotoKeeps, NextJobLeaves DEF Gate, At

LEMMA ReadRowMoves ==
  ASSUME TypeOK, NEW p \in Ticks, ReadRow(p)
  PROVE  /\ tick' \in [Ticks -> TickState] /\ tick[p].pc = "start"
         /\ Stays(p, "write start") /\ tick'[p].attempt = Row(p).attempt
         /\ UNCHANGED <<clock, tables, bounds, history>>
<1>1. PICK s \in TickState : s = tick[p]
  BY TickFacts
<1>2. PICK n \in 0 .. AttemptCap : n = Row(p).attempt
  BY TickFacts DEF JobRow
<1>3. PICK t : t = [s EXCEPT !.pc = "write start", !.attempt = n]
  OBVIOUS
<1>4. /\ t \in TickState /\ t.attempt = n
      /\ t.pc = "write start" /\ t.now = s.now /\ t.job = s.job
  BY <1>1, <1>3 DEF TickState, Labels
<1>5. tick' = [tick EXCEPT ![p] = t]
  BY <1>1, <1>2, <1>3 DEF ReadRow
<1>6. QED
  BY <1>1, <1>2, <1>4, <1>5, TickMoves DEF Stays, ReadRow, At

Counted(n) == IF n + 1 <= AttemptCap THEN n + 1 ELSE AttemptCap

\* The row begins another attempt.
LEMMA WriteStartMoves ==
  ASSUME TypeOK, NEW p \in Ticks, WriteStart(p)
  PROVE  /\ tick' \in [Ticks -> TickState] /\ tick[p].pc = "write start"
         /\ \/ Leaves(p) /\ UNCHANGED runs
            \/ /\ Keeps(p, "work")
               /\ \E row \in JobRow :
                    /\ SetRow(p, row) /\ row.attempt >= 1 /\ row.status = "RUNNING"
                    /\ row.attempt = Counted(tick[p].attempt)
         /\ UNCHANGED <<clock, dedup, last_good, bounds, history>>
<1>1. CASE tick[p].attempt = 0 /\ Row(p) # NotRun
  BY <1>1, UncaughtLeaves DEF WriteStart, Uncaught, At
<1>2. CASE ~(tick[p].attempt = 0 /\ Row(p) # NotRun)
  <2>1. PICK n : n = Min({tick[p].attempt + 1, AttemptCap})
    OBVIOUS
  <2>2. n \in 0 .. AttemptCap /\ n >= 1 /\ n = Counted(tick[p].attempt)
    <3>1. PICK k \in 0 .. AttemptCap : k = tick[p].attempt
      BY TickFacts
    <3>2. n = IF k + 1 <= AttemptCap THEN k + 1 ELSE AttemptCap
      BY <2>1, <3>1, MinOfTwo, Constants
    <3>3. QED
      BY <3>1, <3>2, Constants DEF Counted
  <2>3. PICK row : row = [status |-> "RUNNING", next_retry_at |-> 0, attempt |-> n]
    OBVIOUS
  <2>4. /\ row \in JobRow /\ row.attempt >= 1 /\ row.status = "RUNNING"
        /\ row.attempt = Counted(tick[p].attempt)
    BY <2>2, <2>3 DEF JobRow
  <2>5. SetRow(p, row) /\ Goto(p, "work") /\ "work" \in Labels
    BY <1>2, <2>1, <2>3 DEF WriteStart, Labels
  <2>6. QED
    BY <2>4, <2>5, GotoKeeps DEF WriteStart, At
<1>3. QED
  BY <1>1, <1>2

LEMMA ReportSent ==
  ASSUME TypeOK, NEW p \in Ticks, SendReport(p)
  PROVE  /\ tick[p].pc = "work" /\ Job(p) = "market_close_recap"
         /\ recaps' \in [Dates -> Nat]
         /\ \A d \in Dates : recaps'[d] >= recaps[d] \/ recaps'[d] >= 1
         /\ recaps'[Date(tick[p].now)] >= 1
         /\ recaps'[Date(tick[p].now)] <= recaps[Date(tick[p].now)] + 1
         /\ \A d \in Dates \ {Date(tick[p].now)} : recaps'[d] = recaps[d]
         /\ UNCHANGED <<told, repeats>>
<1>1. PICK e : e = Date(tick[p].now)
  OBVIOUS
<1>2. e \in Dates /\ recaps[e] \in Nat
  BY <1>1, TickFacts DEF TypeOK
<1>3. PICK n : n = Min({recaps[e] + 1, MaxFailures + MaxCrashes + 2})
  OBVIOUS
<1>4. n \in Nat /\ n >= 1 /\ n <= recaps[e] + 1
  <2>1. PICK k \in Nat : k = recaps[e] + 1
    BY <1>2
  <2>2. PICK b \in Nat : b = MaxFailures + MaxCrashes + 2
    BY Constants
  <2>3. n = IF k <= b THEN k ELSE b
    BY <1>3, <2>1, <2>2, MinOfTwo
  <2>4. k >= 1 /\ b >= 1
    BY <1>2, <2>1, <2>2, Constants
  <2>5. QED
    BY <2>1, <2>3, <2>4
<1>5. recaps' = [recaps EXCEPT ![e] = n]
  BY <1>1, <1>3 DEF SendReport
<1>6. /\ recaps' \in [Dates -> Nat] /\ recaps'[e] = n
      /\ \A d \in Dates \ {e} : recaps'[d] = recaps[d]
  BY <1>2, <1>4, <1>5 DEF TypeOK
<1>7. \A d \in Dates : recaps'[d] >= recaps[d] \/ recaps'[d] >= 1
  BY <1>4, <1>6 DEF TypeOK
<1>8. QED
  BY <1>1, <1>4, <1>6, <1>7 DEF SendReport, At

LEMMA PlainWorkMoves ==
  ASSUME TypeOK, NEW p \in Ticks, WorkWithoutEffect(p)
  PROVE  /\ tick' \in [Ticks -> TickState] /\ tick[p].pc = "work"
         /\ Keeps(p, "succeed") /\ Job(p) # "market_close_recap"
         /\ UNCHANGED <<clock, tables, bounds, history>>
<1>1. "succeed" \in Labels
  BY DEF Labels
<1>2. QED
  BY <1>1, GotoKeeps DEF WorkWithoutEffect, At

LEMMA RecapMoves ==
  ASSUME TypeOK, NEW p \in Ticks, MarketCloseRecap(p) \/ ReportFails(p)
  PROVE  /\ tick' \in [Ticks -> TickState] /\ SendReport(p)
         /\ \/ Keeps(p, "succeed") /\ UNCHANGED failures
            \/ Keeps(p, "fail") /\ failures' = failures + 1
         /\ UNCHANGED <<clock, tables, crashes>>
<1>1. "succeed" \in Labels /\ "fail" \in Labels
  BY DEF Labels
<1>2. QED
  BY <1>1, GotoKeeps DEF MarketCloseRecap, ReportFails, bounds

LEMMA EvaluateMoves ==
  ASSUME TypeOK, NEW p \in Ticks, NEW alert \in Alerts, NEW signature \in Signatures,
         Evaluate(p, alert, signature)
  PROVE  /\ tick' \in [Ticks -> TickState] /\ Stays(p, "apply")
         /\ tick'[p].alert = alert /\ tick'[p].signature = signature
         /\ tick'[p].decision = evaluate(dedup[alert], signature, tick[p].now)
<1>1. PICK s \in TickState : s = tick[p]
  BY TickFacts
<1>2. PICK d : d = evaluate(dedup[alert], signature, s.now)
  OBVIOUS
<1>3. d \in Decisions
  <2>1. d \in {"SEND", "SUPPRESS_NO_CHANGE", "SUPPRESS_RATE_LIMITED"}
    BY <1>2 DEF evaluate
  <2>2. QED
    BY <2>1 DEF Decisions
<1>4. PICK t : t = [s EXCEPT !.pc = "apply", !.alert = alert, !.signature = signature,
                             !.decision = d]
  OBVIOUS
<1>5. t \in TickState
  BY <1>1, <1>3, <1>4 DEF TickState, Labels
<1>6. /\ t.pc = "apply" /\ t.now = s.now /\ t.job = s.job
      /\ t.alert = alert /\ t.signature = signature /\ t.decision = d
  BY <1>1, <1>4 DEF TickState
<1>7. tick' = [tick EXCEPT ![p] = t]
  BY <1>1, <1>2, <1>4 DEF Evaluate
<1>8. QED
  BY <1>1, <1>2, <1>5, <1>6, <1>7, TickMoves DEF Stays

\* An alert is put before the policy.
LEMMA AlertMoves ==
  ASSUME TypeOK, NEW p \in Ticks, SessionScan(p) \/ DataHealthCheck(p)
  PROVE  /\ tick' \in [Ticks -> TickState] /\ Stays(p, "apply") /\ tick[p].pc = "work"
         /\ Job(p) \in {"session_scan", "data_health_check"}
         /\ tick'[p].alert \in Alerts /\ tick'[p].signature # ""
         /\ tick'[p].decision =
              evaluate(dedup[tick'[p].alert], tick'[p].signature, tick[p].now)
         /\ UNCHANGED <<clock, tables, bounds, history>>
<1>1. PICK a \in Alerts, g \in Signatures : Evaluate(p, a, g) /\ g # ""
  BY DEF SessionScan, DataHealthCheck, Alerts, Signatures
<1>2. /\ tick[p].pc = "work" /\ Job(p) \in {"session_scan", "data_health_check"}
      /\ UNCHANGED <<clock, tables, bounds, history>>
  BY DEF SessionScan, DataHealthCheck, At
<1>3. QED
  BY <1>1, <1>2, EvaluateMoves

LEMMA ReadPreviousMoves ==
  ASSUME TypeOK, NEW p \in Ticks, ReadPrevious(p), tick[p].alert \in Alerts
  PROVE  /\ tick' \in [Ticks -> TickState] /\ tick[p].pc = "apply"
         /\ \/ Stays(p, "notify") /\ tick[p].decision = "SEND"
            \/ Stays(p, "record") /\ tick[p].decision # "SEND"
         /\ tick'[p].alert = tick[p].alert /\ tick'[p].signature = tick[p].signature
         /\ tick'[p].decision = tick[p].decision /\ tick'[p].prior = dedup[tick[p].alert]
         /\ UNCHANGED <<clock, tables, bounds, history>>
<1>1. PICK s \in TickState : s = tick[p]
  BY TickFacts
<1>2. PICK r \in DedupRow : r = dedup[tick[p].alert]
  BY DEF TypeOK
<1>3. PICK label \in Labels :
        /\ label = IF tick[p].decision = "SEND" THEN "notify" ELSE "record"
  BY DEF Labels
<1>4. PICK t : t = [s EXCEPT !.prior = r, !.pc = label]
  OBVIOUS
<1>5. t \in TickState
  BY <1>1, <1>4 DEF TickState
<1>6. /\ t.pc = label /\ t.now = s.now /\ t.job = s.job /\ t.prior = r
      /\ t.alert = s.alert /\ t.signature = s.signature /\ t.decision = s.decision
  BY <1>1, <1>4 DEF TickState
<1>7. tick' = [tick EXCEPT ![p] = t]
  BY <1>1, <1>2, <1>3, <1>4 DEF ReadPrevious
<1>8. tick' \in [Ticks -> TickState] /\ tick'[p] = t /\ OthersSame(p)
  BY <1>5, <1>7, TickMoves
<1>9. QED
  BY <1>1, <1>2, <1>3, <1>6, <1>8 DEF Stays, ReadPrevious, At

LEMMA Delivers ==
  ASSUME TypeOK, NEW p \in Ticks, Deliver(p), tick[p].alert \in Alerts
  PROVE  /\ told' \in [Alerts -> [signature : Signatures, at : 0 .. MaxTime]]
         /\ told'[tick[p].alert] = [signature |-> tick[p].signature, at |-> tick[p].now]
         /\ \A a \in Alerts \ {tick[p].alert} : told'[a] = told[a]
         /\ repeats' \in Nat /\ repeats' <= repeats + 1
         /\ \/ repeats' = repeats
            \/ /\ told[tick[p].alert].signature # ""
               /\ \/ told[tick[p].alert].signature = tick[p].signature
                  \/ tick[p].now - told[tick[p].alert].at < MinInterval
         /\ UNCHANGED recaps
<1>1. PICK a \in Alerts : a = tick[p].alert
  OBVIOUS
<1>2. PICK m : m = [signature |-> tick[p].signature, at |-> tick[p].now]
  OBVIOUS
<1>3. m \in [signature : Signatures, at : 0 .. MaxTime]
  BY <1>2, TickFacts
<1>4. told' = [told EXCEPT ![a] = m]
  BY <1>1, <1>2 DEF Deliver
<1>5. /\ told' \in [Alerts -> [signature : Signatures, at : 0 .. MaxTime]]
      /\ told'[a] = m /\ \A b \in Alerts \ {a} : told'[b] = told[b]
  BY <1>3, <1>4 DEF TypeOK
<1>6. PICK n : n = Min({repeats + 1, MaxFailures + MaxCrashes + 1})
  OBVIOUS
<1>7. n \in Nat /\ n <= repeats + 1 /\ repeats \in Nat
  <2>1. repeats \in Nat
    BY DEF TypeOK
  <2>2. PICK k \in Nat : k = repeats + 1
    BY <2>1
  <2>3. PICK b \in Nat : b = MaxFailures + MaxCrashes + 1
    BY Constants
  <2>4. n = IF k <= b THEN k ELSE b
    BY <1>6, <2>2, <2>3, MinOfTwo
  <2>5. QED
    BY <2>1, <2>2, <2>4
<1>8. repeats' = IF /\ told[a].signature # ""
                    /\ \/ told[a].signature = tick[p].signature
                       \/ tick[p].now - told[a].at < MinInterval
                 THEN n ELSE repeats
  BY <1>1, <1>6 DEF Deliver
<1>9. UNCHANGED recaps
  BY DEF Deliver
<1>10. /\ repeats' \in Nat /\ repeats' <= repeats + 1
       /\ \/ repeats' = repeats
          \/ /\ told[a].signature # ""
             /\ \/ told[a].signature = tick[p].signature
                \/ tick[p].now - told[a].at < MinInterval
  <2>1. CASE repeats' = repeats
    BY <1>7, <2>1
  <2>2. CASE repeats' # repeats
    <3>1. repeats' = n
      BY <1>8, <2>2
    <3>2. QED
      BY <1>7, <1>8, <2>2, <3>1
  <2>3. QED
    BY <2>1, <2>2
<1>11. QED
  BY <1>1, <1>2, <1>5, <1>9, <1>10

LEMMA NotifyMoves ==
  ASSUME TypeOK, NEW p \in Ticks, Notify(p)
  PROVE  /\ tick' \in [Ticks -> TickState] /\ tick[p].pc = "notify"
         /\ Deliver(p) /\ Keeps(p, "record")
         /\ UNCHANGED <<clock, tables, bounds>>
<1>1. "record" \in Labels
  BY DEF Labels
<1>2. QED
  BY <1>1, GotoKeeps DEF Notify, At

LEMMA NotifyFailsMoves ==
  ASSUME TypeOK, NEW p \in Ticks, NotifyFails(p)
  PROVE  /\ tick' \in [Ticks -> TickState] /\ tick[p].pc = "notify"
         /\ Deliver(p) \/ UNCHANGED history
         /\ failures' = failures + 1
         /\ Stays(p, "record") /\ tick'[p].decision = "FAILED"
         /\ tick'[p].alert = tick[p].alert /\ tick'[p].prior = tick[p].prior
         /\ tick'[p].signature = tick[p].signature
         /\ UNCHANGED <<clock, tables, crashes>>
<1>1. PICK s \in TickState : s = tick[p]
  BY TickFacts
<1>2. PICK t : t = [s EXCEPT !.pc = "record", !.decision = "FAILED"]
  OBVIOUS
<1>3. t \in TickState
  BY <1>1, <1>2 DEF TickState, Labels, Decisions
<1>4. /\ t.pc = "record" /\ t.now = s.now /\ t.job = s.job /\ t.decision = "FAILED"
      /\ t.alert = s.alert /\ t.prior = s.prior /\ t.signature = s.signature
  BY <1>1, <1>2 DEF TickState
<1>5. tick' = [tick EXCEPT ![p] = t]
  BY <1>1, <1>2 DEF NotifyFails
<1>6. tick' \in [Ticks -> TickState] /\ tick'[p] = t /\ OthersSame(p)
  BY <1>3, <1>5, TickMoves
<1>7. QED
  BY <1>1, <1>4, <1>6 DEF Stays, NotifyFails, At

LEMMA RecordedType ==
  ASSUME NEW t \in TickState
  PROVE  Recorded(t) \in DedupRow
<1>1. PICK r, g, n : r = t.prior /\ g = t.signature /\ n = t.now
  OBVIOUS
<1>2. r \in DedupRow /\ g \in Signatures /\ n \in Nat
  BY <1>1, TimesAreNumbers DEF TickState
<1>3. /\ [last_signature |-> g, last_sent_at |-> n, last_status |-> "SENT"] \in DedupRow
      /\ [r EXCEPT !.last_status = "FAILED"] \in DedupRow
      /\ [r EXCEPT !.last_status = "SUPPRESSED"] \in DedupRow
  BY <1>2 DEF DedupRow
<1>4. QED
  BY <1>1, <1>3 DEF Recorded

LEMMA RecordMoves ==
  ASSUME TypeOK, NEW p \in Ticks, Record(p), tick[p].alert \in Alerts
  PROVE  /\ tick' \in [Ticks -> TickState] /\ tick[p].pc = "record"
         /\ Keeps(p, "succeed")
         /\ dedup' \in [Alerts -> DedupRow]
         /\ dedup'[tick[p].alert] = Recorded(tick[p])
         /\ \A a \in Alerts \ {tick[p].alert} : dedup'[a] = dedup[a]
         /\ UNCHANGED <<clock, runs, last_good, bounds, history>>
<1>1. "succeed" \in Labels
  BY DEF Labels
<1>2. PICK a \in Alerts, r \in DedupRow : a = tick[p].alert /\ r = Recorded(tick[p])
  BY TickFacts, RecordedType
<1>3. dedup' = [dedup EXCEPT ![a] = r]
  BY <1>2 DEF Record
<1>4. /\ dedup' \in [Alerts -> DedupRow] /\ dedup'[a] = r
      /\ \A b \in Alerts \ {a} : dedup'[b] = dedup[b]
  BY <1>3 DEF TypeOK
<1>5. QED
  BY <1>1, <1>2, <1>4, GotoKeeps DEF Record, At

LEMMA MarkSuccessMoves ==
  ASSUME TypeOK, NEW p \in Ticks, MarkSuccess(p)
  PROVE  /\ tick' \in [Ticks -> TickState] /\ tick[p].pc = "succeed"
         /\ Keeps(p, "audit")
         /\ \E row \in JobRow :
              /\ SetRow(p, row) /\ row.status = "SUCCESS" /\ row.attempt = Row(p).attempt
         /\ UNCHANGED <<clock, dedup, last_good, bounds, history>>
<1>1. "audit" \in Labels
  BY DEF Labels
<1>2. PICK r \in JobRow : r = Row(p)
  BY TickFacts
<1>3. PICK row : row = [r EXCEPT !.status = "SUCCESS", !.next_retry_at = 0]
  OBVIOUS
<1>4. row \in JobRow /\ row.status = "SUCCESS" /\ row.attempt = r.attempt
  BY <1>3 DEF JobRow
<1>5. SetRow(p, row)
  BY <1>2, <1>3 DEF MarkSuccess
<1>6. QED
  BY <1>1, <1>2, <1>4, <1>5, GotoKeeps DEF MarkSuccess, At

LEMMA AuditSuccessMoves ==
  ASSUME TypeOK, NEW p \in Ticks, AuditSuccess(p)
  PROVE  /\ tick' \in [Ticks -> TickState] /\ tick[p].pc = "audit" /\ Leaves(p)
         /\ last_good' \in Nat \cup {-1}
         /\ UNCHANGED <<clock, runs, dedup, bounds, history>>
<1>1. tick[p].now \in Nat /\ last_good \in Nat \cup {-1}
  BY TickFacts, TimesAreNumbers DEF TypeOK
<1>2. QED
  BY <1>1, NextJobLeaves DEF AuditSuccess, At

LEMMA WorkFailsMoves ==
  ASSUME TypeOK, NEW p \in Ticks, WorkFails(p)
  PROVE  /\ tick' \in [Ticks -> TickState] /\ tick[p].pc \in {"work", "apply", "record"}
         /\ Keeps(p, "fail") /\ failures' = failures + 1
         /\ UNCHANGED <<clock, tables, crashes, history>>
<1>1. "fail" \in Labels
  BY DEF Labels
<1>2. QED
  BY <1>1, GotoKeeps DEF WorkFails

LEMMA MarkFailedMoves ==
  ASSUME TypeOK, NEW p \in Ticks, MarkFailed(p), Row(p).attempt >= 1
  PROVE  /\ tick' \in [Ticks -> TickState] /\ tick[p].pc = "fail" /\ Leaves(p)
         /\ \/ UNCHANGED runs /\ Row(p).attempt - 1 > MaxExponent
            \/ /\ ~(Row(p).attempt - 1 > MaxExponent)
               /\ \E row \in JobRow :
                    /\ SetRow(p, row) /\ row.status = "FAILED"
                    /\ row.attempt = Row(p).attempt
                    /\ row.next_retry_at = tick[p].now + Backoff(row.attempt)
         /\ UNCHANGED <<clock, dedup, last_good, bounds, history>>
<1>1. CASE Row(p).attempt - 1 > MaxExponent
  BY <1>1, UncaughtLeaves DEF MarkFailed, Uncaught, At
<1>2. CASE ~(Row(p).attempt - 1 > MaxExponent)
  <2>1. PICK r \in JobRow : r = Row(p)
    BY TickFacts
  <2>2. PICK n : n = tick[p].now + Backoff(r.attempt)
    OBVIOUS
  <2>3. n \in Nat
    <3>1. r.attempt \in 1 .. AttemptCap
      <4>1. r.attempt \in 0 .. AttemptCap /\ r.attempt >= 1
        BY <2>1 DEF JobRow
      <4>2. QED
        BY <4>1, Constants
    <3>2. Backoff(r.attempt) \in Nat
      BY <3>1, BackoffType
    <3>3. tick[p].now \in Nat
      BY TickFacts, TimesAreNumbers
    <3>4. QED
      BY <2>2, <3>2, <3>3
  <2>4. PICK row : row = [r EXCEPT !.status = "FAILED", !.next_retry_at = n]
    OBVIOUS
  <2>5. /\ row \in JobRow /\ row.status = "FAILED" /\ row.attempt = r.attempt
        /\ row.next_retry_at = n
    BY <2>3, <2>4 DEF JobRow
  <2>6. SetRow(p, row) /\ NextJob(p)
    BY <1>2, <2>1, <2>2, <2>4 DEF MarkFailed
  <2>7. QED
    BY <1>2, <2>1, <2>2, <2>5, <2>6, NextJobLeaves DEF MarkFailed, At
<1>3. QED
  BY <1>1, <1>2

LEMMA CrashMoves ==
  ASSUME TypeOK, NEW p \in Ticks, Crash(p)
  PROVE  /\ tick' \in [Ticks -> TickState] /\ Leaves(p) /\ tick'[p].pc = "idle"
         /\ crashes' = crashes + 1
         /\ UNCHANGED <<clock, tables, failures, history>>
BY UncaughtLeaves DEF Crash

-----------------------------------------------------------------------------
(***************************************************************************)
(* Rows and ticks that overlap                                             *)
(***************************************************************************)
Attempting == {"work", "apply", "notify", "record", "succeed", "audit", "fail"}

Alerting == {"apply", "notify", "record"}

\* A tick in the middle of an attempt: its row has counted it, an alert is one of
\* the two jobs that have any, and reports go out before what relies on them.
Begun(p) ==
  /\ tick[p].pc \in Attempting => Row(p).attempt >= 1
  /\ tick[p].pc \in Alerting =>
       Job(p) \in {"session_scan", "data_health_check"} /\ tick[p].alert \in Alerts
  /\ Job(p) = "market_close_recap" /\ tick[p].pc = "succeed" =>
       recaps[Date(tick[p].now)] > 0
  /\ Job(p) = "daily_review" /\ tick[p].pc \in {"start", "write start"} \cup Attempting =>
       recaps[Date(tick[p].now)] > 0

RowsInv ==
  /\ TypeOK
  /\ \A p \in Ticks : Begun(p)
  /\ \A d \in Dates : has_succeeded("market_close_recap", d) => recaps[d] > 0
  /\ ReviewAfterRecap

\* Reports do not become undelivered.
ReportsStay == \A d \in Dates : recaps[d] > 0 => recaps'[d] > 0

\* The row of a tick is left alone, or written by an attempt that counts.
RowWritten(p) ==
  \/ runs' = runs
  \/ \E row \in JobRow :
       /\ SetRow(p, row) /\ row.attempt >= 1
       /\ Job(p) = "market_close_recap" /\ row.status = "SUCCESS" =>
            recaps[Date(tick[p].now)] > 0
       /\ Job(p) = "daily_review" => recaps[Date(tick[p].now)] > 0

LEMMA AttemptsStay ==
  ASSUME TypeOK, NEW p \in Ticks, RowWritten(p)
  PROVE  \A j \in Jobs, d \in Dates : runs[j][d].attempt >= 1 => runs'[j][d].attempt >= 1
BY RowSet DEF RowWritten

\* What a step has to show.
LEMMA RowsStep ==
  ASSUME RowsInv, NEW p \in Ticks, TypeOK', OthersSame(p), RowWritten(p), ReportsStay,
         Begun(p)'
  PROVE  RowsInv'
<1>1. TypeOK /\ TypeOK'
  BY DEF RowsInv
<1>2. ASSUME NEW q \in Ticks PROVE Begun(q)'
  <2>1. CASE q = p
    BY <2>1
  <2>2. CASE q # p
    <3>1. tick'[q] = tick[q]
      BY <2>2 DEF OthersSame
    <3>2. Begun(q) /\ Job(q) \in Jobs /\ Date(tick[q].now) \in Dates
      BY <1>1, TickFacts DEF RowsInv
    <3>3. Row(q).attempt >= 1 => Row(q)'.attempt >= 1
      BY <1>1, <3>1, <3>2, AttemptsStay DEF Row, Job
    <3>4. Job(q)' = Job(q)
      BY <3>1 DEF Job
    <3>5. recaps[Date(tick[q].now)] > 0 => recaps'[Date(tick'[q].now)] > 0
      BY <3>1, <3>2 DEF ReportsStay
    <3>6. QED
      BY <3>1, <3>2, <3>3, <3>4, <3>5 DEF Begun
  <2>3. QED
    BY <2>1, <2>2
<1>3. ASSUME NEW d \in Dates
      PROVE  /\ has_succeeded("market_close_recap", d)' => recaps'[d] > 0
             /\ runs'["daily_review"][d] # NotRun => recaps'[d] > 0
  <2>1. "market_close_recap" \in Jobs /\ "daily_review" \in Jobs
    BY JobNames
  <2>2. CASE runs' = runs
    BY <2>2 DEF RowsInv, ReportsStay, has_succeeded, ReviewAfterRecap
  <2>3. ASSUME NEW row \in JobRow, SetRow(p, row), row.attempt >= 1,
               Job(p) = "market_close_recap" /\ row.status = "SUCCESS" =>
                 recaps[Date(tick[p].now)] > 0,
               Job(p) = "daily_review" => recaps[Date(tick[p].now)] > 0
        PROVE  /\ has_succeeded("market_close_recap", d)' => recaps'[d] > 0
               /\ runs'["daily_review"][d] # NotRun => recaps'[d] > 0
    <3>1. \A j \in Jobs :
            runs'[j][d] = IF j = Job(p) /\ d = Date(tick[p].now) THEN row ELSE runs[j][d]
      BY <1>1, <2>3, RowSet
    <3>2. has_succeeded("market_close_recap", d)' => recaps[d] > 0
      BY <2>1, <2>3, <3>1 DEF RowsInv, has_succeeded
    <3>3. runs'["daily_review"][d] # NotRun => recaps[d] > 0
      BY <2>1, <2>3, <3>1 DEF RowsInv, ReviewAfterRecap
    <3>4. QED
      BY <3>2, <3>3 DEF ReportsStay
  <2>4. QED
    BY <2>2, <2>3 DEF RowWritten
<1>4. QED
  BY <1>1, <1>2, <1>3 DEF RowsInv, ReviewAfterRecap

\* What a tick that leaves its job has to show of itself: nothing.
LEMMA LeavesBegun ==
  ASSUME NEW p \in Ticks, Leaves(p)
  PROVE  Begun(p)'
BY DEF Leaves, Begun, Attempting, Alerting

\* Its job and its date are the same when it stays.
LEMMA StaysSame ==
  ASSUME NEW p \in Ticks, NEW label, Stays(p, label)
  PROVE  /\ Job(p)' = Job(p) /\ Date(tick[p].now)' = Date(tick[p].now)
         /\ tick'[p].pc = label
BY DEF Stays, Job, Date

LEMMA RowsNext == RowsInv /\ [Next]_vars => RowsInv'
<1> SUFFICES ASSUME RowsInv, [Next]_vars PROVE RowsInv'
  OBVIOUS
<1>1. TypeOK
  BY DEF RowsInv
<1>2. CASE UNCHANGED vars
  <2>1. UNCHANGED <<clock, runs, dedup, last_good, tick, failures, crashes, told, repeats,
                    recaps>>
    BY <1>2 DEF vars, tables, bounds, history
  <2>2. TypeOK' /\ \A p \in Ticks : Begun(p)'
    BY <2>1, <1>1 DEF TypeOK, RowsInv, Begun, Row, Job
  <2>3. QED
    BY <2>1, <2>2 DEF RowsInv, ReviewAfterRecap, has_succeeded
<1>3. ASSUME NEW p \in Ticks, NEW now \in 0 .. MaxTime,
             BeginTick(p, now) \/ BeginTickUncovered(p, now)
      PROVE  RowsInv'
  <2>1. /\ tick' \in [Ticks -> TickState] /\ clock' = now /\ OthersSame(p)
        /\ tick'[p].pc \in {"gate", "idle"}
        /\ UNCHANGED <<runs, dedup, last_good, failures, crashes, told, repeats, recaps>>
    BY <1>1, <1>3, BeginMoves DEF tables, bounds, history
  <2>2. TypeOK'
    BY <1>1, <2>1 DEF TypeOK
  <2>3. Begun(p)'
    BY <2>1 DEF Begun, Attempting, Alerting
  <2>4. RowWritten(p) /\ ReportsStay
    BY <2>1 DEF RowWritten, ReportsStay
  <2>5. QED
    BY <2>1, <2>2, <2>3, <2>4, RowsStep
<1>4. ASSUME NEW p \in Ticks, Step(p) \/ ReportFails(p) \/ NotifyFails(p) \/ WorkFails(p)
                              \/ Crash(p)
      PROVE  RowsInv'
  <2>1. Begun(p) /\ Job(p) \in Jobs /\ Date(tick[p].now) \in Dates /\ Row(p) \in JobRow
    BY <1>1, TickFacts DEF RowsInv
  <2>2. CASE Gate(p)
    <3>1. /\ tick' \in [Ticks -> TickState]
          /\ UNCHANGED <<clock, runs, dedup, last_good, failures, crashes, told, repeats,
                         recaps>>
      BY <1>1, <2>2, GateMoves DEF tables, bounds, history
    <3>2. TypeOK' /\ RowWritten(p) /\ ReportsStay
      BY <1>1, <3>1 DEF TypeOK, RowWritten, ReportsStay
    <3>3. CASE Leaves(p)
      BY <3>2, <3>3, LeavesBegun, RowsStep DEF Leaves
    <3>4. CASE Keeps(p, "start") /\ Due(Job(p), tick[p].now)
      <4>1. Job(p)' = Job(p) /\ Date(tick[p].now)' = Date(tick[p].now) /\ tick'[p].pc = "start"
        BY <3>4, StaysSame DEF Keeps
      <4>2. Job(p) = "daily_review" => recaps[Date(tick[p].now)] > 0
        BY <2>1, <3>4 DEF Due, RowsInv
      <4>3. Begun(p)'
        BY <3>1, <4>1, <4>2 DEF Begun, Attempting, Alerting
      <4>4. QED
        BY <3>2, <3>4, <4>3, RowsStep DEF Keeps, Stays
    <3>5. QED
      BY <1>1, <2>2, <3>3, <3>4, GateMoves
  <2>3. CASE ReadRow(p)
    <3>1. /\ tick' \in [Ticks -> TickState] /\ tick[p].pc = "start" /\ Stays(p, "write start")
          /\ UNCHANGED <<clock, runs, dedup, last_good, failures, crashes, told, repeats,
                         recaps>>
      BY <1>1, <2>3, ReadRowMoves DEF tables, bounds, history
    <3>2. TypeOK' /\ RowWritten(p) /\ ReportsStay
      BY <1>1, <3>1 DEF TypeOK, RowWritten, ReportsStay
    <3>3. Job(p)' = Job(p) /\ Date(tick[p].now)' = Date(tick[p].now)
      BY <3>1, StaysSame
    <3>4. Begun(p)'
      BY <2>1, <3>1, <3>3 DEF Begun, Attempting, Alerting, Stays
    <3>5. QED
      BY <3>1, <3>2, <3>4, RowsStep DEF Stays
  <2>4. CASE WriteStart(p)
    <3>1. /\ tick' \in [Ticks -> TickState] /\ tick[p].pc = "write start"
          /\ UNCHANGED <<clock, dedup, last_good, failures, crashes, told, repeats, recaps>>
      BY <1>1, <2>4, WriteStartMoves DEF bounds, history
    <3>2. ReportsStay
      BY <3>1 DEF ReportsStay
    <3>3. CASE Leaves(p) /\ UNCHANGED runs
      <4>1. TypeOK' /\ RowWritten(p)
        BY <1>1, <3>1, <3>3 DEF TypeOK, RowWritten
      <4>2. QED
        BY <3>2, <3>3, <4>1, LeavesBegun, RowsStep DEF Leaves
    <3>4. ASSUME Keeps(p, "work"), NEW row \in JobRow, SetRow(p, row), row.attempt >= 1,
                 row.status = "RUNNING"
          PROVE  RowsInv'
      <4>1. Job(p)' = Job(p) /\ Date(tick[p].now)' = Date(tick[p].now) /\ tick'[p].pc = "work"
        BY <3>4, StaysSame DEF Keeps
      <4>2. /\ runs' \in [Jobs -> [Dates -> JobRow]]
            /\ runs'[Job(p)][Date(tick[p].now)] = row
        BY <1>1, <2>1, <3>4, RowSet
      <4>3. Job(p) = "daily_review" => recaps[Date(tick[p].now)] > 0
        BY <2>1, <3>1 DEF Begun
      <4>4. TypeOK' /\ RowWritten(p)
        BY <1>1, <3>1, <3>4, <4>2, <4>3 DEF TypeOK, RowWritten
      <4>5. Row(p)' = row
        BY <4>1, <4>2 DEF Row
      <4>6. Begun(p)'
        BY <3>1, <3>4, <4>1, <4>3, <4>5 DEF Begun, Alerting
      <4>7. QED
        BY <3>2, <3>4, <4>4, <4>6, RowsStep DEF Keeps, Stays
    <3>5. QED
      BY <1>1, <2>4, <3>3, <3>4, WriteStartMoves
  <2>5. CASE WorkWithoutEffect(p)
    <3>1. /\ tick' \in [Ticks -> TickState] /\ tick[p].pc = "work" /\ Stays(p, "succeed")
          /\ Job(p) # "market_close_recap"
          /\ UNCHANGED <<clock, runs, dedup, last_good, failures, crashes, told, repeats,
                         recaps>>
      BY <1>1, <2>5, PlainWorkMoves DEF tables, bounds, history, Keeps
    <3>2. TypeOK' /\ RowWritten(p) /\ ReportsStay
      BY <1>1, <3>1 DEF TypeOK, RowWritten, ReportsStay
    <3>3. Job(p)' = Job(p) /\ Date(tick[p].now)' = Date(tick[p].now) /\ Row(p)' = Row(p)
      BY <3>1, StaysSame DEF Row
    <3>4. Begun(p)'
      BY <2>1, <3>1, <3>3 DEF Begun, Attempting, Alerting, Stays
    <3>5. QED
      BY <3>1, <3>2, <3>4, RowsStep DEF Stays
  <2>6. CASE MarketCloseRecap(p) \/ ReportFails(p)
    <3>1. /\ tick' \in [Ticks -> TickState] /\ tick[p].pc = "work"
          /\ Stays(p, "succeed") \/ Stays(p, "fail")
          /\ Job(p) = "market_close_recap"
          /\ UNCHANGED <<clock, runs, dedup, last_good, crashes>>
          /\ failures' \in Nat
      BY <1>1, <2>6, RecapMoves, ReportSent DEF tables, Keeps, TypeOK
    <3>2. /\ recaps' \in [Dates -> Nat] /\ recaps'[Date(tick[p].now)] >= 1
          /\ \A d \in Dates : recaps'[d] >= recaps[d] \/ recaps'[d] >= 1
          /\ UNCHANGED <<told, repeats>>
      BY <1>1, <2>6, RecapMoves, ReportSent
    <3>3. TypeOK' /\ RowWritten(p) /\ ReportsStay
      <4>1. TypeOK' /\ RowWritten(p)
        BY <1>1, <3>1, <3>2 DEF TypeOK, RowWritten
      <4>2. ReportsStay
        BY <1>1, <3>2 DEF TypeOK, ReportsStay
      <4>3. QED
        BY <4>1, <4>2
    <3>4. Job(p)' = Job(p) /\ Date(tick[p].now)' = Date(tick[p].now) /\ Row(p)' = Row(p)
      BY <3>1, StaysSame DEF Row
    <3>5. Begun(p)'
      BY <2>1, <3>1, <3>2, <3>4 DEF Begun, Attempting, Alerting, Stays
    <3>6. QED
      BY <3>1, <3>3, <3>5, RowsStep DEF Stays
  <2>7. CASE SessionScan(p) \/ DataHealthCheck(p)
    <3>1. /\ tick' \in [Ticks -> TickState] /\ Stays(p, "apply") /\ tick[p].pc = "work"
          /\ Job(p) \in {"session_scan", "data_health_check"}
          /\ tick'[p].alert \in Alerts
          /\ UNCHANGED <<clock, runs, dedup, last_good, failures, crashes, told, repeats,
                         recaps>>
      BY <1>1, <2>7, AlertMoves DEF tables, bounds, history
    <3>2. TypeOK' /\ RowWritten(p) /\ ReportsStay
      BY <1>1, <3>1 DEF TypeOK, RowWritten, ReportsStay
    <3>3. Job(p)' = Job(p) /\ Date(tick[p].now)' = Date(tick[p].now) /\ Row(p)' = Row(p)
      BY <3>1, StaysSame DEF Row
    <3>4. Begun(p)'
      BY <2>1, <3>1, <3>3 DEF Begun, Attempting, Stays
    <3>5. QED
      BY <3>1, <3>2, <3>4, RowsStep DEF Stays
  <2>8. CASE ReadPrevious(p)
    <3>0. tick[p].pc = "apply" /\ tick[p].alert \in Alerts
      BY <2>1, <2>8 DEF ReadPrevious, At, Begun, Alerting
    <3>1. /\ tick' \in [Ticks -> TickState]
          /\ Stays(p, "notify") \/ Stays(p, "record")
          /\ tick'[p].alert = tick[p].alert
          /\ UNCHANGED <<clock, runs, dedup, last_good, failures, crashes, told, repeats,
                         recaps>>
      BY <1>1, <2>8, <3>0, ReadPreviousMoves DEF tables, bounds, history
    <3>2. TypeOK' /\ RowWritten(p) /\ ReportsStay
      BY <1>1, <3>1 DEF TypeOK, RowWritten, ReportsStay
    <3>3. Job(p)' = Job(p) /\ Date(tick[p].now)' = Date(tick[p].now) /\ Row(p)' = Row(p)
      BY <3>1, StaysSame DEF Row
    <3>4. Begun(p)'
      BY <2>1, <3>0, <3>1, <3>3 DEF Begun, Attempting, Alerting, Stays
    <3>5. QED
      BY <3>1, <3>2, <3>4, RowsStep DEF Stays
  <2>9. CASE Notify(p) \/ NotifyFails(p)
    <3>0. tick[p].pc = "notify" /\ tick[p].alert \in Alerts
      BY <2>1, <2>9 DEF Notify, NotifyFails, At, Begun, Alerting
    <3>1. /\ tick' \in [Ticks -> TickState] /\ Stays(p, "record")
          /\ tick'[p].alert = tick[p].alert
          /\ UNCHANGED <<clock, runs, dedup, last_good, crashes>>
          /\ failures' \in Nat
          /\ Deliver(p) \/ UNCHANGED history
      BY <1>1, <2>9, NotifyMoves, NotifyFailsMoves DEF tables, bounds, Keeps, TypeOK
    <3>2. /\ told' \in [Alerts -> [signature : Signatures, at : 0 .. MaxTime]]
          /\ repeats' \in Nat /\ UNCHANGED recaps
      BY <1>1, <3>0, <3>1, Delivers DEF history, TypeOK
    <3>3. TypeOK' /\ RowWritten(p) /\ ReportsStay
      BY <1>1, <3>1, <3>2 DEF TypeOK, RowWritten, ReportsStay
    <3>4. Job(p)' = Job(p) /\ Date(tick[p].now)' = Date(tick[p].now) /\ Row(p)' = Row(p)
      BY <3>1, StaysSame DEF Row
    <3>5. Begun(p)'
      BY <2>1, <3>0, <3>1, <3>4 DEF Begun, Attempting, Alerting, Stays
    <3>6. QED
      BY <3>1, <3>3, <3>5, RowsStep DEF Stays
  <2>10. CASE Record(p)
    <3>0. tick[p].pc = "record" /\ tick[p].alert \in Alerts
      BY <2>1, <2>10 DEF Record, At, Begun, Alerting
    <3>1. /\ tick' \in [Ticks -> TickState] /\ Stays(p, "succeed")
          /\ dedup' \in [Alerts -> DedupRow]
          /\ UNCHANGED <<clock, runs, last_good, failures, crashes, told, repeats, recaps>>
      BY <1>1, <2>10, <3>0, RecordMoves DEF bounds, history, Keeps
    <3>2. TypeOK' /\ RowWritten(p) /\ ReportsStay
      BY <1>1, <3>1 DEF TypeOK, RowWritten, ReportsStay
    <3>3. Job(p)' = Job(p) /\ Date(tick[p].now)' = Date(tick[p].now) /\ Row(p)' = Row(p)
      BY <3>1, StaysSame DEF Row
    <3>4. Begun(p)'
      BY <2>1, <3>0, <3>1, <3>3 DEF Begun, Attempting, Alerting, Stays
    <3>5. QED
      BY <3>1, <3>2, <3>4, RowsStep DEF Stays
  <2>11. CASE MarkSuccess(p)
    <3>1. /\ tick' \in [Ticks -> TickState] /\ tick[p].pc = "succeed" /\ Stays(p, "audit")
          /\ UNCHANGED <<clock, dedup, last_good, failures, crashes, told, repeats, recaps>>
      BY <1>1, <2>11, MarkSuccessMoves DEF bounds, history, Keeps
    <3>2. PICK row \in JobRow :
            SetRow(p, row) /\ row.status = "SUCCESS" /\ row.attempt = Row(p).attempt
      BY <1>1, <2>11, MarkSuccessMoves
    <3>3. row.attempt >= 1 /\ ReportsStay
      BY <2>1, <3>1, <3>2 DEF Begun, Attempting, ReportsStay
    <3>4. /\ Job(p) = "market_close_recap" => recaps[Date(tick[p].now)] > 0
          /\ Job(p) = "daily_review" => recaps[Date(tick[p].now)] > 0
      BY <2>1, <3>1 DEF Begun, Attempting
    <3>5. /\ runs' \in [Jobs -> [Dates -> JobRow]]
          /\ runs'[Job(p)][Date(tick[p].now)] = row
      BY <1>1, <2>1, <3>2, RowSet
    <3>6. TypeOK' /\ RowWritten(p)
      BY <1>1, <3>1, <3>2, <3>3, <3>4, <3>5 DEF TypeOK, RowWritten
    <3>7. Job(p)' = Job(p) /\ Date(tick[p].now)' = Date(tick[p].now) /\ Row(p)' = row
      BY <3>1, <3>5, StaysSame DEF Row
    <3>8. Begun(p)'
      BY <3>1, <3>3, <3>4, <3>7 DEF Begun, Alerting, Stays
    <3>9. QED
      BY <3>1, <3>3, <3>6, <3>8, RowsStep DEF Stays
  <2>12. CASE AuditSuccess(p)
    <3>1. /\ tick' \in [Ticks -> TickState] /\ Leaves(p) /\ last_good' \in Nat \cup {-1}
          /\ UNCHANGED <<clock, runs, dedup, failures, crashes, told, repeats, recaps>>
      BY <1>1, <2>12, AuditSuccessMoves DEF bounds, history
    <3>2. TypeOK' /\ RowWritten(p) /\ ReportsStay
      BY <1>1, <3>1 DEF TypeOK, RowWritten, ReportsStay
    <3>3. QED
      BY <3>1, <3>2, LeavesBegun, RowsStep DEF Leaves
  <2>13. CASE WorkFails(p)
    <3>1. /\ tick' \in [Ticks -> TickState] /\ tick[p].pc \in {"work", "apply", "record"}
          /\ Stays(p, "fail") /\ failures' \in Nat
          /\ UNCHANGED <<clock, runs, dedup, last_good, crashes, told, repeats, recaps>>
      BY <1>1, <2>13, WorkFailsMoves DEF tables, history, Keeps, TypeOK
    <3>2. TypeOK' /\ RowWritten(p) /\ ReportsStay
      BY <1>1, <3>1 DEF TypeOK, RowWritten, ReportsStay
    <3>3. Job(p)' = Job(p) /\ Date(tick[p].now)' = Date(tick[p].now) /\ Row(p)' = Row(p)
      BY <3>1, StaysSame DEF Row
    <3>4. Begun(p)'
      BY <2>1, <3>1, <3>3 DEF Begun, Attempting, Alerting, Stays
    <3>5. QED
      BY <3>1, <3>2, <3>4, RowsStep DEF Stays
  <2>14. CASE MarkFailed(p)
    <3>0. tick[p].pc = "fail" /\ Row(p).attempt >= 1
      BY <2>1, <2>14 DEF MarkFailed, At, Begun, Attempting
    <3>1. /\ tick' \in [Ticks -> TickState] /\ Leaves(p)
          /\ UNCHANGED <<clock, dedup, last_good, failures, crashes, told, repeats, recaps>>
      BY <1>1, <2>14, <3>0, MarkFailedMoves DEF bounds, history
    <3>2. RowWritten(p) /\ runs' \in [Jobs -> [Dates -> JobRow]]
      <4>1. CASE UNCHANGED runs
        BY <1>1, <4>1 DEF RowWritten, TypeOK
      <4>2. ASSUME NEW row \in JobRow, SetRow(p, row), row.status = "FAILED",
                   row.attempt = Row(p).attempt
            PROVE  RowWritten(p) /\ runs' \in [Jobs -> [Dates -> JobRow]]
        <5>1. Job(p) = "daily_review" => recaps[Date(tick[p].now)] > 0
          BY <2>1, <3>0 DEF Begun, Attempting
        <5>2. RowWritten(p)
          BY <3>0, <4>2, <5>1 DEF RowWritten
        <5>3. QED
          BY <1>1, <4>2, <5>2, RowSet
      <4>3. QED
        BY <1>1, <2>14, <3>0, <4>1, <4>2, MarkFailedMoves
    <3>3. TypeOK' /\ ReportsStay
      BY <1>1, <3>1, <3>2 DEF TypeOK, ReportsStay
    <3>4. QED
      BY <3>1, <3>2, <3>3, LeavesBegun, RowsStep DEF Leaves
  <2>15. CASE Crash(p)
    <3>1. /\ tick' \in [Ticks -> TickState] /\ Leaves(p) /\ crashes' \in Nat
          /\ UNCHANGED <<clock, runs, dedup, last_good, failures, told, repeats, recaps>>
      BY <1>1, <2>15, CrashMoves DEF tables, history, TypeOK
    <3>2. TypeOK' /\ RowWritten(p) /\ ReportsStay
      BY <1>1, <3>1 DEF TypeOK, RowWritten, ReportsStay
    <3>3. QED
      BY <3>1, <3>2, LeavesBegun, RowsStep DEF Leaves
  <2>16. QED
    BY <1>4, <2>2, <2>3, <2>4, <2>5, <2>6, <2>7, <2>8, <2>9, <2>10, <2>11, <2>12, <2>13,
       <2>14, <2>15 DEF Step
<1>5. QED
  BY <1>2, <1>3, <1>4 DEF Next

LEMMA RowsInit == Init => RowsInv
<1> SUFFICES ASSUME Init PROVE RowsInv
  OBVIOUS
<1>1. TypeOK
  BY TypeInit
<1>2. \A p \in Ticks : tick[p].pc = "idle"
  BY IdleType DEF Init
<1>3. \A j \in Jobs, d \in Dates : runs[j][d] = NotRun
  BY DEF Init
<1>4. "market_close_recap" \in Jobs /\ "daily_review" \in Jobs
  BY JobNames
<1>5. QED
  BY <1>1, <1>2, <1>3, <1>4, IdleType
  DEF RowsInv, Begun, Attempting, Alerting, ReviewAfterRecap, has_succeeded

LEMMA RowsHold == Spec => []RowsInv
BY RowsInit, RowsNext, PTL DEF Spec

\* A day is reviewed only after its report went out, however many ticks overlap
\* and whatever fails: the gate of the review reads the row of the recap, which is
\* SUCCESS only after a report (IDXDailyScheduler.tick, _attempt).
THEOREM RowsStayInOrder == Spec => []RowsInOrder
<1>1. RowsInv => RowsInOrder
  BY DEF RowsInv, RowsInOrder
<1>2. QED
  BY <1>1, RowsHold, PTL

-----------------------------------------------------------------------------
(***************************************************************************)
(* One tick at a time: reports                                             *)
(***************************************************************************)
OneTick == \A p, q \in Ticks : p = q

\* The report of a date is out, and its row says so or is about to.
Reported(d) ==
  \/ has_succeeded("market_close_recap", d)
  \/ \E p \in Ticks : /\ tick[p].pc = "succeed" /\ Job(p) = "market_close_recap"
                      /\ Date(tick[p].now) = d

\* An attempt at the recap begins when none has succeeded.
Unreported(p) ==
  Job(p) = "market_close_recap" /\ tick[p].pc \in {"start", "write start", "work", "fail"} =>
    ~has_succeeded("market_close_recap", Date(tick[p].now))

ReportsInv ==
  /\ \A p \in Ticks : Unreported(p)
  /\ \A d \in Dates :
       recaps[d] <= (IF Reported(d) THEN 1 ELSE 0) + crashes + failures

\* A step that delivers no report and neither dies nor fails.
LEMMA QuietReports ==
  ASSUME OneTick, TypeOK, TypeOK', ReportsInv, NEW p \in Ticks, UNCHANGED recaps,
         crashes' + failures' >= crashes + failures,
         Unreported(p)',
         \A d \in Dates :
           Reported(d) => Reported(d)' \/ crashes' + failures' > crashes + failures
  PROVE  ReportsInv'
<1>1. \A q \in Ticks : Unreported(q)'
  BY DEF OneTick
<1>2. ASSUME NEW d \in Dates
      PROVE  recaps'[d] <= (IF Reported(d)' THEN 1 ELSE 0) + crashes' + failures'
  <2>1. PICK n, c, e, f, g : /\ n = recaps[d] /\ c = crashes /\ e = failures
                             /\ f = crashes' /\ g = failures'
    OBVIOUS
  <2>2. n \in Nat /\ c \in Nat /\ e \in Nat /\ f \in Nat /\ g \in Nat
    BY <2>1 DEF TypeOK
  <2>3. /\ n <= (IF Reported(d) THEN 1 ELSE 0) + c + e /\ f + g >= c + e
        /\ Reported(d) => Reported(d)' \/ f + g > c + e
    BY <2>1 DEF ReportsInv
  <2>4. n <= (IF Reported(d)' THEN 1 ELSE 0) + f + g
    <3>1. CASE Reported(d)'
      <4>1. n <= 1 + c + e
        BY <2>2, <2>3
      <4>2. QED
        BY <2>2, <2>3, <3>1, <4>1
    <3>2. CASE ~Reported(d)' /\ Reported(d)
      BY <2>2, <2>3, <3>2
    <3>3. CASE ~Reported(d)' /\ ~Reported(d)
      BY <2>2, <2>3, <3>3
    <3>4. QED
      BY <3>1, <3>2, <3>3
  <2>5. QED
    BY <2>1, <2>4
<1>3. QED
  BY <1>1, <1>2 DEF ReportsInv

\* Such a step that does not touch the rows, by a tick that has not just sent a
\* report.
LEMMA RestReports ==
  ASSUME OneTick, TypeOK, TypeOK', ReportsInv, NEW p \in Ticks, UNCHANGED <<recaps, runs>>,
         crashes' + failures' >= crashes + failures,
         Unreported(p)',
         tick[p].pc = "succeed" => crashes' + failures' > crashes + failures
  PROVE  ReportsInv'
<1>1. ASSUME NEW d \in Dates, Reported(d)
      PROVE  Reported(d)' \/ crashes' + failures' > crashes + failures
  BY <1>1 DEF Reported, has_succeeded, OneTick
<1>2. QED
  BY <1>1, QuietReports

LEMMA NothingSpent ==
  ASSUME TypeOK, UNCHANGED <<crashes, failures>>
  PROVE  crashes' + failures' >= crashes + failures
<1>1. PICK n : n = crashes + failures
  OBVIOUS
<1>2. n \in Int
  BY <1>1 DEF TypeOK
<1>3. QED
  BY <1>1, <1>2

LEMMA LeavesUnreported ==
  ASSUME NEW p \in Ticks, Leaves(p) \/ tick'[p].pc \in {"gate", "idle"}
  PROVE  Unreported(p)'
BY DEF Leaves, Unreported

\* A row written by a tick: what other rows say of the recap stays.
LEMMA WrittenReports ==
  ASSUME TypeOK, NEW p \in Ticks, NEW row \in JobRow, SetRow(p, row), NEW d \in Dates
  PROVE  has_succeeded("market_close_recap", d)'
           = IF Job(p) = "market_close_recap" /\ d = Date(tick[p].now)
             THEN row.status = "SUCCESS" ELSE has_succeeded("market_close_recap", d)
<1>1. "market_close_recap" \in Jobs
  BY JobNames
<1>2. runs'["market_close_recap"][d]
        = IF Job(p) = "market_close_recap" /\ d = Date(tick[p].now)
          THEN row ELSE runs["market_close_recap"][d]
  BY <1>1, RowSet
<1>3. QED
  BY <1>2 DEF has_succeeded

LEMMA ReportsNext == OneTick /\ RowsInv /\ RowsInv' /\ ReportsInv /\ [Next]_vars => ReportsInv'
<1> SUFFICES ASSUME OneTick, RowsInv, RowsInv', ReportsInv, [Next]_vars PROVE ReportsInv'
  OBVIOUS
<1>1. TypeOK /\ TypeOK' /\ crashes \in Nat /\ failures \in Nat
  BY DEF RowsInv, TypeOK
<1>2. CASE UNCHANGED vars
  <2>1. UNCHANGED <<runs, tick, failures, crashes, recaps>>
    BY <1>2 DEF vars, tables, bounds, history
  <2>2. QED
    BY <2>1 DEF ReportsInv, Unreported, Reported, has_succeeded, Job
<1>3. ASSUME NEW p \in Ticks, NEW now \in 0 .. MaxTime,
             BeginTick(p, now) \/ BeginTickUncovered(p, now)
      PROVE  ReportsInv'
  <2>1. /\ tick[p].pc = "idle" /\ tick'[p].pc \in {"gate", "idle"}
        /\ UNCHANGED <<recaps, runs, crashes, failures>>
    BY <1>1, <1>3, BeginMoves DEF tables, bounds, history
  <2>2. QED
    BY <1>1, <2>1, LeavesUnreported, RestReports
<1>4. ASSUME NEW p \in Ticks, Step(p) \/ ReportFails(p) \/ NotifyFails(p) \/ WorkFails(p)
                              \/ Crash(p)
      PROVE  ReportsInv'
  <2>1. /\ Job(p) \in Jobs /\ Date(tick[p].now) \in Dates
        /\ Unreported(p) /\ Begun(p)
    BY <1>1, TickFacts DEF RowsInv, ReportsInv
  <2>2. CASE Gate(p)
    <3>1. tick[p].pc = "gate" /\ UNCHANGED <<recaps, runs, crashes, failures>>
      BY <1>1, <2>2, GateMoves DEF tables, bounds, history
    <3>2. CASE Leaves(p)
      BY <1>1, <3>1, <3>2, LeavesUnreported, RestReports
    <3>3. CASE Stays(p, "start") /\ may_attempt(Job(p), tick[p].now)
      <4>1. Job(p)' = Job(p) /\ Date(tick[p].now)' = Date(tick[p].now)
        BY <3>3, StaysSame
      <4>2. Job(p) = "market_close_recap" =>
              ~has_succeeded("market_close_recap", Date(tick[p].now))
        BY <2>1, <3>3 DEF may_attempt, RunOnce
      <4>3. Unreported(p)'
        BY <3>1, <4>1, <4>2 DEF Unreported, has_succeeded
      <4>4. QED
        BY <1>1, <3>1, <4>3, RestReports
    <3>4. QED
      BY <1>1, <2>2, <3>2, <3>3, GateMoves DEF Keeps
  <2>3. CASE ReadRow(p)
    <3>1. /\ tick[p].pc = "start" /\ Stays(p, "write start")
          /\ UNCHANGED <<recaps, runs, crashes, failures>>
      BY <1>1, <2>3, ReadRowMoves DEF tables, bounds, history
    <3>2. Job(p)' = Job(p) /\ Date(tick[p].now)' = Date(tick[p].now)
      BY <3>1, StaysSame
    <3>3. Unreported(p)'
      BY <2>1, <3>1, <3>2 DEF Unreported, has_succeeded
    <3>4. QED
      BY <1>1, <3>1, <3>3, NothingSpent, RestReports
  <2>4. CASE WriteStart(p)
    <3>1. tick[p].pc = "write start" /\ UNCHANGED <<recaps, crashes, failures>>
      BY <1>1, <2>4, WriteStartMoves DEF bounds, history
    <3>2. CASE Leaves(p) /\ UNCHANGED runs
      BY <1>1, <3>1, <3>2, NothingSpent, LeavesUnreported, RestReports
    <3>3. ASSUME Keeps(p, "work"), NEW row \in JobRow, SetRow(p, row),
                 row.status = "RUNNING"
          PROVE  ReportsInv'
      <4>1. Job(p)' = Job(p) /\ Date(tick[p].now)' = Date(tick[p].now) /\ tick'[p].pc = "work"
        BY <3>3, StaysSame DEF Keeps
      <4>2. \A d \in Dates : has_succeeded("market_close_recap", d)' =
              IF Job(p) = "market_close_recap" /\ d = Date(tick[p].now)
              THEN FALSE ELSE has_succeeded("market_close_recap", d)
        BY <1>1, <3>3, WrittenReports
      <4>3. Unreported(p)'
        BY <2>1, <4>1, <4>2 DEF Unreported
      <4>4. ASSUME NEW d \in Dates, Reported(d) PROVE Reported(d)'
        <5>1. has_succeeded("market_close_recap", d)
          BY <3>1, <4>4 DEF Reported, OneTick
        <5>2. ~(Job(p) = "market_close_recap" /\ d = Date(tick[p].now))
          BY <2>1, <3>1, <5>1 DEF Unreported
        <5>3. QED
          BY <4>2, <5>1, <5>2 DEF Reported
      <4>5. QED
        BY <1>1, <3>1, <4>3, <4>4, NothingSpent, QuietReports
    <3>4. QED
      BY <1>1, <2>4, <3>2, <3>3, WriteStartMoves
  <2>5. CASE WorkWithoutEffect(p)
    <3>1. /\ tick[p].pc = "work" /\ Stays(p, "succeed")
          /\ UNCHANGED <<recaps, runs, crashes, failures>>
      BY <1>1, <2>5, PlainWorkMoves DEF tables, bounds, history, Keeps
    <3>2. Unreported(p)'
      BY <3>1 DEF Unreported, Stays
    <3>3. QED
      BY <1>1, <3>1, <3>2, RestReports
  <2>6. CASE MarketCloseRecap(p) \/ ReportFails(p)
    <3>1. /\ SendReport(p) /\ UNCHANGED <<runs, crashes>>
          /\ \/ Stays(p, "succeed") /\ failures' = failures
             \/ Stays(p, "fail") /\ failures' = failures + 1
      BY <1>1, <2>6, RecapMoves DEF tables, Keeps
    <3>2. /\ tick[p].pc = "work" /\ Job(p) = "market_close_recap"
          /\ recaps'[Date(tick[p].now)] <= recaps[Date(tick[p].now)] + 1
          /\ \A d \in Dates \ {Date(tick[p].now)} : recaps'[d] = recaps[d]
      BY <1>1, <3>1, ReportSent
    <3>3. Job(p)' = Job(p) /\ Date(tick[p].now)' = Date(tick[p].now)
      BY <3>1, StaysSame
    <3>4. ~has_succeeded("market_close_recap", Date(tick[p].now))
      BY <2>1, <3>2 DEF Unreported
    <3>5. Unreported(p)'
      BY <3>1, <3>3, <3>4 DEF Unreported, has_succeeded
    <3>6. ~Reported(Date(tick[p].now))
      BY <3>2, <3>4 DEF Reported, OneTick
    <3>7. ASSUME NEW d \in Dates
          PROVE  recaps'[d] <= (IF Reported(d)' THEN 1 ELSE 0) + crashes' + failures'
      <4>1. PICK n, m, c, e, g : /\ n = recaps[d] /\ m = recaps'[d] /\ c = crashes
                                 /\ e = failures /\ g = failures'
        OBVIOUS
      <4>2. n \in Nat /\ m \in Nat /\ c \in Nat /\ e \in Nat /\ g \in Nat
        BY <1>1, <4>1 DEF TypeOK
      <4>3. n <= (IF Reported(d) THEN 1 ELSE 0) + c + e /\ crashes' = c /\ g >= e
        BY <3>1, <4>1, <4>2 DEF ReportsInv
      <4>4. CASE d = Date(tick[p].now)
        <5>1. n <= c + e /\ m <= n + 1
          BY <3>2, <3>6, <4>1, <4>2, <4>3, <4>4
        <5>2. CASE Stays(p, "succeed")
          <6>1. Reported(d)'
            BY <3>2, <3>3, <4>4, <5>2 DEF Reported, Stays
          <6>2. QED
            BY <4>1, <4>2, <4>3, <5>1, <6>1
        <5>3. CASE Stays(p, "fail") /\ failures' = failures + 1
          BY <4>1, <4>2, <4>3, <5>1, <5>3
        <5>4. QED
          BY <3>1, <5>2, <5>3
      <4>5. CASE d # Date(tick[p].now)
        <5>1. m = n
          BY <3>2, <4>1, <4>5
        <5>2. Reported(d) => Reported(d)'
          BY <3>1, <3>2 DEF Reported, has_succeeded, OneTick
        <5>3. QED
          BY <4>1, <4>2, <4>3, <5>1, <5>2
      <4>6. QED
        BY <4>4, <4>5
    <3>8. QED
      BY <3>5, <3>7 DEF ReportsInv, OneTick
  <2>7. CASE SessionScan(p) \/ DataHealthCheck(p)
    <3>1. /\ tick[p].pc = "work" /\ Stays(p, "apply")
          /\ UNCHANGED <<recaps, runs, crashes, failures>>
      BY <1>1, <2>7, AlertMoves DEF tables, bounds, history
    <3>2. Unreported(p)'
      BY <3>1 DEF Unreported, Stays
    <3>3. QED
      BY <1>1, <3>1, <3>2, RestReports
  <2>8. CASE ReadPrevious(p)
    <3>0. tick[p].pc = "apply" /\ tick[p].alert \in Alerts
      BY <2>1, <2>8 DEF ReadPrevious, At, Begun, Alerting
    <3>1. /\ Stays(p, "notify") \/ Stays(p, "record")
          /\ UNCHANGED <<recaps, runs, crashes, failures>>
      BY <1>1, <2>8, <3>0, ReadPreviousMoves DEF tables, bounds, history
    <3>2. Unreported(p)'
      BY <3>1 DEF Unreported, Stays
    <3>3. QED
      BY <1>1, <3>0, <3>1, <3>2, RestReports
  <2>9. CASE Notify(p) \/ NotifyFails(p)
    <3>0. tick[p].pc = "notify" /\ tick[p].alert \in Alerts
      BY <2>1, <2>9 DEF Notify, NotifyFails, At, Begun, Alerting
    <3>1. /\ Stays(p, "record") /\ UNCHANGED <<runs, crashes>>
          /\ failures' = failures \/ failures' = failures + 1
          /\ Deliver(p) \/ UNCHANGED history
      BY <1>1, <2>9, NotifyMoves, NotifyFailsMoves DEF tables, bounds, Keeps
    <3>2. UNCHANGED recaps
      BY <1>1, <3>0, <3>1, Delivers DEF history
    <3>3. Unreported(p)'
      BY <3>1 DEF Unreported, Stays
    <3>4. QED
      BY <1>1, <3>0, <3>1, <3>2, <3>3, RestReports
  <2>10. CASE Record(p)
    <3>0. tick[p].pc = "record" /\ tick[p].alert \in Alerts
      BY <2>1, <2>10 DEF Record, At, Begun, Alerting
    <3>1. Stays(p, "succeed") /\ UNCHANGED <<recaps, runs, crashes, failures>>
      BY <1>1, <2>10, <3>0, RecordMoves DEF bounds, history, Keeps
    <3>2. Unreported(p)'
      BY <3>1 DEF Unreported, Stays
    <3>3. QED
      BY <1>1, <3>0, <3>1, <3>2, RestReports
  <2>11. CASE MarkSuccess(p)
    <3>1. /\ tick[p].pc = "succeed" /\ Stays(p, "audit")
          /\ UNCHANGED <<recaps, crashes, failures>>
      BY <1>1, <2>11, MarkSuccessMoves DEF bounds, history, Keeps
    <3>2. PICK row \in JobRow : SetRow(p, row) /\ row.status = "SUCCESS"
      BY <1>1, <2>11, MarkSuccessMoves
    <3>3. \A d \in Dates : has_succeeded("market_close_recap", d)' =
            IF Job(p) = "market_close_recap" /\ d = Date(tick[p].now)
            THEN TRUE ELSE has_succeeded("market_close_recap", d)
      BY <1>1, <3>2, WrittenReports
    <3>4. Unreported(p)'
      BY <3>1 DEF Unreported, Stays
    <3>5. ASSUME NEW d \in Dates, Reported(d) PROVE Reported(d)'
      <4>1. \/ has_succeeded("market_close_recap", d)
            \/ Job(p) = "market_close_recap" /\ Date(tick[p].now) = d
        BY <3>5 DEF Reported, OneTick
      <4>2. QED
        BY <3>3, <4>1 DEF Reported
    <3>6. QED
      BY <1>1, <3>1, <3>4, <3>5, QuietReports
  <2>12. CASE AuditSuccess(p)
    <3>1. tick[p].pc = "audit" /\ Leaves(p) /\ UNCHANGED <<recaps, runs, crashes, failures>>
      BY <1>1, <2>12, AuditSuccessMoves DEF bounds, history
    <3>2. QED
      BY <1>1, <3>1, LeavesUnreported, RestReports
  <2>13. CASE WorkFails(p)
    <3>1. /\ tick[p].pc \in {"work", "apply", "record"} /\ Stays(p, "fail")
          /\ failures' = failures + 1 /\ UNCHANGED <<recaps, runs, crashes>>
      BY <1>1, <2>13, WorkFailsMoves DEF tables, history, Keeps
    <3>2. Job(p)' = Job(p) /\ Date(tick[p].now)' = Date(tick[p].now)
      BY <3>1, StaysSame
    <3>3. Job(p) = "market_close_recap" => tick[p].pc = "work"
      BY <2>1, <3>1 DEF Begun, Alerting
    <3>4. Unreported(p)'
      BY <2>1, <3>1, <3>2, <3>3 DEF Unreported, has_succeeded
    <3>5. QED
      BY <1>1, <3>1, <3>4, RestReports
  <2>14. CASE MarkFailed(p)
    <3>0. tick[p].pc = "fail" /\ Row(p).attempt >= 1
      BY <2>1, <2>14 DEF MarkFailed, At, Begun, Attempting
    <3>1. Leaves(p) /\ UNCHANGED <<recaps, crashes, failures>>
      BY <1>1, <2>14, <3>0, MarkFailedMoves DEF bounds, history
    <3>2. Unreported(p)'
      BY <3>1, LeavesUnreported
    <3>3. CASE UNCHANGED runs
      BY <1>1, <3>0, <3>1, <3>2, <3>3, RestReports
    <3>4. ASSUME NEW row \in JobRow, SetRow(p, row) PROVE ReportsInv'
      <4>1. ASSUME NEW d \in Dates, Reported(d) PROVE Reported(d)'
        <5>1. has_succeeded("market_close_recap", d)
          BY <3>0, <4>1 DEF Reported, OneTick
        <5>2. ~(Job(p) = "market_close_recap" /\ d = Date(tick[p].now))
          BY <2>1, <3>0, <5>1 DEF Unreported
        <5>3. QED
          BY <1>1, <3>4, <5>1, <5>2, WrittenReports DEF Reported
      <4>2. QED
        BY <1>1, <3>1, <3>2, <4>1, QuietReports
    <3>5. QED
      BY <1>1, <2>14, <3>0, <3>3, <3>4, MarkFailedMoves
  <2>15. CASE Crash(p)
    <3>1. Leaves(p) /\ crashes' = crashes + 1 /\ UNCHANGED <<recaps, runs, failures>>
      BY <1>1, <2>15, CrashMoves DEF tables, history
    <3>2. QED
      BY <1>1, <3>1, LeavesUnreported, RestReports
  <2>16. QED
    BY <1>4, <2>2, <2>3, <2>4, <2>5, <2>6, <2>7, <2>8, <2>9, <2>10, <2>11, <2>12, <2>13,
       <2>14, <2>15 DEF Step
<1>5. QED
  BY <1>2, <1>3, <1>4 DEF Next

LEMMA ReportsInit == Init => ReportsInv
<1> SUFFICES ASSUME Init PROVE ReportsInv
  OBVIOUS
<1>1. \A p \in Ticks : tick[p].pc = "idle"
  BY IdleType DEF Init
<1>2. \A d \in Dates : recaps[d] = 0
  BY DEF Init
<1>3. crashes = 0 /\ failures = 0
  BY DEF Init
<1>4. \A d \in Dates :
        recaps[d] <= (IF Reported(d) THEN 1 ELSE 0) + crashes + failures
  <2> SUFFICES ASSUME NEW d \in Dates
               PROVE  0 <= (IF Reported(d) THEN 1 ELSE 0) + 0 + 0
    BY <1>2, <1>3
  <2>1. CASE Reported(d)
    BY <2>1
  <2>2. CASE ~Reported(d)
    BY <2>2
  <2>3. QED
    BY <2>1, <2>2
<1>5. QED
  BY <1>1, <1>4 DEF ReportsInv, Unreported

-----------------------------------------------------------------------------
(***************************************************************************)
(* One tick at a time: alerts                                              *)
(***************************************************************************)
\* The deduplication remembers the last delivery of an alert.
Synced(a) ==
  /\ told[a].signature = dedup[a].last_signature
  /\ told[a].signature # "" => told[a].at = dedup[a].last_sent_at

\* A tick has delivered it and is about to record that.
InHand(a) ==
  \E p \in Ticks : tick[p].pc = "record" /\ tick[p].decision = "SEND" /\ tick[p].alert = a

Settled(a) == Synced(a) \/ InHand(a)

\* A delivery that was not recorded is what the next one may repeat.
Loose(a) == IF Settled(a) THEN 0 ELSE 1

\* What a tick knows when it handles an alert.
Informed(p) ==
  /\ tick[p].pc # "idle" => tick[p].now = clock
  /\ tick[p].pc \in Alerting => tick[p].signature # ""
  /\ tick[p].pc \in {"apply", "notify"} =>
       tick[p].decision = evaluate(dedup[tick[p].alert], tick[p].signature, tick[p].now)
  /\ tick[p].pc \in {"notify", "record"} => tick[p].prior = dedup[tick[p].alert]
  /\ tick[p].pc = "notify" => tick[p].decision = "SEND"
  /\ tick[p].pc = "record" /\ tick[p].decision = "SEND" =>
       /\ told[tick[p].alert].signature = tick[p].signature
       /\ told[tick[p].alert].at = tick[p].now

Budget ==
  repeats + Loose("session_scan_brief") + Loose("data_freshness") <= crashes + failures

AlertsInv ==
  /\ \A p \in Ticks : Informed(p)
  /\ \A a \in Alerts : told[a].at <= clock
  /\ RememberedWasDelivered
  /\ Budget

LEMMA TablesTyped ==
  ASSUME TypeOK
  PROVE  /\ \A a \in Alerts : /\ told[a].signature \in Signatures /\ told[a].at \in Nat
                              /\ dedup[a] \in DedupRow /\ dedup[a].last_sent_at \in Nat
                              /\ dedup[a].last_signature \in Signatures
         /\ clock \in Nat /\ repeats \in Nat /\ crashes \in Nat /\ failures \in Nat
<1>1. told \in [Alerts -> [signature : Signatures, at : Nat]] /\ clock \in Nat
  BY TimesAreNumbers DEF TypeOK
<1>2. QED
  BY <1>1 DEF TypeOK, DedupRow

\* What a step may cost: a delivery that repeats needs one that was not recorded, and
\* leaving one unrecorded needs a death or a failure.
LEMMA BudgetStep ==
  ASSUME TypeOK, TypeOK', Budget, NEW b \in Alerts, NEW r \in {0, 1}, NEW s \in {0, 1},
         \A a \in Alerts \ {b} : Settled(a) => Settled(a)',
         repeats' <= repeats + r, r = 1 => ~Settled(b),
         crashes' + failures' >= crashes + failures + s,
         s = 0 => (Settled(b) \/ r = 1 => Settled(b)')
  PROVE  Budget'
<1>1. PICK c \in Alerts : c # b /\ {b, c} = {"session_scan_brief", "data_freshness"}
  BY DEF Alerts
<1>2. PICK x, y, x1, y1 : x = Loose(b) /\ y = Loose(c) /\ x1 = Loose(b)' /\ y1 = Loose(c)'
  OBVIOUS
<1>3. PICK n, n1 : n = repeats /\ n1 = repeats'
  OBVIOUS
<1>4. PICK k, k1 : k = crashes + failures /\ k1 = crashes' + failures'
  OBVIOUS
<1>5. n \in Nat /\ n1 \in Nat /\ k \in Nat /\ k1 \in Nat
  <2>1. repeats \in Nat /\ crashes \in Nat /\ failures \in Nat
    BY DEF TypeOK
  <2>2. repeats' \in Nat /\ crashes' \in Nat /\ failures' \in Nat
    BY DEF TypeOK
  <2>3. n \in Nat /\ n1 \in Nat
    BY <1>3, <2>1, <2>2
  <2>4. k \in Nat
    BY <1>4, <2>1
  <2>5. k1 \in Nat
    <3>1. PICK c1, f1 : c1 = crashes' /\ f1 = failures'
      OBVIOUS
    <3>2. c1 \in Nat /\ f1 \in Nat /\ k1 = c1 + f1
      BY <1>4, <2>2, <3>1
    <3>3. QED
      BY <3>2
  <2>6. QED
    BY <2>3, <2>4, <2>5
<1>6. y1 <= y /\ {x, x1, y, y1} \subseteq {0, 1}
  BY <1>1, <1>2 DEF Loose
<1>7. n + x + y <= k
  <2>1. CASE b = "session_scan_brief" /\ c = "data_freshness"
    BY <1>2, <1>3, <1>4, <2>1 DEF Budget
  <2>2. CASE c = "session_scan_brief" /\ b = "data_freshness"
    <3>1. n + y + x <= k
      BY <1>2, <1>3, <1>4, <2>2 DEF Budget
    <3>2. QED
      BY <1>5, <1>6, <3>1
  <2>3. QED
    BY <1>1, <2>1, <2>2
<1>8. n1 + x1 + y1 <= k1
  <2>1. n1 <= n + r /\ k1 >= k + s
    BY <1>3, <1>4
  <2>2. n1 + x1 <= n + x + s
    <3>1. CASE s = 0 /\ r = 0
      <4>1. x1 <= x
        BY <1>2, <3>1 DEF Loose
      <4>2. QED
        BY <1>5, <1>6, <2>1, <3>1, <4>1
    <3>2. CASE s = 0 /\ r = 1
      <4>1. x = 1 /\ x1 = 0
        BY <1>2, <3>2 DEF Loose
      <4>2. QED
        BY <1>5, <2>1, <3>2, <4>1
    <3>3. CASE s = 1 /\ r = 0
      BY <1>5, <1>6, <2>1, <3>3
    <3>4. CASE s = 1 /\ r = 1
      <4>1. x = 1
        BY <1>2, <3>4 DEF Loose
      <4>2. QED
        BY <1>5, <1>6, <2>1, <3>4, <4>1
    <3>5. QED
      BY <3>1, <3>2, <3>3, <3>4
  <2>3. QED
    BY <1>5, <1>6, <1>7, <2>1, <2>2
<1>9. CASE b = "session_scan_brief" /\ c = "data_freshness"
  BY <1>2, <1>3, <1>4, <1>8, <1>9 DEF Budget
<1>10. CASE c = "session_scan_brief" /\ b = "data_freshness"
  <2>1. n1 + y1 + x1 <= k1
    BY <1>5, <1>6, <1>8
  <2>2. QED
    BY <1>2, <1>3, <1>4, <1>10, <2>1 DEF Budget
<1>11. QED
  BY <1>1, <1>9, <1>10

\* With one tick an alert is in hand only when that tick has it.
LEMMA NotInHand ==
  ASSUME OneTick, NEW p \in Ticks, NEW a,
         ~(tick[p].pc = "record" /\ tick[p].decision = "SEND" /\ tick[p].alert = a)
  PROVE  ~InHand(a)
BY DEF InHand, OneTick

\* Outside the handling of an alert a tick has nothing to know but the time.
LEMMA QuietInformed ==
  ASSUME NEW p \in Ticks, tick'[p].pc \notin Alerting,
         tick'[p].pc # "idle" => tick'[p].now = clock'
  PROVE  Informed(p)'
BY DEF Informed, Alerting

\* A step that delivers and records nothing.
LEMMA RestAlerts ==
  ASSUME OneTick, TypeOK, TypeOK', AlertsInv, NEW p \in Ticks,
         UNCHANGED <<told, dedup, repeats>>, clock <= clock', Informed(p)',
         NEW s \in {0, 1}, crashes' + failures' >= crashes + failures + s,
         tick[p].pc = "record" => s = 1, tick[p].pc = "record" => tick[p].alert \in Alerts
  PROVE  AlertsInv'
<1>1. \A q \in Ticks : Informed(q)'
  BY DEF OneTick
<1>2. \A a \in Alerts : told'[a].at <= clock'
  <2> SUFFICES ASSUME NEW a \in Alerts PROVE told[a].at <= clock'
    OBVIOUS
  <2>1. PICK n, c, d : n = told[a].at /\ c = clock /\ d = clock'
    OBVIOUS
  <2>2. n \in Nat /\ c \in Nat /\ d \in Nat
    BY <2>1, TablesTyped, TimesAreNumbers DEF TypeOK
  <2>3. n <= c /\ c <= d
    BY <2>1 DEF AlertsInv
  <2>4. QED
    BY <2>1, <2>2, <2>3
<1>3. RememberedWasDelivered'
  BY DEF AlertsInv, RememberedWasDelivered
<1>4. \A a \in Alerts : Synced(a) => Synced(a)'
  BY DEF Synced
<1>5. PICK b \in Alerts : tick[p].pc = "record" => b = tick[p].alert
  BY DEF Alerts
<1>6. \A a \in Alerts \ {b} : Settled(a) => Settled(a)'
  BY <1>4, <1>5, NotInHand DEF Settled
<1>7. s = 0 => (Settled(b) => Settled(b)')
  BY <1>4, NotInHand DEF Settled
<1>8. repeats' <= repeats + 0
  BY TablesTyped
<1>9. Budget /\ 0 \in {0, 1} /\ ~(0 = 1)
  BY DEF AlertsInv
<1>10. Budget'
  BY <1>6, <1>7, <1>8, <1>9, BudgetStep
<1>11. QED
  BY <1>1, <1>2, <1>3, <1>10 DEF AlertsInv

\* A decision to send is wrong only about what was delivered and not recorded.
LEMMA SentForAReason ==
  ASSUME TypeOK, NEW p \in Ticks, NEW a \in Alerts, a = tick[p].alert,
         evaluate(dedup[a], tick[p].signature, tick[p].now) = "SEND",
         told[a].signature # "",
         \/ told[a].signature = tick[p].signature
         \/ tick[p].now - told[a].at < MinInterval
  PROVE  ~Synced(a)
<1> SUFFICES ASSUME Synced(a) PROVE FALSE
  OBVIOUS
<1>1. dedup[a].last_signature # "" /\ told[a].signature = dedup[a].last_signature
      /\ told[a].at = dedup[a].last_sent_at
  BY DEF Synced
<1>2. /\ tick[p].signature # dedup[a].last_signature
      /\ ~(tick[p].now - dedup[a].last_sent_at < MinInterval)
  BY <1>1 DEF evaluate
<1>3. QED
  BY <1>1, <1>2

\* A delivery, whether it is recorded or not.
LEMMA DeliverStep ==
  ASSUME OneTick, TypeOK, AlertsInv, NEW p \in Ticks, NEW b \in Alerts, b = tick[p].alert,
         tick[p].pc = "notify", Deliver(p), UNCHANGED <<clock, dedup>>
  PROVE  /\ told'[b].signature = tick[p].signature /\ told'[b].at = tick[p].now
         /\ \A a \in Alerts : told'[a].at <= clock'
         /\ RememberedWasDelivered'
         /\ \A a \in Alerts \ {b} : Synced(a) => Synced(a)'
         /\ repeats' <= repeats + 1
         /\ repeats' # repeats => ~Settled(b)
<1>1. /\ tick[p].now = clock /\ tick[p].signature # ""
      /\ evaluate(dedup[b], tick[p].signature, tick[p].now) = "SEND"
  BY DEF AlertsInv, Informed, Alerting
<1>2. /\ told'[b] = [signature |-> tick[p].signature, at |-> tick[p].now]
      /\ \A a \in Alerts \ {b} : told'[a] = told[a]
      /\ repeats' <= repeats + 1
      /\ \/ repeats' = repeats
         \/ /\ told[b].signature # ""
            /\ \/ told[b].signature = tick[p].signature
               \/ tick[p].now - told[b].at < MinInterval
  BY Delivers
<1>3. told'[b].signature = tick[p].signature /\ told'[b].at = tick[p].now
  <2>1. PICK m : m = [signature |-> tick[p].signature, at |-> tick[p].now]
    OBVIOUS
  <2>2. m.signature = tick[p].signature /\ m.at = tick[p].now
    BY <2>1
  <2>3. told'[b] = m
    BY <1>2, <2>1
  <2>4. QED
    BY <2>2, <2>3
<1>4. \A a \in Alerts : told'[a].at <= clock'
  <2>1. ASSUME NEW a \in Alerts, a # b PROVE told'[a].at <= clock'
    BY <1>2, <2>1 DEF AlertsInv
  <2>2. told'[b].at <= clock'
    <3>1. PICK n \in Nat : n = clock
      BY TablesTyped
    <3>2. n <= n
      OBVIOUS
    <3>3. told'[b].at = n
      BY <1>1, <1>3, <3>1
    <3>4. QED
      BY <3>1, <3>2, <3>3
  <2>3. QED
    BY <2>1, <2>2
<1>5. RememberedWasDelivered'
  <2> SUFFICES ASSUME NEW a \in Alerts, dedup[a].last_signature # ""
               PROVE  told'[a].signature # "" /\ dedup[a].last_sent_at <= told'[a].at
    BY DEF RememberedWasDelivered
  <2>1. told[a].signature # "" /\ dedup[a].last_sent_at <= told[a].at
    BY DEF AlertsInv, RememberedWasDelivered
  <2>2. CASE a # b
    BY <1>2, <2>1, <2>2
  <2>3. CASE a = b
    <3>1. PICK n \in Nat, m \in Nat, c \in Nat :
            n = dedup[a].last_sent_at /\ m = told[a].at /\ c = clock
      BY TablesTyped
    <3>3. n <= m /\ m <= c
      BY <2>1, <3>1 DEF AlertsInv
    <3>4. n <= c
      BY <3>3, AtMostTransitive
    <3>5. told'[a].at = c
      <4>1. told'[b].at = clock
        BY <1>1, <1>3
      <4>2. QED
        BY <2>3, <3>1, <4>1
    <3>6. told'[a].signature # ""
      BY <1>1, <1>3, <2>3
    <3>7. QED
      BY <3>1, <3>4, <3>5, <3>6
  <2>4. QED
    BY <2>2, <2>3
<1>6. \A a \in Alerts \ {b} : Synced(a) => Synced(a)'
  BY <1>2 DEF Synced
<1>7. repeats' # repeats => ~Settled(b)
  <2>1. ~InHand(b)
    BY NotInHand
  <2>2. repeats' # repeats => ~Synced(b)
    BY <1>1, <1>2, SentForAReason
  <2>3. QED
    BY <2>1, <2>2 DEF Settled
<1>8. QED
  BY <1>2, <1>3, <1>4, <1>5, <1>6, <1>7

LEMMA RecordedRemembers ==
  ASSUME NEW t \in TickState
  PROVE  /\ t.decision = "SEND" => /\ Recorded(t).last_signature = t.signature
                                   /\ Recorded(t).last_sent_at = t.now
         /\ t.decision # "SEND" => /\ Recorded(t).last_signature = t.prior.last_signature
                                   /\ Recorded(t).last_sent_at = t.prior.last_sent_at
<1>1. CASE t.decision = "SEND"
  BY <1>1 DEF Recorded
<1>2. CASE t.decision # "SEND"
  <2>1. PICK r \in DedupRow : r = t.prior
    BY DEF TickState
  <2>2. Recorded(t) = [r EXCEPT !.last_status = "FAILED"]
        \/ Recorded(t) = [r EXCEPT !.last_status = "SUPPRESSED"]
    BY <1>2, <2>1 DEF Recorded
  <2>3. Recorded(t).last_signature = r.last_signature
        /\ Recorded(t).last_sent_at = r.last_sent_at
    BY <2>2 DEF DedupRow
  <2>4. QED
    BY <1>2, <2>1, <2>3
<1>3. QED
  BY <1>1, <1>2

LEMMA ClockStands == ASSUME TypeOK, UNCHANGED clock PROVE clock <= clock'
<1>1. PICK c \in Nat : c = clock
  BY TablesTyped
<1>2. c <= c
  OBVIOUS
<1>3. QED
  BY <1>1, <1>2

\* A step outside the handling of an alert: the tick goes on with its job, or leaves it.
LEMMA PlainAlerts ==
  ASSUME OneTick, TypeOK, TypeOK', AlertsInv, NEW p \in Ticks,
         UNCHANGED <<clock, told, dedup, repeats>>,
         tick[p].pc # "idle",
         \/ Leaves(p)
         \/ \E label \in {"start", "write start", "work", "succeed", "audit", "fail"} :
              Stays(p, label),
         NEW s \in {0, 1}, crashes' + failures' >= crashes + failures + s,
         tick[p].pc = "record" => s = 1, tick[p].pc = "record" => tick[p].alert \in Alerts
  PROVE  AlertsInv'
<1>1. tick[p].now = clock
  BY DEF AlertsInv, Informed
<1>2. tick'[p].pc \notin Alerting /\ (tick'[p].pc # "idle" => tick'[p].now = tick[p].now)
  BY DEF Leaves, Stays, Alerting
<1>3. Informed(p)'
  BY <1>1, <1>2, QuietInformed
<1>4. clock <= clock'
  BY ClockStands
<1>5. QED
  BY <1>3, <1>4, RestAlerts

LEMMA SpentNothing ==
  ASSUME TypeOK, UNCHANGED <<crashes, failures>>
  PROVE  crashes' + failures' >= crashes + failures + 0
<1>1. PICK n : n = crashes + failures
  OBVIOUS
<1>2. n \in Int
  BY <1>1 DEF TypeOK
<1>3. QED
  BY <1>1, <1>2

LEMMA SpentOne ==
  ASSUME TypeOK,
         \/ crashes' = crashes + 1 /\ failures' = failures
         \/ crashes' = crashes /\ failures' = failures + 1
  PROVE  /\ crashes' + failures' >= crashes + failures + 1
         /\ crashes' + failures' >= crashes + failures + 0
<1>1. PICK c \in Nat, f \in Nat : c = crashes /\ f = failures
  BY DEF TypeOK
<1>2. CASE crashes' = c + 1 /\ failures' = f
  BY <1>1, <1>2
<1>3. CASE crashes' = c /\ failures' = f + 1
  BY <1>1, <1>3
<1>4. QED
  BY <1>1, <1>2, <1>3

LEMMA AlertsNext == OneTick /\ RowsInv /\ RowsInv' /\ AlertsInv /\ [Next]_vars => AlertsInv'
<1> SUFFICES ASSUME OneTick, RowsInv, RowsInv', AlertsInv, [Next]_vars PROVE AlertsInv'
  OBVIOUS
<1>0. 0 \in {0, 1} /\ 1 \in {0, 1}
  OBVIOUS
<1>1. TypeOK /\ TypeOK'
  BY DEF RowsInv
<1>2. CASE UNCHANGED vars
  <2>1. UNCHANGED <<clock, dedup, tick, failures, crashes, told, repeats>>
    BY <1>2 DEF vars, tables, bounds, history
  <2>2. /\ \A p \in Ticks : Informed(p)'
        /\ \A a \in Alerts : told'[a].at <= clock'
        /\ RememberedWasDelivered'
    BY <2>1 DEF AlertsInv, Informed, RememberedWasDelivered
  <2>3. Budget'
    <3>1. \A a \in Alerts : Loose(a)' = Loose(a)
      BY <2>1 DEF Loose, Settled, Synced, InHand
    <3>2. QED
      BY <2>1, <3>1 DEF AlertsInv, Budget, Alerts
  <2>4. QED
    BY <2>2, <2>3 DEF AlertsInv
<1>3. ASSUME NEW p \in Ticks, NEW now \in 0 .. MaxTime,
             BeginTick(p, now) \/ BeginTickUncovered(p, now)
      PROVE  AlertsInv'
  <2>1. /\ tick[p].pc = "idle" /\ tick'[p].pc \in {"gate", "idle"}
        /\ tick'[p].pc = "gate" => tick'[p].now = now
        /\ clock' = now /\ clock <= now
        /\ UNCHANGED <<told, dedup, repeats, crashes, failures>>
    BY <1>1, <1>3, BeginMoves DEF tables, bounds, history
  <2>2. Informed(p)'
    BY <2>1, QuietInformed DEF Alerting
  <2>3. clock <= clock'
    BY <2>1
  <2>4. QED
    BY <1>0, <1>1, <2>1, <2>2, <2>3, SpentNothing, RestAlerts
<1>4. ASSUME NEW p \in Ticks, Step(p) \/ ReportFails(p) \/ NotifyFails(p) \/ WorkFails(p)
                              \/ Crash(p)
      PROVE  AlertsInv'
  <2>1. /\ tick[p].pc \in Alerting => tick[p].alert \in Alerts
        /\ Informed(p) /\ Begun(p)
    BY DEF RowsInv, Begun, AlertsInv
  <2>2. CASE Gate(p)
    <3>1. /\ tick[p].pc = "gate" /\ (Leaves(p) \/ Stays(p, "start"))
          /\ UNCHANGED <<clock, told, dedup, repeats, crashes, failures>>
      BY <1>1, <2>2, GateMoves DEF tables, bounds, history, Keeps
    <3>2. QED
      BY <1>0, <1>1, <3>1, SpentNothing, PlainAlerts
  <2>3. CASE ReadRow(p)
    <3>1. /\ tick[p].pc = "start" /\ Stays(p, "write start")
          /\ UNCHANGED <<clock, told, dedup, repeats, crashes, failures>>
      BY <1>1, <2>3, ReadRowMoves DEF tables, bounds, history
    <3>2. QED
      BY <1>0, <1>1, <3>1, SpentNothing, PlainAlerts
  <2>4. CASE WriteStart(p)
    <3>1. /\ tick[p].pc = "write start" /\ (Leaves(p) \/ Stays(p, "work"))
          /\ UNCHANGED <<clock, told, dedup, repeats, crashes, failures>>
      BY <1>1, <2>4, WriteStartMoves DEF bounds, history, Keeps
    <3>2. QED
      BY <1>0, <1>1, <3>1, SpentNothing, PlainAlerts
  <2>5. CASE WorkWithoutEffect(p)
    <3>1. /\ tick[p].pc = "work" /\ Stays(p, "succeed")
          /\ UNCHANGED <<clock, told, dedup, repeats, crashes, failures>>
      BY <1>1, <2>5, PlainWorkMoves DEF tables, bounds, history, Keeps
    <3>2. QED
      BY <1>0, <1>1, <3>1, SpentNothing, PlainAlerts
  <2>6. CASE MarketCloseRecap(p) \/ ReportFails(p)
    <3>1. /\ SendReport(p) /\ UNCHANGED <<clock, dedup, crashes>>
          /\ \/ Stays(p, "succeed") /\ failures' = failures
             \/ Stays(p, "fail") /\ failures' = failures + 1
      BY <1>1, <2>6, RecapMoves DEF tables, Keeps
    <3>2. tick[p].pc = "work" /\ UNCHANGED <<told, repeats>>
      BY <1>1, <3>1, ReportSent
    <3>3. crashes' + failures' >= crashes + failures + 0
      BY <1>1, <3>1, SpentNothing, SpentOne
    <3>4. QED
      BY <1>0, <1>1, <3>1, <3>2, <3>3, PlainAlerts
  <2>7. CASE SessionScan(p) \/ DataHealthCheck(p)
    <3>1. /\ tick[p].pc = "work" /\ tick'[p].pc = "apply" /\ tick'[p].now = tick[p].now
          /\ tick'[p].signature # ""
          /\ tick'[p].decision =
               evaluate(dedup[tick'[p].alert], tick'[p].signature, tick[p].now)
          /\ UNCHANGED <<clock, told, dedup, repeats, crashes, failures>>
      BY <1>1, <2>7, AlertMoves DEF tables, bounds, history, Stays
    <3>2. Informed(p)'
      BY <2>1, <3>1 DEF Informed
    <3>3. clock <= clock'
      BY <1>1, <3>1, ClockStands
    <3>4. QED
      BY <1>0, <1>1, <3>1, <3>2, <3>3, SpentNothing, RestAlerts
  <2>8. CASE ReadPrevious(p)
    <3>0. tick[p].pc = "apply" /\ tick[p].alert \in Alerts
      BY <2>1, <2>8 DEF ReadPrevious, At, Alerting
    <3>1. /\ \/ tick'[p].pc = "notify" /\ tick[p].decision = "SEND"
             \/ tick'[p].pc = "record" /\ tick[p].decision # "SEND"
          /\ tick'[p].now = tick[p].now
          /\ tick'[p].alert = tick[p].alert /\ tick'[p].signature = tick[p].signature
          /\ tick'[p].decision = tick[p].decision
          /\ tick'[p].prior = dedup[tick[p].alert]
          /\ UNCHANGED <<clock, told, dedup, repeats, crashes, failures>>
      BY <1>1, <2>8, <3>0, ReadPreviousMoves DEF tables, bounds, history, Stays
    <3>2. Informed(p)'
      BY <2>1, <3>0, <3>1 DEF Informed, Alerting
    <3>3. clock <= clock'
      BY <1>1, <3>1, ClockStands
    <3>4. QED
      BY <1>0, <1>1, <3>0, <3>1, <3>2, <3>3, SpentNothing, RestAlerts
  <2>9. CASE Notify(p)
    <3>0. tick[p].pc = "notify" /\ tick[p].decision = "SEND"
      BY <2>1, <2>9 DEF Notify, At, Informed
    <3>1. PICK b \in Alerts : b = tick[p].alert
      BY <2>1, <3>0 DEF Alerting
    <3>2. /\ Keeps(p, "record") /\ Deliver(p)
          /\ UNCHANGED <<clock, dedup, crashes, failures>>
      BY <1>1, <2>9, NotifyMoves DEF tables, bounds
    <3>3. /\ told'[b].signature = tick[p].signature /\ told'[b].at = tick[p].now
          /\ \A a \in Alerts : told'[a].at <= clock'
          /\ RememberedWasDelivered'
          /\ \A a \in Alerts \ {b} : Synced(a) => Synced(a)'
          /\ repeats' <= repeats + 1
          /\ repeats' # repeats => ~Settled(b)
      BY <1>1, <3>0, <3>1, <3>2, DeliverStep
    <3>4. /\ tick'[p].pc = "record" /\ tick'[p].now = tick[p].now
          /\ tick'[p].alert = b /\ tick'[p].signature = tick[p].signature
          /\ tick'[p].decision = "SEND" /\ tick'[p].prior = tick[p].prior
      BY <3>0, <3>1, <3>2 DEF Keeps, Stays
    <3>5. Informed(p)'
      BY <2>1, <3>0, <3>1, <3>2, <3>3, <3>4 DEF Informed, Alerting
    <3>6. Settled(b)'
      BY <3>4 DEF Settled, InHand
    <3>7. \A a \in Alerts \ {b} : Settled(a) => Settled(a)'
      BY <3>0, <3>3, NotInHand DEF Settled
    <3>8. Budget'
      <4>1. PICK r \in {0, 1} : r = IF repeats' = repeats THEN 0 ELSE 1
        OBVIOUS
      <4>2. repeats' <= repeats + r
        BY <1>1, <3>3, <4>1, TablesTyped
      <4>3. r = 1 => ~Settled(b)
        BY <3>3, <4>1
      <4>4. Budget
        BY DEF AlertsInv
      <4>5. crashes' + failures' >= crashes + failures + 0
        BY <1>1, <3>2, SpentNothing
      <4>6. QED
        BY <1>0, <1>1, <3>6, <3>7, <4>2, <4>3, <4>4, <4>5, BudgetStep
    <3>9. QED
      BY <3>3, <3>5, <3>8 DEF AlertsInv, OneTick
  <2>10. CASE NotifyFails(p)
    <3>0. tick[p].pc = "notify"
      BY <2>10 DEF NotifyFails, At
    <3>1. PICK b \in Alerts : b = tick[p].alert
      BY <2>1, <3>0 DEF Alerting
    <3>2. /\ Deliver(p) \/ UNCHANGED <<told, repeats>>
          /\ tick'[p].pc = "record" /\ tick'[p].now = tick[p].now
          /\ tick'[p].alert = b /\ tick'[p].decision = "FAILED"
          /\ tick'[p].prior = tick[p].prior /\ tick'[p].signature = tick[p].signature
          /\ failures' = failures + 1 /\ UNCHANGED <<clock, dedup, crashes>>
      BY <1>1, <2>10, <3>1, NotifyFailsMoves DEF tables, history, Stays
    <3>3. Informed(p)'
      BY <2>1, <3>0, <3>1, <3>2 DEF Informed, Alerting
    <3>4. crashes' + failures' >= crashes + failures + 1
      BY <1>1, <3>2, SpentOne
    <3>5. CASE UNCHANGED <<told, repeats>>
      <4>1. clock <= clock'
        BY <1>1, <3>2, ClockStands
      <4>2. QED
        BY <1>0, <1>1, <3>0, <3>2, <3>3, <3>4, <3>5, <4>1, RestAlerts
    <3>6. CASE Deliver(p)
      <4>1. /\ \A a \in Alerts : told'[a].at <= clock'
            /\ RememberedWasDelivered'
            /\ \A a \in Alerts \ {b} : Synced(a) => Synced(a)'
            /\ repeats' <= repeats + 1
            /\ repeats' # repeats => ~Settled(b)
        BY <1>1, <3>0, <3>1, <3>2, <3>6, DeliverStep
      <4>2. \A a \in Alerts \ {b} : Settled(a) => Settled(a)'
        BY <3>0, <4>1, NotInHand DEF Settled
      <4>3. Budget'
        <5>1. PICK r \in {0, 1} : r = IF repeats' = repeats THEN 0 ELSE 1
          OBVIOUS
        <5>2. repeats' <= repeats + r
          BY <1>1, <4>1, <5>1, TablesTyped
        <5>3. r = 1 => ~Settled(b)
          BY <4>1, <5>1
        <5>4. Budget /\ ~(1 = 0)
          BY DEF AlertsInv
        <5>5. QED
          BY <1>0, <1>1, <3>4, <4>2, <5>2, <5>3, <5>4, BudgetStep
      <4>4. QED
        BY <3>3, <4>1, <4>3 DEF AlertsInv, OneTick
    <3>7. QED
      BY <3>2, <3>5, <3>6
  <2>11. CASE Record(p)
    <3>0. tick[p].pc = "record"
      BY <2>11 DEF Record, At
    <3>1. PICK b \in Alerts : b = tick[p].alert
      BY <2>1, <3>0 DEF Alerting
    <3>2. /\ tick'[p].pc = "succeed" /\ tick'[p].now = tick[p].now
          /\ dedup'[b] = Recorded(tick[p])
          /\ \A a \in Alerts \ {b} : dedup'[a] = dedup[a]
          /\ UNCHANGED <<clock, told, repeats, crashes, failures>>
      BY <1>1, <2>11, <3>1, RecordMoves DEF bounds, history, Keeps, Stays
    <3>3. Informed(p)'
      <4>1. tick[p].now = clock
        BY <2>1, <3>0 DEF Informed
      <4>2. QED
        BY <3>2, <4>1, QuietInformed DEF Alerting
    <3>4. tick[p] \in TickState
      BY <1>1, TickFacts
    <3>5. /\ Settled(b) => Synced(b)'
          /\ dedup'[b].last_signature # "" =>
               told[b].signature # "" /\ dedup'[b].last_sent_at <= told[b].at
      <4>1. CASE tick[p].decision = "SEND"
        <5>1. /\ dedup'[b].last_signature = tick[p].signature
              /\ dedup'[b].last_sent_at = tick[p].now
          BY <3>2, <3>4, <4>1, RecordedRemembers
        <5>2. told[b].signature = tick[p].signature /\ told[b].at = tick[p].now
          BY <2>1, <3>0, <3>1, <4>1 DEF Informed
        <5>3. Synced(b)'
          BY <3>2, <5>1, <5>2 DEF Synced
        <5>4. dedup'[b].last_sent_at <= told[b].at
          <6>1. PICK n \in Nat : n = told[b].at
            BY <1>1, TablesTyped
          <6>2. n <= n /\ dedup'[b].last_sent_at = n
            BY <5>1, <5>2, <6>1
          <6>3. QED
            BY <6>1, <6>2
        <5>5. QED
          BY <5>1, <5>2, <5>3, <5>4
      <4>2. CASE tick[p].decision # "SEND"
        <5>1. /\ dedup'[b].last_signature = tick[p].prior.last_signature
              /\ dedup'[b].last_sent_at = tick[p].prior.last_sent_at
          BY <3>2, <3>4, <4>2, RecordedRemembers
        <5>2. tick[p].prior = dedup[b]
          BY <2>1, <3>0, <3>1 DEF Informed
        <5>3. /\ dedup'[b].last_signature = dedup[b].last_signature
              /\ dedup'[b].last_sent_at = dedup[b].last_sent_at
          BY <5>1, <5>2
        <5>4. Synced(b) => Synced(b)'
          BY <3>2, <5>3 DEF Synced
        <5>5. ~InHand(b)
          BY <4>2, NotInHand
        <5>6. QED
          BY <5>3, <5>4, <5>5 DEF Settled, AlertsInv, RememberedWasDelivered
      <4>3. QED
        BY <4>1, <4>2
    <3>6. RememberedWasDelivered'
      BY <3>2, <3>5 DEF AlertsInv, RememberedWasDelivered
    <3>7. Budget'
      <4>1. \A a \in Alerts \ {b} : Settled(a) => Settled(a)'
        BY <3>1, <3>2, NotInHand DEF Settled, Synced
      <4>2. Settled(b) => Settled(b)'
        BY <3>5 DEF Settled
      <4>3. repeats' <= repeats + 0
        BY <1>1, <3>2, TablesTyped
      <4>4. Budget /\ ~(0 = 1)
        BY DEF AlertsInv
      <4>5. crashes' + failures' >= crashes + failures + 0
        BY <1>1, <3>2, SpentNothing
      <4>6. QED
        BY <1>0, <1>1, <4>1, <4>2, <4>3, <4>4, <4>5, BudgetStep
    <3>8. QED
      BY <3>2, <3>3, <3>6, <3>7 DEF AlertsInv, OneTick
  <2>12. CASE MarkSuccess(p)
    <3>1. /\ tick[p].pc = "succeed" /\ Stays(p, "audit")
          /\ UNCHANGED <<clock, told, dedup, repeats, crashes, failures>>
      BY <1>1, <2>12, MarkSuccessMoves DEF bounds, history, Keeps
    <3>2. QED
      BY <1>0, <1>1, <3>1, SpentNothing, PlainAlerts
  <2>13. CASE AuditSuccess(p)
    <3>1. /\ tick[p].pc = "audit" /\ Leaves(p)
          /\ UNCHANGED <<clock, told, dedup, repeats, crashes, failures>>
      BY <1>1, <2>13, AuditSuccessMoves DEF bounds, history
    <3>2. QED
      BY <1>0, <1>1, <3>1, SpentNothing, PlainAlerts
  <2>14. CASE WorkFails(p)
    <3>1. /\ tick[p].pc \in {"work", "apply", "record"} /\ Stays(p, "fail")
          /\ failures' = failures + 1
          /\ UNCHANGED <<clock, told, dedup, repeats, crashes>>
      BY <1>1, <2>14, WorkFailsMoves DEF tables, history, Keeps
    <3>2. crashes' + failures' >= crashes + failures + 1
      BY <1>1, <3>1, SpentOne
    <3>3. tick[p].pc # "idle" /\ (tick[p].pc = "record" => tick[p].alert \in Alerts)
      BY <2>1, <3>1 DEF Alerting
    <3>4. QED
      BY <1>0, <1>1, <3>1, <3>2, <3>3, PlainAlerts
  <2>15. CASE MarkFailed(p)
    <3>0. tick[p].pc = "fail" /\ Row(p).attempt >= 1
      BY <2>1, <2>15 DEF MarkFailed, At, Begun, Attempting
    <3>1. Leaves(p) /\ UNCHANGED <<clock, told, dedup, repeats, crashes, failures>>
      BY <1>1, <2>15, <3>0, MarkFailedMoves DEF bounds, history
    <3>2. QED
      BY <1>0, <1>1, <3>0, <3>1, SpentNothing, PlainAlerts
  <2>16. CASE Crash(p)
    <3>1. /\ tick[p].pc # "idle" /\ Leaves(p) /\ crashes' = crashes + 1
          /\ UNCHANGED <<clock, told, dedup, repeats, failures>>
      BY <1>1, <2>16, CrashMoves DEF tables, history, Crash, At
    <3>2. crashes' + failures' >= crashes + failures + 1
      BY <1>1, <3>1, SpentOne
    <3>3. tick[p].pc = "record" => tick[p].alert \in Alerts
      BY <2>1 DEF Alerting
    <3>4. QED
      BY <1>0, <1>1, <3>1, <3>2, <3>3, PlainAlerts
  <2>17. QED
    BY <1>4, <2>2, <2>3, <2>4, <2>5, <2>6, <2>7, <2>8, <2>9, <2>10, <2>11, <2>12, <2>13,
       <2>14, <2>15, <2>16 DEF Step
<1>5. QED
  BY <1>2, <1>3, <1>4 DEF Next

LEMMA AlertsInit == Init => AlertsInv
<1> SUFFICES ASSUME Init PROVE AlertsInv
  OBVIOUS
<1>1. clock = 0 /\ repeats = 0 /\ crashes = 0 /\ failures = 0
  BY DEF Init
<1>2. \A a \in Alerts : told[a] = [signature |-> "", at |-> 0] /\ dedup[a] = NoState
  BY DEF Init
<1>3. \A a \in Alerts : /\ told[a].signature = "" /\ told[a].at = 0
                        /\ dedup[a].last_signature = ""
  <2>1. PICK m, r : m = [signature |-> "", at |-> 0] /\ r = NoState
    OBVIOUS
  <2>2. m.signature = "" /\ m.at = 0 /\ r.last_signature = ""
    BY <2>1 DEF NoState
  <2>3. QED
    BY <1>2, <2>1, <2>2
<1>4. \A p \in Ticks : Informed(p)
  BY IdleType DEF Init, Informed, Alerting
<1>5. \A a \in Alerts : told[a].at <= clock
  <2>1. 0 <= 0
    OBVIOUS
  <2>2. QED
    BY <1>1, <1>3, <2>1
<1>6. RememberedWasDelivered
  BY <1>3 DEF RememberedWasDelivered
<1>7. Budget
  <2>1. \A a \in Alerts : Loose(a) = 0
    BY <1>3 DEF Loose, Settled, Synced
  <2>2. Loose("session_scan_brief") = 0 /\ Loose("data_freshness") = 0
    BY <2>1 DEF Alerts
  <2>3. QED
    BY <1>1, <2>2 DEF Budget
<1>8. QED
  BY <1>4, <1>5, <1>6, <1>7 DEF AlertsInv

\* With one tick at a time, whatever fails in it and wherever it dies: the report of a
\* day and an alert are delivered again only as often as a tick died or a collaborator
\* raised, and what the deduplication remembers was delivered
\* (IDXDailyScheduler._attempt, _apply_dedup_decision).
THEOREM ReportsAndAlertsDelivered == ASSUME OneTick PROVE Spec => []DeliveredSoundly
<1>1. Init => RowsInv /\ ReportsInv /\ AlertsInv
  BY RowsInit, ReportsInit, AlertsInit
<1>2. /\ RowsInv /\ ReportsInv /\ AlertsInv /\ [Next]_vars
      => (RowsInv /\ ReportsInv /\ AlertsInv)'
  BY RowsNext, ReportsNext, AlertsNext
<1>3. RowsInv /\ ReportsInv /\ AlertsInv => DeliveredSoundly
  <2> SUFFICES ASSUME RowsInv, ReportsInv, AlertsInv PROVE DeliveredSoundly
    OBVIOUS
  <2>1. TypeOK
    BY DEF RowsInv
  <2>2. PICK c \in Nat, f \in Nat, n \in Nat : c = crashes /\ f = failures /\ n = repeats
    BY <2>1, TablesTyped
  <2>3. RecapRepeatsAreCrashes
    <3> SUFFICES ASSUME NEW d \in Dates PROVE recaps[d] <= 1 + crashes + failures
      BY DEF RecapRepeatsAreCrashes
    <3>1. PICK m \in Nat, x \in {0, 1} :
            m = recaps[d] /\ x = IF Reported(d) THEN 1 ELSE 0
      BY <2>1 DEF TypeOK
    <3>2. m <= x + c + f
      BY <2>2, <3>1 DEF ReportsInv
    <3>3. m <= 1 + c + f
      BY <3>2
    <3>4. QED
      BY <2>2, <3>1, <3>3
  <2>4. AlertsNotRepeated
    <3>1. PICK x \in {0, 1}, y \in {0, 1} :
            x = Loose("session_scan_brief") /\ y = Loose("data_freshness")
      BY DEF Loose
    <3>2. n + x + y <= c + f
      BY <2>2, <3>1 DEF AlertsInv, Budget
    <3>3. n <= c + f
      BY <3>2
    <3>4. QED
      BY <2>2, <3>3 DEF AlertsNotRepeated
  <2>5. QED
    BY <2>3, <2>4 DEF DeliveredSoundly, AlertsInv
<1>4. QED
  BY <1>1, <1>2, <1>3, PTL DEF Spec

-----------------------------------------------------------------------------
(***************************************************************************)
(* The sum of the backoffs                                                 *)
(***************************************************************************)
LEMMA NatLeast ==
  ASSUME NEW N \in SUBSET Nat, N # {}
  PROVE  \E n \in N : \A m \in N : n <= m
<1> DEFINE R == {ss \in Nat \X Nat : ss[1] < ss[2]}
<1>1. IsWellFoundedOn(OpToRel(<, Nat), Nat)
  BY NatLessThanWellFounded, Zenon
<1>2. IsWellFoundedOn(R, Nat)
  BY <1>1, Zenon DEF OpToRel
<1>3. \A x, y \in Nat : x < y => <<x, y>> \in R
  OBVIOUS
<1> HIDE DEF R
<1>4. PICK n \in N : \A m \in N : ~(<<m, n>> \in R)
  BY <1>2, WFMin
<1>5. ASSUME NEW m \in N PROVE n <= m
  <2>1. n \in Nat /\ m \in Nat
    OBVIOUS
  <2>2. ~(m < n)
    BY <1>3, <1>4, <2>1
  <2>3. QED
    BY <2>1, <2>2
<1>6. QED
  BY <1>5

WaitsBody(g, n) == IF n = 0 THEN 0 ELSE g[n - 1] + Backoff(n)

WaitsUpTo(n, g) == \A k \in 0 .. n : g[k] = WaitsBody(g, k)

\* What has been solved for n backoffs can be solved for one more.
LEMMA WaitsOneUp ==
  ASSUME NEW n \in Nat, NEW g, WaitsUpTo(n, g)
  PROVE  \E h : WaitsUpTo(n + 1, h)
<1> DEFINE h == [k \in 0 .. n + 1 |-> IF k <= n THEN g[k] ELSE WaitsBody(g, k)]
<1>1. ASSUME NEW k \in 0 .. n + 1 PROVE h[k] = WaitsBody(h, k)
  <2>1. CASE k = 0
    BY <2>1 DEF WaitsBody, WaitsUpTo
  <2>2. CASE k # 0
    <3>1. k - 1 \in 0 .. n + 1 /\ k - 1 <= n
      BY <2>2
    <3>2. h[k - 1] = g[k - 1]
      BY <3>1
    <3>3. h[k] = WaitsBody(g, k)
      BY DEF WaitsUpTo
    <3>4. QED
      BY <2>2, <3>2, <3>3 DEF WaitsBody
  <2>3. QED
    BY <2>1, <2>2
<1>2. WaitsUpTo(n + 1, h)
  BY <1>1 DEF WaitsUpTo
<1>3. QED
  BY <1>2

LEMMA WaitsSolvable == \A n \in Nat : \E g : WaitsUpTo(n, g)
<1> DEFINE Unsolved == {n \in Nat : ~\E g : WaitsUpTo(n, g)}
<1> SUFFICES ASSUME Unsolved # {} PROVE FALSE
  OBVIOUS
<1>1. PICK n \in Unsolved : \A m \in Unsolved : n <= m
  <2>1. Unsolved \in SUBSET Nat /\ Unsolved # {}
    OBVIOUS
  <2> HIDE DEF Unsolved
  <2>2. QED
    BY <2>1, NatLeast
<1>2. CASE n = 0
  <2>1. WaitsUpTo(0, [k \in {0} |-> 0])
    BY DEF WaitsUpTo, WaitsBody
  <2>2. QED
    BY <1>2, <2>1
<1>3. CASE n # 0
  <2>1. n - 1 \in Nat /\ (n - 1) + 1 = n
    BY <1>3
  <2>2. PICK g : WaitsUpTo(n - 1, g)
    BY <1>1, <2>1
  <2>3. \E h : WaitsUpTo((n - 1) + 1, h)
    BY <2>1, <2>2, WaitsOneUp
  <2>4. QED
    BY <2>1, <2>3
<1>4. QED
  BY <1>2, <1>3

LEMMA WaitsUnfold == \A k \in 0 .. AttemptCap : Waits[k] = WaitsBody(Waits, k)
<1>1. PICK g : WaitsUpTo(AttemptCap, g)
  BY WaitsSolvable, Constants
<1> DEFINE h == [k \in 0 .. AttemptCap |-> g[k]]
<1>2. ASSUME NEW k \in 0 .. AttemptCap PROVE h[k] = WaitsBody(h, k)
  <2>1. CASE k = 0
    BY <1>1, <2>1 DEF WaitsUpTo, WaitsBody
  <2>2. CASE k # 0
    <3>1. k - 1 \in 0 .. AttemptCap
      BY <2>2, Constants
    <3>2. h[k - 1] = g[k - 1]
      BY <3>1
    <3>3. QED
      BY <1>1, <2>2, <3>2 DEF WaitsUpTo, WaitsBody
  <2>3. QED
    BY <2>1, <2>2
<1>3. h = [k \in 0 .. AttemptCap |-> WaitsBody(h, k)]
  <2>1. [k \in 0 .. AttemptCap |-> h[k]] = [k \in 0 .. AttemptCap |-> WaitsBody(h, k)]
    BY <1>2
  <2>2. QED
    BY <2>1
<1>4. \E f : f = [k \in 0 .. AttemptCap |-> WaitsBody(f, k)]
  BY <1>3
<1>5. Waits = CHOOSE f : f = [k \in 0 .. AttemptCap |-> WaitsBody(f, k)]
  BY DEF Waits, WaitsBody
<1>6. PICK w : w = Waits
  OBVIOUS
<1>7. w = [k \in 0 .. AttemptCap |-> WaitsBody(w, k)]
  BY <1>4, <1>5, <1>6
<1>8. ASSUME NEW k \in 0 .. AttemptCap PROVE w[k] = WaitsBody(w, k)
  <2> DEFINE v == [i \in 0 .. AttemptCap |-> WaitsBody(w, i)]
  <2>1. v[k] = WaitsBody(w, k)
    OBVIOUS
  <2>2. QED
    BY <1>7, <2>1
<1>9. QED
  BY <1>6, <1>8

LEMMA WaitsType == \A k \in 0 .. AttemptCap : Waits[k] \in Nat
<1> DEFINE Odd == {k \in 0 .. AttemptCap : Waits[k] \notin Nat}
<1> SUFFICES ASSUME Odd # {} PROVE FALSE
  OBVIOUS
<1>1. PICK n \in Odd : \A m \in Odd : n <= m
  <2>1. Odd \in SUBSET Nat /\ Odd # {}
    BY Constants
  <2> HIDE DEF Odd
  <2>2. QED
    BY <2>1, NatLeast
<1>2. CASE n = 0
  BY <1>1, <1>2, WaitsUnfold DEF WaitsBody
<1>3. CASE n # 0
  <2>1. n - 1 \in 0 .. AttemptCap /\ n \in 1 .. AttemptCap /\ ~(n <= n - 1)
    BY <1>3, Constants
  <2>2. Waits[n - 1] \in Nat
    BY <1>1, <2>1
  <2>3. Waits[n] = Waits[n - 1] + Backoff(n)
    BY <1>3, <2>1, WaitsUnfold DEF WaitsBody
  <2>4. QED
    BY <1>1, <2>1, <2>2, <2>3, BackoffType
<1>4. QED
  BY <1>2, <1>3

LEMMA WaitsGrow ==
  ASSUME NEW n \in 1 .. AttemptCap
  PROVE  Waits[n] = Waits[n - 1] + Backoff(n)
<1>1. n \in 0 .. AttemptCap /\ n # 0
  BY Constants
<1>2. QED
  BY <1>1, WaitsUnfold DEF WaitsBody

\* The time that the n-th backoff ends at the earliest.
Floor(d, n) == d * DayLength + Session2Close + Waits[n]

LEMMA FloorType ==
  ASSUME NEW d \in Dates, NEW n \in 0 .. AttemptCap
  PROVE  Floor(d, n) \in Nat
<1>1. d \in Nat /\ DayLength \in Nat /\ Session2Close \in Nat
  BY SchedulerAssumption DEF Dates
<1>2. d * DayLength \in Nat
  BY <1>1
<1>3. QED
  BY <1>1, <1>2, WaitsType DEF Floor

LEMMA FloorGrows ==
  ASSUME NEW d \in Dates, NEW n \in 1 .. AttemptCap
  PROVE  /\ Floor(d, n - 1) \in Nat /\ Backoff(n) \in Nat
         /\ Floor(d, n) = Floor(d, n - 1) + Backoff(n)
<1>1. n - 1 \in 0 .. AttemptCap
  BY Constants
<1>2. PICK e : e = d * DayLength
  OBVIOUS
<1>3. d \in Nat /\ DayLength \in Nat /\ Session2Close \in Nat
  BY SchedulerAssumption DEF Dates
<1>4. e \in Nat
  BY <1>2, <1>3
<1>5. PICK w \in Nat : w = Waits[n - 1]
  BY <1>1, WaitsType
<1>6. Waits[n] = w + Backoff(n) /\ Backoff(n) \in Nat
  BY <1>5, WaitsGrow, BackoffType
<1>7. Floor(d, n - 1) = e + Session2Close + w /\ Floor(d, n) = e + Session2Close + Waits[n]
  BY <1>2, <1>5 DEF Floor
<1>8. QED
  BY <1>1, <1>3, <1>4, <1>6, <1>7, FloorType

\* A job that is done after the close begins after it.
LEMMA ClosedFloor ==
  ASSUME NEW t \in 0 .. MaxTime, Closed(t)
  PROVE  t >= Floor(Date(t), 0)
<1>1. t \in Int /\ DayLength \in Int /\ DayLength > 0 /\ Session2Close \in Nat
  BY SchedulerAssumption
<1>2. t = DayLength * (t \div DayLength) + (t % DayLength)
  BY <1>1, SMTT(20)
<1>3. PICK q \in Int, r \in Int : q = t \div DayLength /\ r = t % DayLength
  BY <1>1
<1>4. Waits[0] = 0
  <2>1. 0 \in 0 .. AttemptCap
    BY Constants
  <2>2. QED
    BY <2>1, WaitsUnfold DEF WaitsBody
<1>5. r >= Session2Close
  BY <1>3 DEF Closed, TimeOfDay
<1>6. PICK m \in Int : m = q * DayLength
  BY <1>1, <1>3
<1>7. t = m + r
  <2>1. DayLength * q = q * DayLength
    BY <1>1, <1>3
  <2>2. QED
    BY <1>2, <1>3, <1>6, <2>1
<1>8. Floor(Date(t), 0) = m + Session2Close + 0
  BY <1>3, <1>4, <1>6 DEF Floor, Date
<1>9. QED
  BY <1>1, <1>5, <1>7, <1>8

-----------------------------------------------------------------------------
(***************************************************************************)
(* One tick at a time: retries                                             *)
(***************************************************************************)
Recap(d) == runs["market_close_recap"][d]

AtRecap(p, d) == Job(p) = "market_close_recap" /\ Date(tick[p].now) = d

Attempts(p) == tick[p].pc \in Attempting \ {"audit"}

\* The backoff of the attempt cannot be computed.
Spent(row) == row.attempt - 2 >= MaxExponent

\* What the row of a date says of the time: its attempt was not early, a failed one has
\* waiting to do, and one that runs is in the hands of a tick, unless a backoff raised.
RecapSpaced(d) ==
  /\ Recap(d).attempt > 0 /\ Recap(d).attempt - 2 <= MaxExponent =>
       clock >= Floor(d, Recap(d).attempt - 1)
  /\ Recap(d).status = "" => Recap(d).attempt = 0
  /\ Recap(d).status = "FAILED" =>
       Recap(d).attempt > 0 /\ Recap(d).next_retry_at >= Floor(d, Recap(d).attempt)
  /\ Recap(d).status = "RUNNING" =>
       /\ Recap(d).attempt > 0
       /\ Spent(Recap(d)) \/ \E p \in Ticks : AtRecap(p, d) /\ Attempts(p)

\* A tick that is past the gate has waited, and nobody counts attempts but itself.
Patient(p) ==
  /\ tick[p].pc # "idle" => tick[p].now = clock
  /\ Job(p) = "market_close_recap" /\ tick[p].pc \in {"start", "write start"}
       /\ ~Spent(Row(p)) => clock >= Floor(Date(tick[p].now), Row(p).attempt)
  /\ Job(p) = "market_close_recap" /\ tick[p].pc = "write start" =>
       tick[p].attempt = Row(p).attempt

SpacedInv ==
  crashes = 0 =>
    /\ \A d \in Dates : RecapSpaced(d)
    /\ \A p \in Ticks : Patient(p)

LEMMA RecapTypes ==
  ASSUME TypeOK, NEW d \in Dates
  PROVE  /\ Recap(d) \in JobRow /\ Recap(d).attempt \in 0 .. AttemptCap
         /\ Recap(d).attempt \in Int /\ Recap(d).next_retry_at \in Nat
         /\ Recap(d).status \in {"", "RUNNING", "SUCCESS", "FAILED"}
         /\ clock \in Int /\ MaxExponent \in Int
<1>1. Recap(d) \in JobRow
  BY JobNames DEF TypeOK, Recap
<1>2. clock \in Int /\ MaxExponent \in Int
  BY TimesAreNumbers, SchedulerAssumption DEF TypeOK
<1>3. PICK r \in JobRow : r = Recap(d)
  BY <1>1
<1>4. /\ r.attempt \in 0 .. AttemptCap /\ r.next_retry_at \in Nat
      /\ r.status \in {"", "RUNNING", "SUCCESS", "FAILED"}
  BY <1>3 DEF JobRow
<1>5. \A k \in 0 .. AttemptCap : k \in Int
  BY Constants
<1>6. QED
  BY <1>1, <1>2, <1>3, <1>4, <1>5

\* The row of the tick at the recap is that of its date.
LEMMA RowOfRecap ==
  ASSUME NEW p \in Ticks, Job(p) = "market_close_recap"
  PROVE  Row(p) = Recap(Date(tick[p].now))
BY DEF Row, Recap

\* A step that writes no row.
LEMMA QuietSpaced ==
  ASSUME OneTick, TypeOK, TypeOK', NEW p \in Ticks, UNCHANGED runs, clock <= clock',
         \A d \in Dates : RecapSpaced(d),
         Patient(p)',
         \A d \in Dates :
           AtRecap(p, d) /\ Attempts(p) =>
             Spent(Recap(d)) \/ (AtRecap(p, d) /\ Attempts(p))'
  PROVE  SpacedInv'
<1>1. \A q \in Ticks : Patient(q)'
  BY DEF OneTick
<1>2. ASSUME NEW d \in Dates PROVE RecapSpaced(d)'
  <2>1. Recap(d)' = Recap(d) /\ RecapSpaced(d)
    BY DEF Recap
  <2>2. /\ Recap(d).attempt \in Int /\ Recap(d).attempt \in 0 .. AttemptCap
        /\ clock \in Int /\ clock' \in Int
    <3>1. clock' \in 0 .. MaxTime
      BY DEF TypeOK
    <3>2. clock' \in Int
      BY <3>1, TimesAreNumbers
    <3>3. QED
      BY <3>2, RecapTypes
  <2>3. Recap(d).attempt > 0 /\ Recap(d).attempt - 2 <= MaxExponent =>
          clock' >= Floor(d, Recap(d).attempt - 1)
    <3> SUFFICES ASSUME Recap(d).attempt > 0, Recap(d).attempt - 2 <= MaxExponent
                 PROVE  clock' >= Floor(d, Recap(d).attempt - 1)
      OBVIOUS
    <3>1. Recap(d).attempt - 1 \in 0 .. AttemptCap
      BY <2>2, Constants
    <3>2. PICK f \in Nat : f = Floor(d, Recap(d).attempt - 1)
      BY <3>1, FloorType
    <3>3. clock >= f
      BY <2>1, <3>2 DEF RecapSpaced
    <3>4. QED
      BY <2>2, <3>2, <3>3
  <2>4. Recap(d).status = "RUNNING" =>
          Spent(Recap(d)) \/ \E q \in Ticks : (AtRecap(q, d) /\ Attempts(q))'
    BY <2>1 DEF RecapSpaced, OneTick
  <2>5. Spent(Recap(d))' = Spent(Recap(d)) /\ Floor(d, Recap(d).attempt)' = Floor(d, Recap(d).attempt)
        /\ Floor(d, Recap(d).attempt - 1)' = Floor(d, Recap(d).attempt - 1)
    BY <2>1 DEF Spent, Floor
  <2>6. QED
    BY <2>1, <2>3, <2>4, <2>5 DEF RecapSpaced
<1>3. QED
  BY <1>1, <1>2 DEF SpacedInv

\* A step that writes the row of its tick.
LEMMA RecapWritten ==
  ASSUME TypeOK, NEW p \in Ticks, NEW row \in JobRow, SetRow(p, row), NEW d \in Dates
  PROVE  Recap(d)' = IF AtRecap(p, d) THEN row ELSE Recap(d)
BY RowSet, JobNames DEF Recap, AtRecap

LEMMA WrittenSpaced ==
  ASSUME OneTick, TypeOK, TypeOK', NEW p \in Ticks, NEW row \in JobRow, SetRow(p, row),
         UNCHANGED clock,
         \A d \in Dates : RecapSpaced(d),
         Patient(p)',
         \A d \in Dates : AtRecap(p, d) => RecapSpaced(d)'
  PROVE  SpacedInv'
<1>1. \A q \in Ticks : Patient(q)'
  BY DEF OneTick
<1>2. ASSUME NEW d \in Dates, ~AtRecap(p, d) PROVE RecapSpaced(d)'
  <2>1. Recap(d)' = Recap(d) /\ RecapSpaced(d)
    BY <1>2, RecapWritten
  <2>2. Recap(d).status = "RUNNING" => Spent(Recap(d))
    BY <1>2, <2>1 DEF RecapSpaced, OneTick
  <2>3. Spent(Recap(d))' = Spent(Recap(d)) /\ Floor(d, Recap(d).attempt)' = Floor(d, Recap(d).attempt)
        /\ Floor(d, Recap(d).attempt - 1)' = Floor(d, Recap(d).attempt - 1)
    BY <2>1 DEF Spent, Floor
  <2>4. QED
    BY <2>1, <2>2, <2>3 DEF RecapSpaced
<1>3. QED
  BY <1>1, <1>2 DEF SpacedInv

LEMMA LeavesPatient ==
  ASSUME NEW p \in Ticks, Leaves(p), Patient(p), tick[p].pc # "idle", UNCHANGED clock
  PROVE  Patient(p)'
BY DEF Leaves, Patient

\* A tick that goes on in the middle of an attempt.
LEMMA StaysPatient ==
  ASSUME NEW p \in Ticks, NEW label, Stays(p, label), Patient(p), tick[p].pc # "idle",
         UNCHANGED clock, label \notin {"start", "write start"}
  PROVE  Patient(p)'
BY DEF Stays, Patient

\* At the gate of the recap: its time has come.
LEMMA GateIsPatient ==
  ASSUME OneTick, TypeOK, NEW p \in Ticks, Patient(p), tick[p].pc = "gate",
         \A d \in Dates : RecapSpaced(d),
         Job(p) = "market_close_recap", ~Spent(Row(p)),
         Due(Job(p), tick[p].now), may_attempt(Job(p), tick[p].now)
  PROVE  clock >= Floor(Date(tick[p].now), Row(p).attempt)
<1>1. PICK d \in Dates : d = Date(tick[p].now)
  BY TickFacts
<1>2. Row(p) = Recap(d) /\ RecapSpaced(d) /\ tick[p].now = clock
  BY <1>1, RowOfRecap DEF Patient
<1>3. Recap(d).status # "RUNNING"
  BY <1>2 DEF RecapSpaced, OneTick, Attempts, Attempting
<1>4. ~has_succeeded("market_close_recap", d) /\ ~CoolingDown("market_close_recap", clock)
  BY <1>1, <1>2 DEF may_attempt, RunOnce, Jobs, JobOrder
<1>5. Recap(d).status \in {"", "FAILED"}
  BY <1>3, <1>4, RecapTypes DEF has_succeeded, Recap
<1>6. CASE Recap(d).status = ""
  <2>1. Closed(clock)
    BY <1>2 DEF Due
  <2>2. clock >= Floor(d, 0)
    BY <1>1, <1>2, <2>1, ClosedFloor DEF TypeOK
  <2>3. QED
    BY <1>1, <1>2, <1>6, <2>2 DEF RecapSpaced
<1>7. CASE Recap(d).status = "FAILED"
  <2>1. ~(clock < Recap(d).next_retry_at)
    BY <1>1, <1>2, <1>4, <1>7 DEF CoolingDown, Recap
  <2>2. Recap(d).next_retry_at >= Floor(d, Recap(d).attempt)
    BY <1>2, <1>7 DEF RecapSpaced
  <2>3. Floor(d, Recap(d).attempt) \in Nat /\ Recap(d).next_retry_at \in Nat /\ clock \in Int
    BY FloorType, RecapTypes
  <2>4. QED
    BY <1>1, <1>2, <2>1, <2>2, <2>3
<1>8. QED
  BY <1>5, <1>6, <1>7

\* The next attempt begins as late as it has to.
LEMMA StartIsSpaced ==
  ASSUME OneTick, TypeOK, NEW p \in Ticks, WriteStart(p), Patient(p), UNCHANGED clock,
         NEW d \in Dates, AtRecap(p, d), RecapSpaced(d),
         NEW row \in JobRow, SetRow(p, row), row.status = "RUNNING", row.attempt >= 1,
         row.attempt = Counted(tick[p].attempt), Keeps(p, "work")
  PROVE  RecapSpaced(d)'
<1>1. Recap(d)' = row
  BY RecapWritten
<1>2. PICK n \in 0 .. AttemptCap, c \in Int, m \in Int :
        n = Recap(d).attempt /\ c = clock /\ m = row.attempt
  <2>1. row.attempt \in 0 .. AttemptCap
    BY DEF JobRow
  <2>2. row.attempt \in Int
    BY <2>1, Constants
  <2>3. QED
    BY <2>2, RecapTypes
<1>3. tick[p].pc = "write start" /\ tick[p].attempt = n /\ Row(p) = Recap(d)
  BY <1>2, RowOfRecap DEF Patient, WriteStart, At, AtRecap
<1>4. m = IF n + 1 <= AttemptCap THEN n + 1 ELSE AttemptCap
  BY <1>2, <1>3 DEF Counted
<1>5. ASSUME m - 2 <= MaxExponent PROVE c >= Floor(d, m - 1)
  <2>1. CASE n + 1 <= AttemptCap
    <3>1. m - 1 = n /\ ~(n - 2 >= MaxExponent)
      BY <1>4, <1>5, <2>1, SchedulerAssumption
    <3>2. ~Spent(Row(p))
      BY <1>2, <1>3, <3>1 DEF Spent
    <3>3. c >= Floor(d, n)
      BY <1>2, <1>3, <3>2 DEF Patient, AtRecap
    <3>4. QED
      BY <3>1, <3>3
  <2>2. CASE ~(n + 1 <= AttemptCap)
    <3>1. n = m /\ n > 0
      BY <1>4, <2>2, Constants
    <3>2. QED
      BY <1>2, <1>5, <3>1 DEF RecapSpaced
  <2>3. QED
    BY <2>1, <2>2
<1>6. (AtRecap(p, d) /\ Attempts(p))'
  <2>1. Job(p)' = Job(p) /\ Date(tick[p].now)' = Date(tick[p].now) /\ tick'[p].pc = "work"
    BY StaysSame DEF Keeps
  <2>2. QED
    BY <2>1 DEF AtRecap, Attempts, Attempting
<1>7. Floor(d, row.attempt - 1)' = Floor(d, row.attempt - 1)
  BY DEF Floor
<1>8. row.attempt > 0 /\ row.attempt - 2 <= MaxExponent => clock' >= Floor(d, row.attempt - 1)
  BY <1>2, <1>5
<1>9. row.attempt > 0
  BY <1>2
<1>10. QED
  BY <1>1, <1>6, <1>8, <1>9 DEF RecapSpaced

\* A failed attempt leaves the row with its backoff.
LEMMA FailureIsSpaced ==
  ASSUME TypeOK, NEW p \in Ticks, UNCHANGED clock, tick[p].now = clock,
         NEW d \in Dates, AtRecap(p, d), RecapSpaced(d),
         Recap(d).attempt >= 1, ~(Recap(d).attempt - 1 > MaxExponent),
         NEW row \in JobRow, SetRow(p, row), row.status = "FAILED",
         row.attempt = Recap(d).attempt,
         row.next_retry_at = tick[p].now + Backoff(row.attempt)
  PROVE  RecapSpaced(d)'
<1>1. Recap(d)' = row
  BY RecapWritten
<1>2. PICK n \in 0 .. AttemptCap, c \in Int : n = Recap(d).attempt /\ c = clock
  BY RecapTypes
<1>3. n \in 1 .. AttemptCap /\ n - 2 <= MaxExponent
  BY <1>2, Constants, SchedulerAssumption
<1>4. PICK f \in Nat, b \in Nat : f = Floor(d, n - 1) /\ b = Backoff(n) /\ Floor(d, n) = f + b
  BY <1>3, FloorGrows
<1>5. c >= f
  <2>1. Recap(d).attempt > 0 /\ Recap(d).attempt - 2 <= MaxExponent
    BY <1>2, <1>3
  <2>2. clock >= Floor(d, Recap(d).attempt - 1)
    BY <2>1 DEF RecapSpaced
  <2>3. QED
    BY <1>2, <1>4, <2>2
<1>6. row.next_retry_at = c + b
  BY <1>2, <1>4
<1>7. row.next_retry_at >= Floor(d, row.attempt) /\ clock' >= Floor(d, row.attempt - 1)
  BY <1>2, <1>4, <1>5, <1>6
<1>8. row.attempt > 0
  BY <1>2, <1>3
<1>9. QED
  BY <1>1, <1>7, <1>8 DEF RecapSpaced

\* A step in the middle of an attempt that leaves the rows alone.
LEMMA MidSpaced ==
  ASSUME OneTick, TypeOK, TypeOK', NEW p \in Ticks, UNCHANGED <<runs, clock>>,
         \A d \in Dates : RecapSpaced(d), Patient(p), Attempts(p),
         NEW label \in Attempting \ {"audit"}, Stays(p, label)
  PROVE  SpacedInv'
<1>1. tick[p].pc # "idle" /\ label \notin {"start", "write start"}
  BY DEF Attempts, Attempting
<1>2. Patient(p)'
  BY <1>1, StaysPatient
<1>3. ASSUME NEW d \in Dates, AtRecap(p, d) PROVE (AtRecap(p, d) /\ Attempts(p))'
  BY <1>3, StaysSame DEF AtRecap, Attempts
<1>4. clock <= clock'
  BY TimesAreNumbers DEF TypeOK
<1>5. QED
  BY <1>2, <1>3, <1>4, QuietSpaced

LEMMA SpacedNext == OneTick /\ RowsInv /\ RowsInv' /\ SpacedInv /\ [Next]_vars => SpacedInv'
<1> SUFFICES ASSUME OneTick, RowsInv, RowsInv', SpacedInv, [Next]_vars, crashes' = 0
             PROVE  SpacedInv'
  BY DEF SpacedInv
<1>1. TypeOK /\ TypeOK' /\ crashes \in Nat
  BY DEF RowsInv, TypeOK
<1>2. crashes = 0
  <2>1. crashes' = crashes \/ crashes' = crashes + 1
    <3>1. CASE UNCHANGED vars
      BY <3>1 DEF vars, bounds
    <3>2. ASSUME NEW p \in Ticks, NEW now \in 0 .. MaxTime,
                 BeginTick(p, now) \/ BeginTickUncovered(p, now)
          PROVE  crashes' = crashes
      BY <3>2 DEF BeginTick, BeginTickUncovered, bounds
    <3>3. ASSUME NEW p \in Ticks, Step(p) \/ ReportFails(p) \/ NotifyFails(p) \/ WorkFails(p)
          PROVE  crashes' = crashes
      BY <3>3 DEF Step, ReportFails, NotifyFails, WorkFails, Gate, ReadRow, WriteStart,
         WorkWithoutEffect, MarketCloseRecap, SessionScan, DataHealthCheck, ReadPrevious, Notify,
         Record, MarkSuccess, AuditSuccess, MarkFailed, bounds
    <3>4. ASSUME NEW p \in Ticks, Crash(p) PROVE crashes' = crashes + 1
      BY <3>4 DEF Crash
    <3>5. QED
      BY <3>1, <3>2, <3>3, <3>4 DEF Next
  <2>2. QED
    BY <1>1, <2>1
<1>3. (\A d \in Dates : RecapSpaced(d)) /\ \A p \in Ticks : Patient(p)
  BY <1>2 DEF SpacedInv
<1>4. \A t \in 0 .. MaxTime : t <= t /\ clock <= clock
  BY <1>1, TimesAreNumbers DEF TypeOK
<1>5. clock <= clock
  BY <1>1, TimesAreNumbers DEF TypeOK
<1>6. CASE UNCHANGED vars
  <2>1. UNCHANGED <<runs, tick, clock>>
    BY <1>6 DEF vars, tables
  <2>2. \A p \in Ticks : Patient(p)'
    BY <1>3, <2>1 DEF Patient, Job, Row, Spent, Floor
  <2>3. \A d \in Dates : RecapSpaced(d)'
    BY <1>3, <2>1 DEF RecapSpaced, Recap, Spent, Floor, AtRecap, Attempts, Job
  <2>4. QED
    BY <2>2, <2>3 DEF SpacedInv
<1>7. ASSUME NEW p \in Ticks, NEW now \in 0 .. MaxTime,
             BeginTick(p, now) \/ BeginTickUncovered(p, now)
      PROVE  SpacedInv'
  <2>1. /\ tick[p].pc = "idle" /\ clock' = now /\ clock <= clock' /\ UNCHANGED runs
        /\ (tick'[p].pc = "gate" /\ tick'[p].now = now) \/ tick'[p].pc = "idle"
    BY <1>1, <1>7, BeginMoves DEF tables
  <2>2. Patient(p)'
    BY <2>1 DEF Patient
  <2>3. ~Attempts(p)
    BY <2>1 DEF Attempts, Attempting
  <2>4. QED
    BY <1>1, <1>3, <2>1, <2>2, <2>3, QuietSpaced
<1>8. ASSUME NEW p \in Ticks, Step(p) \/ ReportFails(p) \/ NotifyFails(p) \/ WorkFails(p)
                              \/ Crash(p)
      PROVE  SpacedInv'
  <2>1. /\ Job(p) \in Jobs /\ Date(tick[p].now) \in Dates
        /\ Patient(p) /\ Begun(p)
    BY <1>1, <1>3, TickFacts DEF RowsInv
  <2>2. CASE Gate(p)
    <3>1. tick[p].pc = "gate" /\ UNCHANGED <<runs, clock>> /\ tick[p].pc # "idle" /\ ~Attempts(p)
      BY <1>1, <2>2, GateMoves DEF tables, Attempts, Attempting
    <3>2. Patient(p)'
      <4>1. CASE Leaves(p)
        BY <2>1, <3>1, <4>1, LeavesPatient
      <4>2. CASE /\ Stays(p, "start") /\ Due(Job(p), tick[p].now)
                 /\ may_attempt(Job(p), tick[p].now)
        <5>1. /\ Job(p)' = Job(p) /\ Date(tick[p].now)' = Date(tick[p].now)
              /\ tick'[p].pc = "start" /\ tick'[p].now = tick[p].now
          BY <4>2, StaysSame DEF Stays
        <5>2. Row(p)' = Row(p)
          BY <3>1, <5>1 DEF Row
        <5>3. Job(p) = "market_close_recap" /\ ~Spent(Row(p)) =>
                clock >= Floor(Date(tick[p].now), Row(p).attempt)
          BY <1>1, <1>3, <2>1, <3>1, <4>2, GateIsPatient
        <5>4. Floor(Date(tick[p].now), Row(p).attempt)' = Floor(Date(tick[p].now), Row(p).attempt)
              /\ Spent(Row(p))' = Spent(Row(p))
          BY <5>1, <5>2 DEF Floor, Spent
        <5>5. tick[p].now = clock
          BY <2>1, <3>1 DEF Patient
        <5>6. QED
          BY <3>1, <5>1, <5>3, <5>4, <5>5 DEF Patient
      <4>3. QED
        BY <1>1, <2>2, <4>1, <4>2, GateMoves DEF Keeps
    <3>3. QED
      BY <1>1, <1>3, <1>5, <3>1, <3>2, QuietSpaced
  <2>3. CASE ReadRow(p)
    <3>1. /\ tick[p].pc = "start" /\ Stays(p, "write start") /\ UNCHANGED <<runs, clock>>
          /\ tick'[p].attempt = Row(p).attempt /\ ~Attempts(p)
      BY <1>1, <2>3, ReadRowMoves DEF tables, Attempts, Attempting
    <3>2. /\ Job(p)' = Job(p) /\ Date(tick[p].now)' = Date(tick[p].now)
          /\ tick'[p].pc = "write start" /\ tick'[p].now = tick[p].now
      BY <3>1, StaysSame DEF Stays
    <3>3. Row(p)' = Row(p)
      BY <3>1, <3>2 DEF Row
    <3>4. Floor(Date(tick[p].now), Row(p).attempt)' = Floor(Date(tick[p].now), Row(p).attempt)
          /\ Spent(Row(p))' = Spent(Row(p))
      BY <3>2, <3>3 DEF Floor, Spent
    <3>5. Patient(p)'
      BY <2>1, <3>1, <3>2, <3>3, <3>4 DEF Patient
    <3>6. QED
      BY <1>1, <1>3, <1>5, <3>1, <3>5, QuietSpaced
  <2>4. CASE WriteStart(p)
    <3>1. tick[p].pc = "write start" /\ UNCHANGED clock /\ tick[p].pc # "idle" /\ ~Attempts(p)
      BY <1>1, <2>4, WriteStartMoves DEF Attempts, Attempting
    <3>2. CASE Leaves(p) /\ UNCHANGED runs
      <4>1. Patient(p)'
        BY <2>1, <3>1, <3>2, LeavesPatient
      <4>2. QED
        BY <1>1, <1>3, <1>5, <3>1, <3>2, <4>1, QuietSpaced
    <3>3. ASSUME Keeps(p, "work"), NEW row \in JobRow, SetRow(p, row), row.status = "RUNNING",
                 row.attempt >= 1, row.attempt = Counted(tick[p].attempt)
          PROVE  SpacedInv'
      <4>1. Patient(p)'
        BY <2>1, <3>1, <3>3, StaysPatient DEF Keeps
      <4>2. ASSUME NEW d \in Dates, AtRecap(p, d) PROVE RecapSpaced(d)'
        BY <1>1, <1>3, <2>1, <2>4, <3>1, <3>3, <4>2, StartIsSpaced
      <4>3. QED
        BY <1>1, <1>3, <3>1, <3>3, <4>1, <4>2, WrittenSpaced
    <3>4. QED
      BY <1>1, <2>4, <3>2, <3>3, WriteStartMoves
  <2>5. CASE \/ WorkWithoutEffect(p) \/ MarketCloseRecap(p) \/ ReportFails(p) \/ SessionScan(p)
             \/ DataHealthCheck(p) \/ ReadPrevious(p) \/ Notify(p) \/ NotifyFails(p) \/ Record(p)
             \/ WorkFails(p)
    <3>1. tick[p].pc \in {"apply", "record"} => tick[p].alert \in Alerts
      BY <2>1 DEF Begun, Alerting
    <3>2. ReadPrevious(p) \/ Record(p) => tick[p].alert \in Alerts
      BY <3>1 DEF ReadPrevious, Record, At
    <3>3. /\ UNCHANGED <<runs, clock>> /\ tick[p].pc \in {"work", "apply", "notify", "record"}
          /\ \/ Stays(p, "succeed") \/ Stays(p, "fail") \/ Stays(p, "apply")
             \/ Stays(p, "notify") \/ Stays(p, "record")
      <4>1. CASE WorkWithoutEffect(p)
        BY <1>1, <4>1, PlainWorkMoves DEF tables, Keeps
      <4>2. CASE MarketCloseRecap(p) \/ ReportFails(p)
        BY <1>1, <4>2, RecapMoves DEF tables, Keeps, SendReport, At
      <4>3. CASE SessionScan(p) \/ DataHealthCheck(p)
        BY <1>1, <4>3, AlertMoves DEF tables
      <4>4. CASE ReadPrevious(p)
        BY <1>1, <3>2, <4>4, ReadPreviousMoves DEF tables
      <4>5. CASE Notify(p)
        BY <1>1, <4>5, NotifyMoves DEF tables, Keeps
      <4>6. CASE NotifyFails(p)
        BY <1>1, <4>6, NotifyFailsMoves DEF tables
      <4>7. CASE Record(p)
        BY <1>1, <3>2, <4>7, RecordMoves DEF Keeps
      <4>8. CASE WorkFails(p)
        BY <1>1, <4>8, WorkFailsMoves DEF tables, Keeps
      <4>9. QED
        BY <2>5, <4>1, <4>2, <4>3, <4>4, <4>5, <4>6, <4>7, <4>8
    <3>4. Attempts(p)
      BY <3>3 DEF Attempts, Attempting
    <3>5. PICK label \in Attempting \ {"audit"} : Stays(p, label)
      BY <3>3 DEF Attempting
    <3>6. QED
      BY <1>1, <1>3, <2>1, <3>3, <3>4, <3>5, MidSpaced
  <2>6. CASE MarkSuccess(p)
    <3>1. tick[p].pc = "succeed" /\ Stays(p, "audit") /\ UNCHANGED clock /\ tick[p].pc # "idle"
      BY <1>1, <2>6, MarkSuccessMoves DEF Keeps
    <3>2. PICK row \in JobRow :
            SetRow(p, row) /\ row.status = "SUCCESS" /\ row.attempt = Row(p).attempt
      BY <1>1, <2>6, MarkSuccessMoves
    <3>3. Patient(p)'
      BY <2>1, <3>1, StaysPatient
    <3>4. ASSUME NEW d \in Dates, AtRecap(p, d) PROVE RecapSpaced(d)'
      <4>1. Recap(d)' = row /\ row.attempt = Recap(d).attempt /\ RecapSpaced(d)
        BY <1>1, <1>3, <3>2, <3>4, RecapWritten, RowOfRecap DEF AtRecap
      <4>2. Floor(d, row.attempt - 1)' = Floor(d, row.attempt - 1)
        BY DEF Floor
      <4>3. QED
        BY <3>1, <3>2, <4>1, <4>2 DEF RecapSpaced
    <3>5. QED
      BY <1>1, <1>3, <3>1, <3>2, <3>3, <3>4, WrittenSpaced
  <2>7. CASE AuditSuccess(p)
    <3>1. /\ tick[p].pc = "audit" /\ Leaves(p) /\ UNCHANGED <<runs, clock>>
          /\ tick[p].pc # "idle" /\ ~Attempts(p)
      BY <1>1, <2>7, AuditSuccessMoves DEF Attempts
    <3>2. Patient(p)'
      BY <2>1, <3>1, LeavesPatient
    <3>3. QED
      BY <1>1, <1>3, <1>5, <3>1, <3>2, QuietSpaced
  <2>8. CASE MarkFailed(p)
    <3>1. tick[p].pc = "fail" /\ Row(p).attempt >= 1 /\ tick[p].pc # "idle"
      BY <2>1, <2>8 DEF MarkFailed, At, Begun, Attempting
    <3>2. Leaves(p) /\ UNCHANGED clock
      BY <1>1, <2>8, <3>1, MarkFailedMoves
    <3>3. Patient(p)'
      BY <2>1, <3>1, <3>2, LeavesPatient
    <3>4. tick[p].now = clock
      BY <2>1, <3>1 DEF Patient
    <3>5. CASE UNCHANGED runs /\ Row(p).attempt - 1 > MaxExponent
      <4>1. ASSUME NEW d \in Dates, AtRecap(p, d) PROVE Spent(Recap(d))
        <5>1. Row(p) = Recap(d)
          BY <4>1, RowOfRecap DEF AtRecap
        <5>2. PICK n \in Int, m \in Int : n = Recap(d).attempt /\ m = MaxExponent
          BY <1>1, RecapTypes
        <5>3. n - 2 >= m
          BY <3>5, <5>1, <5>2
        <5>4. QED
          BY <5>2, <5>3 DEF Spent
      <4>2. QED
        BY <1>1, <1>3, <1>5, <3>2, <3>3, <3>5, <4>1, QuietSpaced
    <3>6. ASSUME ~(Row(p).attempt - 1 > MaxExponent), NEW row \in JobRow, SetRow(p, row),
                 row.status = "FAILED", row.attempt = Row(p).attempt,
                 row.next_retry_at = tick[p].now + Backoff(row.attempt)
          PROVE  SpacedInv'
      <4>1. ASSUME NEW d \in Dates, AtRecap(p, d) PROVE RecapSpaced(d)'
        <5>1. Row(p) = Recap(d)
          BY <4>1, RowOfRecap DEF AtRecap
        <5>2. QED
          BY <1>1, <1>3, <3>1, <3>2, <3>4, <3>6, <4>1, <5>1, FailureIsSpaced
      <4>2. QED
        BY <1>1, <1>3, <3>2, <3>3, <3>6, <4>1, WrittenSpaced
    <3>7. QED
      BY <1>1, <2>8, <3>1, <3>5, <3>6, MarkFailedMoves
  <2>9. CASE Crash(p)
    <3>1. crashes' = crashes + 1
      BY <2>9 DEF Crash
    <3>2. QED
      BY <1>2, <3>1
  <2>10. QED
    BY <1>8, <2>2, <2>3, <2>4, <2>5, <2>6, <2>7, <2>8, <2>9 DEF Step
<1>9. QED
  BY <1>6, <1>7, <1>8 DEF Next

LEMMA SpacedInit == Init => SpacedInv
<1> SUFFICES ASSUME Init PROVE SpacedInv
  OBVIOUS
<1>1. \A p \in Ticks : tick[p].pc = "idle"
  BY IdleType DEF Init
<1>2. \A d \in Dates : Recap(d) = NotRun
  BY JobNames DEF Init, Recap
<1>3. \A d \in Dates : RecapSpaced(d)
  <2> SUFFICES ASSUME NEW d \in Dates PROVE RecapSpaced(d)
    OBVIOUS
  <2>1. PICK r : r = Recap(d) /\ r.attempt = 0 /\ r.status = ""
    BY <1>2, IdleType
  <2>2. Recap(d).status = "" /\ Recap(d).attempt = 0
    BY <2>1
  <2>3. ~(0 > 0)
    OBVIOUS
  <2>4. QED
    BY <2>2, <2>3 DEF RecapSpaced
<1>4. QED
  BY <1>1, <1>3 DEF SpacedInv, Patient

\* Ticks that do not overlap retry the recap no sooner than the backoffs allow, for any
\* calendar, any number of failures and any number of ticks, up to the attempt whose backoff
\* cannot be computed.
THEOREM RetriesAreKeptApart ==
  ASSUME OneTick
  PROVE  Spec => []RetriesAreSpaced
<1>1. Init => RowsInv /\ SpacedInv
  BY RowsInit, SpacedInit
<1>2. (RowsInv /\ SpacedInv) /\ [Next]_vars => (RowsInv /\ SpacedInv)'
  BY RowsNext, SpacedNext
<1>3. RowsInv /\ SpacedInv => RetriesAreSpaced
  <2> SUFFICES ASSUME SpacedInv, crashes = 0, NEW d \in Dates,
                      Recap(d).attempt > 0, Recap(d).attempt - 2 <= MaxExponent
               PROVE  clock >= d * DayLength + Session2Close + Waits[Recap(d).attempt - 1]
    BY DEF RetriesAreSpaced, Recap
  <2>1. QED
    BY DEF SpacedInv, RecapSpaced, Floor
<1>4. QED
  BY <1>1, <1>2, <1>3, PTL DEF Spec
=============================================================================
