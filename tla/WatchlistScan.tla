---------------------------- MODULE WatchlistScan ----------------------------
(***************************************************************************)
(* Scans of the watchlist and the briefs that are drawn from them:         *)
(* ManualScanService (Business/manual_scan_service.py) with the scanner,   *)
(* the analysis agent, the ranking and the snapshots, and                  *)
(* DecisionBriefService (Services/decision_brief_service.py) with its      *)
(* policy.                                                                 *)
(*                                                                         *)
(* A scan and a request for a brief are processes of the command line, or  *)
(* of the Telegram poller. Every row is committed on its own, and a scan   *)
(* takes as long as its sources do: another one may start, and be read,    *)
(* meanwhile. The time of a scan or brief is the moment it began.          *)
(***************************************************************************)
EXTENDS MarketAnalysis, Functions

CONSTANTS
  Watchers,     \* processes
  Symbols, InitialList,
  Entries,      \* what the analysis of a symbol may end with
  MaxScans, MaxAsks,  \* bounds on scans and requests
  MaxUpsets     \* bound on changes of the list, hours that pass, and deaths

ASSUME ScanAssumption ==
  /\ InitialList \in Seq(Symbols) /\ IsInjective(InitialList)
  /\ Entries \subseteq MarketEntries
  /\ {MaxScans, MaxAsks, MaxUpsets} \subseteq Nat

VARIABLES
  listed,       \* watchlist, in the order of added_at
  snapshots,    \* ranking_snapshots, in the order of snapshot_id
  sheets,       \* decision_briefs, in the order of brief_id
  watcher,      \* what each process is doing
  now,          \* the last moment that was read from the clock
  aged,         \* moments more than DEFAULT_STALE_AFTER ago
  asks, upsets,
  \* history, read by no action:
  scans         \* of each scan_time: the symbols to scan, and how it ended

watchBounds == <<asks, upsets>>
scanVars == <<listed, snapshots, sheets, watcher, now, aged, watchBounds, scans>>

-----------------------------------------------------------------------------
(* WatchlistAnalysisSkill: an analysis that recommends nothing is labelled *)
(* with what went wrong.                                                   *)

RecommendationWeight == [BUY |-> 3, WAIT |-> 2, SELL |-> 1]

ConfidenceWeight == [HIGH |-> 3, MEDIUM |-> 2, LOW |-> 1]

WatchlistLabel(entry) ==
  IF entry.analysis.recommendation \in DOMAIN RecommendationWeight
  THEN entry.analysis.recommendation
  ELSE IF entry.analysis.status \in {"ANALYSIS_FAILED", "INSUFFICIENT_DATA"}
  THEN entry.analysis.status
  ELSE "SKIPPED"

\* RankingEngine._extract_valid_entries
Ranked(entry) ==
  /\ WatchlistLabel(entry) \in DOMAIN RecommendationWeight
  /\ entry.analysis.confidence \in DOMAIN ConfidenceWeight

\* The default weights of a label of the evidence.
EvidenceWeight(label) ==
  CASE label \in {"bullish", "positive", "undervalued", "strong"}  -> 2
    [] label \in {"bearish", "negative", "overvalued", "weak"}     -> -2
    [] OTHER                                                       -> 0

\* All parts weigh the same.
PlainScore(entry) ==
  RecommendationWeight[WatchlistLabel(entry)]
    + ConfidenceWeight[entry.analysis.confidence]
    + EvidenceWeight(entry.found.trend) + EvidenceWeight(entry.found.sentiment)
    + EvidenceWeight(entry.found.valuation) + EvidenceWeight(entry.found.quality)

Score(entry) ==
  10 * RecommendationWeight[WatchlistLabel(entry)]
    + ConfidenceWeight[entry.analysis.confidence]
    + EvidenceWeight(entry.found.trend) + EvidenceWeight(entry.found.sentiment)
    + EvidenceWeight(entry.found.valuation) + EvidenceWeight(entry.found.quality)

\* Positions with the same score stay in their order, that of the watchlist.
RankOf(S, score, i) ==
  Cardinality({j \in S : score[j] > score[i] \/ (score[j] = score[i] /\ j <= i)})

InOrder(S, score) ==
  [rank \in 1 .. Cardinality(S) |-> CHOOSE i \in S : RankOf(S, score, i) = rank]

SuccessRow(at, symbol, entry, rank) ==
  [scan_time |-> at, symbol |-> symbol, status |-> "success", rank |-> rank,
   recommendation |-> WatchlistLabel(entry), score |-> Score(entry)]

\* The rank and the score are NULL.
ErrorRow(at, symbol) ==
  [scan_time |-> at, symbol |-> symbol, status |-> "error", rank |-> 0,
   recommendation |-> "none", score |-> 0]

\* ManualScanService.run_scan: the ranking first, then what failed.
SuccessRows(at, symbols, results) ==
  LET valid == {i \in DOMAIN symbols : Ranked(results[symbols[i]])}
      order == InOrder(valid, [i \in valid |-> Score(results[symbols[i]])])
  IN  [rank \in DOMAIN order |->
         SuccessRow(at, symbols[order[rank]], results[symbols[order[rank]]], rank)]

FailureRows(at, symbols, results) ==
  LET failed == {i \in DOMAIN symbols : ~Ranked(results[symbols[i]])}
      order == InOrder(failed, [i \in failed |-> 0])
  IN  [n \in DOMAIN order |-> ErrorRow(at, symbols[order[n]])]

ScanRows(at, symbols, results) ==
  SuccessRows(at, symbols, results) \o FailureRows(at, symbols, results)

-----------------------------------------------------------------------------
Away == [pc |-> "idle"]

ScanInit ==
  /\ listed = InitialList
  /\ snapshots = << >> /\ sheets = << >>
  /\ watcher = [p \in Watchers |-> Away]
  /\ now = 0 /\ aged = {} /\ asks = 0 /\ upsets = 0
  /\ scans = << >>

Busy(p, pc) == watcher[p].pc = pc

Turns(p, state) == watcher' = [watcher EXCEPT ![p] = state]

Upset == upsets < MaxUpsets /\ upsets' = upsets + 1

\* WatchlistRepository: what is there already is ignored.
AddSymbol(s) ==
  /\ Upset /\ s \notin Range(listed)
  /\ listed' = Append(listed, s)
  /\ UNCHANGED <<snapshots, sheets, watcher, now, aged, asks, scans>>

RemoveSymbol(s) ==
  /\ Upset
  /\ \E i \in DOMAIN listed :
       /\ listed[i] = s
       /\ listed' = [j \in 1 .. Len(listed) - 1 |-> listed[IF j < i THEN j ELSE j + 1]]
  /\ UNCHANGED <<snapshots, sheets, watcher, now, aged, asks, scans>>

\* Six hours, after which nothing that was begun before is fresh.
HoursPass ==
  /\ Upset /\ aged # 1 .. now
  /\ aged' = 1 .. now
  /\ UNCHANGED <<listed, snapshots, sheets, watcher, now, asks, scans>>

-----------------------------------------------------------------------------
(* A scan.                                                                 *)

BeginScan(p) ==
  /\ Busy(p, "idle") /\ Cardinality(DOMAIN scans) < MaxScans
  /\ now' = now + 1
  /\ Turns(p, [pc |-> "analyse", at |-> now + 1])
  /\ scans' = [t \in DOMAIN scans \cup {now + 1} |->
                 IF t \in DOMAIN scans THEN scans[t]
                 ELSE [symbols |-> << >>, end |-> "running"]]
  /\ UNCHANGED <<listed, snapshots, sheets, aged, watchBounds>>

LeaveOrWrite(p, rows, records) ==
  IF rows = << >>
  THEN Turns(p, Away) /\ scans' = [records EXCEPT ![watcher[p].at].end = "done"]
  ELSE /\ Turns(p, [pc |-> "write", at |-> watcher[p].at, rows |-> rows])
       /\ scans' = records

\* WatchlistScanner.scan and the ranking of its result. The market of the
\* command is that of all symbols.
ScanWatchlist(p) ==
  /\ Busy(p, "analyse")
  /\ \E results \in [Range(listed) -> Entries] :
       LeaveOrWrite(p, ScanRows(watcher[p].at, listed, results),
                    [scans EXCEPT ![watcher[p].at].symbols = listed])
  /\ UNCHANGED <<listed, snapshots, sheets, now, aged, watchBounds>>

\* The command ends with the last row.
WriteSnapshot(p) ==
  /\ Busy(p, "write")
  /\ snapshots' = Append(snapshots, Head(watcher[p].rows))
  /\ LeaveOrWrite(p, Tail(watcher[p].rows), scans)
  /\ UNCHANGED <<listed, sheets, now, aged, watchBounds>>

-----------------------------------------------------------------------------
(* A brief.                                                                *)

\* The scan with the last row.
LastWritten == snapshots[Len(snapshots)].scan_time

\* SELECT MAX(scan_time)
MaxScanTime ==
  CHOOSE t \in {snapshots[i].scan_time : i \in DOMAIN snapshots} :
    \A i \in DOMAIN snapshots : t >= snapshots[i].scan_time

\* _latest_snapshot over list_latest: the position of the row, or 0.
LatestSnapshot(symbol) ==
  IF \E i \in DOMAIN snapshots :
       snapshots[i].scan_time = MaxScanTime /\ snapshots[i].symbol = symbol
  THEN CHOOSE i \in DOMAIN snapshots :
         snapshots[i].scan_time = MaxScanTime /\ snapshots[i].symbol = symbol
  ELSE 0

\* DecisionBriefPolicy.evaluate, or "open" if it blocks nothing.
Gate(i) ==
  IF i = 0 THEN "INSUFFICIENT_DATA"
  ELSE IF snapshots[i].status = "error" THEN "DATA_ERROR"
  ELSE IF snapshots[i].scan_time \in aged THEN "DATA_STALE"
  ELSE IF snapshots[i].recommendation # "BUY" THEN "NO_TRADE"
  ELSE "open"

\* generate_brief; what the risk service makes of the numbers it is given is
\* open.
BriefStatuses(i, priced) ==
  IF Gate(i) # "open" THEN {Gate(i)}
  ELSE IF priced THEN {"SUCCESS", "RISK_REJECTED"} ELSE {"POLICY_BLOCKED"}

\* `brief SYMBOL`, with risk arguments or without; /plan has none. Without
\* them an existing brief is shown as it is, which changes nothing. The clock
\* and the snapshots are read in one step: no property relates the moment of a
\* brief to that of a scan. From before on the fields are history.
AskBrief(p, s, priced) ==
  LET i == LatestSnapshot(s) IN
  /\ Busy(p, "idle") /\ asks < MaxAsks
  /\ ~priced => \A b \in DOMAIN sheets : sheets[b].symbol # s
  /\ now' = now + 1 /\ asks' = asks + 1
  /\ \E status \in BriefStatuses(i, priced) :
       Turns(p, [pc |-> "insert",
                 sheet |-> [symbol |-> s, generated_at |-> now + 1,
                            status |-> status, snapshot |-> i,
                            before |-> Len(sheets),
                            newest |-> IF snapshots = << >> THEN 0 ELSE MaxScanTime,
                            whole |-> i # 0 \/ \A t \in DOMAIN scans :
                                                 scans[t].end = "done"]])
  /\ UNCHANGED <<listed, snapshots, sheets, aged, upsets, scans>>

InsertBrief(p) ==
  /\ Busy(p, "insert")
  /\ sheets' = Append(sheets, watcher[p].sheet)
  /\ Turns(p, Away)
  /\ UNCHANGED <<listed, snapshots, now, aged, watchBounds, scans>>

WatcherDies(p) ==
  /\ Upset /\ ~Busy(p, "idle")
  /\ scans' = IF watcher[p].pc \in {"analyse", "write"}
              THEN [scans EXCEPT ![watcher[p].at].end = "died"] ELSE scans
  /\ Turns(p, Away)
  /\ UNCHANGED <<listed, snapshots, sheets, now, aged, asks>>

ScanNext ==
  \/ HoursPass
  \/ \E s \in Symbols : AddSymbol(s) \/ RemoveSymbol(s)
  \/ \E p \in Watchers :
       \/ BeginScan(p) \/ ScanWatchlist(p) \/ WriteSnapshot(p)
       \/ (\E s \in Symbols, priced \in BOOLEAN : AskBrief(p, s, priced))
       \/ InsertBrief(p) \/ WatcherDies(p)

ScanSpec == ScanInit /\ [][ScanNext]_scanVars

-----------------------------------------------------------------------------
\* A row that is written, and a brief, is of a moment that has been, and a
\* brief names a row that is there, of its own symbol.
ScanTypeOK ==
  /\ listed \in Seq(Symbols) /\ IsInjective(listed)
  /\ \A i \in DOMAIN snapshots : snapshots[i].scan_time \in DOMAIN scans
  /\ \A b \in DOMAIN sheets :
       /\ sheets[b].generated_at \in 1 .. now
       /\ sheets[b].snapshot # 0 =>
            /\ sheets[b].snapshot \in DOMAIN snapshots
            /\ snapshots[sheets[b].snapshot].symbol = sheets[b].symbol
  /\ DOMAIN scans \subseteq 1 .. now /\ aged \subseteq 1 .. now

-----------------------------------------------------------------------------
RowsOf(t) == {i \in DOMAIN snapshots : snapshots[i].scan_time = t}

\* A scan that ended has one row for each symbol that was listed when it read
\* the list, however many ran at a time; one that did not, or died, has the
\* first of them: first those with a rank, the best one first, then the
\* failures (manual_scan_service.py:206-234).
ScanIsWhole(t) ==
  /\ \A j \in RowsOf(t) :
       /\ snapshots[j].symbol \in Range(scans[t].symbols)
       /\ snapshots[j].rank # 0 =>
            snapshots[j].rank = Cardinality({i \in RowsOf(t) : i <= j})
       /\ \A i \in RowsOf(t) : i < j =>
            /\ snapshots[i].symbol # snapshots[j].symbol
            /\ snapshots[j].rank # 0 =>
                 snapshots[i].rank # 0 /\ snapshots[i].score >= snapshots[j].score
  /\ scans[t].end = "done" => Cardinality(RowsOf(t)) = Len(scans[t].symbols)

\* Whatever is found of two symbols, the evidence never puts one that is to be
\* sold above one to wait for, or that above one to be bought
\* (ranking_engine.py:677, ranking_weights_config.py:98-116).
EvidenceBreaksTies ==
  \A e, f \in {entry \in MarketEntries : Ranked(entry)} :
    RecommendationWeight[WatchlistLabel(e)] > RecommendationWeight[WatchlistLabel(f)]
      => Score(e) > Score(f)

ScansSound == EvidenceBreaksTies /\ \A t \in DOMAIN scans : ScanIsWhole(t)

\* One request ended before the other one began.
Overlap(a, b) == a > sheets[b].before

\* Of two briefs of a symbol the later one rests on no older scan, unless the
\* requests overlapped: then the one that is shown as the latest may be the
\* older analysis (decision_brief_repository.py:141).
BriefsMoveOn ==
  \A a, b \in DOMAIN sheets :
    /\ sheets[a].symbol = sheets[b].symbol
    /\ sheets[a].generated_at < sheets[b].generated_at /\ ~Overlap(a, b)
    /\ sheets[a].snapshot # 0 /\ sheets[b].snapshot # 0
    => snapshots[sheets[a].snapshot].scan_time <= snapshots[sheets[b].snapshot].scan_time

\* A plan rests on a BUY of its symbol in the newest scan.
PlansRestOnBuys ==
  \A b \in DOMAIN sheets : sheets[b].status = "SUCCESS" =>
    LET row == snapshots[sheets[b].snapshot] IN
      /\ row.symbol = sheets[b].symbol /\ row.recommendation = "BUY"
      /\ row.scan_time = sheets[b].newest

\* A brief denies that there is a snapshot only if the newest scan was not for
\* its symbol, or some scan was under way or has died; in that case it denies
\* it whatever earlier scans have found (decision_brief_service.py:238).
DenialsAreScans ==
  \A b \in DOMAIN sheets : sheets[b].snapshot = 0 =>
    \/ ~sheets[b].whole \/ sheets[b].newest = 0
    \/ sheets[b].symbol \notin Range(scans[sheets[b].newest].symbols)

\* Briefs follow the scans.
BriefsSound == BriefsMoveOn /\ PlansRestOnBuys /\ DenialsAreScans
=============================================================================
