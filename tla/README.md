# A verification project for the AI Investment Operating System

TLA+ models of the parts of this repository that keep state: what they write,
in which order, what may fail in between, and who else writes at the same
time. TLC checks the models on small instances; TLAPS proves the central
invariants for every instance.

Contents

1. The system: inventory
2. How the modules are organised
3. The paper trading core
4. Reconciliation and the performance reports
5. The operator's desks: approval, journal, review, schema, scans and briefs
6. The daily scheduler
7. The Telegram poller
8. Actors, agents and their analyses
9. Runs: what each one asks, and its bounds
10. Fairness
11. What is proved
12. What is only model-checked
13. Where the code and its documentation disagree
14. Not modelled, and why
15. Plan

## 1. The system: inventory

The program is a single-user investment assistant in Python on one SQLite
file. It is not one process: the command line (`main.py`), a scheduler tick
started every few minutes by the operating system (`tick_runner.py`), and a
Telegram poller each open the same database, run, and exit. There is no
transaction around a service call: `Database/session.py` commits every
statement on its own. So every service call is a sequence of committed
statements, any two processes interleave at statements, and whatever a process
had committed when it died stays. The one exception are migrations, which run
in an exclusive transaction. Inside a process there is one more kind of
concurrency: the tool calls of an agent run in threads over one event store, and
the agents call subscribers and pipelines that may call back.

| Component | State it keeps | Operations | Talks to |
|---|---|---|---|
| Paper trading engine (`Business/paper_trading_engine.py`) | none of its own | `submit_order`: 24 read-only gates, then 5 services in a row | every service below, notifications |
| Order lifecycle (`order_lifecycle_service.py`) | `orders` | `create_order`, `transition_status`, `record_fill` | order repository |
| Execution service | `trades` | `execute_order` | order lifecycle |
| Account balance service | `accounts.cash` | `apply_trade` | account repository |
| Position manager | `positions` | `apply_trade` (open, merge, reduce, close), `set_stop_loss_take_profit` | position repository |
| Idempotency, approvals | `order_idempotency_keys`, `order_approvals` | `create`, `exists` | engine |
| Market policies (US, crypto, forex, IDX) | none | pure rules on an order | engine |
| Stop-loss monitor | none | `check` | position rows |
| Reconciliation engine | none | five read-only checks of an account | all tables above |
| Performance reports | none | episodes, profit, equity, net result | trades, positions, quotes |
| Watchlist, scans and rankings | `watchlist`, `ranking_snapshots` | `add`, `remove`, `run_scan` | market analysis |
| Decision briefs | `decision_briefs` | `generate_brief` | newest snapshots, risk service |
| Brief approval | `brief_approvals` | `approve_and_submit` | engine |
| Decision journal and risk ledger | `journal_entries` | `record_decision`, `record_outcome` | briefs, limits |
| Risk limits | `risk_limits` | `save`, `get_current` | journal, gates 15 and 16 |
| Observation window and final review | windows, feedback, review records | `open`, `close`, `refresh_review`, `record_feedback`, `record_decision` | sustained-use reviews |
| Migrations | `schema_migrations`, the schema, the default account | `apply`, `init`, the migration scripts | every table |
| IDX daily scheduler | `scheduler_job_runs`, `notification_dedup_state`, audit log | `tick`, job attempts, alerts | reports, notifications |
| Telegram inbound control plane | `telegram_inbound_state`, `telegram_command_audit` | `poll_once` | command executor |
| Event store and actor runtime (`Core/event_store.py`, `Core/runtime.py`) | streams, cursors, cached states, children | `step`, `ingest`, `delegate`, `cancel`, `suspend`, `resume`, `archive_actor`, ... | approval ports, sandbox |
| Tool execution (`Agents/base_agent.py`, `Agents/executor.py`) | the actor of an agent | `execute`, in parallel | runtime |
| Autonomous agent, host and scheduler | queue, pause flag, status of each agent | `schedule`, `tick`, `cancel`, `step`, `pause`, `stop`, `snapshot`, `restore` | event bus, pipeline |
| Event bus | subscriptions | `subscribe`, `once`, `publish`, `unsubscribe` | whoever subscribes |
| Workflows, task queue, dry-run orders, human approval | in-memory, of one thread | status changes | nothing that is composed |
| Goal planner and analysis pipeline (`Orchestration/planner.py`, `Core/analysis_pipeline.py`) | the context of a run | `build_plan`, `execute_plan`, `record`; `run` | the twelve services of `Services/` |
| Interactive session (`main.py`, `Agents/stock_agent.py`, `Orchestration/runtime_analysis_pipeline.py`) | conversation, private tools, memory of observations, chart files | questions, `auto`; a run and its chain of decisions | pipeline, vision, providers |
| Vision and trading decision (`vision_market_state_pipeline.py`, `trading_decision_agent.py`) | the output of one skill, input of the next | `run`, `execute` | the session, vision provider |
| Market analysis (tools, text, crypto and forex skills) | none | an entry for each symbol | scans, trading decision |
| Attribution, other providers, evaluation, dashboard | none that is shared | computation, presentation | rows, network |

What is hard in it:

* **Partial failure.** `submit_order` commits eight to ten statements one by
  one. An exception or a dead process between any two leaves an order without a
  trade, a trade without cash, cash without a position, or all of them without
  the idempotency key that would stop a retry.
* **Interleaving.** Cash and positions are read, changed in memory and written
  back; the duplicate check and the insert of the key are 13 statements apart.
  A decision is judged on statistics that are old when its row is inserted, a
  window is opened after a look that none is open, and two threads that step one
  actor read the same cursor, compute from the same state, and write both back in
  any order.
* **Gates against services.** The gates read before anything is written, the
  services check again when it is too late to refuse. Wherever the two rules
  differ an order is FILLED and its cash or position is not applied.
* **Several implementations of one arithmetic.** Reconciliation, the episodes
  and the performance reports replay trades with code of their own; a
  disagreement is either a false alarm or a missed one.
* **At-least-once jobs and messages** in the scheduler and the Telegram poller,
  whose progress is written after the work.
* **Re-entrance.** A subscriber or a pipeline may call the scheduler, the agents
  or the bus from the middle of a call of theirs.
* **Order by hand and order by metadata.** The planner derives an order of the
  services from their declared inputs, the pipeline has one written down; a
  service that runs too early does not fail, it computes from less.
* **Agreement by key and word.** Skills hand dictionaries on to each other; one
  that reads another key, or another word, than its neighbour wrote does not
  fail, it falls back to a default.
* **Reading what is being written.** A brief looks at the newest scan while that
  scan is still writing its rows, or after it died.
* **Rollback.** A migration that fails, a COMMIT that fails and a process that
  dies in a transaction must leave the schema and its version rows in step.

What makes each part correct: orders move forward only and are traded at most
once; a used key means a request that was carried out; cash and positions equal
the trades that were applied to them; whatever the gates let through the
services accept; reconciliation reports every broken call and no sound one; the
reports add up to what the account earned; accepted decisions respect the limits
of the day; a final decision rests on evidence of its window; a batch of
migrations is applied as a whole or not at all; a due job runs, a failed one is
retried after its delay and not before; a Telegram command is not lost and its
audit row says what happened; no tool runs without approval; no scheduled job is
lost; an agent that was stopped stays stopped; a plan and the pipeline say the
same of the same market; a scan ranks all that can be ranked and records the
rest; a plan for a trade rests on a BUY of the newest scan; a run leaves no tool behind, looks at its own chart, and
an `auto` reports all of its cycles or none.

`PROJECT.json` lists every component with its sources, and every hazard with
its line and the properties that watch it.

## 2. How the modules are organised

```
PositionBook            arithmetic of positions and cash (pure)
   |
PreTradeGates           the gates of submit_order over a snapshot of the tables
   |
PaperTrading            submit_order, statement by statement   --implements-->  OrderLifecycle
   |
Reconciliation          the audit of the tables   --- PaperTradingProofs
   |
Performance             the reports over the tables
   |
ReconciliationMC, PaperTradingMC   instances for TLC

OrderLifecycle --used by-- BriefApproval --+
                           RiskLedger    --+-- OperatorDesk -- OperatorDeskMC, OperatorDeskProofs
                           FinalReview   --+
                           SchemaMigrations+
MarketAnalysis ----------- WatchlistScan --+

Sums, SumsProofs   --used by--   PaperTrading and RiskLedger, and their proofs

NotificationDedup --used by-- DailyScheduler -- DailySchedulerMC, DailySchedulerProofs
Inbox   <--implements-- TelegramInbound -- TelegramInboundMC, TelegramInboundProofs
ActorRuntime -- ActorRuntimeProofs
                        AgentScheduler +
GoalPlanner -- PlannedAnalysis --------+-- AgentWork -- AgentSchedulerMC, AgentWorkProofs
  |            AnalysisSession --------+                                        |
  |  MarketAnalysis -- TradingDecision +                                        |
GoalPlannerProofs --------------------------------- used by --------------------+
```

`OrderLifecycle` stands in the middle: `PaperTrading` implements it and
`BriefApproval` relies on it, so that the client of the engine is checked
without the engine's own state.

No module that is proved about declares a recursive operator. The replay of
`Reconciliation` is a recursive function; those of `Performance` are folds of the
community modules and live outside the proofs. `Sums` has the one operator with
which the program's accumulating loops are modelled.

## 3. The paper trading core

**PositionBook** is the arithmetic of `PositionManager` and
`AccountBalanceService`: what a trade makes of an open row (`OpenedBy`,
`merge_same_direction`, `reduce_opposite_direction`, chosen by `AppliedRow`),
what it costs (`CashEffect`, `compute_buy_required_cash`), when the manager refuses it
(`CannotApply`), and the verdict of the stop-loss monitor (`MonitorTrigger`).
Average prices, profits and prorated fees are ratios of integers: exact, as the
code's `Decimal` arithmetic means them to be, and so independent of its
rounding context. An optional value is a set with at most one element.

**PreTradeGates** is `_run_pre_trade_validation`: one disjunct per gate, in
the order the engine evaluates them, over a request and a snapshot `db` of the
tables. Market policies appear as what the gates ask of them. The position of a
timestamp in a market's calendar is part of the request, holiday tables are
data.

**PaperTrading** composes them. A *session* is one process that calls
`submit_order`. Its `pc` names the statement it issues next:

| Action | Code |
|---|---|
| `Submit`, `PreTradeValidation` | a call begins; all gates (they only read) |
| `CreateOrder`, `ValidateOrder` / `RejectOrder`, `PendOrder` | `create_order`: insert NEW, two status updates |
| `CreateTrade`, `RecordFill` | `execute_order`: insert trade, update the order |
| `ReadCash`, `WriteCash` | `AccountBalanceService.apply_trade` |
| `ReadPosition`, `WritePosition` | `PositionManager.apply_trade` |
| `ReadStop`, `WriteStop` | `set_stop_loss_take_profit`, when the caller passed a stop loss |
| `RecordKey` / `RefuseKey` | `OrderIdempotencyRepository.create`, refused by the primary key |
| `RecordApproval`, `NotifyAndReturn` | the two best-effort steps |
| `Fail` | a statement raises or the process dies before it |
| `RaiseLate` | a service refuses what the gates let through: the call ends there |

The gates are one action although they are several reads: they write nothing,
and the reads that a later write of another session could invalidate are made
again, separately, by the services (`ReadCash`, `ReadPosition`, the primary
key).

What a service refuses ends the call with an exception and leaves all that was
committed: cash and position (`ReadCash`, `ReadPosition`, `ReadStop`), a transition
that the table of the lifecycle does not allow (`MayMove`, `RefuseTransition`),
a trade for an order that is not PENDING (`CreateTrade`). A call therefore always
ends; what is worth asking is what it leaves. `StrandedOrdersAreFailures` says that
an order which no call works on has come to its end, unless a statement failed:
there are no more of the others than failures, and what a service refuses adds none.
Leave one transition out of the table and every order is stranded by a refusal.

Tables are sequences (ids are autoincremented), `keys` is a set of rows.
Four history variables record what no table does: whose cash and whose position
were written, which trades were returned, and which calls raised after their
gates had passed.

**OrderLifecycle** is the promise of the order, trade and key tables to those
who read them: statuses move forward, an order is traded at most once and only
while PENDING, it is FILLED only after its trade, and a key is recorded once,
for a FILLED order. `ImplementsLifecycle` states that `PaperTrading`, with its
failures and races, implements it; every other step is a stutter.

## 4. Reconciliation and the performance reports

**Reconciliation.** `reconcile_account` is five state predicates over the
tables of `PaperTrading`; the replay of trades (`replay_trades`) opens a new row
after a close and skips, and reports, a trade that could not have been
applied. `ReconciliationIsExact` has two halves: `UnharmedReconciles` says there
is no false alarm, `PartialTradeDetected` that an account is reported for good
when calls that broke off have lost cash, or a part of a position, that does not
add up to nothing. Losses that cancel out are not reported (section 13).

**Performance** is what the reports compute from the same tables, each by an
engine of its own:

| Definition | Code |
|---|---|
| `calculate` (with `HoldingStep`), `replay` (with `EpisodeStep`) | the replays of trades into episodes: entry, exit, trades |
| `Mismatch`, `PerformanceRaises` | the pairing of closed episodes with closed positions, and the error when their numbers differ |
| `Statistics`, `NetProfit`, `OutcomeRows` | wins, losses and profit, of all positions and of the outcomes by strategy or regime |
| `Unrealized`, `Snapshot` | profit at a quote; cash, market value and equity of an account |
| `NetResult` | `compute_daily_performance` |

Each of them is checked against another: the episodes against the rows of the
position manager, the equity of a snapshot, at every quote, against the starting
cash and what was earned since, the totals by strategy against those of the
summary, and all of them against the cash. That is `ReportsAddUp`; it holds
wherever `UnharmedReconciles` says the books are in order. Where the code takes
a SHORT position for an asset or subtracts a fee twice, the property says by how
much the report is off (section 13).

## 5. The operator's desks

Five commands with which a person decides, each of them a process that overlaps
with others of its kind. **OperatorDesk** composes them. No two write the same
table, and all that passes between them are the evidence of a review and the
briefs of an approval, which may have any status, so it lets one desk work at a
time, chosen in the initial state.

**BriefApproval.** `approve_and_submit` turns an approved decision brief into one
paper order. An *approver* is a process in that call. It reads the link and the
status of the brief (`Check`), then calls `submit_order`, of which the module
knows what **OrderLifecycle** promises: `EngineStep` takes the steps of that
module, one at a time, under the key of the brief. `Raise` is any exception or
death after the gates, `RefuseKey` the primary key of the key table, `LinkFails`
the lost link. The gates other than the one for the key are `RefusedByGate`.

The link is written after the trade and the key, which makes the two questions
of `BriefOrdersSound`.
Does a link always name the order that counts, when a race or a raised call
leaves several traded orders for one brief? It does (`LinkNamesTheOrder`). Is a
brief traded a second time? As long as its calls do not overlap, only after one
that raised inside the engine (`SecondOrderNeedsRaise`); when they do, yes
(`NeverASecondOrder` fails).

**RiskLedger.** A *clerk* records decisions and outcomes, or saves limits:

| Action | Code |
|---|---|
| `BeginDecision`, `ReadLimits`, `Judge`, `RecordDecision` | `record_decision`: limits, then statistics of the journal, then the insert with the date at that moment |
| `BeginOutcome`, `RecordOutcome` | `record_outcome`, guarded by the row that was read |
| `BeginSave`, `ReadRow`, `SaveRow` | the risk limits command: look for the one row, insert or update it |
| `NextDay` | midnight |

`evaluate` is `RiskLedgerPolicy`, over the statistics of `_compute_stats`.
`TradesPerDay` bounds what is accepted on a day by the highest limit in force,
plus one for each clerk who was judged at the same time. `AcceptedWithinLimits`
is about calls that do not overlap: a TAKE is accepted only if, at the time of
its row, the losses of that day are below the limit and no streak stands. The
day is that of the row, which may have begun after the judgement, and the streak
is restated as what the newest outcomes of any kind are.

**FinalReview.** A *reviewer* opens and closes observation windows, gives
feedback, refreshes reviews and decides:

| Action | Code |
|---|---|
| `BeginOpen`, `OpenWindow` / `BeginClose`, `CloseWindow` | `ObservationWindowService`: look, then insert; look, then update |
| `BeginReview`, `CreateFeedback`, `Review` | the beginning of the three calls, the report |
| `ListFeedback`, `FindRecord`, `CreateOrReplace`, `CreateRecord` | `_refresh_record` |
| `WriteDecision` | `record_decision` |
| `Die`, `Operate` | a process dies; the scheduler runs in a window |

That at most one window is open is what the repository says, and does not hold
(section 13). `ExtraWindowsAreRaces` says what does, of the windows that are open and the calls about to open another
together: they are more than one only after a race, when the last call of `open` that
found no window looked while another was between its look and its insert
(`rivalled`); there are at most as many as people even then, and one again once the
windows of the race have been closed.

**SchemaMigrations.** An *installer* is `init` or a migration script. `apply`
works on an image of the database that COMMIT makes visible: `BeginExclusive`
(or `BeginTimesOut`), `ReadPending`, for each migration its statements and its
version row (`NextMigration`, `RunStatement`, `InsertVersion`), `Commit`. What
goes wrong is `StatementFails`, which undoes the migration and then the batch,
`EndFails`, a COMMIT or ROLLBACK that raises and leaves the transaction open
until the process disconnects (`Disconnect`), and `ProcessDies`. `init` reads
the versions before and after, and seeds the default account (`SeekAccount`,
`SeedAccount`). `SchemaIsWhole` says that the recorded versions are the ones
whose statements have run, all of them and once, that each command's batch is on
record as a whole or not at all, and that a command which reports success tells
the truth.

**WatchlistScan.** A *watcher* is a process that scans the watchlist or asks for
a brief, over **MarketAnalysis**, the analysis of one symbol (section 8):

| Definition | Code |
|---|---|
| `AddSymbol`, `RemoveSymbol`, `HoursPass` | `WatchlistRepository`; six hours, after which a scan is stale |
| `BeginScan`, `ScanWatchlist` | the scan command takes the time and reads the list; scanner, analyses and ranking |
| `Ranked`, `Score`, `RankOf`, `ScanRows` | `RankingEngine` with its default weights, and what `run_scan` writes, in order |
| `WriteSnapshot` | one row of `ranking_snapshots`, committed on its own |
| `MaxScanTime`, `LatestSnapshot`, `Gate`, `BriefStatuses` | `list_latest`, `DecisionBriefPolicy`, `generate_brief` |
| `AskBrief`, `InsertBrief` | the brief command; the row |
| `WatcherDies` | a process dies before its next statement |

`ScansSound`: a scan that ended has one row for each symbol that was listed when
it read the list, the ranked ones first and in order, and one that died has the
first of these rows; and no evidence puts a SELL above a WAIT or a WAIT above a
BUY. `BriefsSound`: of two briefs of a symbol the later one rests on no older
scan, unless the requests overlapped; a priced plan rests on a BUY of its own
symbol in the newest scan; and a brief says that there is no snapshot only if
the newest scan did not list the symbol, or some scan was under way or has died.

## 6. The daily scheduler

A *tick* is one process started by the operating system; it reads the clock
once and goes through six jobs in order. **DailyScheduler** has an action for
each statement it commits:

| Action | Code |
|---|---|
| `BeginTick`, `BeginTickUncovered` | `tick` up to the first job; the branch for a year without holidays |
| `Gate` | time of day, `has_succeeded`, `next_retry_at` |
| `ReadRow`, `WriteStart` | `SchedulerStateRepository.start` |
| `WorkWithoutEffect`, `MarketCloseRecap` / `ReportFails`, `SessionScan`, `DataHealthCheck` | the jobs |
| `ReadPrevious`, `Notify` / `NotifyFails`, `Record` | `_apply_dedup_decision` |
| `MarkSuccess`, `AuditSuccess`, `WorkFails`, `MarkFailed` | the rest of `_attempt` |
| `Crash` | the process dies |

The clock is a number; a day has a few of them, with the sessions of the market
in between. It moves when a tick begins, which is when the code reads it.
**NotificationDedup** is `NotificationDedupPolicy.evaluate`. The audit log
matters for one thing, the time of the last session scan (`last_good`). History
variables count what reached a reader: `told`, `repeats`, `recaps`.

Ticks that do not overlap keep what the comments promise up to the unavoidable:
a report or alert is repeated only when a tick dies, or a statement or the
request itself fails, between delivery and row, and what the deduplication
remembers was delivered (`DeliveredSoundly`); a retry keeps its distance
(`RetriesAreSpaced`).
Overlapping ticks keep little: `has_succeeded` is read before the work, a later
start turns SUCCESS back into RUNNING, a suppressed alert restores an older
signature. That a day is reviewed only after its report went out, the second
half of `RowsInOrder`, survives even that.

## 7. The Telegram poller

A *poller* is one run of the command line. **TelegramInbound** follows
`poll_once` from the durable offset (`ReadOffset`), over the request (`Fetch`),
the updates of the batch one by one (`NextUpdate`, `Refuse` / `Execute`,
`Reply`, `Audit`, `AuditError`) to the offset write, which is two statements
(`GetState`, `SetLastUpdateId`). The server is external: it keeps what no
request has confirmed, confirms on the offset of the next request, returns the
earliest updates and may deliver again one confirmed a moment ago. Requests,
replies, statements and pollers fail.

**Inbox** is what senders may rely on: messages are handled in the order of
their arrival, and the server forgets only what was handled. `ImplementsInbox`
states that the poller keeps it, even with two pollers whose offset goes back.
`PollSound` has two parts. With one poller at a time a command runs again only
after a death or a failed statement. `AuditIsComplete` is about the log: no row claims more than happened, and a
message that was handled has a row unless writing it failed twice.

## 8. Actors, agents and their analyses

**ActorRuntime** is the event-sourced runtime and the tool calls over it. An
actor has a stream of events, a cursor and a cached state, which here is the set
of positions that were reduced into it. A *call* is one thread in
`Executor.execute`, with the shared actor of its agent (`CallShared`) or one of
its own (`CallOneShot`):

| Action | Code |
|---|---|
| `Ingest`, `Look`, `Fetch` | the append of `ingest`; the beginning of `step`: read the cursor, fetch the event after it |
| `ReadState`, `WriteState`, `Advance` | `_reduce_and_advance`: read `_states`, write `_states`, write `_cursors`, without a lock |
| `Check`, `WriteDecision`, `Get` | ask the approval port, append the DECISION, fetch it to reduce it |
| `RunTool`, `WriteEffect`, `Get` | the sandbox; append the EFFECT, fetch it to reduce it |
| `Reply`, `Cleanup` | the result is the last event of the stream; a one-shot actor is archived |
| `Observe`, `Terminate`, `Archive`, `Delegate`, `Cancel`, `Suspend`, `Resume` | the operations of the controller |

`append` checks its references before it takes the lock and `forget` may come
between, which is where a stream can be torn: a forgotten stream comes back with
one event in it. `SkipsAreQueued` is about the cursor and the cache. `step` moves
the cursor to the event it has reduced, over anything that was queued behind its
INTENT, and an overlapping step may then write an older cursor or an older state
over it. Whoever writes last, nothing else is passed over: an event below the cursor
was reduced once (`folded`), or was queued, and only a second reduction under way at
the same time (`clashed`) or a snapshot takes it out of the state again. That this
exception is real: of two steps that read one state, the one that advanced first may
write its state last, and then not even the event at the cursor is in it. `UndisturbedCalls` is about a call that has its actor to
itself; `disturbed` are the calls that overlap another one on their actor, that
come to one whose stream was torn, or whose stream is forgotten in the middle of
an append.

What the controller does is one step each, although `resume`, `archive_actor`,
`delegate` and `cancel` write two or three of the tables: a single thread issues
them, and the calls meet them between their own accesses, not inside.

**AgentScheduler** is the autonomous scheduler, host, agents and event bus. All
of it runs on one thread and can be re-entered, so the state is a call stack:
the frame on top goes on, calls, returns or raises. A frame is a `publish` in
progress, a subscriber, a `tick` or a cycle of an agent. Subscribers and cycles
may call any public operation (`Operation`) and may raise.

| Action | Code |
|---|---|
| `Schedule`, `Cancel`, `Clear`, `Pause`, `Resume`, `Tick`, `TakeJob`, `StartJob`, `FinishJob`, `FailJob` | the scheduler and the host |
| `RunCycle`, `CycleSucceeds`, `CycleFails` | `AutonomousAgent.run` and `step` around the pipeline |
| `PauseAgent`, `ResumeAgent`, `StopAgent`, `StopAll`, `Snapshot`, `Restore` | the agent's status machine |
| `Publish`, `CallHandler`, `Published`, `HandlerReturns`, `HandlerRaises`, `Subscribe`, `Unsubscribe` | the bus, with `once` |

`ServedOnce` has two parts. `NoJobLost` allows one way to lose a job, the one the code has: a subscriber of
`job_started` that raises. `EndedStaysEnded` allows a stop to be overwritten by
the end of the cycle it came in, and by a snapshot; `OnceUnlessNested` a second
call of a `once` handler by an event that was published while it was being
published.

**GoalPlanner** is `build_plan`: rounds of services whose required inputs are
available, each round in the order of names (`BeginRound`, `TakeService`,
`ReturnPlan`). `PlanIsClosure` says that every step finds its inputs before it,
that nothing possible is left out, and that what needs nothing but the goal comes
first: a notification goes out before the chart is drawn that it would attach.

**PlannedAnalysis** follows two ways to one analysis in the same world: the
execution of a plan, with the observation that is recorded of it, and the
fixed pipeline. A *world* is what the sources have no value for, and one service
that fails or raises. A value is the name of what it comes from, so two results
are the same if their inputs were.

| Definition | Code |
|---|---|
| `StockService` ... `NotificationService`, `Skill` | inputs and outputs of the services, in `execute` and in `SKILL_METADATA_BY_SERVICE` |
| `Sufficient`, `MayRaise`, `Output` | what `execute` cannot do without, what escapes from it, what it returns |
| `Translate`, `ExecuteStep`, `Merge`, `Record` | `translate_metadata`, `execute_plan`, `accumulate_context`, `ObservationRecorder.record` |
| `PipelineOrder`, `PrepareRisk`, `PipelineStep` | `AnalysisPipeline` |

`PlanAgreesWithPipeline`: a service in both has the same result, from the same
inputs; an exception ends both or none; the observation is what the context
gained; and what the plan leaves out is known (`OnlyPipeline`): a pattern score
that is a constant, the overall score with it, and position sizes from defaults.
It is about goals that bring nothing along which the services compute (`Plain`).

**AnalysisSession** is the prompt of `main.py`: a question, or `auto TICKER n`.

| Action | Code |
|---|---|
| `Ask`, `Auto`, `Refuse` | the commands; no provider, no ticker, no number |
| `RegisterTool`, `Analyse`, `ToolReturns` / `ToolRaises` | `RuntimeAnalysisPipeline.run` up to the `finally` |
| `RecordAndDecide`, with `Verdict` | the observation, and the chain from reflection to learning |
| `Look` | the chart is read; vision and trading decision, whose errors are caught |
| `Answer` / `ProviderRaises`, `NextCycle`, `Escape` | the reply; where an exception ends |

`SessionSound` has five parts: a run leaves no tool behind; questions and answers
alternate; the chart that is looked at is of this command, and of this run if it
drew one; an `auto` reports all of its cycles or none; a verdict counts the
observations of the process, and approves as long as there are fewer than 70.

**MarketAnalysis** is what becomes of prices, headlines and ratios: the labels
of the tools (`PriceTrend`, `OverallSentiment`, `Valuation`, `Quality`) over
inputs on both sides of each bound, the three analyses (`TextAnalysis`,
`CryptoAnalysis`, `ForexAnalysis`), and the entry that a decision or a scan gets
(`MarketEntry`, `FailedEntry`).

**TradingDecision** begins where `Look` of a session has found a chart:

| Definition | Code |
|---|---|
| `NoVision`, `ShowChart`, `ProviderAnswers`, `PipelineRaises` | `_maybe_run_vision` around `VisionMarketStatePipeline.run` |
| `ReadLine`, `FieldValues` | `VisionResponseParserSkill`, one line of the answer at a time |
| `Reasonings`, `Agreement`, `MarketState`, in `Reason` | five reasoning skills, their fusion and the market state |
| `AnalyseSymbol` | `_maybe_run_trading_decision`, with the analysis of the one symbol, or none |
| `Action`, `PositionRisk`, ... `ReportStatus`, in `DecisionOn` | the skills of `TradingDecisionAgent`, each a function of what the one before put out |

A value that is read from a picture is named for the word the code looks for.
`DecisionSound` says what the chain amounts to, for every answer, every symbol
and every capital. The market state does not depend on the trend
(`StateIgnoresTrend`), because the trend skill puts out no evidence and a missing
one counts as known. And nothing is allocated, ordered, held or reported
(`DecisionIsInert`), because the words and keys of neighbouring skills do not
match (section 13). Both are what the code does rather than what it is for: the
second is also the reason why a decision needs no approval.

**AgentWork** puts the four beside each other. They share no state but the
status of an agent; to a job an analysis is foreign code that returns or
raises, and what is made of a chart goes into no other run. So one of them works
at a time, chosen in the initial state.

## 9. Runs

| Run | Instance | Question |
|---|---|---|
| `PaperBooks` | one session, 4 submissions, 1 failure, 10 IDX and 5 forex requests, quotes of 0 and 5 | is cash the sum of the applied trades, and are positions; is every open forex position protected; do the gates ask for everything the services ask for; is a trade without a key always one of a broken call; does reconciliation raise no false alarm and miss none; do the reports add up |
| `PaperRace` | two sessions, 3 submissions, 1 failure, 2 requests | do orders and trades agree, does a key mean a completed request, does at most one call per key return, do the tables stay sane under lost updates; is every order that was left behind one of a broken call; is the lifecycle implemented |
| `OperatorDesk` | two people, one of five desks | does a link name the order that counts, is a brief traded again only after a raise or a race; are the limits of the day kept; is a window too many always one of a race, and gone with it; does a final decision rest on evidence and on a person; is the schema whole, whoever fails or dies; is a scan whole and ranked soundly, what does a brief rest on |
| `ActorLog` | 3 actors, 2 calls that meet at every read and write of stream, cursor and cache, delegation one level deep, controls as `MaxEffort` leaves room | does a tool run only when approved; what does a call return that nobody overlaps; what do a cursor and a cache leave out, whichever is written last; does a forgotten stream come back |
| `AgentCalls` | one of four: 2 agents, 2 jobs, 2 handlers, 6 calls, a stack of 8; 12 services, 9 goals, every world; 3 commands of up to 3 cycles; every answer, analysis and two capitals | is a job lost, a cycle doubled, a stop undone, a `once` handler called twice; is a plan complete and in order, does its execution agree with the pipeline; what does a session leave behind, look at and report; what does a decision depend on, and what comes of it |
| `SchedulerDay` | one tick at a time, a day that is not covered and one of 5 instants, 2 failures, 1 crash, fair | is a review preceded by a report; are retries spaced, reports and alerts repeated only by crashes and failures, is nothing remembered that was not delivered; is the day recapped and reviewed in the end |
| `InboundPoll` | one poller, 5 updates of all kinds, 2 failures, 1 crash, fair | what runs again; does the audit log tell the truth and the whole of it; is every update handled |
| `InboundRace` | two pollers, 3 updates, 1 failure, 1 crash | is no update lost or overtaken |
| `StopLossRaises`, `SharedAgent`, `BriefTwice`, `RecapTwice` | the smallest instance | a sentence of the documentation that the code does not keep (section 13) |

Every `Max...` constant is a bound of the model, not of the code. Bounds on
tables and calls (`MaxSubmissions`, `MaxCalls`, `MaxEntries`, `MaxOutcomes`,
`MaxSaves`, `MaxJournalCalls`, `MaxScans`, `MaxAsks`, `MaxRows`, `MaxReviewed`, `MaxFeedback`, `MaxCommands`, `MaxJobs`,
`MaxHandlers`, `MaxActors`, `MaxEffort`, `MaxEvents`, `MaxDepth`, `MaxCycles`) cap what the environment
asks for; bounds on faults (`MaxFailures`, `MaxRaises`, `MaxLinkFailures`,
`MaxCrashes`, `MaxFaults`, `MaxDeaths`) how often it fails; `MaxUpsets` bounds
changes of the watchlist, hours that pass and deaths together.

*Paper trading.* Four calls are enough to open, add to, reduce, close and
re-open a position, to break one call and retry it with its key, and to close
two episodes. Three calls by two sessions are enough for two calls that race and
a third that meets what they left: the same key, another order on the same
symbol, a sale of what both bought. The account has cash for two or three
orders, so that the cash gate, its boundary with fees, and the refusal in
`ReadCash` all happen; the lot size is 2 and the limits of `MCPolicy` are low
enough to refuse some requests and not others. Prices take two to three values,
so average prices that are no integers occur; a quote of 0 is below and one of 5
between them. The forex requests open a short position, cover it, cover too
much of it, and merge at another price, so that a closed SHORT makes the
pairing of episodes fail. `PaperBooks` has a VIEW without the approval rows
and the notifications, which nothing reads.

*Desks.* The desk is chosen in the initial state, so the run is the sum of five
explorations and not their product. People are symmetric: no constant tells one
from another. Four approvals are enough for a race, a call after it and one
more. Two sets of limits, three decisions and two outcomes over two days are
enough for a limit that is lowered between two decisions, a streak, and an entry
that is decided on one day and closed on the next; six calls of the seven that
these bounds add up to leave out only the histories that exhaust all three. Three migrations of one or
two statements, three commands, one failing statement and one death are enough
for a batch that fails in the middle while another process waits, and for a
third that finds what the two left. Two scans and two briefs are enough for
scans that overlap and for a brief between, before and after their rows. The
list starts with one symbol, may get a second one, and a symbol is found to be
bought, to be sold, or fails; `EvidenceBreaksTies` is about all findings. There may be
three windows, one more than people, so that a third next to two open ones would be
found, and so would a second after a race is over: `MaxRows` bounds windows and rows of feedback together, and all
but opening and closing is about the first two windows (`MaxReviewed`).

*Actors and agents.* Two calls on one actor meet at every read and write of the
stream, the cursor and the cache; `MaxEvents` of 6 has room for both INTENTs, their
answers and one that is written twice. Three actors make a parent, a child and a
one-shot actor. `MaxEffort` bounds calls and controls together, a call counting
twice: two calls leave room for one control, one call for three. A job of one agent and
one of two, two handlers and a stack of 8 frames are enough for a cycle that
calls back into a tick that starts a cycle, from a subscriber of an event of the
scheduler itself.

*Plans and sessions.* The services are all of those there are. A goal is a set of
keys; the nine of `SomeGoals` have what a service needs alone, what several need,
all that risk management needs, a notification, and keys that a service would
compute. A world lacks any of five values and disturbs at most one service. A
session starts with 0, 43 or 68 observations: from there, three commands pass the
45th and the 70th, where the verdict could change. Three cycles make one that
fails in the middle and a last one.

*Scheduler.* The day of `SchedulerDay` has one instant in session and four after
the close: the recap can fail at the first and at the second of these, wait 1
and then 2, and still be followed by a review. `MinInterval` of 2 leaves room
for an alert inside and one outside the limit. `AttemptCap` keeps the counters
of the repeatable jobs finite; backoff is constant from there on. `MaxExponent`
is 1023 in the code. It is 1 in `SchedulerDay`, where the backoff of the third
attempt overflows. Batches of two updates out of three or five
make a poller fetch more than once.

Deadlock is not checked: when the calls are used up and every call has ended,
the system has stopped.

## 10. Fairness

`SchedulerDay`: the operating system starts tick after tick (weak fairness
of `BeginTick` at the present time), a tick that runs takes its next step (weak
fairness), and time passes: strong fairness of a tick that begins later than the
last one, because ticks at one instant may go on for ever in the model and
cannot in the world. Failures and crashes have no fairness and are bounded.

`InboundPoll`: somebody polls again and again, and a poll takes its next step.
Nothing in a poll waits but the request, which has a timeout.

The other runs ask safety questions and assume no fairness.

## 11. What is proved

Eight modules hold the proofs. None of the theorems bounds the number of
processes, calls or failures; what they assume of the constants are the named
ASSUMEs of the modules: typed constants, and for paper trading symbols that are
not blank and at least one request, for approvals at least one brief, for the
ledger finitely many clerks, for reviews finitely many reviewers. The scheduler
also assumes that the powers of two it waits for are numbers (`PowersOfTwo`),
which no backend knows of `^` and TLC evaluates. `AnalysesAgree` is about the
twelve services there are (`AnalysisAssumption`: the planner's constants are
theirs, and `sorted()` puts two of the names before a third); the theorems about
plans of any services are in a module that does not see this assumption. Six theorems are about one
process at a time and say so in their hypothesis (`OneSession` of
`GatesAndStops`, `LedgersAreSums` and `ReconciliationTells`, `OnePoller` of
`PollStaysSound`, `OneTick` of `ReportsAndAlertsDelivered` and
`RetriesAreKeptApart`), because what they state is false for two, as the code is.

**SumsProofs** is what the sums over sets of trades and losses need.
`SumOver` is a recursive function over the subsets of a set that picks an element
of each. The lemmas say that the choice does not matter (`AnyOrder`), so that a
sum depends on its terms alone (`SumOfSame`), grows by the term of a new element
(`SumOfOneMore`), is that of its parts (`SumOfParts`), and is a natural number
when its terms are (`SumOfNats`). The induction on the size of a set that
they would be by is replaced by a least counterexample: the sets for which one
of them fails have cardinalities, hence a least one, and taking an element from
it gives a smaller one.

**PaperTradingProofs** begins with the arithmetic of `PositionBook`: every
operator maps rows to rows with a positive denominator, and `AppliedRowType` says
that a trade which `CannotApply` lets through makes a sound row of a sound row,
one that is closed exactly when nothing is left. Then

* `TypeCorrect` (`TypeOK`), `OrdersAgreeWithTrades` (`OrderTradeAgreement`),
  `KeysMeanApplied` (`KeyMeansApplied`), `AtMostOneReturn` (`OneReturnPerKey`) and
  `PortfolioStaysSane` (`PortfolioStateSane`). None of them is inductive alone.
  `KeyMeansApplied` is about what a session did eight statements earlier, so the
  invariant `IInv` of `PaperTrading` adds, for each session and each value of its
  `pc`, what it may rely on (`JobInv`): that its order exists and has the status
  this point of the call implies, that its trade is the one of its order, whether
  its cash and its position have been written, that the row it is about to write
  is sound. `OwnOrders` says that no two sessions work on the same order: with
  it, a step of one session cannot disturb what another relies on. A step of
  session `s` is described by what it leaves alone (`Grows`, `KeepsOrder`,
  `KeysKept`, `ReturnedKept`), the lemmas `OthersKeep` and `OwnOrdersKept` carry
  the invariants of the other sessions over any such step, and one lemma per
  action shows the rest. `StepKeepsIInv` collects them.
* `SubmitOrderImplementsLifecycle` (`ImplementsLifecycle`), step by step: under
  `IInv` seven statements are a step of `OrderLifecycle` (`CreateOrderInserts`,
  `TransitionRefines`, `CreateTradeTrades`, `RecordFillFills`,
  `RecordKeyCompletes`), every other one leaves the three tables alone and
  stutters.
* `FailuresAccountForTrades` (`UnrecordedTradesAreFailures`) counts. The trades
  that neither a key nor a running session accounts for are as many as the
  failures and late refusals at most; a step adds one to the left only if it
  adds one to the right, because an order is refused late once (`LateInv`).
* `FailuresAccountForOrders` (`StrandedOrdersAreFailures`) counts in the same way
  the orders that no call works on and that have not come to their end.
* `ForexStaysProtected`, for any number of sessions, and `GatesAndStops`
  (`GatesAndStopsHold`) for one. `BookInv` follows the rows: a position that is
  open and not protected is in the hands of a session about to write its stop
  loss, and what a session is about to write is protected. That survives
  sessions that overwrite each other, because each writes a row that is sound on
  its own. `GateInv` carries what the gates saw up to the statement that relies
  on it, which needs that nobody else changed it: `OneSession`. `ColumnsMatch`
  relates rows to the request they come from. The attempt found a case that the
  bounded run did not reach and `GatesSuffice` did not name: a SELL whose fee and
  tax exceed its proceeds passes the gates and is refused for cash.
* `LedgersAreSums` (`LedgersMatchTrades`), again for one session: cash is the
  opening balance and the effects of the trades applied to it, and what is open
  in a symbol is what the trades applied to it bought and sold, for any number of
  trades. `LedgerInv` carries through the statements that the amount and the row a
  session is about to write back are those of the tables as they still are
  (`Pending`), and that its trade has not been counted before (`Unapplied`).
* `ReconciliationTells` (`ReconciliationIsExact`), for one session: what was shown
  of quantities carried over to whole rows. The audit replays all trades of a
  symbol, so its result after n trades is unfolded by least counterexample over n
  (`ReplayUnfold`), depends on the first n trades alone (`ReplayOfPrefix`), and
  holds what those bought and sold (`ReplayAddsUp`). `AuditInv` then says of
  the running system that the replay of what is booked finds the rows of the table
  (`ReplayFinds`, `Settled`), compared without stop losses, of which the replay
  knows nothing (`Bare`); that an open row is the last of its symbol
  (`OpenIsLatest`); and that every trade has filled its order and is in the cash,
  or its session is about to see to it (`Accounted`). That there is no missed alarm
  divides a sum into what is on the books and what was lost (`LostAndBooked`).
  The proof refuted an earlier form, which took any single failure to be detected:
  a forex cover that is refused late and a SELL at the same price that broke off
  can lose amounts that cancel, and the account reconciles.

**TelegramInboundProofs**. `PollersImplementInbox` (`ImplementsInbox`) for any
number of pollers: `OrderInv` says that whatever is confirmed, stored or in hand
has everything before it handled, and that a batch is a stretch without gaps
from the lowest update that is left (`Least`). So the next update is always
either handled already or the next one of `Inbox`, although offsets go back.
`AuditStaysComplete` (`AuditIsComplete`) rests on `AuditInv`: what the status
of a poller claims of its current update is so (`Claim`), and what is handled is
on record or in the hands of a poller about to put it there. `PollStaysSound`
(`PollSound`) adds `RepeatInv` for one poller: what is beyond the offset and not
in hand has been run once per death or failure at most.

**ActorRuntimeProofs**. The many actions of a call are first reduced to fourteen
kinds, one for each access (`Works`), and what is not a call to what it may do to a
stream, a cursor and a cache (`Environment`). `LogInv` then says what a call holds
from one access to the next: that its positions are those of events, and that a call
about to write its EFFECT relies on a DECISION somewhere in the stream. Streams only
grow, except when one is forgotten, and a call whose stream was forgotten
under it appends to a stream that is in `torn` from then on. That is why the
properties exclude torn streams, and it is the only reason. `EffectsAreApproved`
(`EffectsApproved`) and `LogStaysSound` (`LogSound`) follow from it.

`JumpsAreAccounted` (`SkipsAreQueued`) cannot rely on where the cursor is, since it
may have been moved by any call at any time, and back. `SkipInv` therefore says of
*every* position that a cursor may be given, the one it has and those that calls
under way are about to give it, that all below was reduced or is covered by an answer
written over it. And of the cached state it says the same as of the states that calls have
read and are about to write: what is missing from them was reduced by somebody else, and
then the actor is in `clashed`, because the one who read second found the other
between its read and its write.

`CallsOnTheirOwn` (`UndisturbedCalls`) is about a call that is alone on its actor,
but after others. `DrainInv` says what these leave: the one who moved the
cursor last goes on from there until nothing is left, so that either no INTENT is
ahead of the cursor or a call under way will meet it. `SoloInv`: a call that comes
alone finds the actor drained when it enqueues its own INTENT, so its own is
the only one ahead of it and runs once, and the last answer on the stream is its own
(`Own`); an INTENT that it leaves behind is never reached by another call
(`Over`). An earlier attempt found that the property is false, beyond the bounds of
the run, when an actor is forgotten in the middle of an append and resumed by a
replay: a stale DECISION puts the cursor back and a call runs the tool of another
again. Such calls are `disturbed`.

**OperatorDeskProofs** has a part for each desk. `BriefsHaveTheirOrders`
(`BriefOrdersSound`): `OrdersInv` says that each call has an order of its own brief, that no other
call has, with the status that the point of the call implies, and that a key
stands for one filled order; that makes a link name the order that counts. `RaceInv` is
about briefs whose calls do not overlap: they have one call at a time and no
key while that is past its gates, and all traded orders but one were lost by a
call that raised, which is a fact about cardinalities (`LossesAreRaises`).
`TradesStayWithinLimits` (`TradesPerDay`): what is accepted on a day and what
has been judged but not written stay together below the highest limit, plus one
for each further clerk if calls overlapped (`RoomForPending`). It needs that
no row is from the future, or midnight would fill a day, and that a limit in
the hands of a clerk has been in force (`LimitsKnown`).
`AcceptedStaysWithinLimits` (`AcceptedWithinLimits`) is about what the losses are
when a TAKE is written, several steps after it was judged. As long as calls did not
overlap nothing else is written in between (`AloneUnlessCrowded`), so that the
limits and the outcomes that were read still stand (`JudgedOnWhatStands`). The day
may end in between: no outcome is from the future (`ClosedByNow`), so that the
losses of the new day sum to 0 (`LossNextDay`), and the limit is above that
because a sum of naturals was below it (`SumOfNats`). The code looks
for a streak with a count of losses newer than any other outcome, the property
among the newest outcomes; `CooldownIsNoStreak` shows by a count that the first
excludes the second.

Of the final review there are `ReviewTypeCorrect` (`ReviewTypeOK`),
`DecisionsRestOnEvidence` (`FinalNeedsEvidence`), `WindowsAreOpenedOneByOne`
(`ExtraWindowsAreRaces`), `DecisionsAreMadeByPeople` (`OnlyPeopleDecide`). Types here
say more than sets: what a call carries (its window, its list of feedback, its
decision) is of the window it began with (`CallsOK`), and a record lists
feedback of its own window (`RecordsOK`). Windows are counted by an argument
about cardinalities: the first call of `open` finds no window open and nobody about to open
one; those that look before it inserts are other people, each once, and nobody
who looks later goes on.
`RecordsListTheirFeedback` (`FeedbackIsLinked`) counts as well: unless calls
overlapped there is one at a time (`LinksInv`), what it writes is the list as it
stands (`UpToDate`), and what no record names is, without that which it is
about to name (`ToLink`), a row per call that died at most, and its own.

Of the migrations there is `SchemaStaysWhole` (`SchemaIsWhole`). The invariant
`SchemaInv` says of every process what its image of the database is:
(`OwnImage`) the committed schema, plus the migrations it has done, plus as many
statements of the current one as it has run. There is one lock holder, so the
committed schema under an image does not change (`InstallerOK`), and each
command number is used by one process (`CommandsOK`), so a batch is told from
another. `LocalStep` covers every step that leaves the committed schema alone;
what remains are `Commit` and the seeding of the account.

Of the scans there are `ScansStaySound` (`ScansSound`) and `BriefsFollowScans`
(`BriefsSound`), for any number of processes and symbols. That evidence only
breaks ties (`EvidenceBreaksTies`) is a count of votes. The places of a ranking
are a bijection onto its length, because a symbol is placed after those that
beat it and the relation is total, and an injection of a finite set into itself
is onto; so the list is in order and the rows made of it (`ScanRows`) are a
whole table. `ScanInv` then says that the rows on record of a scan under way are
the first of those it has computed (`WatcherOK`), those of one that died the
first of a whole table (`TableOK`), that no two processes write the same scan
(`OneScanEach`), and that a brief carries what it saw (`SheetsOK`). A newest scan
exists whenever there is one, which is well-foundedness of the numbers.

The desk itself takes its parts together: `DeskRunsEachPart` shows that a step of
it is a step of one part and a stutter of the four others, so that a behaviour of
the desk is one of each part; `DeskTablesStaySound` (`DeskTablesOK`) collects what
is proved of their tables.

**DailySchedulerProofs**. `RowsStayInOrder` (`RowsInOrder`) holds for ticks that
overlap in any way. Its invariant (`RowsInv`) says of a tick in the middle of an
attempt (`Begun`) that its row has counted it, which is what keeps the exponent
of the backoff a natural number, and that one which sends word of success for
the recap, or has passed the gate of the review, finds the report delivered;
that is stable, whatever the rows become. `ReportsAndAlertsDelivered`
(`DeliveredSoundly`) assumes `OneTick`. For reports (`ReportsInv`) an attempt
begins when none has succeeded, and the reports beyond the one that the row
knows of, or will (`Reported`), are paid for by deaths and failures. For alerts
(`AlertsInv`) a delivery is either the one remembered (`Synced`), or in the hands
of the tick that is about to record it (`InHand`), or loose: the next delivery
may repeat a loose one, and each death or failure leaves at most one (`Budget`).
That needs to know what a tick read before it acted (`Informed`): its decision
was taken on the row that is still there.
`RetriesAreKeptApart` (`RetriesAreSpaced`) adds up the backoffs of any number of
attempts. `SpacedInv` says of the row that its attempt did not begin early and
that, when it failed, its time of retry leaves room for the next backoff
(`RecapSpaced`), and of a tick past the gate that it has waited (`Patient`). The sum of
the backoffs is a recursive function, unfolded by least counterexample. The
attempt found what the bounded run did not reach: when the backoff of an attempt
overflows, its row stays RUNNING, which no gate waits for, and the next attempt
begins at once. The property says up to where it holds, and the proof which rows
are beyond that (`Spent`).

**GoalPlannerProofs**: `PlanIsClosureThm` (`PlanIsClosure`) and `PlanIsLeastThm`, for
any services, any inputs and outputs and any goal: the plan is the least set
of services that the goal and the set itself suffice for, in an order in which it
can be executed. The invariant says what is available (the goal and the outputs
of the steps), that steps and what remains divide the services, and that all of
a round was satisfied when it began; that the services of the goal come first
follows from the first round, which has all of them.

**AgentWorkProofs** has four parts. Of calls: a stack that every callback may re-enter
has four moves: `Pushed`, `Popped`, `Replaced`, `CalledFrom`. `FramesInv` says what a
frame may look like (`Sound`), what it is to the frame that it called
(`Called`), and what waits on top (`TopSound`); every action is one of the
moves, and no move disturbs the frames below. `AgentsStaySound` (`AgentsSound`)
adds that an agent in a cycle is not IDLE (`AwakeInCycle`), which keeps
a second cycle out. `JobsAndHandlersServedOnce` (`ServedOnce`) adds for jobs
that one that failed is in the list of those that ended, and for handlers
`OnceInv`: a handler belongs to one event, one that was served is not
subscribed any more, and a publication that would still call one is under
another of the same event. `EndedAgentsStayEnded` (`EndedStaysEnded`) follows
from the frames alone.

Of a session: `SessionStaysSound` (`SessionSound`). `SessionInv` adds to the five parts of the property which runs are of the command under
way and how many cycles it has left (`CommandOK`), of which run the chart is at
each phase (`ChartOK`), and that what has been reported is of earlier commands
(`ReportsOK`): a command that ends in an error never reports, so it reports all of its
cycles or none.

Of a decision: `DecisionStaysSound` (`DecisionSound`), for any answer of the
provider. `Unfolding` says which part of the decision each stage has made and
from which earlier ones; that it is inert follows from the words alone, since no
skill writes the word or key which the next one looks for, so that the order is
rejected and nothing is allocated or held.

Of the two ways to an analysis: `AnalysesAgree` (`PlanAgreesWithPipeline`), for every
goal the property is about (`Plain`) and every world. Neither way is compared with the other: both are compared
with a third, which has no order. `Supplied` says by the goal and the world alone
which services have what they need, and `Expected` what each of them reads under
each key. Each key that one service makes for others has one service that makes it
(`Feeder`, `GivesOf`, `ReadsOf`); `scoring` hands the scores on as it got them. `ContextOK` says of a context in which some
services are done what it holds under every key, and it is kept when the next one is a
service whose feeders are done (`ContextKept`); a service asked in such a context is
answered as it has to be (`ResultMatches`), and raises if it would end any run that
comes to it (`RaisesIsDeadly`). What is left is that both orders feed every service
first. That of the pipeline is a table (`PipelineFacts`). Of a plan, that a required
input is made before it is read follows from `PlanIsClosure`; the technical score
only *may* read the moving averages and the indicators, and gets them because all
three become possible in one round, in which the names are sorted
(`IndicatorsFirst`): with other names a plan would score without them. The inputs
that the pipeline makes up for risk management are read by no other service
(`RiskKept`). What is recorded of the steps is what the last of them to write a key
has written (`Recorded`), which is what the context has gained (`RecordedAppend`).

## 12. What is only model-checked

* Liveness (`DaysAreReviewed`, `EveryUpdateHandled`), because it
  needs fairness and ENABLED.
* `ReportsAddUp`. The reports are folds over sequences of trades that carry records
  from one to the next, with ratios that are multiplied and divided. The library's
  induction theorems take an operator as a parameter, which no installed prover
  can instantiate. A least counterexample stands in for them where the folded
  value is a number (`LedgersAreSums`) or a row (`ReconciliationTells`); the
  episodes need the same again for each of four reports, and their equalities
  are nonlinear, for which the provers have no decision procedure.

## 13. Where the code and its documentation disagree

Four are runs that fail as expected; `PROJECT.json` quotes the lines.

* `StopLossRaises`: a merge at another price can make the new stop loss invalid
  against the average price after everything is committed; the call raises,
  the key is not written, and a retry trades again.
* `SharedAgent`: two tool calls that share the actor of their agent run one tool
  twice, or return the answer of the other call.
* `BriefTwice`: two overlapping approvals of one brief submit two paper orders.
* `RecapTwice`: a tick that begins while another one is in the job takes its RUNNING
  row for that of a dead one and sends the report of the day again, without any failure.

Others were met while modelling. The models contain what the code does there,
and a property either names the exception or is not about it.

Paper trading:

* A forex order that only covers a short passes the margin gate, is FILLED, and
  is then refused for cash.
* The stop loss of an IDX, US or crypto order is written to its position
  (`Business/paper_trading_engine.py:958`), not ignored as line 173 says.
* Losses that cancel reconcile clean: the checks compare totals
  (`Business/reconciliation_engine.py:350`), so that cash lost by two trades of opposite
  effect is not reported.
* A failure between trade insert and fill leaves a PENDING order with a trade
  (`Business/execution_service.py:244`), which
  `Business/reconciliation_engine.py:45` rules out.
* Two processes can insert two open rows for one symbol
  (`Business/position_manager.py:384`).
* The stop-loss monitor takes every position for LONG and reports a SHORT one as
  stopped out at its entry price
  (`Business/stop_loss_take_profit_monitor.py:292`).

Reports:

* Episodes are replayed as if every position were LONG: an account that has
  closed a SHORT gets an error about numbers that differ instead of its
  performance by strategy or regime
  (`Business/strategy_performance_service.py:233`).
* A snapshot adds the value of a SHORT position to the equity
  (`Business/portfolio_snapshot_service.py:201` and 227), and its unrealized
  profit has the wrong sign (`Business/unrealized_pnl_engine.py:322`).
* `net_result` takes off fees and taxes that `realized_pnl` has already taken off
  (`Business/daily_performance_service.py:225`).
* The summary counts open positions as closed ones that broke even
  (`Business/win_rate_engine.py:80`), and a drawdown divides by a peak of zero
  (`Business/maximum_drawdown_engine.py:104`). Neither ratio is modelled.

Desks:

* A link that was lost cannot be written later: the used key refuses every other
  call first (`Services/brief_approval_service.py:246`).
* Overlapping calls open more than one window, of which
  `Repository/persistence/observation_window_repository.py:106` says there is at
  most one, and accept more than `max_trades_per_day`, the maximum that
  `Repository/persistence/risk_limits_repository.py:58` documents. Of two first saves
  of the limits that overlap one raises
  (`Repository/persistence/risk_limits_repository.py:80`).
* A cooldown after losses has no clock: it lasts until another outcome or other
  limits come. A loss that is recorded without its exit price never counts
  towards the losses of the day. The date of a decision is taken after the
  statistics it was judged on (`Services/journal_service.py:118`).
* When the COMMIT of a batch fails, the transaction stays open until the process
  disconnects: `commit` has emptied its stack before it raises
  (`Database/sqlite_database.py:518`), so that the following `rollback` finds
  nothing to do. Nothing is persisted, but the lock is not released at once as
  `Database/migrations.py:114` says.
* After a failure `init` prints `Rollback: BLOCKED` also when nothing of its own was
  left behind, because another process migrated in between or because of the open
  transaction (`Core/init_command.py:190`); its registry lists ten of about twenty sets of migrations, so that
  neither `init` nor `doctor` notices the others missing
  (`Database/migration_registry.py:38`).

Scans, briefs and decisions:

* Evidence can put a BUY of medium confidence (38 points) above one of high
  confidence (37): the weights of evidence overturn the order of two confidences,
  which `Business/ranking_weights_config.py:105` says they do not by default. The
  order of two recommendations they never overturn (`EvidenceBreaksTies`).
* `Business/decision_brief_policy.py` takes a missing snapshot to mean that no scan
  has recorded one. A scan that is being written, or that died, hides all earlier
  rows (`Services/decision_brief_service.py:238`).
* Without risk arguments the brief command shows the newest brief on record,
  however old it is (`main.py:2546`); the policy on stale data is not asked again.
* The trend takes no part in a market state: its reasoning has no evidence, which
  counts as known (`Orchestration/evidence_fusion_skill.py:236`), so that a market is
  CONFIRMED, with `All evidence available`, although the answer said nothing of it.
* The action of a decision is WATCH, IGNORE or EXIT where the skills after it know
  WAIT and SELL; a risk of NORMAL has no size; the allocation is put under
  `allocated_capital` and looked for under `capital`
  (`Orchestration/order_validation_skill.py:250`), the position under `position`
  and looked for under `status` (`Orchestration/portfolio_monitor_skill.py:179`).
* `_maybe_run_trading_decision` says that an UNAVAILABLE state is not handed on
  (`Orchestration/runtime_analysis_pipeline.py:610`); it is, without a symbol, so
  that the agent decides about nothing.

Actors and agents:

* A cache of states cannot always be rebuilt by a replay, as
  `Core/runtime.py:170` says: events that were queued behind an INTENT are
  skipped by the cursor and never reduced.
* The event at the cursor need not be in the cached state, as `Core/runtime.py:165`
  says: two steps that overlap write their states in any order (line 382).
* Resuming with the same version of the reducer puts back the state of the
  snapshot and leaves the cursor where it was (`Core/runtime.py:566`).
* A child that has been archived makes the cancellation of its parent fail half
  way (`Core/runtime.py:804`).
* A stop or pause that arrives during a cycle is overwritten when the cycle ends
  (`Orchestration/autonomous_agent.py:1074`).
* A job whose start is interrupted by a subscriber is neither queued nor reported
  (`Orchestration/autonomous_scheduler.py:301`).

Plans and sessions:

* A plan notifies before it draws, in the first round: no notification of a plan
  carries a chart or anything else the analysis found
  (`Orchestration/planner.py:713`).
* Nothing produces `AVG_RETURN`, so the pattern score of the pipeline is the
  constant 50 (`Services/pattern_service.py:45`), and a plan without it in its goal
  has neither that score nor the overall one.
* The entry price that `translate_metadata` supplies (line 905 of the planner) is
  never used by a plan: risk management is planned only if the goal brings an
  entry price, because nothing is declared to produce one.
* The verdict counts observations: from the 70th on every one is rejected for
  concentration, whatever the analyses say
  (`Orchestration/runtime_analysis_pipeline.py:785`).
* A cycle of `auto` that has drawn no chart is shown the one of an earlier cycle
  (line 587 of the same file).
* `auto` plans and discards the plan; the pipeline runs in each cycle. Nothing but
  tests calls `execute_plan`.
* A cycle that fails before the last one loses the results of the others, and
  leaves the agent in an error that no command clears
  (`Orchestration/autonomous_agent.py:1157`).

Scheduler and poller:

* Attempts that succeeded count too, so the first failure of a repeatable job
  waits for more than the base delay.
* The alert for a year without holidays calls a method that does not exist
  (`Orchestration/idx_daily_scheduler.py:647`), and the tick ends there.
* The backoff of the 1025th attempt of a day overflows in the handler that
  should contain a failure (line 423 of the same file). The row stays RUNNING,
  and the next tick begins another attempt without any wait.
* The first freshness alert says degraded when the data is fresh (line 570).
* A second poller executes updates that the durable offset already covers, and
  moves the offset back (`Orchestration/telegram_inbound_control_plane.py:368`).
* A failed offset write escapes from `poll_once` (line 392), which says that it
  never raises.

## 14. Not modelled, and why

*Nothing to interleave.* Attribution of trades, the other providers, the copilot, evaluation
and the dashboard compute or present; they share no state that another actor writes. Most of what they compute is the wording of prompts
and reports, calls to language models and floating-point statistics. Composition
root and the rest of the command line are wiring: they make the processes that are the sessions,
approvers, clerks, reviewers and installers of the models. This is most of the
repository's lines.

*Nothing that runs.* No composition of the program creates a workflow runtime
or an executor of tasks. With the real host they could not run a task: the
executor hands the host a task (`Orchestration/executor.py:239`) where the host
calls `run` on an agent (`Orchestration/autonomous_host.py:136`), so that every
workflow fails and loses its first task. The dry-run service previews an order,
writes nothing, and is the only one to consult the human approvals.

*What the models need of it is stated where it is needed.* Database sessions:
each statement commits on its own (`PaperTrading`). A backup copies a file.

Within the modelled parts: holiday tables and environment parsing (data);
`take_profit`, which no caller passes; `OrderRepository.update`, which only
tests call; decimal rounding; the prices of a brief; the weights of a ranking
that are set by environment variables; what reviews, reports and Telegram
commands compute or say; the labels of strategies and regimes, drawdown, win
rate and the other ratios of the summary; the statements of a migration; the
plan an agent keeps, which guards nothing; what the planner recalls and resolves
besides its plan; indicators, scores and what a picture or a model says; what a reducer computes; a
failed read of the poller's offset, after which nothing has changed.

## 15. Plan

What is left, the most consequential first:

1. `ReportsAddUp` for any number of trades, with the replays as recursive functions
   like `replay_trades`: the equity of a snapshot first, which is a sum over rows
   and needs only `LedgersMatchTrades`, then the episodes.
2. The gates of the dry-run service compared with `PreTradeGates`.
