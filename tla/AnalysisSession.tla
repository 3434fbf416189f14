-------------------------- MODULE AnalysisSession ---------------------------
(***************************************************************************)
(* The interactive session of main.py: questions that StockAgent answers   *)
(* (Agents/stock_agent.py), and `auto TICKER n`, n cycles of the           *)
(* AutonomousAgent. Both run RuntimeAnalysisPipeline                       *)
(* (Orchestration/runtime_analysis_pipeline.py): a tool registered for     *)
(* this run only executes the analysis, puts an observation into memory    *)
(* and derives a verdict; then the chart is read from its file and looked  *)
(* at. An exception in a question ends the process, one in a cycle puts    *)
(* the autonomous agent in error.                                          *)
(***************************************************************************)
EXTENDS Naturals, Sequences

CONSTANTS
  Remembered,   \* how many observations the process may have at the start
  MaxCycles,    \* bound on the n of auto
  MaxCommands   \* bound on the commands of a session

ASSUME SessionAssumption ==
  Remembered \subseteq Nat /\ MaxCycles \in Nat /\ MaxCommands \in Nat

VARIABLES
  phase,         \* "prompt", "run", "tool", "text", "look", "reply" or "over"
  command,       \* the command being executed, and its cycles
  autonomous,    \* AutonomousAgent._status between cycles
  tools,         \* ToolRegistry._tools: private tools, by run
  chart,         \* the run whose chart is in the file of the command, or 0
  records,       \* the length of MemoryStore
  signal,        \* the LearningLoopResult of the last verdict
  conversation,  \* ConversationMemory, roles only
  \* history, read by no action:
  run,           \* runs so far
  drawn,         \* whether the run has drawn its chart
  looks,         \* what the vision pipeline was shown
  began,         \* the length of memory at the start
  analyses,      \* analyses that came to their end
  reports        \* what auto commands have printed

sessionHistory == <<run, drawn, looks, began, analyses, reports>>
sessionVars ==
  <<phase, command, autonomous, tools, chart, records, signal, conversation,
    sessionHistory>>

Phases == {"prompt", "run", "tool", "text", "look", "reply", "over"}
NoCommand == [kind |-> "none", cycles |-> 0, left |-> 0, first |-> 0, number |-> 0]

SessionInit ==
  /\ phase = "prompt" /\ command = NoCommand /\ autonomous = "IDLE"
  /\ tools = {} /\ chart = 0 /\ records \in Remembered /\ signal = "NONE"
  /\ conversation = << >> /\ run = 0 /\ drawn = FALSE /\ looks = {}
  /\ began = records /\ analyses = 0 /\ reports = {}

-----------------------------------------------------------------------------
(* From the number of observations to a verdict.                           *)

\* DecisionEngine.decide
Decide(score) ==
  IF score >= 70 THEN "BUY" ELSE IF score >= 45 THEN "HOLD" ELSE "SELL"

\* DecisionPolicy._POLICIES; the position size in halves.
Policy(action) ==
  CASE action = "BUY"  -> [entry |-> TRUE, exit |-> FALSE, halves |-> 2, risk |-> "NORMAL"]
    [] action = "HOLD" -> [entry |-> FALSE, exit |-> FALSE, halves |-> 1, risk |-> "LOW"]
    [] action = "SELL" -> [entry |-> FALSE, exit |-> TRUE, halves |-> 0, risk |-> "HIGH"]

\* PolicyGuard.evaluate
Approved(p) ==
  ~(p.entry /\ p.exit) /\ p.halves \in 0 .. 2 /\ p.risk \in {"LOW", "NORMAL", "HIGH"}

\* ExecutionIntent.build, ExecutionPlanner.plan and ExecutionCoordinator.coordinate
\* hand approval and size on.
Intend(p) == [ready |-> Approved(p), halves |-> p.halves]

PlanExecution(intent) == [planned |-> intent.ready, halves |-> intent.halves]

Coordinate(plan) == [coordinated |-> plan.planned, halves |-> plan.halves]

\* PortfolioEngine.evaluate
Portfolio(c) ==
  [approved |-> c.coordinated, allocation |-> IF c.coordinated THEN c.halves ELSE 0]

\* PortfolioRisk.assess: more than half of it is a concentration.
RiskApproved(q) == q.approved /\ q.allocation \in 0 .. 2 /\ ~(q.allocation > 1)

\* LearningLoop.learn
Learn(approved) == IF approved THEN "POSITIVE" ELSE "NEGATIVE"

\* Reflector.reflect counts, and the count is the score.
Verdict(count) ==
  LET plan == PlanExecution(Intend(Policy(Decide(count))))
  IN  Learn(RiskApproved(Portfolio(Coordinate(plan))))

-----------------------------------------------------------------------------
(* The prompt. Each command has a chart file of its own, empty at first.   *)

Command(kind, cycles) ==
  /\ phase = "prompt" /\ command.number < MaxCommands
  /\ command' = [kind |-> kind, cycles |-> cycles, left |-> cycles,
                 first |-> run + 1, number |-> command.number + 1]
  /\ chart' = 0

Ask ==
  /\ Command("chat", 1)
  /\ conversation' = Append(conversation, "USER")
  /\ phase' = "run"
  /\ UNCHANGED <<autonomous, tools, records, signal, sessionHistory>>

\* No provider, no ticker in the question, an n that is no number.
Refuse ==
  /\ phase = "prompt" /\ command.number < MaxCommands
  /\ phase' = "over"
  /\ UNCHANGED <<command, autonomous, tools, chart, records, signal, conversation,
                 sessionHistory>>

Report(results) ==
  reports' = reports \cup
    {[number |-> command'.number, cycles |-> command'.cycles, results |-> results]}

\* AutonomousAgent.run refuses no cycles, and its first step refuses an agent
\* in error. The plan that is made first is not used for anything.
AutoCommand(n) ==
  /\ Command("auto", n)
  /\ \/ /\ n > 0 /\ autonomous = "IDLE"
        /\ phase' = "run" /\ UNCHANGED reports
     \/ /\ n = 0 \/ autonomous = "ERROR"
        /\ phase' = "prompt" /\ Report(0)
  /\ UNCHANGED <<autonomous, tools, records, signal, conversation, run, drawn,
                 looks, began, analyses>>

-----------------------------------------------------------------------------
(* RuntimeAnalysisPipeline.run.                                            *)

RegisterTool ==
  /\ phase = "run" /\ phase' = "tool"
  /\ run' = run + 1 /\ tools' = tools \cup {run + 1} /\ drawn' = FALSE
  /\ UNCHANGED <<command, autonomous, chart, records, signal, conversation,
                 looks, began, analyses, reports>>

\* MemoryRecorder.record, and the verdict over all that is then in memory.
RecordAndDecide == records' = records + 1 /\ signal' = Verdict(records + 1)

\* The chart is drawn into the file of the command, or left as it is.
Draw(success) ==
  drawn' = success /\ chart' = IF success THEN run ELSE chart

\* AnalysisPipeline returns: a service that failed is one of its results.
Analyse ==
  /\ phase = "tool" /\ phase' = "text"
  /\ \E success \in BOOLEAN : Draw(success)
  /\ RecordAndDecide /\ analyses' = analyses + 1
  /\ UNCHANGED <<command, autonomous, tools, conversation, run, looks, began, reports>>

ToolReturns ==
  /\ phase = "text" /\ phase' = "look"
  /\ tools' = tools \ {run}
  /\ UNCHANGED <<command, autonomous, chart, records, signal, conversation,
                 sessionHistory>>

\* An exception on its way up: the process ends, or the cycle is reported as
\* failed if it was the last one, or the next step raises and all results of
\* the command are lost.
Escape ==
  \/ /\ command.kind = "chat" /\ phase' = "over"
     /\ UNCHANGED <<command, autonomous, reports>>
  \/ /\ command.kind = "auto" /\ phase' = "prompt" /\ autonomous' = "ERROR"
     /\ UNCHANGED command
     /\ Report(IF command.left = 1 THEN command.cycles ELSE 0)

\* A tool that raises, if it were unregistered by a run that succeeds only.
ToolRaisesUncleaned ==
  /\ \/ phase = "tool" /\ \E success \in BOOLEAN : Draw(success)
     \/ phase = "text" /\ UNCHANGED <<drawn, chart>>
  /\ Escape
  /\ UNCHANGED <<tools, records, signal, conversation, run, looks, began, analyses>>

\* The tool is not approved, a service raises, before or after the chart, or
\* the text cannot be built from what is already recorded.
ToolRaises ==
  /\ \/ phase = "tool" /\ \E success \in BOOLEAN : Draw(success)
     \/ phase = "text" /\ UNCHANGED <<drawn, chart>>
  /\ tools' = tools \ {run}
  /\ Escape
  /\ UNCHANGED <<records, signal, conversation, run, looks, began, analyses>>

\* _maybe_run_vision and _maybe_run_trading_decision, whose errors are caught.
Look ==
  /\ phase = "look" /\ phase' = "reply"
  /\ looks' = looks \cup
       {[run |-> run, own |-> drawn, shown |-> chart, first |-> command.first]}
  /\ UNCHANGED <<command, autonomous, tools, chart, records, signal, conversation,
                 run, drawn, began, analyses, reports>>

-----------------------------------------------------------------------------
Answer ==
  /\ phase = "reply" /\ command.kind = "chat" /\ phase' = "prompt"
  /\ conversation' = Append(conversation, "ASSISTANT")
  /\ UNCHANGED <<command, autonomous, tools, chart, records, signal, sessionHistory>>

ProviderRaises ==
  /\ phase = "reply" /\ command.kind = "chat" /\ Escape
  /\ UNCHANGED <<tools, chart, records, signal, conversation, run, drawn, looks,
                 began, analyses>>

NextCycle ==
  /\ phase = "reply" /\ command.kind = "auto"
  /\ command' = [command EXCEPT !.left = @ - 1]
  /\ \/ command.left > 1 /\ phase' = "run" /\ UNCHANGED reports
     \/ command.left = 1 /\ phase' = "prompt" /\ Report(command.cycles)
  /\ UNCHANGED <<autonomous, tools, chart, records, signal, conversation, run,
                 drawn, looks, began, analyses>>

SessionNext ==
  \/ Ask \/ Refuse \/ (\E n \in 0 .. MaxCycles : AutoCommand(n))
  \/ RegisterTool \/ Analyse \/ ToolReturns \/ ToolRaises \/ Look
  \/ Answer \/ ProviderRaises \/ NextCycle

SessionSpec == SessionInit /\ [][SessionNext]_sessionVars

-----------------------------------------------------------------------------
\* A tool of a run exists only while that run executes it, however the run
\* ends (runtime_analysis_pipeline.py:549-553).
ToolsArePrivate == tools = IF phase \in {"tool", "text"} THEN {run} ELSE {}

\* A provider is always shown questions and answers in turn, the last question
\* unanswered: one that fails takes the process with it (stock_agent.py:199-231).
TurnsAlternate ==
  /\ \A i \in DOMAIN conversation :
       conversation[i] = IF i % 2 = 1 THEN "USER" ELSE "ASSISTANT"
  /\ phase \in Phases \ {"prompt", "over"} =>
       (command.kind = "chat" <=> Len(conversation) % 2 = 1)
  /\ phase = "prompt" => Len(conversation) % 2 = 0

\* The chart that is looked at is the one this run has drawn. When it has drawn
\* none, it is nothing or, unnoticed, one of an earlier cycle of the same auto;
\* it is never one of another command (main.py:78, 103-121).
ChartsAreOfTheCommand ==
  \A l \in looks :
    IF l.own THEN l.shown = l.run ELSE l.shown = 0 \/ l.shown \in l.first .. l.run - 1

\* An auto reports all of its cycles or none. It reports none, or a failure at
\* the end, only if the agent is in error from then on, so that at most one
\* such command has run at all (autonomous_agent.py:1049-1080, 1153-1161).
AutoReportsAllOrNone ==
  /\ \A r \in reports : r.results \in {0, r.cycles}
  /\ \A r, q \in reports :
       r.cycles > 0 /\ r.results = 0 /\ q.number > r.number => q.results = 0
  /\ autonomous = "IDLE" => \A r \in reports : r.results = r.cycles

\* The verdict counts analyses and reads none of them: it approves until the
\* 70th observation of the process, and nothing after it
\* (runtime_analysis_pipeline.py:776-786, portfolio_risk.py:162).
VerdictCountsAnalyses ==
  /\ records = began + analyses
  /\ analyses > 0 => (signal = "POSITIVE" <=> records < 70)

\* The session keeps its runs apart, and tells what it did.
SessionSound ==
  /\ phase \in Phases /\ ToolsArePrivate /\ TurnsAlternate
  /\ ChartsAreOfTheCommand /\ AutoReportsAllOrNone /\ VerdictCountsAnalyses
=============================================================================
