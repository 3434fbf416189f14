-------------------------- MODULE PlannedAnalysis ---------------------------
(***************************************************************************)
(* Two ways to the same analysis: the plan of GoalPlanner and its          *)
(* execution (Orchestration/planner.py, service_skill.py, observation.py), *)
(* and the fixed sequence of Core/analysis_pipeline.py, over the twelve    *)
(* services of Services/. Both are followed in the same world, one after   *)
(* the other: what a source has no value for, and a service that fails or  *)
(* raises, are the same for both.                                          *)
(*                                                                         *)
(* A value is the name of what it comes from; two values of one name are   *)
(* equal if the service had equal inputs both times. The entry that the    *)
(* pipeline adds under the name of a service is read by none of them and   *)
(* is left out.                                                            *)
(***************************************************************************)
EXTENDS GoalPlanner

VARIABLES
  world,       \* what is missing at the sources, and the service in trouble
  stage,       \* "plan", then "execute", "record", "pipeline" and "end"
  context,     \* the metadata of the run in progress
  executed,    \* what execute_plan has collected, a record for each step
  observed,    \* aggregated_outputs of the Observation
  known,       \* the context that execute_plan ended with
  answered,    \* the results of the pipeline
  raised       \* the runs that an exception has ended

analysisVars ==
  <<plannerVars, world, stage, context, executed, observed, known, answered,
    raised>>

-----------------------------------------------------------------------------
(* The services. SKILL_METADATA_BY_SERVICE declares what each one needs,   *)
(* may read and gives, and its execute reads and gives just that; what it  *)
(* cannot do without is in Sufficient.                                     *)

RiskInputs ==
  {"ENTRY_PRICE", "STOP_LOSS", "TAKE_PROFIT", "RISK_PER_TRADE", "BALANCE"}
RiskOutputs == {"STOP_PRICE", "TARGET_PRICE", "RISK_AMOUNT", "SIZE", "REWARD"}
Scores == {"TECHNICAL_SCORE", "FUNDAMENTAL_SCORE", "PATTERN_SCORE"}
Fundamentals == {"PER", "ROE", "DIVIDEND_YIELD"}
Averages == {"MA20", "MA50", "MA200"}
Bands == {"BOLLINGER_UPPER", "BOLLINGER_LOWER"}

StockService ==
  [needs |-> {}, reads |-> {"TICKER", "PERIOD", "INTERVAL"},
   gives |-> {"TICKER", "HISTORY", "INFO", "PRICE"} \cup Fundamentals]

TechnicalIndicatorService ==
  [needs |-> {"HISTORY"}, reads |-> {},
   gives |-> {"RSI", "MACD", "MACD_SIGNAL", "ATR", "OBV"} \cup Bands]

MovingAverageService == [needs |-> {"HISTORY"}, reads |-> {}, gives |-> Averages]

TechnicalScoreService ==
  [needs |-> {"PRICE"}, reads |-> {"RSI"} \cup Averages \cup Bands,
   gives |-> {"TECHNICAL_SCORE"}]

FundamentalService ==
  [needs |-> Fundamentals, reads |-> {"PER_SECTOR", "ROE_SECTOR"},
   gives |-> {"FUNDAMENTAL_SCORE"}]

BacktestService ==
  [needs |-> {"HISTORY"}, reads |-> {"STRATEGY", "CAPITAL", "FAST_PERIOD", "SLOW_PERIOD"},
   gives |-> {"STRATEGY", "TOTAL_RETURN", "FINAL_CAPITAL", "TOTAL_TRADE",
              "WIN_RATE", "TRADE_HISTORY"}]

PatternService ==
  [needs |-> {"WIN_RATE", "AVG_RETURN"}, reads |-> {}, gives |-> {"PATTERN_SCORE"}]

ChartService ==
  [needs |-> {"HISTORY"}, reads |-> {"TICKER", "INDICATORS", "IMAGE_PATH"},
   gives |-> {"FIGURE", "IMAGE_PATH", "CHART_METADATA"}]

NewsService ==
  [needs |-> {}, reads |-> {"TICKER", "MAX_NEWS"}, gives |-> {"TICKER", "NEWS", "TOTAL_NEWS"}]

RiskManagementService == [needs |-> RiskInputs, reads |-> {}, gives |-> RiskOutputs]

ScoringService ==
  [needs |-> Scores, reads |-> {}, gives |-> Scores \cup {"OVERALL_SCORE", "LABEL"}]

\* CREDENTIAL: the webhook, or the token and the chat, that its channel needs.
NotificationService ==
  [needs |-> {"CHANNEL", "MESSAGE"}, reads |-> {"TITLE", "IMAGE_PATH", "CREDENTIAL"},
   gives |-> {"CHANNEL", "STATUS", "RESPONSE"}]

Skill ==
  [stock |-> StockService, technical_indicator |-> TechnicalIndicatorService,
   moving_average |-> MovingAverageService, technical_score |-> TechnicalScoreService,
   fundamental |-> FundamentalService, backtest |-> BacktestService,
   pattern |-> PatternService, chart |-> ChartService, news |-> NewsService,
   risk_management |-> RiskManagementService, scoring |-> ScoringService,
   notification |-> NotificationService]

ServiceNames == DOMAIN Skill
RequiredInputs == [s \in ServiceNames |-> Skill[s].needs]
ProducedOutputs == [s \in ServiceNames |-> Skill[s].gives]
Inputs(s) == Skill[s].needs \cup Skill[s].reads
MetadataKeys == UNION {Inputs(s) \cup Skill[s].gives : s \in ServiceNames}

Has(c, k) == c[k] \notin {"absent", "none"}

\* What execute asks of its context: less than what is declared in two cases,
\* more in one.
Sufficient(s, c) ==
  CASE s = "fundamental" -> \E k \in Fundamentals : Has(c, k)
    [] s = "pattern" -> \E k \in {"WIN_RATE", "AVG_RETURN"} : Has(c, k)
    [] s = "notification" -> \A k \in {"CHANNEL", "MESSAGE", "CREDENTIAL"} : Has(c, k)
    [] OTHER -> \A k \in Skill[s].needs : Has(c, k)

\* Services whose execute lets an exception out.
MayRaise == {"stock", "technical_indicator", "moving_average", "chart", "risk_management"}

Undisturbed == [missing |-> {}, down |-> "nothing", raises |-> FALSE]

Worlds ==
  {w \in [missing : SUBSET (Fundamentals \cup {"PRICE", "IMAGE_PATH"}),
          down : {"nothing"} \cup ServiceNames, raises : BOOLEAN] :
     w.raises => w.down \in MayRaise}

Raises(s, c) == Sufficient(s, c) /\ world.down = s /\ world.raises

Succeeds(s, c) == Sufficient(s, c) /\ world.down # s

\* What a service finds in its context: an output that was None is as good as
\* absent, and the ticker and the strategy have a default.
Read(s, k, c) ==
  IF Has(c, k) THEN c[k]
  ELSE IF s \in {"stock", "news", "backtest"} /\ k \in {"TICKER", "STRATEGY"} THEN "default"
  ELSE "absent"

\* The ticker, the strategy and the channel are returned as they were read (in
\* the form the services bring them into), the image path if the image could be
\* written, and the scores as they came.
Output(s, k, c) ==
  IF s \in {"stock", "chart"} /\ k \in world.missing THEN "none"
  ELSE IF k \in Inputs(s) THEN IF Read(s, k, c) = "absent" THEN "none" ELSE Read(s, k, c)
  ELSE IF s = "pattern" /\ ~(Has(c, "WIN_RATE") /\ Has(c, "AVG_RETURN")) THEN "default"
  ELSE s

\* The result of a service, with the inputs it found.
Result(s, c) ==
  [service |-> s, success |-> Succeeds(s, c), used |-> [k \in Inputs(s) |-> Read(s, k, c)],
   data |-> IF Succeeds(s, c) THEN [k \in Skill[s].gives |-> Output(s, k, c)] ELSE << >>]

\* What is assumed of the planner's constants: they are those of the twelve services,
\* and two names are sorted before a third.
ASSUME AnalysisAssumption ==
  /\ Keys = MetadataKeys
  /\ Services = ServiceNames
  /\ Required = RequiredInputs
  /\ Produced = ProducedOutputs
  /\ Rank["moving_average"] < Rank["technical_score"]
  /\ Rank["technical_indicator"] < Rank["technical_score"]

Merge(c, data) == [k \in Keys |-> IF k \in DOMAIN data THEN data[k] ELSE c[k]]

GoalContext == [k \in Keys |-> IF k \in goal THEN "goal" ELSE "absent"]

-----------------------------------------------------------------------------
AnalysisInit ==
  /\ PlannerInit
  /\ world = Undisturbed
  /\ stage = "plan" /\ context = GoalContext /\ executed = << >>
  /\ observed = << >> /\ known = GoalContext /\ answered = << >> /\ raised = {}

(* build_plan, which reads nothing of the world. *)
Plan ==
  /\ stage = "plan" /\ (BeginRound \/ TakeService)
  /\ UNCHANGED <<world, stage, context, executed, observed, known, answered, raised>>

PlanReturned ==
  /\ stage = "plan" /\ ReturnPlan
  /\ stage' = "execute" /\ world' \in Worlds
  /\ UNCHANGED <<context, executed, observed, known, answered, raised>>

(* translate_metadata: the price stands in for a missing entry price. *)
Translate(s, c) ==
  IF s = "risk_management" /\ Has(c, "PRICE") /\ c["ENTRY_PRICE"] = "absent"
  THEN [c EXCEPT !["ENTRY_PRICE"] = c["PRICE"]] ELSE c

(* One step of execute_plan, and accumulate_context. *)
ExecuteStep ==
  LET s == steps[Len(executed) + 1]
      seen == Translate(s, context)
  IN
  /\ stage = "execute" /\ Len(executed) < Len(steps)
  /\ \/ /\ Raises(s, seen)
        /\ raised' = raised \cup {"plan"} /\ stage' = "pipeline"
        /\ context' = GoalContext
        /\ UNCHANGED <<executed, known>>
     \/ /\ ~Raises(s, seen)
        /\ executed' = Append(executed, Result(s, seen))
        /\ context' = Merge(context, Result(s, seen).data)
        /\ UNCHANGED <<stage, known, raised>>
  /\ UNCHANGED <<plannerVars, world, observed, answered>>

PlanExecuted ==
  /\ stage = "execute" /\ Len(executed) = Len(steps)
  /\ stage' = "record" /\ known' = context /\ context' = GoalContext
  /\ UNCHANGED <<plannerVars, world, executed, observed, answered, raised>>

(* ObservationRecorder.record: the outputs of the steps that succeeded,    *)
(* later ones over earlier ones.                                           *)
Recorded(results) ==
  [k \in UNION {DOMAIN results[i].data : i \in DOMAIN results} |->
     LET writers == {i \in DOMAIN results : k \in DOMAIN results[i].data}
         last    == CHOOSE i \in writers : \A j \in writers : j <= i
     IN  results[last].data[k]]

Record ==
  /\ stage = "record"
  /\ observed' = Recorded(executed)
  /\ stage' = "pipeline"
  /\ UNCHANGED <<plannerVars, world, context, executed, known, answered, raised>>

-----------------------------------------------------------------------------
(* AnalysisPipeline. *)

PipelineOrder ==
  <<"stock", "technical_indicator", "moving_average", "technical_score",
    "fundamental", "backtest", "pattern", "chart", "news", "risk_management",
    "scoring">>

\* _prepare_risk_management_context, if the price overruled an entry price.
PrepareRiskByPrice(c) ==
  [k \in Keys |->
     IF k = "ENTRY_PRICE" /\ Has(c, "PRICE") THEN c["PRICE"]
     ELSE IF k \in RiskInputs \ {"ENTRY_PRICE"} /\ c[k] = "absent" THEN "default"
     ELSE c[k]]

\* _prepare_risk_management_context: what is not given gets a default, and
\* the entry price the last price.
PrepareRisk(c) ==
  [k \in Keys |->
     IF k \notin RiskInputs \/ c[k] # "absent" THEN c[k]
     ELSE IF k # "ENTRY_PRICE" THEN "default"
     ELSE IF Has(c, "PRICE") THEN c["PRICE"] ELSE "absent"]

PipelineStep ==
  LET s == PipelineOrder[Len(answered) + 1]
      seen == IF s = "risk_management" THEN PrepareRisk(context) ELSE context
  IN
  /\ stage = "pipeline" /\ Len(answered) < Len(PipelineOrder)
  /\ \/ /\ Raises(s, seen)
        /\ raised' = raised \cup {"pipeline"} /\ stage' = "end"
        /\ UNCHANGED <<context, answered>>
     \/ /\ ~Raises(s, seen)
        /\ answered' = Append(answered, Result(s, seen))
        /\ context' = Merge(seen, Result(s, seen).data)
        /\ UNCHANGED <<stage, raised>>
  /\ UNCHANGED <<plannerVars, world, executed, observed, known>>

PipelineEnds ==
  /\ stage = "pipeline" /\ Len(answered) = Len(PipelineOrder)
  /\ stage' = "end"
  /\ UNCHANGED <<plannerVars, world, context, executed, observed, known, answered,
                 raised>>

AnalysisNext ==
  \/ Plan \/ PlanReturned \/ ExecuteStep \/ PlanExecuted \/ Record
  \/ PipelineStep \/ PipelineEnds

AnalysisSpec == AnalysisInit /\ [][AnalysisNext]_analysisVars

-----------------------------------------------------------------------------
Computed == UNION {Skill[s].gives \ Inputs(s) : s \in ServiceNames}

\* A goal that brings nothing along that the services are there to compute.
Plain == goal \cap Computed = {}

\* What the pipeline gives a service that a plan leaves without inputs: a
\* pattern score of a constant, and the score it is part of; and position
\* sizes from defaults.
OnlyPipeline ==
  (IF "AVG_RETURN" \in goal THEN {} ELSE {"pattern", "scoring"})
    \cup (IF RiskInputs \subseteq goal THEN {} ELSE {"risk_management"})

Same(r, q) == r.success = q.success /\ (r.success => r.used = q.used)

\* A plan that is executed says of each service what the pipeline says of it,
\* from the same inputs, and leaves out exactly the services of OnlyPipeline
\* (planner.py:712-732 against analysis_pipeline.py:39-51).
SameAnswers ==
  stage = "end" /\ raised = {} /\ Plain =>
    /\ \A i \in DOMAIN executed : \A j \in DOMAIN answered :
         executed[i].service = answered[j].service => Same(executed[i], answered[j])
    /\ {answered[j].service : j \in DOMAIN answered} \ Planned = OnlyPipeline

\* An exception ends both runs or none, unless it is that of a service only
\* the pipeline runs (planner.py:833, analysis_pipeline.py:100).
SameExceptions ==
  stage = "end" /\ Plain =>
    ("plan" \in raised <=> "pipeline" \in raised /\ world.down \notin OnlyPipeline)

\* What was observed of an executed plan is what its context gained: nothing
\* that was put there for one step stays (planner.py:888-899, observation.py:313).
ObservationIsContext ==
  stage \in {"pipeline", "end"} /\ "plan" \notin raised =>
    known = Merge(GoalContext, observed)

\* A notification of a plan tells what the goal says, never what the analysis
\* has found: no chart, and no path of one, is drawn before it.
NotifiesTheGoal ==
  \A i \in DOMAIN executed : Plain /\ executed[i].service = "notification" =>
    \A k \in DOMAIN executed[i].used : executed[i].used[k] \in {"absent", "goal"}

\* The two ways agree.
PlanAgreesWithPipeline ==
  SameAnswers /\ SameExceptions /\ ObservationIsContext /\ NotifiesTheGoal
=============================================================================
