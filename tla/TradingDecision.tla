--------------------------- MODULE TradingDecision --------------------------
(***************************************************************************)
(* From a chart to a trading decision: VisionMarketStatePipeline           *)
(* (Orchestration/vision_market_state_pipeline.py) asks a provider what    *)
(* the chart shows, reads its answer line by line and makes a market state *)
(* of it; TradingDecisionAgent (Orchestration/trading_decision_agent.py)   *)
(* then puts the symbol through fourteen skills, each of them fed with the *)
(* output of the one before.                                               *)
(*                                                                         *)
(* Entries of the skills are records with the keys the code gives them,    *)
(* symbols and texts left out. A skill that asks for a key nobody has      *)
(* given gets "none" (None), as dict.get does.                             *)
(***************************************************************************)
EXTENDS MarketAnalysis, Functions

CONSTANT
  Capitals   \* what an agent may be given to allocate; the pipeline gives 0

ASSUME DecisionAssumption == Capitals \subseteq Nat

VARIABLES
  sight,         \* "chart", "ask", "read", "decide", "allocate" and "done"
  prompt,        \* prompt_status of the vision prompt, or "none"
  symbol,        \* the kind of the symbol looked at, or "none"
  parsed,        \* parsed_fields of VisionResponseParserSkill
  market_state,  \* the mapping that was made of them, or "none"
  stocks,        \* output of MarketAnalysisSkill
  decision,      \* the results of the skills after it
  told           \* history: the evidence the answer had something for

decisionVars ==
  <<sight, prompt, symbol, parsed, market_state, stocks, decision, told>>

Get(entry, key) == IF key \in DOMAIN entry THEN entry[key] ELSE "none"

-----------------------------------------------------------------------------
(* The question to the provider.                                           *)

VisionRequest(chart_path) == IF chart_path # "" THEN "READY" ELSE "INVALID"

VisionAnalysis(status) ==
  CASE status = "READY"   -> "PENDING"
    [] status = "INVALID" -> "INVALID"
    [] OTHER              -> "UNKNOWN"

VisionPrompt(analysis_status) ==
  CASE analysis_status = "PENDING" -> "READY"
    [] analysis_status = "INVALID" -> "INVALID"
    [] OTHER                       -> "UNKNOWN"

-----------------------------------------------------------------------------
(* The answer of the provider. A value is named for the word that is       *)
(* looked for in it; one without such a word is "other".                   *)

FieldValues ==
  [trend              |-> {"bull", "bear", "side", "other"},
   rsi_signal         |-> {"overbought", "oversold", "other"},
   macd_signal        |-> {"bull", "bear", "other"},
   volume_signal      |-> {"high", "low", "other"},
   candlestick_pattern |-> {"hammer", "shooting", "other"},
   support            |-> {"level", "none"},
   resistance         |-> {"level", "none"}]

VisionFields == DOMAIN FieldValues

\* A trend with an evidence, like the others.
TrendReasoningWithEvidence(p) ==
  [evidence |-> IF Get(p, "trend") \in {"bull", "bear", "side"} THEN "TREND" ELSE "UNKNOWN"]

\* What the reasoning skills make of the fields. The trend has a direction and
\* a state, and no evidence.
TrendReasoning(p) ==
  LET found == Get(p, "trend")
  IN  [trend_direction |->
         CASE found = "bull" -> "UP" [] found = "bear" -> "DOWN"
           [] found = "side" -> "SIDEWAYS" [] OTHER -> "none",
       trend_state |->
         CASE found \in {"bull", "bear"} -> "TRENDING" [] found = "side" -> "RANGING"
           [] OTHER -> "UNKNOWN"]

\* What speaks for a fall is looked for first.
MomentumReasoning(p) ==
  [evidence |->
     IF Get(p, "rsi_signal") = "overbought" \/ Get(p, "macd_signal") = "bear" THEN "BEARISH"
     ELSE IF Get(p, "rsi_signal") = "oversold" \/ Get(p, "macd_signal") = "bull"
     THEN "BULLISH" ELSE "UNKNOWN"]

VolumeReasoning(p) ==
  [evidence |->
     CASE Get(p, "volume_signal") = "high" -> "HIGH_VOLUME"
       [] Get(p, "volume_signal") = "low"  -> "LOW_VOLUME"
       [] OTHER -> "UNKNOWN"]

CandlestickReasoning(p) ==
  [evidence |->
     CASE Get(p, "candlestick_pattern") = "hammer"   -> "BULLISH_PATTERN"
       [] Get(p, "candlestick_pattern") = "shooting" -> "BEARISH_PATTERN"
       [] OTHER -> "UNKNOWN"]

SupportResistanceReasoning(p) ==
  [evidence |->
     IF Get(p, "support") = "level" /\ Get(p, "resistance") = "level"
     THEN "LEVELS_PRESENT" ELSE "UNKNOWN"]

Reasonings(p) ==
  [trend |-> TrendReasoning(p), momentum |-> MomentumReasoning(p),
   volume |-> VolumeReasoning(p), pattern |-> CandlestickReasoning(p),
   level |-> SupportResistanceReasoning(p)]

\* EvidenceFusionSkill: None is not "UNKNOWN".
Agreement(reasonings) ==
  IF \A r \in Range(reasonings) : Get(r, "evidence") # "UNKNOWN" THEN "FULL" ELSE "PARTIAL"

\* MarketStateSkill
MarketState(agreement) ==
  CASE agreement = "FULL"    -> "CONFIRMED"
    [] agreement = "PARTIAL" -> "DEVELOPING"
    [] OTHER                 -> "UNCERTAIN"

-----------------------------------------------------------------------------
(* The skills of the decision, for one entry.                              *)

\* The recommendation itself for an action.
ActionIsRecommendation(entry) == entry.analysis.recommendation

\* RecommendationSkill
Action(entry) ==
  LET a == entry.analysis
  IN  CASE a.recommendation = "BUY" /\ a.confidence \in {"HIGH", "MEDIUM"}  -> "BUY"
        [] a.recommendation = "BUY" /\ a.confidence = "LOW"                 -> "WATCH"
        [] a.recommendation = "WAIT" /\ a.confidence \in {"HIGH", "MEDIUM"} -> "WATCH"
        [] a.recommendation = "WAIT" /\ a.confidence = "LOW"                -> "IGNORE"
        [] a.recommendation = "SELL" /\ a.confidence \in {"HIGH", "MEDIUM"} -> "EXIT"
        [] a.recommendation = "SELL" /\ a.confidence = "LOW"                -> "IGNORE"
        [] OTHER -> "UNKNOWN"

Recommendation(entry) == [action |-> Action(entry)]

PositionRisk(entry) ==
  [action |-> entry.action,
   risk |-> CASE entry.action = "BUY" -> "NORMAL" [] entry.action = "WAIT" -> "LOW"
              [] entry.action = "SELL" -> "NONE" [] OTHER -> "UNKNOWN"]

TradePlan(entry) ==
  LET signal == <<entry.action, entry.risk>>
  IN  [action |-> entry.action, risk |-> entry.risk,
       plan |-> CASE signal = <<"BUY", "NORMAL">> -> "ENTER"
                  [] signal = <<"WAIT", "LOW">>   -> "MONITOR"
                  [] signal = <<"SELL", "NONE">>  -> "EXIT"
                  [] OTHER -> "UNKNOWN"]

PositionSizing(entry) ==
  LET sized == entry.risk \in {"LOW", "MEDIUM", "HIGH"}
  IN  [action |-> entry.action, risk |-> entry.risk, plan |-> entry.plan,
       position_size |->
         CASE entry.action = "BUY" /\ entry.risk = "LOW"    -> "FULL"
           [] entry.action = "BUY" /\ entry.risk = "MEDIUM" -> "HALF"
           [] entry.action = "BUY" /\ entry.risk = "HIGH"   -> "SMALL"
           [] entry.action = "WAIT" /\ sized -> "WATCH"
           [] entry.action = "SELL" /\ sized -> "EXIT"
           [] OTHER -> "UNKNOWN"]

CapitalAllocation(entry, capital) ==
  [action |-> entry.action, risk |-> entry.risk, plan |-> entry.plan,
   position_size |-> entry.position_size,
   allocated_capital |->
     CASE entry.position_size = "FULL"  -> capital
       [] entry.position_size = "HALF"  -> capital \div 2
       [] entry.position_size = "SMALL" -> capital \div 4
       [] OTHER -> 0]

\* The amount is looked for under another key than it was put.
OrderValidation(entry) ==
  [action |-> entry.action,
   status |->
     CASE entry.action = "BUY" /\ "capital" \in DOMAIN entry /\ entry.capital > 0
            -> "APPROVED"
       [] entry.action = "WAIT" -> "HOLD"
       [] entry.action = "SELL" -> "EXIT"
       [] OTHER -> "REJECTED"]

PaperExecution(entry) ==
  [action |-> entry.action,
   execution_status |->
     CASE entry.status = "APPROVED" -> "EXECUTED" [] entry.status = "HOLD" -> "PENDING"
       [] entry.status = "EXIT" -> "CLOSED" [] OTHER -> "SKIPPED"]

TradeHistory(entry) ==
  [action |-> entry.action, execution_status |-> entry.execution_status]

\* PortfolioUpdateSkill
PortfolioUpdate(entry) ==
  [position |->
     CASE entry.execution_status = "EXECUTED" -> "OPEN"
       [] entry.execution_status = "CLOSED"   -> "CLOSED"
       [] OTHER -> "NONE"]

\* The status of the position that is there.
MonitorPosition(entry) ==
  CASE entry.position = "OPEN" -> "ACTIVE" [] entry.position = "CLOSED" -> "FINISHED"
    [] OTHER -> "INACTIVE"

\* PortfolioMonitorSkill, likewise under another key.
MonitorStatus(entry) ==
  LET found == Get(entry, "status")
  IN  CASE found = "OPEN" -> "ACTIVE" [] found = "CLOSED" -> "FINISHED"
        [] found = "NONE" -> "INACTIVE" [] OTHER -> "UNKNOWN"

Performance(monitored) ==
  CASE monitored = "ACTIVE" -> "TRACKING" [] monitored = "FINISHED" -> "COMPLETED"
    [] monitored = "INACTIVE" -> "IDLE" [] OTHER -> "UNKNOWN"

Alert(performance) ==
  CASE performance = "TRACKING" -> "WATCH" [] performance = "COMPLETED" -> "ARCHIVE"
    [] performance = "IDLE" -> "HOLD" [] OTHER -> "UNKNOWN"

ReportStatus(alert) ==
  CASE alert = "WATCH" -> "READY" [] alert = "ARCHIVE" -> "STORED"
    [] alert = "HOLD" -> "WAIT" [] OTHER -> "UNKNOWN"

\* TradingDecisionAgent.execute after the analysis, for one entry.
DecisionOn(entry, capital) ==
  LET action    == Recommendation(entry)
      sized     == PositionSizing(TradePlan(PositionRisk(action)))
      allocated == CapitalAllocation(sized, capital)
      order     == OrderValidation(allocated)
      position  == PortfolioUpdate(TradeHistory(PaperExecution(order)))
  IN  [action |-> action.action, allocated |-> allocated.allocated_capital,
       order |-> order.status, position |-> position.position,
       report |-> ReportStatus(Alert(Performance(MonitorStatus(position))))]

-----------------------------------------------------------------------------
DecisionInit ==
  /\ sight = "chart" /\ prompt = "none" /\ symbol \in Kinds \cup {"none"} /\ parsed = << >>
  /\ market_state = "none" /\ stocks = << >> /\ decision = << >> /\ told = {}

\* _maybe_run_vision: without a pipeline or a chart there is neither a state
\* nor a decision.
NoVision ==
  /\ sight = "chart" /\ sight' = "done"
  /\ UNCHANGED <<prompt, symbol, parsed, market_state, stocks, decision, told>>

\* The result that VisionResultSkill makes of the prompt is thrown away.
ShowChart ==
  /\ sight = "chart" /\ sight' = "ask"
  /\ prompt' = VisionPrompt(VisionAnalysis(VisionRequest("chart_path")))
  /\ UNCHANGED <<symbol, parsed, market_state, stocks, decision, told>>

\* A provider that fails has no text, which is read like an empty one.
ProviderAnswers ==
  /\ sight = "ask" /\ sight' = "read"
  /\ UNCHANGED <<prompt, symbol, parsed, market_state, stocks, decision, told>>

\* The first line for a field counts.
ReadLine ==
  /\ sight = "read"
  /\ \E field \in VisionFields \ DOMAIN parsed : \E value \in FieldValues[field] :
       parsed' = [f \in DOMAIN parsed \cup {field} |->
                    IF f = field THEN value ELSE parsed[f]]
  /\ UNCHANGED <<sight, prompt, symbol, market_state, stocks, decision, told>>

\* What the answer says something about, whatever is made of it.
Told(p) ==
  {k \in {"trend", "momentum", "volume", "pattern", "level"} :
     CASE k = "trend"    -> Get(p, "trend") \in {"bull", "bear", "side"}
       [] k = "momentum" -> Get(p, "rsi_signal") \in {"overbought", "oversold"}
                              \/ Get(p, "macd_signal") \in {"bull", "bear"}
       [] k = "volume"   -> Get(p, "volume_signal") \in {"high", "low"}
       [] k = "pattern"  -> Get(p, "candlestick_pattern") \in {"hammer", "shooting"}
       [] k = "level"    -> {Get(p, "support"), Get(p, "resistance")} = {"level"}}

\* From the end of the answer to the market state.
Reason ==
  /\ sight = "read" /\ sight' = "decide"
  /\ market_state' = MarketState(Agreement(Reasonings(parsed)))
  /\ told' = Told(parsed) /\ parsed' = << >>
  /\ UNCHANGED <<prompt, symbol, stocks, decision>>

\* The mapping of a failure has no symbol.
PipelineRaises ==
  /\ sight \in {"ask", "read"} /\ sight' = "decide"
  /\ market_state' = "UNAVAILABLE" /\ symbol' = "none" /\ parsed' = << >>
  /\ UNCHANGED <<prompt, stocks, decision, told>>

\* _maybe_run_trading_decision with MarketAnalysisSkill: of one symbol, or none.
AnalyseSymbol ==
  /\ sight = "decide" /\ sight' = "allocate"
  /\ \/ symbol = "none" /\ stocks' = << >>
     \/ /\ symbol # "none"
        /\ \/ \E found \in AnyEvidence : stocks' = <<MarketEntry(symbol, found)>>
           \/ stocks' = <<FailedEntry>>
  /\ UNCHANGED <<prompt, symbol, parsed, market_state, decision, told>>

DecideOnSymbol ==
  /\ sight = "allocate" /\ sight' = "done"
  /\ \E capital \in Capitals :
       decision' = [i \in DOMAIN stocks |-> DecisionOn(stocks[i], capital)]
  /\ UNCHANGED <<prompt, symbol, parsed, market_state, stocks, told>>

DecisionNext ==
  \/ NoVision \/ ShowChart \/ ProviderAnswers \/ ReadLine \/ Reason \/ PipelineRaises
  \/ AnalyseSymbol \/ DecideOnSymbol

DecisionSpec == DecisionInit /\ [][DecisionNext]_decisionVars

-----------------------------------------------------------------------------
\* A market is CONFIRMED if the answer had something for momentum, volume,
\* pattern and levels; what it says of the trend, or that it says nothing of
\* it, makes no difference, since the trend skill gives no evidence and a
\* missing one counts as known (trend_reasoning_skill.py:240-255 against
\* evidence_fusion_skill.py:236-254).
StateIgnoresTrend ==
  market_state \notin {"none", "UNAVAILABLE"} =>
    market_state =
      IF {"momentum", "volume", "pattern", "level"} \subseteq told
      THEN "CONFIRMED" ELSE "DEVELOPING"

\* Whatever the evidence and the capital, nothing is allocated, ordered or
\* held, and the report knows nothing of it: the words and the keys of
\* neighbouring skills do not match (recommendation_skill.py:250-260,
\* position_risk_skill.py:222-226, capital_allocation_skill.py:287 and
\* order_validation_skill.py:250, portfolio_update_skill.py:188 and
\* portfolio_monitor_skill.py:179).
DecisionIsInert ==
  /\ \A d \in Range(decision) :
       d.allocated = 0 /\ d.order = "REJECTED" /\ d.position = "NONE"
         /\ d.report = "UNKNOWN"
  /\ sight = "done" =>
       Len(decision) = IF market_state = "none" \/ symbol = "none" THEN 0 ELSE 1

\* A decision says what there was evidence for: nothing of the trend, and
\* nothing to do.
DecisionSound == StateIgnoresTrend /\ DecisionIsInert
=============================================================================
