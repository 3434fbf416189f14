--------------------------- MODULE MarketAnalysis ---------------------------
(***************************************************************************)
(* From what the market tools find to one entry of an analysis: the tools  *)
(* (Orchestration/market_price_tool.py, market_news_tool.py,               *)
(* market_fundamental_tool.py), the analysis of a stock, a crypto coin and *)
(* a forex pair, and the entry that MarketAnalysisSkill makes of it for    *)
(* the trading decision (TradingDecision) and for the scan of the          *)
(* watchlist (WatchlistScan). "none" is None.                              *)
(***************************************************************************)
EXTENDS Integers, Sequences, FiniteSets

-----------------------------------------------------------------------------
(* The tools. One that finds nothing succeeds and says so.                 *)

\* The last valid closes, newest first.
PriceTrend(closes) ==
  IF Len(closes) < 2 THEN "unknown"
  ELSE IF closes[1] > closes[2] THEN "bullish"
  ELSE IF closes[1] < closes[2] THEN "bearish"
  ELSE "neutral"

\* The numbers of positive, negative and neutral headlines.
OverallSentiment(positive, negative, neutral) ==
  CASE positive > negative /\ positive > neutral -> "positive"
    [] negative > positive /\ negative > neutral -> "negative"
    [] OTHER                                     -> "neutral"

\* A ratio is a sequence of one number, or of none if the source has none.
Valuation(pe_ratio) ==
  IF pe_ratio = << >> THEN "unknown"
  ELSE IF pe_ratio[1] < 15 THEN "undervalued"
  ELSE IF pe_ratio[1] <= 25 THEN "fair"
  ELSE "overvalued"

Quality(roe) ==
  IF roe = << >> THEN "unknown" ELSE IF roe[1] >= 15 THEN "strong" ELSE "weak"

NoEvidence ==
  [trend |-> "none", sentiment |-> "none", valuation |-> "none", quality |-> "none"]

-----------------------------------------------------------------------------
(* The three analyses. The recommendation is given only with a success.    *)

Analysed(recommendation, confidence) ==
  [recommendation |-> recommendation, confidence |-> confidence, status |-> "SUCCESS"]

InsufficientData ==
  [recommendation |-> "none", confidence |-> "LOW", status |-> "INSUFFICIENT_DATA"]

\* A label as a vote.
Axis(label) ==
  CASE label \in {"bullish", "positive", "undervalued"} -> "for"
    [] label \in {"bearish", "negative", "overvalued"}  -> "against"
    [] label \in {"neutral", "fair"}                    -> "neither"
    [] OTHER                                            -> "missing"

Votes(found, vote) ==
  Cardinality({f \in {"trend", "sentiment", "valuation"} : Axis(found[f]) = vote})

TextAnalysis(found) ==
  LET bullish == Votes(found, "for")
      bearish == Votes(found, "against")
  IN  IF Votes(found, "missing") > 0 THEN InsufficientData
      ELSE IF bullish >= 2 /\ bearish = 0
      THEN Analysed("BUY", IF bullish = 3 THEN "HIGH" ELSE "MEDIUM")
      ELSE IF bearish >= 2 /\ bullish = 0
      THEN Analysed("SELL", IF bearish = 3 THEN "HIGH" ELSE "MEDIUM")
      ELSE Analysed("WAIT", IF bullish > 0 /\ bearish > 0 THEN "MEDIUM" ELSE "LOW")

\* A contradiction is an UNKNOWN that succeeds.
CryptoAnalysis(found) ==
  LET signal == <<found.trend, found.sentiment>>
  IN  CASE signal = <<"bullish", "positive">> -> Analysed("BUY", "MEDIUM")
        [] signal = <<"bullish", "neutral">>  -> Analysed("BUY", "LOW")
        [] signal = <<"bearish", "negative">> -> Analysed("SELL", "MEDIUM")
        [] signal = <<"bearish", "neutral">>  -> Analysed("SELL", "LOW")
        [] signal \in {<<"bullish", "negative">>, <<"bearish", "positive">>} ->
             Analysed("UNKNOWN", "LOW")
        [] OTHER -> InsufficientData

ForexAnalysis(found) ==
  LET signal == <<found.trend, found.sentiment>>
  IN  CASE signal = <<"bullish", "positive">> -> Analysed("BUY", "MEDIUM")
        [] signal = <<"bearish", "negative">> -> Analysed("SELL", "MEDIUM")
        [] OTHER -> InsufficientData

-----------------------------------------------------------------------------
(* MarketAnalysisSkill, for one symbol.                                    *)

Kinds == {"stock", "crypto", "forex"}

AnalysisOf(kind, found) ==
  CASE kind = "crypto" -> CryptoAnalysis(found)
    [] kind = "forex"  -> ForexAnalysis(found)
    [] kind = "stock"  -> TextAnalysis(found)

\* What the analyses of coins and pairs put into their output.
Shown(kind, found) ==
  IF kind = "stock" THEN found
  ELSE [found EXCEPT !.valuation = "none", !.quality = "none"]

MarketEntry(kind, found) ==
  [analysis |-> AnalysisOf(kind, found), found |-> Shown(kind, found)]

\* The entry of a symbol whose analysis raises.
FailedEntry ==
  [analysis |-> [recommendation |-> "none", confidence |-> "none",
                 status |-> "ANALYSIS_FAILED"],
   found |-> NoEvidence]

-----------------------------------------------------------------------------
(* What the tools can find, over inputs on both sides of every bound.      *)

AnyTrend == {PriceTrend(c) : c \in {<< >>, <<7>>, <<7, 6>>, <<6, 7>>, <<7, 7>>}}

AnySentiment ==
  {OverallSentiment(p, n, u) : p \in 0 .. 2, n \in 0 .. 2, u \in 0 .. 1}

AnyValuation == {Valuation(pe) : pe \in {<< >>, <<14>>, <<15>>, <<25>>, <<26>>}}

AnyQuality == {Quality(roe) : roe \in {<< >>, <<14>>, <<15>>}}

AnyEvidence ==
  [trend : AnyTrend, sentiment : AnySentiment, valuation : AnyValuation,
   quality : AnyQuality]

MarketEntries ==
  {MarketEntry(kind, found) : kind \in Kinds, found \in AnyEvidence} \cup {FailedEntry}
=============================================================================
