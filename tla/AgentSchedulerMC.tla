-------------------------- MODULE AgentSchedulerMC ---------------------------
EXTENDS AgentWork

CONSTANTS a1, a2

Two == {a1, a2}

\* A job of one agent and a job of two.
Lists == {<<a1>>, <<a1, a2>>}

\* The names of the services in the order of sorted().
Sorted ==
  <<"backtest", "chart", "fundamental", "moving_average", "news", "notification",
    "pattern", "risk_management", "scoring", "stock", "technical_indicator",
    "technical_score">>

NameRank == [s \in ServiceNames |-> CHOOSE i \in DOMAIN Sorted : Sorted[i] = s]

\* Nothing, a ticker as `auto` gives it, a return of similar patterns, all that
\* position sizing needs and a part of it, a notification with an image, all of
\* these; and goals that bring along what the services compute.
SomeGoals ==
  {{}, {"TICKER"},
   {"TICKER", "STRATEGY", "AVG_RETURN"},
   {"TICKER"} \cup RiskInputs,
   {"TICKER", "ENTRY_PRICE"},
   {"TICKER", "IMAGE_PATH", "CHANNEL", "MESSAGE", "CREDENTIAL"},
   {"IMAGE_PATH", "AVG_RETURN"} \cup RiskInputs,
   {"PRICE", "HISTORY", "CHANNEL", "MESSAGE"},
   {"TICKER"} \cup Scores}
=============================================================================
