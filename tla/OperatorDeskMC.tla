---------------------------- MODULE OperatorDeskMC ----------------------------
(***************************************************************************)
(* A small desk, for model checking.                                       *)
(***************************************************************************)
EXTENDS OperatorDesk, TLC

\* One plan risks 2, the other one 3.
DeskRisk == [b \in Plans |-> IF b = "low" THEN 2 ELSE 3]

\* Limits of a careful person, and of one who stops at the first loss.
Careful ==
  [allowed |-> {"low", "high"}, max_risk |-> 2, max_daily_loss |-> 2,
   max_trades_per_day |-> 1, loss_streak_cooldown |-> 0]
Shaken ==
  [allowed |-> {"low"}, max_risk |-> 3, max_daily_loss |-> 3,
   max_trades_per_day |-> 3, loss_streak_cooldown |-> 1]
DeskLimits == {Careful, Shaken}

\* Three migrations of at most two statements; init applies the first two, and
\* scripts apply the second one and the third one.
DeskStatements == 1 :> 1 @@ 2 :> 2 @@ 3 :> 1
DeskInitPlan == {1, 2}
DeskPlans == {DeskInitPlan, {2}, {3}}

\* A list of one symbol, which is to be bought, or not, or tells nothing.
DeskList == <<"AAA">>
DeskEntries ==
  {MarketEntry("stock", [trend |-> "bullish", sentiment |-> "positive",
                         valuation |-> "undervalued", quality |-> "weak"]),
   MarketEntry("forex", [trend |-> "bearish", sentiment |-> "negative",
                         valuation |-> "unknown", quality |-> "unknown"]),
   FailedEntry}

\* One set of people serves all desks; they are not told apart.
Interchangeable == Permutations(Clerks)
=============================================================================
