----------------------------- MODULE Performance -----------------------------
(***************************************************************************)
(* What the reports make of the tables that PaperTrading writes: the       *)
(* replay of trades into episodes (trade_holding_period_engine.py,         *)
(* position_episode_replay_engine.py), the performance of closed episodes  *)
(* (strategy_performance_service.py, market_regime_attribution_service.py  *)
(* and their engines), the performance of positions                        *)
(* (position_performance_engine.py and what is derived from it), and the   *)
(* worth of an account (unrealized_pnl_engine.py,                          *)
(* portfolio_snapshot_service.py, daily_performance_service.py).           *)
(*                                                                         *)
(* All of it is read-only arithmetic. The labels by which outcomes are     *)
(* grouped, strategies and market regimes, are left out: what is reported  *)
(* here is the total over all groups. Times are places in the list of      *)
(* trades. A quote is a price for every symbol.                            *)
(***************************************************************************)
EXTENDS Reconciliation, SequencesExt

CONSTANT MarketPrices   \* the prices that the market price tool may return

ASSUME PerformanceAssumption == MarketPrices \subseteq Nat

SumOf(value(_), rows) ==
  FoldLeft(LAMBDA sum, row : RatioAdd(sum, value(row)), Whole(0), rows)

Negated(ratio) == [ratio EXCEPT !.num = -@]

TradesIn(a, y) ==
  SelectSeq(trades, LAMBDA trade : trade.account = a /\ trade.symbol = y)

RowsOf(a) == SelectSeq(positions, LAMBDA row : row.account = a)

OpenRows(a) == SelectSeq(RowsOf(a), LAMBDA row : row.status = "open")

ClosedRows(a, y) ==
  SelectSeq(RowsOf(a), LAMBDA row : row.symbol = y /\ row.status = "closed")

(***************************************************************************)
(* Episodes                                                                *)
(***************************************************************************)
\* Any SELL ends the episode.
HoldingStepAnySell(state, trade) ==
  LET n == state.count + 1
  IN  IF trade.action = "BUY"
      THEN [state EXCEPT !.count = n, !.quantity_open = @ + trade.quantity,
                         !.ids = IF state.quantity_open = 0 THEN {n} ELSE @ \cup {n}]
      ELSE [count |-> n, quantity_open |-> 0, ids |-> {},
            ended |-> state.ended \cup state.ids \cup {n}]

\* One trade: a BUY on nothing opens an episode, a SELL that leaves nothing ends
\* it. Whether the position is LONG is not asked.
HoldingStep(state, trade) ==
  LET n    == state.count + 1
      flat == state.quantity_open = 0
      left == state.quantity_open - trade.quantity
  IN  IF trade.action = "BUY"
      THEN [state EXCEPT !.count = n, !.quantity_open = @ + trade.quantity,
                         !.ids = IF flat THEN {n} ELSE @ \cup {n}]
      ELSE IF left = 0
           THEN [count |-> n, quantity_open |-> 0, ids |-> {},
                 ended |-> state.ended \cup state.ids \cup {n}]
           ELSE [state EXCEPT !.count = n, !.quantity_open = left,
                              !.ids = @ \cup {n}]

\* TradeHoldingPeriodEngine.calculate: the trades that have a holding period.
calculate(ts) ==
  FoldLeft(HoldingStep, [count |-> 0, quantity_open |-> 0, ids |-> {}, ended |-> {}],
           ts).ended

\* An episode is closed by a SELL that ends it in the trades seen so far.
EpisodeStep(state, trade) ==
  LET seen    == Append(state.seen, trade)
      episode == Append(state.episode, trade)
  IN  IF trade.action = "SELL" /\ Len(seen) \in calculate(seen)
      THEN [seen |-> seen, episode |-> << >>, closed |-> Append(state.closed, episode)]
      ELSE [state EXCEPT !.seen = seen, !.episode = episode]

\* PositionEpisodeReplayEngine.replay, of which the services keep what is closed.
replay(ts) ==
  FoldLeft(EpisodeStep, [seen |-> << >>, episode |-> << >>, closed |-> << >>], ts).closed

\* The episodes of a symbol cannot be told which rows they are.
Mismatch(a, y) == Len(replay(TradesIn(a, y))) # Len(ClosedRows(a, y))

\* get_performance_by_strategy and get_performance_by_regime raise.
PerformanceRaises(a) == \E y \in Symbols : TradesIn(a, y) # << >> /\ Mismatch(a, y)

(***************************************************************************)
(* Statistics                                                              *)
(***************************************************************************)
\* PositionPerformanceEngine.calculate, and the engines of strategies and market
\* regimes: wins and losses of what the rows have realized.
Statistics(rows) ==
  LET wins   == SelectSeq(rows, LAMBDA row : row.realized_pnl.num > 0)
      losses == SelectSeq(rows, LAMBDA row : row.realized_pnl.num < 0)
  IN  [winning |-> Len(wins), losing |-> Len(losses),
       breakeven |-> Len(rows) - Len(wins) - Len(losses),
       gross_profit |-> SumOf(LAMBDA row : row.realized_pnl, wins),
       gross_loss |-> SumOf(LAMBDA row : Negated(row.realized_pnl), losses)]

NetProfit(statistics) ==
  RatioAdd(statistics.gross_profit, Negated(statistics.gross_loss))

\* The total of the table by strategy, or by market regime: a closed episode
\* counts with the row that it is paired with.
OutcomeRows(a) ==
  FoldSet(LAMBDA y, rows : ClosedRows(a, y) \o rows, << >>,
          {y \in Symbols : TradesIn(a, y) # << >>})

(***************************************************************************)
(* Worth                                                                   *)
(***************************************************************************)
\* UnrealizedPnLEngine.calculate, for a LONG row and for a SHORT one.
Unrealized(row, price) ==
  [num |-> (price * row.average_price.den - row.average_price.num) * row.quantity,
   den |-> row.average_price.den]

\* PortfolioSnapshotService.take_snapshot.
Snapshot(a, quote) ==
  [equity |-> RatioAdd(Whole(cash[a]),
                SumOf(LAMBDA row : Whole(quote[row.symbol] * row.quantity), OpenRows(a))),
   realized_pnl |-> SumOf(LAMBDA row : row.realized_pnl, RowsOf(a)),
   unrealized_pnl |-> SumOf(LAMBDA row : Unrealized(row, quote[row.symbol]), OpenRows(a))]

\* DailyPerformanceService.compute_daily_performance, over all the trades.
NetResult(a, quote) ==
  LET snapshot == Snapshot(a, quote)
  IN  RatioAdd(RatioAdd(snapshot.realized_pnl, snapshot.unrealized_pnl),
               SumOf(LAMBDA trade : Whole(-trade.fee - trade.tax),
                     SelectSeq(trades, LAMBDA trade : trade.account = a)))

(***************************************************************************)
(* Properties                                                              *)
(***************************************************************************)
\* What an episode has earned. The fee of a BUY is paid in cash and is no part
\* of what a position realizes.
Earned(episode) ==
  SumOf(LAMBDA trade : IF trade.action = "BUY"
                       THEN Whole(-trade.quantity * trade.fill_price)
                       ELSE Whole(CashEffect(trade)),
        episode)

\* The n-th episode of a symbol is its n-th closed row, and has earned what the
\* row says, unless a SHORT position was ever closed: then there are fewer
\* episodes than rows and the reports raise.
EpisodesAreRows ==
  \A a \in Accounts, y \in Symbols :
    LET episodes == replay(TradesIn(a, y))
        rows     == ClosedRows(a, y)
        shorts   == {n \in DOMAIN rows : rows[n].direction = "SHORT"}
    IN  /\ Mismatch(a, y) <=> shorts # {}
        /\ shorts = {} => \A n \in DOMAIN rows :
                            RatioEq(Earned(episodes[n]), rows[n].realized_pnl)

\* What is paid in fees and tax by the trades that add exposure, and by those
\* that reduce it, according to the signed quantity held before each.
PaidOn(adding, ts) ==
  FoldLeft(LAMBDA state, trade :
             LET adds == state.held * SignedTrade(trade) >= 0
             IN  [held |-> state.held + SignedTrade(trade),
                  paid |-> state.paid + IF adds = adding THEN trade.fee + trade.tax
                                                         ELSE 0],
           [held |-> 0, paid |-> 0], ts).paid

Paid(adding, a) ==
  MapThenSumSet(LAMBDA y : PaidOn(adding, TradesIn(a, y)), Symbols)

\* At every quote, the equity of a snapshot is the starting cash, what positions
\* have realized and would realize, and the fees of what added exposure. A SHORT
\* position counts as an asset: equity is too high by twice its entry value. The
\* net result of a period takes off the fees that are in realized_pnl again.
EquityIsEarned ==
  \A a \in Accounts, quote \in [Symbols -> MarketPrices] :
    LET snapshot == Snapshot(a, quote)
        earned   == RatioAdd(snapshot.realized_pnl, snapshot.unrealized_pnl)
        shorts   == SelectSeq(OpenRows(a), LAMBDA row : row.direction = "SHORT")
        excess   == SumOf(LAMBDA row : [row.average_price EXCEPT
                                          !.num = 2 * @ * row.quantity], shorts)
    IN  /\ RatioEq(snapshot.equity,
                   RatioAdd(RatioAdd(earned, excess),
                            Whole(StartingCash[a] - Paid(TRUE, a))))
        /\ RatioEq(NetResult(a, quote),
                   RatioAdd(earned, Whole(-Paid(TRUE, a) - Paid(FALSE, a))))

\* With no position open, the profit in the performance summary, and in the tables
\* by strategy and by market regime if there are any, is what the account has
\* gained, but for the fees of what added exposure.
TotalsAgree ==
  \A a \in Accounts : OpenRows(a) = << >> =>
    LET gained == Whole(cash[a] - StartingCash[a] + Paid(TRUE, a))
    IN  /\ RatioEq(NetProfit(Statistics(RowsOf(a))), gained)
        /\ ~PerformanceRaises(a) =>
             RatioEq(NetProfit(Statistics(OutcomeRows(a))), gained)

\* Reports of books that nothing harmed add up.
ReportsAddUp ==
  Quiescent /\ Unharmed => EpisodesAreRows /\ EquityIsEarned /\ TotalsAgree
=============================================================================
