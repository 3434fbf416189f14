--------------------------- MODULE Reconciliation ---------------------------
(***************************************************************************)
(* ReconciliationEngine.reconcile_account (Business/                       *)
(* reconciliation_engine.py) over the tables that PaperTrading writes: a   *)
(* read-only audit that replays the trades of an account and compares the  *)
(* outcome with its cash and its position rows.                            *)
(***************************************************************************)
EXTENDS PaperTrading

\* 1. Order <-> Trade.
check_order_trade(a) ==
  \A o \in DOMAIN orders : orders[o].account = a =>
    IF orders[o].status = "FILLED"
    THEN /\ Cardinality(TradesOf(o)) = 1
         /\ \A t \in TradesOf(o) :
              /\ orders[o].filled_price = trades[t].fill_price
              /\ orders[o].filled_quantity = trades[t].quantity
    ELSE TradesOf(o) = {}

\* 2. Trade <-> Cash, from a known starting cash.
check_trade_cash(a) ==
  cash[a] = StartingCash[a]
    + SumOver([t \in DOMAIN trades |-> CashEffect(trades[t])],
              {t \in DOMAIN trades : trades[t].account = a})

\* The replay ignores how a reduction to zero closes the row.
ReplayStepIgnoringClose(state, trade) ==
  IF state.row = {} THEN [state EXCEPT !.row = {OpenedBy(trade)}]
  ELSE [state EXCEPT !.row = {AppliedRow(state.row, trade)}]

\* One trade of the replay: a closed row makes place for a new one, and a trade
\* that could not have been applied is a violation and is skipped.
ReplayStep(state, trade) ==
  LET open == {row \in state.row : row.status = "open"}
  IN  IF CannotApply(open, trade, IsForex(trade.account))
      THEN [state EXCEPT !.sound = FALSE]
      ELSE [state EXCEPT !.row = {AppliedRow(open, trade)}]

\* The trades of a symbol in the order of their ids: the outcome after the first n
\* rows of the table.
replay_trades(table, a, y) ==
  LET after[n \in 0 .. Len(table)] ==
        IF n = 0 THEN [row |-> {}, sound |-> TRUE]
        ELSE IF table[n].account = a /\ table[n].symbol = y
             THEN ReplayStep(after[n - 1], table[n])
             ELSE after[n - 1]
  IN  after

replay_position(a, y) == replay_trades(trades, a, y)[Len(trades)]

\* The most recent row of the symbol, as an option.
CurrentRow(a, y) ==
  LET ids == {p \in DOMAIN positions :
                positions[p].account = a /\ positions[p].symbol = y}
  IN  IF ids = {} THEN {} ELSE {positions[Max(ids)]}

SameHolding(row, replayed) ==
  /\ row.quantity = replayed.quantity
  /\ RatioEq(row.average_price, replayed.average_price)
  /\ RatioEq(row.realized_pnl, replayed.realized_pnl)
  /\ RatioEq(row.buy_fee_accumulated, replayed.buy_fee_accumulated)
  /\ row.status = replayed.status
  /\ row.direction = replayed.direction

\* 3. Trade <-> Position.
check_trade_position(a) ==
  \A y \in Symbols :
    LET replay  == replay_position(a, y)
        current == CurrentRow(a, y)
    IN  /\ replay.sound
        /\ (current = {}) <=> (replay.row = {})
        /\ \A row \in current, replayed \in replay.row : SameHolding(row, replayed)

\* 4. Portfolio state sanity.
check_portfolio_state(a) ==
  /\ cash[a] >= 0
  /\ \A p \in DOMAIN positions : positions[p].account = a =>
       positions[p].status = IF positions[p].quantity = 0 THEN "closed" ELSE "open"

\* 5. A forex holding has a stop loss on the protective side.
check_forex_state(a) ==
  IsForex(a) =>
    \A p \in DOMAIN positions :
      LET row == positions[p]
      IN  row.account = a /\ row.quantity > 0 =>
            \E stop \in row.stop_loss :
              is_stop_loss_side_valid(row.direction, row.average_price, stop)

\* ReconciliationResult.consistent.
reconcile_account(a) ==
  /\ check_order_trade(a)
  /\ check_trade_cash(a)
  /\ check_trade_position(a)
  /\ check_portfolio_state(a)
  /\ check_forex_state(a)

(***************************************************************************)
(* Properties                                                              *)
(***************************************************************************)
Harmless == {"NOT_PENDING"}

\* No call has failed, and no service refused what the gates let through.
Unharmed == failures = 0 /\ \A e \in late_raises : e[2] \in Harmless

\* No false alarm: with calls one at a time, every account of books that nothing
\* harmed reconciles whenever no call is running.
UnharmedReconciles ==
  Quiescent /\ Unharmed => \A a \in Accounts : reconcile_account(a)

\* The trades of an account whose cash was never written, and those of a symbol
\* whose position was never written.
LostInCash(a) == {t \in DOMAIN trades \ cash_applied : trades[t].account = a}

LostInBook(a, y) ==
  {t \in DOMAIN trades \ position_applied :
     trades[t].account = a /\ trades[t].symbol = y}

\* No missed alarm: trades whose cash or whose position was never written,
\* because calls broke off, make their account inconsistent for good, unless
\* what they lost adds up to nothing.
PartialTradeDetected ==
  Quiescent =>
    \A a \in Accounts :
      \/ SumOver([t \in DOMAIN trades |-> CashEffect(trades[t])], LostInCash(a)) # 0
      \/ \E y \in Symbols :
           SumOver([t \in DOMAIN trades |-> SignedTrade(trades[t])], LostInBook(a, y)) # 0
      => ~reconcile_account(a)

\* The audit tells harm from none.
ReconciliationIsExact == UnharmedReconciles /\ PartialTradeDetected
=============================================================================
