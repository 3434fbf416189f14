---------------------------- MODULE PositionBook ----------------------------
(***************************************************************************)
(* The arithmetic of a paper trade: the rows of the positions table and    *)
(* what Business/position_manager.py and                                   *)
(* Business/account_balance_service.py compute from one of them and a      *)
(* trade.  Prices, quantities, fees and cash are integers in their         *)
(* smallest unit; the values the code obtains by division (average price,  *)
(* realized profit, prorated fee) are exact ratios, so the float rounding  *)
(* that reconciliation tolerates with an epsilon does not occur here.      *)
(***************************************************************************)
EXTENDS Integers

Ratio == [num : Int, den : Nat \ {0}]

Whole(n) == [num |-> n, den |-> 1]

RatioAdd(a, b) ==
  IF a.den = b.den
  THEN [num |-> a.num + b.num, den |-> a.den]
  ELSE [num |-> a.num * b.den + b.num * a.den, den |-> a.den * b.den]

RatioEq(a, b) == a.num * b.den = b.num * a.den

\* An optional column or argument: None is {}, a value x is {x}.
Option(S) == {T \in SUBSET S : \A x, y \in T : x = y}

The(T) == CHOOSE x \in T : TRUE

Actions    == {"BUY", "SELL"}
Directions == {"LONG", "SHORT"}

\* The direction in which a trade adds exposure.
DirectionOf(action) == IF action = "BUY" THEN "LONG" ELSE "SHORT"

(***************************************************************************)
(* Cash (Business/account_balance_service.py)                              *)
(***************************************************************************)
compute_buy_required_cash(gross_value, fee, tax) == gross_value + fee + tax

\* What a trade adds to the cash of its account.
CashEffect(trade) ==
  LET gross_value == trade.quantity * trade.fill_price
  IN  IF trade.action = "BUY"
      THEN -compute_buy_required_cash(gross_value, trade.fee, trade.tax)
      ELSE gross_value - trade.fee - trade.tax

(***************************************************************************)
(* Positions (Business/position_manager.py)                                *)
(***************************************************************************)
PositionRow(Accounts, Symbols) ==
  [account : Accounts, symbol : Symbols, direction : Directions,
   quantity : Nat, average_price : Ratio, realized_pnl : Ratio,
   buy_fee_accumulated : Ratio, stop_loss : Option(Int),
   status : {"open", "closed"}]

\* An open row holds something and a closed one nothing.
SoundRow(row) == row.status = "closed" <=> row.quantity = 0

\* The row that the first trade on a flat symbol inserts.
OpenedBy(trade) ==
  [account |-> trade.account, symbol |-> trade.symbol,
   direction |-> DirectionOf(trade.action),
   quantity |-> trade.quantity, average_price |-> Whole(trade.fill_price),
   realized_pnl |-> Whole(0), buy_fee_accumulated |-> Whole(trade.fee),
   stop_loss |-> {}, status |-> "open"]

merge_same_direction(position, trade) ==
  LET new_quantity == position.quantity + trade.quantity
      average      == position.average_price
  IN  [position EXCEPT
         !.quantity = new_quantity,
         !.average_price =
            [num |-> position.quantity * average.num
                       + trade.quantity * trade.fill_price * average.den,
             den |-> average.den * new_quantity],
         !.buy_fee_accumulated = RatioAdd(@, Whole(trade.fee)),
         !.status = "open"]

\* Profit of closing trade.quantity units at the fill price.
PnlDelta(position, trade) ==
  LET average == position.average_price
      gain    == (trade.fill_price * average.den - average.num) * trade.quantity
  IN  [num |-> IF position.direction = "LONG" THEN gain ELSE -gain,
       den |-> average.den]

\* As below, but a position reduced to nothing stays open.
reduce_without_closing(position, trade) ==
  [position EXCEPT
     !.quantity = position.quantity - trade.quantity,
     !.realized_pnl = RatioAdd(@, PnlDelta(position, trade))]

reduce_opposite_direction(position, trade) ==
  LET new_quantity == position.quantity - trade.quantity
      fees         == position.buy_fee_accumulated
  IN  [position EXCEPT
         !.quantity = new_quantity,
         !.realized_pnl = RatioAdd(RatioAdd(@, PnlDelta(position, trade)),
                                   Whole(-trade.fee - trade.tax)),
         !.buy_fee_accumulated =
            [num |-> fees.num * new_quantity,
             den |-> fees.den * position.quantity],
         !.status = IF new_quantity = 0 THEN "closed" ELSE "open"]

\* Without the oversell guard.
NeverRefused(held, trade, isForex) == FALSE

\* PositionManager.apply_trade refuses the trade: a SELL of a flat symbol on
\* an account that may not go short, or a reduction larger than what is held.
\* held is the open row, as an option.
CannotApply(held, trade, isForex) ==
  IF held = {}
  THEN trade.action = "SELL" /\ ~isForex
  ELSE \E position \in held :
         /\ DirectionOf(trade.action) # position.direction
         /\ trade.quantity > position.quantity

\* Without a look at the direction of the open row.
AppliedRowAlwaysMerged(held, trade) ==
  IF held = {} THEN OpenedBy(trade) ELSE merge_same_direction(The(held), trade)

\* The row that PositionManager.apply_trade writes otherwise.
AppliedRow(held, trade) ==
  IF held = {}
  THEN OpenedBy(trade)
  ELSE LET position == The(held)
       IN  IF DirectionOf(trade.action) = position.direction
           THEN merge_same_direction(position, trade)
           ELSE reduce_opposite_direction(position, trade)

is_stop_loss_side_valid(direction, reference_price, stop_loss) ==
  LET stop == stop_loss * reference_price.den
  IN  IF direction = "SHORT"
      THEN stop > reference_price.num
      ELSE stop < reference_price.num

(***************************************************************************)
(* Business/stop_loss_take_profit_monitor.py: the verdict on an open       *)
(* position at a market price.  No caller ever sets a take profit, so its  *)
(* half of the comparison is never reached.                                *)
(***************************************************************************)
MonitorTrigger(position, market_price) ==
  IF /\ position.status = "open"
     /\ \E stop \in position.stop_loss : market_price <= stop
  THEN "STOP_LOSS_TRIGGERED"
  ELSE "NO_TRIGGER"
=============================================================================
