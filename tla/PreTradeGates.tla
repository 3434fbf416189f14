--------------------------- MODULE PreTradeGates ----------------------------
(***************************************************************************)
(* PaperTradingEngine._run_pre_trade_validation: the read-only gates that  *)
(* an order request passes, in a fixed order, before anything is written.  *)
(* The first gate that fails decides the reason the caller is given.       *)
(*                                                                         *)
(* A gate reads the request and the tables as they are at that moment,     *)
(* here the record db with fields cash, positions and keys.                *)
(***************************************************************************)
EXTENDS PositionBook, Sequences, FiniteSets, FiniteSetsExt

CONSTANTS
  Accounts,        \* the rows of the accounts table
  ForexAccounts,   \* those whose asset_class is "forex"
  Symbols,
  Requests,        \* the argument records submit_order is called with
  Policy           \* what the engine's constructor and the policies fix

Markets == {"idx", "us", "crypto", "forex"}

(***************************************************************************)
(* The arguments of submit_order, with the AIOS_MARKET of the calling      *)
(* process.  A blank symbol or key is "".  The position of executed_at in  *)
(* the market's calendar is all a gate asks of it.                         *)
(***************************************************************************)
RequestType ==
  [idempotency_key : STRING, account : STRING, symbol : STRING,
   action : STRING, quantity : Int, requested_price : Int,
   stop_loss : Option(Int), signal_evidence : BOOLEAN,
   user_approval : BOOLEAN, market : Markets,
   executed_at : {"in session", "off session", "invalid"}]

PolicyType ==
  [max_order_value : Nat, kill_switch_engaged : BOOLEAN,
   halted_markets : SUBSET Markets, halted_symbols : SUBSET Symbols,
   max_daily_loss : Option(Nat), max_position_value : Option(Nat),
   lot_size : Nat \ {0}, us_min_quantity : Nat,
   crypto_step_size : Nat \ {0}, crypto_price_tick : Nat \ {0},
   crypto_minimum_notional : Nat, crypto_exchange_available : BOOLEAN,
   margin_pairs : SUBSET Symbols,
   buy_fee_rate : Nat, sell_fee_rate : Nat, sell_tax_rate : Nat,
   us_commission_rate : Nat, us_regulatory_fee_rate : Nat,
   crypto_taker_fee : Nat]

ASSUME PreTradeAssumption ==
  /\ Accounts \subseteq STRING
  /\ ForexAccounts \subseteq Accounts
  /\ Symbols \subseteq STRING \ {""}
  /\ \A r \in Requests : r \in RequestType /\ r.symbol \in Symbols \cup {""}
  /\ Requests # {}
  /\ Policy \in PolicyType

IsForex(account) == account \in ForexAccounts

\* Business/us_market_policy.py resolve_fee_tax: flat amounts per trade.
resolve_fee_tax(market, action) ==
  CASE market = "us" ->
         [fee |-> Policy.us_commission_rate,
          tax |-> IF action = "BUY" THEN 0 ELSE Policy.us_regulatory_fee_rate]
    [] market = "crypto" -> [fee |-> Policy.crypto_taker_fee, tax |-> 0]
    [] OTHER ->
         [fee |-> IF action = "BUY" THEN Policy.buy_fee_rate
                                    ELSE Policy.sell_fee_rate,
          tax |-> IF action = "BUY" THEN 0 ELSE Policy.sell_tax_rate]

\* PositionRepository.get_open_position: the id of the first open row of the
\* symbol, as an option.
get_open_position(positions, account, symbol) ==
  LET open == {p \in DOMAIN positions :
                 /\ positions[p].account = account
                 /\ positions[p].symbol = symbol
                 /\ positions[p].status = "open"}
  IN  {p \in open : \A q \in open : p <= q}

\* The open row itself, as an option.
OpenRow(db, r) ==
  {db.positions[p] : p \in get_open_position(db.positions, r.account, r.symbol)}

Held(db, r) == IF OpenRow(db, r) = {} THEN 0 ELSE The(OpenRow(db, r)).quantity

OrderValue(r) == r.quantity * r.requested_price

(***************************************************************************)
(* Gate 6: what a quantity must be a multiple of depends on the market.    *)
(* Quantities are whole units here, so the forex rule always holds.        *)
(***************************************************************************)
LotSizeOk(r) ==
  CASE r.market = "us"     -> r.quantity >= Policy.us_min_quantity
    [] r.market = "crypto" -> r.quantity % Policy.crypto_step_size = 0
    [] r.market = "forex"  -> TRUE
    [] OTHER               -> r.quantity % Policy.lot_size = 0

\* Crypto orders: price on the tick, notional not too small.
PriceTickOk(r) ==
  r.market = "crypto" => r.requested_price % Policy.crypto_price_tick = 0

MinimumNotionalOk(r) ==
  r.market = "crypto" => OrderValue(r) >= Policy.crypto_minimum_notional

\* US orders only in the regular session; crypto has no hours, but executed_at
\* must parse and the exchange must be reachable.
UsSessionOk(r) == r.market = "us" => r.executed_at = "in session"

CryptoMarketOk(r) == r.market = "crypto" => r.executed_at # "invalid"

CryptoExchangeOk(r) == r.market = "crypto" => Policy.crypto_exchange_available

(***************************************************************************)
(* The forex gates: a stop loss on the protective side of the requested    *)
(* price for the direction the position has, or would get, and 1:1 margin  *)
(* for the part of the order that adds exposure.                           *)
(***************************************************************************)
EffectiveDirection(db, r) ==
  IF OpenRow(db, r) = {}
  THEN DirectionOf(r.action)
  ELSE The(OpenRow(db, r)).direction

NewExposure(db, r) ==
  IF DirectionOf(r.action) = EffectiveDirection(db, r)
  THEN r.quantity
  ELSE Max({0, r.quantity - Held(db, r)})

MarginOk(db, r) ==
  NewExposure(db, r) > 0 =>
    /\ r.symbol \in Policy.margin_pairs
    /\ db.cash[r.account] >= r.requested_price * NewExposure(db, r)

\* The cash gate as it was before fees were counted in it.
CashOkGrossOnly(db, r) == db.cash[r.account] >= OrderValue(r)

CashOk(db, r) ==
  LET ft == resolve_fee_tax(r.market, r.action)
  IN  db.cash[r.account]
        >= compute_buy_required_cash(OrderValue(r), ft.fee, ft.tax)

\* Gate 9: only a forex account may sell what it does not hold.
PositionOk(db, r) ==
  \/ IsForex(r.account) /\ EffectiveDirection(db, r) = "SHORT"
  \/ Held(db, r) >= r.quantity

\* Gate 15: the losses realized on every position of the account so far.
RealizedTotal(db, r) ==
  MapThenFoldSet(RatioAdd, Whole(0), LAMBDA p : db.positions[p].realized_pnl,
                 LAMBDA S : Min(S),
                 {p \in DOMAIN db.positions : db.positions[p].account = r.account})

DailyLossHit(db, r) ==
  LET total == RealizedTotal(db, r)
  IN  /\ total.num < 0
      /\ \E limit \in Policy.max_daily_loss : -total.num >= limit * total.den

PositionValueHit(db, r) ==
  \E limit \in Policy.max_position_value :
    (Held(db, r) + r.quantity) * r.requested_price > limit

GateOrder ==
  <<"ACCOUNT_NOT_FOUND", "EVIDENCE_MISSING", "APPROVAL_MISSING",
    "INVALID_SYMBOL", "INVALID_QUANTITY", "INVALID_LOT_SIZE",
    "INVALID_PRICE", "INVALID_PRICE_TICK", "BELOW_MINIMUM_NOTIONAL",
    "FOREX_STOP_LOSS_REQUIRED", "INVALID_FOREX_STOP_LOSS",
    "FOREX_INSUFFICIENT_MARGIN", "INSUFFICIENT_CASH",
    "INSUFFICIENT_POSITION", "DUPLICATE_REQUEST", "RISK_LIMIT_EXCEEDED",
    "KILL_SWITCH_ENGAGED", "MARKET_KILL_SWITCH_ENGAGED",
    "SYMBOL_KILL_SWITCH_ENGAGED", "DAILY_LOSS_LIMIT_EXCEEDED",
    "MAX_POSITION_VALUE_EXCEEDED", "US_MARKET_SESSION_CLOSED",
    "CRYPTO_MARKET_CLOSED", "CRYPTO_EXCHANGE_UNAVAILABLE">>

\* Gate g refuses request r.  The gates on the account's rows are reached
\* only when the account exists.
Refuses(g, db, r) ==
  LET known  == r.account \in Accounts
      forex  == known /\ IsForex(r.account)
      buy    == r.action = "BUY"
  IN CASE g = "ACCOUNT_NOT_FOUND"        -> ~known
       [] g = "EVIDENCE_MISSING"         -> ~r.signal_evidence
       [] g = "APPROVAL_MISSING"         -> ~r.user_approval
       [] g = "INVALID_SYMBOL"           -> r.symbol = ""
       [] g = "INVALID_QUANTITY"         -> r.quantity <= 0
       [] g = "INVALID_LOT_SIZE"         -> ~LotSizeOk(r)
       [] g = "INVALID_PRICE"            -> r.requested_price <= 0
       [] g = "INVALID_PRICE_TICK"       -> ~PriceTickOk(r)
       [] g = "BELOW_MINIMUM_NOTIONAL"   -> ~MinimumNotionalOk(r)
       [] g = "FOREX_STOP_LOSS_REQUIRED" -> forex /\ r.stop_loss = {}
       [] g = "INVALID_FOREX_STOP_LOSS"  ->
            /\ forex
            /\ \E stop \in r.stop_loss :
                 ~is_stop_loss_side_valid(EffectiveDirection(db, r),
                                          Whole(r.requested_price), stop)
       [] g = "FOREX_INSUFFICIENT_MARGIN"   -> forex /\ ~MarginOk(db, r)
       [] g = "INSUFFICIENT_CASH"           ->
            known /\ ~forex /\ buy /\ ~CashOk(db, r)
       [] g = "INSUFFICIENT_POSITION"       ->
            known /\ r.action = "SELL" /\ ~PositionOk(db, r)
       [] g = "DUPLICATE_REQUEST"           ->
            \/ r.idempotency_key = ""
            \/ \E row \in db.keys : row.idempotency_key = r.idempotency_key
       [] g = "RISK_LIMIT_EXCEEDED"         ->
            OrderValue(r) > Policy.max_order_value
       [] g = "KILL_SWITCH_ENGAGED"         -> Policy.kill_switch_engaged
       [] g = "MARKET_KILL_SWITCH_ENGAGED"  -> r.market \in Policy.halted_markets
       [] g = "SYMBOL_KILL_SWITCH_ENGAGED"  -> r.symbol \in Policy.halted_symbols
       [] g = "DAILY_LOSS_LIMIT_EXCEEDED"   -> known /\ buy /\ DailyLossHit(db, r)
       [] g = "MAX_POSITION_VALUE_EXCEEDED" -> buy /\ PositionValueHit(db, r)
       [] g = "US_MARKET_SESSION_CLOSED"    -> ~UsSessionOk(r)
       [] g = "CRYPTO_MARKET_CLOSED"        -> ~CryptoMarketOk(r)
       [] g = "CRYPTO_EXCHANGE_UNAVAILABLE" -> ~CryptoExchangeOk(r)

\* The reason submit_order raises with before it writes anything, as an option.
pre_trade_validation(db, r) ==
  LET refusing == {i \in DOMAIN GateOrder : Refuses(GateOrder[i], db, r)}
  IN  IF refusing = {} THEN {} ELSE {GateOrder[Min(refusing)]}
=============================================================================
