--------------------------- MODULE PaperTradingMC ---------------------------
(***************************************************************************)
(* Small instances of PaperTrading for TLC: one IDX account and one forex  *)
(* account, cash for two or three orders, and the requests that make the   *)
(* gates, the refusals after the gates and the retries happen.             *)
(***************************************************************************)
EXTENDS PaperTrading

MCAccounts      == {"idx1", "fx1"}
MCForexAccounts == {"fx1"}
MCSymbols       == {"BBCA", "EURUSD"}
MCStartingCash  == [a \in MCAccounts |-> IF a = "idx1" THEN 21 ELSE 12]

MCPolicy ==
  [max_order_value |-> 20, kill_switch_engaged |-> FALSE,
   halted_markets |-> {"us"}, halted_symbols |-> {},
   max_daily_loss |-> {4}, max_position_value |-> {30},
   lot_size |-> 2, us_min_quantity |-> 1, crypto_step_size |-> 1,
   crypto_price_tick |-> 1, crypto_minimum_notional |-> 1,
   crypto_exchange_available |-> TRUE, margin_pairs |-> {"EURUSD"},
   buy_fee_rate |-> 1, sell_fee_rate |-> 1, sell_tax_rate |-> 1,
   us_commission_rate |-> 1, us_regulatory_fee_rate |-> 1,
   crypto_taker_fee |-> 1]

\* An order on the IDX account and one on the forex account.
Idx(key, action, quantity, price, stop) ==
  [idempotency_key |-> key, account |-> "idx1", symbol |-> "BBCA",
   action |-> action, quantity |-> quantity, requested_price |-> price,
   stop_loss |-> stop, signal_evidence |-> TRUE, user_approval |-> TRUE,
   market |-> "idx", executed_at |-> "in session"]

Fx(key, action, quantity, price, stop) ==
  [Idx(key, action, quantity, price, {stop}) EXCEPT
     !.account = "fx1", !.symbol = "EURUSD", !.market = "forex"]

\* Calls one at a time: buys and sells at two prices, an unknown action, an
\* unapproved order, an odd lot.
SequentialRequests ==
  {Idx("k1", "BUY", 2, 4, {}), Idx("k2", "BUY", 2, 6, {}),
   Idx("k3", "SELL", 2, 7, {}), Idx("k4", "SELL", 4, 3, {}),
   Idx("k5", "HOLD", 2, 5, {}), Idx("", "BUY", 2, 4, {}),
   [Idx("k6", "BUY", 2, 4, {}) EXCEPT !.user_approval = FALSE],
   Idx("k7", "BUY", 3, 4, {}),
   [Idx("k8", "BUY", 1, 4, {}) EXCEPT !.market = "crypto"]}

\* A long position opened, raised, reduced and closed at different prices, a
\* short one opened and covered.
ForexRequests ==
  {Fx("f1", "BUY", 1, 4, 3), Fx("f2", "BUY", 1, 6, 5), Fx("f3", "SELL", 1, 6, 5),
   Fx("f4", "SELL", 2, 4, 5), Fx("f5", "BUY", 1, 9, 10), Fx("f6", "BUY", 3, 4, 5)}

\* Two sessions: a buy, and a sell on the same symbol, each of which may be
\* submitted again with its key.
RaceRequests ==
  {Idx("k1", "BUY", 2, 4, {}), Idx("k3", "SELL", 2, 5, {})}
=============================================================================
