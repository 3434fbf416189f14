---------------------------- MODULE PaperTrading ----------------------------
(***************************************************************************)
(* PaperTradingEngine.submit_order (Business/paper_trading_engine.py) and  *)
(* the services it drives: OrderLifecycleService, ExecutionService,        *)
(* AccountBalanceService and PositionManager.                              *)
(*                                                                         *)
(* A session is one process that calls submit_order.  Every statement the  *)
(* services issue is committed on its own; there is no transaction around  *)
(* the call.  So each statement is an action, a session's pc says which    *)
(* comes next, a statement may fail or the process may die before it, and  *)
(* what was committed until then stays.  Callers may submit a request      *)
(* again, with the same idempotency key.                                   *)
(***************************************************************************)
EXTENDS PreTradeGates, Sums

CONSTANTS
  Sessions,
  StartingCash,     \* the cash of each account when it was created
  MaxSubmissions,   \* bound on the calls of submit_order
  MaxFailures       \* bound on failed statements and dead processes

ASSUME PaperTradingAssumption ==
  /\ StartingCash \in [Accounts -> Nat]
  /\ MaxSubmissions \in Nat
  /\ MaxFailures \in Nat

VARIABLES
  orders, trades,        \* tables with autoincremented ids: sequences of rows
  positions,
  cash,                  \* accounts.cash
  keys,                  \* order_idempotency_keys
  order_approvals,       \* order_approvals: ids of the approved trades
  notified,              \* trades announced by an ORDER_EXECUTED notification
  job,                   \* what each session is doing
  submitted, failures,   \* counters for the two bounds
  \* history, read by no action:
  cash_applied, position_applied, \* trades whose cash, whose position was written
  returned,              \* trades that submit_order returned to its caller
  late_raises            \* <<order, why>>: errors raised after the gates passed

tables   == <<orders, trades, positions, cash, keys, order_approvals, notified>>
bounds   == <<submitted, failures>>
history  == <<cash_applied, position_applied, returned, late_raises>>
vars     == <<tables, job, bounds, history>>

OrderStatuses == {"NEW", "VALIDATED", "PENDING", "REJECTED", "FILLED"}

OrderRow ==
  [account : Accounts, symbol : Symbols, action : STRING, quantity : Nat \ {0},
   requested_price : Nat \ {0}, status : OrderStatuses,
   filled_price : Nat, filled_quantity : Nat,
   request : Requests]   \* history: the request that created the order

TradeRow ==
  [order : Nat \ {0}, account : Accounts, symbol : Symbols, action : Actions,
   quantity : Nat \ {0}, fill_price : Nat \ {0}, fee : Nat, tax : Nat]

KeyRow == [idempotency_key : STRING, order : Nat \ {0}, trade : Nat \ {0}]

\* The statement a session issues next.
Labels ==
  {"idle", "gates", "insert order", "validate", "pend", "insert trade", "fill",
   "read cash", "write cash", "read position", "write position",
   "read stop", "write stop", "insert key", "approve", "notify"}

\* The local variables of submit_order and of the service call under way.
Job ==
  [pc : Labels, request : Requests, order : Nat, trade : Nat, cash : Int,
   position : Nat, row : Option(PositionRow(Accounts, Symbols))]

IdleJob ==
  [pc |-> "idle", request |-> CHOOSE r \in Requests : TRUE, order |-> 0,
   trade |-> 0, cash |-> 0, position |-> 0, row |-> {}]

TypeOK ==
  /\ orders \in Seq(OrderRow)
  /\ trades \in Seq(TradeRow)
  /\ positions \in Seq(PositionRow(Accounts, Symbols))
  /\ cash \in [Accounts -> Int]
  /\ keys \subseteq KeyRow
  /\ order_approvals \subseteq DOMAIN trades
  /\ notified \subseteq DOMAIN trades
  /\ job \in [Sessions -> Job]
  /\ submitted \in Nat /\ failures \in Nat
  /\ cash_applied \subseteq DOMAIN trades
  /\ position_applied \subseteq DOMAIN trades
  /\ returned \subseteq DOMAIN trades

Init ==
  /\ orders = << >> /\ trades = << >> /\ positions = << >>
  /\ cash = StartingCash
  /\ keys = {} /\ order_approvals = {} /\ notified = {}
  /\ job = [s \in Sessions |-> IdleJob]
  /\ submitted = 0 /\ failures = 0
  /\ cash_applied = {} /\ position_applied = {} /\ returned = {}
  /\ late_raises = {}

(***************************************************************************)
(* Helpers                                                                 *)
(***************************************************************************)
At(s, label) == job[s].pc = label

Goto(s, label) == job' = [job EXCEPT ![s].pc = label]

\* submit_order ends, with a result or an exception.
Finish(s) == job' = [job EXCEPT ![s] = IdleJob]

\* The exception of a service is swallowed and the call goes on.
SwallowLate(s, why) == Goto(s, "insert key") /\ UNCHANGED history

\* A service refuses what the gates let through: the exception propagates and
\* what was committed before it stays.
RaiseLate(s, why) ==
  /\ Finish(s)
  /\ late_raises' = late_raises \cup {<<job[s].order, why>>}
  /\ UNCHANGED <<cash_applied, position_applied, returned>>

(***************************************************************************)
(* submit_order                                                            *)
(***************************************************************************)
Submit(s, r) ==
  /\ At(s, "idle")
  /\ submitted < MaxSubmissions
  /\ submitted' = submitted + 1
  /\ job' = [job EXCEPT ![s].pc = "gates", ![s].request = r]
  /\ UNCHANGED <<tables, failures, history>>

\* _run_pre_trade_validation: nothing is written, whatever the outcome.
PreTradeValidation(s) ==
  /\ At(s, "gates")
  /\ LET db == [cash |-> cash, positions |-> positions, keys |-> keys]
     IN  IF pre_trade_validation(db, job[s].request) = {}
         THEN Goto(s, "insert order")
         ELSE Finish(s)
  /\ UNCHANGED <<tables, bounds, history>>

(***************************************************************************)
(* OrderLifecycleService.create_order                                      *)
(***************************************************************************)
CreateOrder(s) ==
  LET r == job[s].request
  IN  /\ At(s, "insert order")
      /\ orders' = Append(orders,
           [account |-> r.account, symbol |-> r.symbol, action |-> r.action,
            quantity |-> r.quantity, requested_price |-> r.requested_price,
            status |-> "NEW", filled_price |-> 0, filled_quantity |-> 0,
            request |-> r])
      /\ job' = [job EXCEPT ![s].pc = "validate", ![s].order = Len(orders) + 1]
      /\ UNCHANGED <<trades, positions, cash, keys, order_approvals, notified,
                     bounds, history>>

\* With the step to PENDING forgotten.
AllowedTransitionsWithoutPending ==
  {<<"NEW", "VALIDATED">>, <<"NEW", "REJECTED">>}

AllowedTransitions ==
  {<<"NEW", "VALIDATED">>, <<"NEW", "REJECTED">>, <<"VALIDATED", "PENDING">>}

\* transition_status reads the row and writes the status.  It raises where the
\* table does not allow the transition: the order stays as it is.
MayMove(o, to_status) == <<orders[o].status, to_status>> \in AllowedTransitions

transition_status(o, to_status) ==
  orders' = [orders EXCEPT ![o].status = to_status]

RefuseTransition(s) == RaiseLate(s, "ILLEGAL_TRANSITION") /\ UNCHANGED orders

\* What _validate asks that the gates have not asked already.
StructurallyValid(order) == order.action \in Actions

ValidateOrder(s) ==
  LET o == job[s].order
  IN  /\ At(s, "validate")
      /\ StructurallyValid(orders[o])
      /\ IF MayMove(o, "VALIDATED")
         THEN /\ transition_status(o, "VALIDATED")
              /\ Goto(s, "pend")
              /\ UNCHANGED history
         ELSE RefuseTransition(s)
      /\ UNCHANGED <<trades, positions, cash, keys, order_approvals, notified,
                     bounds>>

\* The order is REJECTED, so submit_order raises: its status is not PENDING.
RejectOrder(s) ==
  LET o == job[s].order
  IN  /\ At(s, "validate")
      /\ ~StructurallyValid(orders[o])
      /\ IF MayMove(o, "REJECTED")
         THEN transition_status(o, "REJECTED") /\ RaiseLate(s, "NOT_PENDING")
         ELSE RefuseTransition(s)
      /\ UNCHANGED <<trades, positions, cash, keys, order_approvals, notified,
                     bounds>>

PendOrder(s) ==
  LET o == job[s].order
  IN  /\ At(s, "pend")
      /\ IF MayMove(o, "PENDING")
         THEN /\ transition_status(o, "PENDING")
              /\ Goto(s, "insert trade")
              /\ UNCHANGED history
         ELSE RefuseTransition(s)
      /\ UNCHANGED <<trades, positions, cash, keys, order_approvals, notified,
                     bounds>>

(***************************************************************************)
(* ExecutionService.execute_order: two statements                          *)
(***************************************************************************)
CreateTrade(s) ==
  LET o     == job[s].order
      order == orders[o]
      ft    == resolve_fee_tax(job[s].request.market, order.action)
  IN  /\ At(s, "insert trade")
      /\ IF order.status = "PENDING"
         THEN /\ trades' = Append(trades,
                   [order |-> o, account |-> order.account,
                    symbol |-> order.symbol, action |-> order.action,
                    quantity |-> order.quantity,
                    fill_price |-> order.requested_price,
                    fee |-> ft.fee, tax |-> ft.tax])
              /\ job' = [job EXCEPT ![s].pc = "fill", ![s].trade = Len(trades) + 1]
              /\ UNCHANGED history
         ELSE RaiseLate(s, "NOT_PENDING") /\ UNCHANGED trades
      /\ UNCHANGED <<orders, positions, cash, keys, order_approvals, notified,
                     bounds>>

\* Only the status is updated.
FilledStatusOnly(order, trade) == [order EXCEPT !.status = "FILLED"]

\* OrderRepository.record_fill: the fill fields come from the trade.
Filled(order, trade) ==
  [order EXCEPT !.status = "FILLED", !.filled_price = trade.fill_price,
                !.filled_quantity = trade.quantity]

RecordFill(s) ==
  LET o == job[s].order
  IN  /\ At(s, "fill")
      /\ orders' = [orders EXCEPT ![o] = Filled(orders[o], trades[job[s].trade])]
      /\ Goto(s, "read cash")
      /\ UNCHANGED <<trades, positions, cash, keys, order_approvals, notified,
                     bounds, history>>

(***************************************************************************)
(* AccountBalanceService.apply_trade: reads the cash, writes the new value *)
(***************************************************************************)
\* The fee and the tax of the trade are left out.
NewCashGross(trade) ==
  cash[trade.account] + (IF trade.action = "BUY" THEN -1 ELSE 1)
                          * trade.quantity * trade.fill_price

NewCash(trade) == cash[trade.account] + CashEffect(trade)

ReadCash(s) ==
  LET trade    == trades[job[s].trade]
      new_cash == NewCash(trade)
  IN  /\ At(s, "read cash")
      /\ IF new_cash < 0
         THEN RaiseLate(s, "INSUFFICIENT_CASH")
         ELSE /\ job' = [job EXCEPT ![s].pc = "write cash", ![s].cash = new_cash]
              /\ UNCHANGED history
      /\ UNCHANGED <<tables, bounds>>

WriteCash(s) ==
  LET trade == trades[job[s].trade]
  IN  /\ At(s, "write cash")
      /\ cash' = [cash EXCEPT ![trade.account] = job[s].cash]
      /\ cash_applied' = cash_applied \cup {job[s].trade}
      /\ job' = [job EXCEPT ![s].pc = "read position", ![s].cash = 0]
      /\ UNCHANGED <<orders, trades, positions, keys, order_approvals, notified,
                     bounds, position_applied, returned, late_raises>>

(***************************************************************************)
(* PositionManager.apply_trade: reads the open row, writes a new one       *)
(***************************************************************************)
ReadPosition(s) ==
  LET trade == trades[job[s].trade]
      found == get_open_position(positions, trade.account, trade.symbol)
      held  == {positions[p] : p \in found}
  IN  /\ At(s, "read position")
      /\ IF CannotApply(held, trade, IsForex(trade.account))
         THEN RaiseLate(s, "INSUFFICIENT_POSITION")
         ELSE /\ job' = [job EXCEPT
                   ![s].pc = "write position",
                   ![s].position = IF found = {} THEN 0 ELSE The(found),
                   ![s].row = {AppliedRow(held, trade)}]
              /\ UNCHANGED history
      /\ UNCHANGED <<tables, bounds>>

\* The stop loss is never persisted; the key is never recorded.
AfterPositionNoStop(r) == "insert key"
AfterPositionNoKey(r) == "approve"

\* What follows the position: the stop loss, if the caller gave one.
AfterPosition(r) == IF r.stop_loss = {} THEN "insert key" ELSE "read stop"

WritePosition(s) ==
  LET row    == The(job[s].row)
      p      == job[s].position
      insert == p = 0
  IN  /\ At(s, "write position")
      /\ positions' = IF insert THEN Append(positions, row)
                                ELSE [positions EXCEPT ![p] = row]
      /\ position_applied' = position_applied \cup {job[s].trade}
      /\ job' = [job EXCEPT ![s].pc = AfterPosition(job[s].request),
                            ![s].position = IF insert THEN Len(positions) + 1
                                                      ELSE p,
                            ![s].row = {}]
      /\ UNCHANGED <<orders, trades, cash, keys, order_approvals, notified,
                     bounds, cash_applied, returned, late_raises>>

(***************************************************************************)
(* PositionManager.set_stop_loss_take_profit: for every account, whenever  *)
(* the caller passed a stop loss; checked against the average price        *)
(***************************************************************************)
ReadStop(s) ==
  LET row  == positions[job[s].position]
      stop == job[s].request.stop_loss
  IN  /\ At(s, "read stop")
      /\ IF \A x \in stop :
              is_stop_loss_side_valid(row.direction, row.average_price, x)
         THEN /\ job' = [job EXCEPT ![s].pc = "write stop",
                                    ![s].row = {[row EXCEPT !.stop_loss = stop]}]
              /\ UNCHANGED history
         ELSE RaiseLate(s, "STOP_LOSS")
      /\ UNCHANGED <<tables, bounds>>

WriteStop(s) ==
  /\ At(s, "write stop")
  /\ positions' = [positions EXCEPT ![job[s].position] = The(job[s].row)]
  /\ job' = [job EXCEPT ![s].pc = "insert key", ![s].row = {}]
  /\ UNCHANGED <<orders, trades, cash, keys, order_approvals, notified, bounds,
                 history>>

(***************************************************************************)
(* OrderIdempotencyRepository.create: the primary key refuses a key that   *)
(* another session recorded since this one passed the gates                *)
(***************************************************************************)
\* Without the primary key on idempotency_key.
KeyNeverUsed(k) == FALSE

KeyUsed(k) == \E row \in keys : row.idempotency_key = k

RecordKey(s) ==
  LET r == job[s].request
  IN  /\ At(s, "insert key")
      /\ ~KeyUsed(r.idempotency_key)
      /\ keys' = keys \cup {[idempotency_key |-> r.idempotency_key,
                             order |-> job[s].order, trade |-> job[s].trade]}
      /\ Goto(s, "approve")
      /\ UNCHANGED <<orders, trades, positions, cash, order_approvals, notified,
                     bounds, history>>

RefuseKey(s) ==
  /\ At(s, "insert key")
  /\ KeyUsed(job[s].request.idempotency_key)
  /\ RaiseLate(s, "DUPLICATE_KEY")
  /\ UNCHANGED <<tables, bounds>>

(***************************************************************************)
(* The two best-effort steps: an exception in either is logged and         *)
(* swallowed, so the row or the message may be missing and the call still  *)
(* returns its trade                                                       *)
(***************************************************************************)
RecordApproval(s) ==
  /\ At(s, "approve")
  /\ order_approvals' \in {order_approvals, order_approvals \cup {job[s].trade}}
  /\ Goto(s, "notify")
  /\ UNCHANGED <<orders, trades, positions, cash, keys, notified, bounds, history>>

NotifyAndReturn(s) ==
  /\ At(s, "notify")
  /\ notified' \in {notified, notified \cup {job[s].trade}}
  /\ returned' = returned \cup {job[s].trade}
  /\ Finish(s)
  /\ UNCHANGED <<orders, trades, positions, cash, keys, order_approvals, bounds,
                 cash_applied, position_applied, late_raises>>

(***************************************************************************)
(* A statement raises RepositoryError, or the process dies before it: the  *)
(* call ends and nothing is undone.                                        *)
(***************************************************************************)
Fail(s) ==
  /\ ~At(s, "idle")
  /\ failures < MaxFailures
  /\ failures' = failures + 1
  /\ Finish(s)
  /\ UNCHANGED <<tables, submitted, history>>

Step(s) ==
  \/ PreTradeValidation(s)
  \/ CreateOrder(s) \/ ValidateOrder(s) \/ RejectOrder(s) \/ PendOrder(s)
  \/ CreateTrade(s) \/ RecordFill(s)
  \/ ReadCash(s) \/ WriteCash(s)
  \/ ReadPosition(s) \/ WritePosition(s) \/ ReadStop(s) \/ WriteStop(s)
  \/ RecordKey(s) \/ RefuseKey(s)
  \/ RecordApproval(s) \/ NotifyAndReturn(s)

Next ==
  \E s \in Sessions :
    \/ \E r \in Requests : Submit(s, r)
    \/ Step(s)
    \/ Fail(s)

Spec == Init /\ [][Next]_vars

(***************************************************************************)
(* Properties                                                              *)
(***************************************************************************)
Quiescent == \A s \in Sessions : At(s, "idle")

TradesOf(o) == {t \in DOMAIN trades : trades[t].order = o}

KeyOf(t) == orders[trades[t].order].request.idempotency_key

\* Whatever fails and however sessions interleave: a FILLED order has exactly
\* one trade and carries its price and quantity, an order never has two
\* trades, and only an order that reached PENDING has one.  This is what
\* ReconciliationEngine._check_order_trade relies on.
OrderTradeAgreement ==
  /\ \A o \in DOMAIN orders : orders[o].status = "FILLED" =>
       \E t \in TradesOf(o) :
         /\ orders[o].filled_price = trades[t].fill_price
         /\ orders[o].filled_quantity = trades[t].quantity
  /\ \A t, u \in DOMAIN trades : trades[t].order = trades[u].order => t = u
  /\ \A t \in DOMAIN trades :
       /\ trades[t].order \in DOMAIN orders
       /\ orders[trades[t].order].status \in {"PENDING", "FILLED"}

\* A recorded idempotency key stands for a request that was carried out
\* completely: its order is FILLED, and the cash and the position of its trade
\* have been written.  A request that failed partway leaves no used key.
KeyMeansApplied ==
  \A row \in keys :
    /\ row.trade \in cash_applied \cap position_applied
    /\ trades[row.trade].order = row.order
    /\ orders[row.order].status = "FILLED"
    /\ KeyOf(row.trade) = row.idempotency_key

\* Of all the calls made with one key, over every crash, retry and race, at
\* most one returns a trade to its caller, and it is the trade on record.
OneReturnPerKey ==
  /\ \A t, u \in returned : KeyOf(t) = KeyOf(u) => t = u
  /\ \A t \in returned : \E row \in keys :
       row.trade = t /\ row.idempotency_key = KeyOf(t)

\* The sanity part of reconciliation: cash is never negative and a row is
\* closed exactly when nothing is left of it, even when two sessions overwrite
\* each other's values.
PortfolioStateSane ==
  /\ \A a \in Accounts : cash[a] >= 0
  /\ \A p \in DOMAIN positions :
       positions[p].status = "closed" <=> positions[p].quantity = 0

\* The cash of an account is its starting cash plus the effect of exactly the
\* trades whose cash was applied.  Calls one at a time.
CashLedger ==
  \A a \in Accounts :
    cash[a] = StartingCash[a]
      + SumOver([t \in DOMAIN trades |-> CashEffect(trades[t])],
                {t \in cash_applied : trades[t].account = a})

SignedQuantity(row) == IF row.direction = "LONG" THEN row.quantity ELSE -row.quantity

SignedTrade(trade) == IF trade.action = "BUY" THEN trade.quantity ELSE -trade.quantity

OpenOf(a, y) ==
  {p \in DOMAIN positions : /\ positions[p].account = a /\ positions[p].symbol = y
                            /\ positions[p].status = "open"}

\* Every account and symbol has at most one open position, whose quantity is
\* the sum of the trades applied to it; the profit and loss is accounted for
\* in cash.  Calls one at a time.
PositionLedger ==
  \A a \in Accounts, y \in Symbols :
    /\ Cardinality(OpenOf(a, y)) <= 1
    /\ SumOver([p \in DOMAIN positions |-> SignedQuantity(positions[p])], OpenOf(a, y))
         = SumOver([t \in DOMAIN trades |-> SignedTrade(trades[t])],
                   {t \in position_applied :
                      trades[t].account = a /\ trades[t].symbol = y})

\* Cash and positions are those of the trades that were applied to them,
\* whichever statement of a call failed (paper_trading_engine.py:929-946).
LedgersMatchTrades == CashLedger /\ PositionLedger

\* A trade that no key records belongs to a call that is still running, that
\* raised, or that failed: retrying a request duplicates its trade only after
\* such a call, never after one that returned.
UnrecordedTradesAreFailures ==
  LET recorded == {row.trade : row \in keys}
      running  == {job[s].trade : s \in Sessions}
  IN  Cardinality(DOMAIN trades \ (recorded \cup running))
        <= failures + Cardinality(late_raises)

\* The orders that are neither FILLED nor REJECTED and that no running call
\* works on: nothing in the code ever picks them up again.
Stranded ==
  {o \in DOMAIN orders : /\ orders[o].status \notin {"FILLED", "REJECTED"}
                         /\ \A s \in Sessions : job[s].order # o}

\* An order is left in NEW, VALIDATED or PENDING only by a statement that
\* failed, one order per failure: what transition_status and execute_order
\* refuse never strands one, whatever the sessions did to the table in between.
StrandedOrdersAreFailures == Cardinality(Stranded) <= failures

\* For an account that is not forex, and a caller who passes no stop loss, the
\* gates ask for everything the services ask for later: once they pass, no
\* service refuses the order, so no filled order is orphaned.  The exceptions
\* are an action that is neither BUY nor SELL, and a SELL whose fee and tax are
\* more than its proceeds, which no gate looks at.  Calls one at a time.
GatesSuffice ==
  \A e \in late_raises :
    LET r  == orders[e[1]].request
        ft == resolve_fee_tax(r.market, r.action)
    IN  \/ e[2] = "NOT_PENDING" /\ r.action \notin Actions
        \/ /\ e[2] = "INSUFFICIENT_CASH" /\ r.action = "SELL"
           /\ OrderValue(r) < ft.fee + ft.tax
        \/ IsForex(r.account)
        \/ r.stop_loss # {}

\* Unless a call failed or raised, every open forex position has a stop loss
\* on the protective side of its average price whenever no call is running, and
\* the monitor does not take a LONG one for stopped out at that price.
ForexProtected ==
  Quiescent /\ failures = 0 /\ late_raises = {} =>
    \A p \in DOMAIN positions :
      LET row == positions[p]
      IN  IsForex(row.account) /\ row.status = "open" =>
            \E stop \in row.stop_loss :
              /\ is_stop_loss_side_valid(row.direction, row.average_price, stop)
              /\ row.direction = "LONG" /\ row.average_price.den = 1 =>
                   MonitorTrigger(row, row.average_price.num) = "NO_TRIGGER"

\* What the gates admit is what the services accept, and it leaves a forex
\* position protected (paper_trading_engine.py:947-959).
GatesAndStopsHold == GatesSuffice /\ ForexProtected

\* The order, trade and key tables go through exactly the changes that the
\* order lifecycle allows: see OrderLifecycle.
Lifecycle ==
  INSTANCE OrderLifecycle WITH
    Keys      <- {r.idempotency_key : r \in Requests},
    status    <- [o \in DOMAIN orders |-> orders[o].status],
    traded    <- {trades[t].order : t \in DOMAIN trades},
    completed <- {<<row.idempotency_key, row.order>> : row \in keys}

\* submit_order, with its failures and races, implements the order lifecycle.
ImplementsLifecycle == Lifecycle!Spec

(***************************************************************************)
(* The inductive invariant: what a session may rely on between its         *)
(* statements, whatever the other sessions do in the meantime              *)
(***************************************************************************)
OrderLabels == Labels \ {"idle", "gates", "insert order"}
TradeLabels == OrderLabels \ {"validate", "pend", "insert trade"}
AfterCash   == {"read position", "write position", "read stop", "write stop",
                "insert key", "approve", "notify"}
AfterBook   == {"read stop", "write stop", "insert key", "approve", "notify"}
AfterKey    == {"approve", "notify"}

\* The status of the order of a session that is about to issue a statement.
StatusAt(label) ==
  CASE label = "validate" -> "NEW"
    [] label = "pend" -> "VALIDATED"
    [] label \in {"insert trade", "fill"} -> "PENDING"
    [] OTHER -> "FILLED"

\* What the gates guarantee of a request they let through.
Admitted(r) ==
  /\ r.account \in Accounts /\ r.symbol \in Symbols
  /\ r.quantity > 0 /\ r.requested_price > 0

JobInv(s) ==
  LET j == job[s]
  IN  /\ j.pc \notin {"idle", "gates"} => Admitted(j.request)
      /\ j.pc \in OrderLabels =>
           /\ j.order \in DOMAIN orders
           /\ orders[j.order].request = j.request
           /\ orders[j.order].status = StatusAt(j.pc)
           /\ j.pc # "validate" => orders[j.order].action \in Actions
           /\ j.pc \notin TradeLabels => TradesOf(j.order) = {}
      /\ j.pc \in TradeLabels =>
           /\ j.trade \in DOMAIN trades
           /\ trades[j.trade].order = j.order
      /\ j.pc = "write cash" => j.cash >= 0
      /\ j.pc \in AfterCash => j.trade \in cash_applied
      /\ j.pc \in AfterBook => j.trade \in position_applied
      /\ j.pc = "write position" => j.position \in DOMAIN positions \cup {0}
      /\ j.pc \in {"read stop", "write stop"} => j.position \in DOMAIN positions
      /\ j.pc \in {"write position", "write stop"} =>
           j.row # {} /\ SoundRow(The(j.row))
      /\ j.pc \in AfterKey =>
           [idempotency_key |-> j.request.idempotency_key,
            order |-> j.order, trade |-> j.trade] \in keys

\* No two sessions work on the same order.
OwnOrders ==
  \A s, u \in Sessions :
    job[s].pc \in OrderLabels /\ job[u].pc \in OrderLabels
      /\ job[s].order = job[u].order => s = u

KeysInv ==
  /\ \A row \in keys : row.order \in DOMAIN orders /\ row.trade \in DOMAIN trades
  /\ KeyMeansApplied
  /\ \A x, y \in keys : x.idempotency_key = y.idempotency_key => x = y

ReturnedInv ==
  \A t \in returned : \E row \in keys :
    row.trade = t /\ row.idempotency_key = KeyOf(t)

IInv ==
  /\ TypeOK
  /\ PortfolioStateSane
  /\ \A s \in Sessions : JobInv(s)
  /\ OwnOrders
  /\ OrderTradeAgreement
  /\ KeysInv
  /\ ReturnedInv

(***************************************************************************)
(* What comments of the code say of it and the code does not keep          *)
(***************************************************************************)
\* "never expected to raise here": the stop loss that passed the gate against
\* the requested price is accepted against the average price.
StopLossNeverRaises == \A e \in late_raises : e[2] # "STOP_LOSS"
=============================================================================
