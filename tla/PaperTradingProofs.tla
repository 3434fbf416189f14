------------------------- MODULE PaperTradingProofs -------------------------
(***************************************************************************)
(* The theorems about PaperTrading and its reconciliation, for every set   *)
(* of sessions, accounts, symbols and requests and for every bound:        *)
(*   what the arithmetic of PositionBook preserves;                        *)
(*   IInv is inductive, and types, the agreement of orders and trades, the *)
(*     keys and the rows follow from it;                                   *)
(*   submit_order implements the abstract order lifecycle;                 *)
(*   unrecorded trades are failed calls (FailuresInv, a counting argument);*)
(*   the book, and the gates of one session at a time (BookInv, GateInv);  *)
(*   the two ledgers of one session at a time (LedgerInv);                 *)
(*   the replay of the trades, and what the audit of those ledgers finds   *)
(*     (AuditInv).                                                         *)
(***************************************************************************)
EXTENDS Reconciliation, SumsProofs, SequenceTheorems

(***************************************************************************)
(* What the arithmetic of PositionBook preserves, for all prices,          *)
(* quantities, fees and taxes                                              *)
(***************************************************************************)

\* An option of a set is that set's empty subset or one of its singletons.
LEMMA TheOption ==
  ASSUME NEW S, NEW T \in Option(S), T # {}
  PROVE  The(T) \in T /\ The(T) \in S /\ T = {The(T)}
<1>1. PICK x \in T : TRUE
  OBVIOUS
<1>2. The(T) \in T
  BY <1>1 DEF The
<1>3. QED
  BY <1>2 DEF Option

LEMMA SingletonOption ==
  ASSUME NEW S, NEW x \in S
  PROVE  {x} \in Option(S) /\ The({x}) = x
BY DEF Option, The

LEMMA EmptyOption == ASSUME NEW S PROVE {} \in Option(S)
BY DEF Option

LEMMA ProductPositive ==
  ASSUME NEW m \in Nat \ {0}, NEW n \in Nat \ {0}
  PROVE  m * n \in Nat \ {0}
OBVIOUS

LEMMA WholeType == ASSUME NEW n \in Int PROVE Whole(n) \in Ratio
BY DEF Whole, Ratio

LEMMA RatioAddType ==
  ASSUME NEW a \in Ratio, NEW b \in Ratio
  PROVE  RatioAdd(a, b) \in Ratio
<1>1. a.den \in Nat \ {0} /\ b.den \in Nat \ {0} /\ a.num \in Int /\ b.num \in Int
  BY DEF Ratio
<1>2. a.den * b.den \in Nat \ {0}
  BY <1>1, ProductPositive
<1>3. a.num * b.den + b.num * a.den \in Int /\ a.num + b.num \in Int
  BY <1>1
<1>4. QED
  BY <1>1, <1>2, <1>3 DEF RatioAdd, Ratio

(***************************************************************************)
(* The rows that PositionManager.apply_trade writes: for a trade that it   *)
(* does not refuse they are rows of the positions table again, closed      *)
(* exactly when nothing is left.                                           *)
(***************************************************************************)
Proper(trade, As, Ss) ==
  /\ trade.account \in As /\ trade.symbol \in Ss
  /\ trade.action \in Actions
  /\ trade.quantity \in Nat \ {0} /\ trade.fill_price \in Nat \ {0}
  /\ trade.fee \in Nat /\ trade.tax \in Nat

LEMMA OpenedByType ==
  ASSUME NEW As, NEW Ss, NEW trade, Proper(trade, As, Ss)
  PROVE  /\ OpenedBy(trade) \in PositionRow(As, Ss)
         /\ SoundRow(OpenedBy(trade))
<1>1. /\ Whole(trade.fill_price) \in Ratio /\ Whole(0) \in Ratio
      /\ Whole(trade.fee) \in Ratio
  BY WholeType DEF Proper
<1>2. {} \in Option(Int)
  BY EmptyOption
<1>3. DirectionOf(trade.action) \in Directions
  BY DEF DirectionOf, Directions
<1>4. QED
  BY <1>1, <1>2, <1>3 DEF OpenedBy, PositionRow, SoundRow, Proper

LEMMA MergedType ==
  ASSUME NEW As, NEW Ss, NEW trade, Proper(trade, As, Ss),
         NEW row \in PositionRow(As, Ss), row.quantity # 0
  PROVE  /\ merge_same_direction(row, trade) \in PositionRow(As, Ss)
         /\ SoundRow(merge_same_direction(row, trade))
<1> DEFINE total == row.quantity + trade.quantity
           num   == row.quantity * row.average_price.num
                      + trade.quantity * trade.fill_price * row.average_price.den
           den   == row.average_price.den * total
<1>1. /\ row.quantity \in Nat \ {0} /\ row.average_price.num \in Int
      /\ row.average_price.den \in Nat \ {0}
  BY DEF PositionRow, Ratio
<1>2. trade.quantity \in Nat \ {0} /\ trade.fill_price \in Nat \ {0}
  BY DEF Proper
<1>3. total \in Nat \ {0}
  BY <1>1, <1>2
<1>4. num \in Int
  BY <1>1, <1>2
<1>5. den \in Nat \ {0}
  BY <1>1, <1>3, ProductPositive
<1>6. [num |-> num, den |-> den] \in Ratio
  BY <1>4, <1>5 DEF Ratio
<1>7. RatioAdd(row.buy_fee_accumulated, Whole(trade.fee)) \in Ratio
  BY RatioAddType, WholeType DEF PositionRow, Proper
<1> HIDE DEF total, num, den
<1>8. merge_same_direction(row, trade) =
        [row EXCEPT !.quantity = total,
                    !.average_price = [num |-> num, den |-> den],
                    !.buy_fee_accumulated =
                       RatioAdd(row.buy_fee_accumulated, Whole(trade.fee)),
                    !.status = "open"]
  BY DEF merge_same_direction, total, num, den, PositionRow
<1>9. QED
  BY <1>3, <1>6, <1>7, <1>8 DEF PositionRow, SoundRow

LEMMA PnlDeltaType ==
  ASSUME NEW As, NEW Ss, NEW trade, Proper(trade, As, Ss),
         NEW row \in PositionRow(As, Ss)
  PROVE  PnlDelta(row, trade) \in Ratio
<1> DEFINE gain == (trade.fill_price * row.average_price.den
                      - row.average_price.num) * trade.quantity
<1>1. /\ row.average_price.num \in Int /\ row.average_price.den \in Nat \ {0}
      /\ trade.quantity \in Int /\ trade.fill_price \in Int
  BY DEF PositionRow, Ratio, Proper
<1>2. gain \in Int
  BY <1>1
<1> HIDE DEF gain
<1>3. PnlDelta(row, trade) =
        [num |-> IF row.direction = "LONG" THEN gain ELSE -gain,
         den |-> row.average_price.den]
  BY DEF PnlDelta, gain
<1>4. QED
  BY <1>1, <1>2, <1>3 DEF Ratio

LEMMA ReducedType ==
  ASSUME NEW As, NEW Ss, NEW trade, Proper(trade, As, Ss),
         NEW row \in PositionRow(As, Ss), row.quantity # 0,
         trade.quantity <= row.quantity
  PROVE  /\ reduce_opposite_direction(row, trade) \in PositionRow(As, Ss)
         /\ SoundRow(reduce_opposite_direction(row, trade))
<1> DEFINE left == row.quantity - trade.quantity
           pnl  == RatioAdd(RatioAdd(row.realized_pnl, PnlDelta(row, trade)),
                            Whole(-trade.fee - trade.tax))
           fees == [num |-> row.buy_fee_accumulated.num * left,
                    den |-> row.buy_fee_accumulated.den * row.quantity]
<1>1. /\ row.quantity \in Nat \ {0} /\ row.realized_pnl \in Ratio
      /\ row.buy_fee_accumulated.num \in Int
      /\ row.buy_fee_accumulated.den \in Nat \ {0}
  BY DEF PositionRow, Ratio
<1>2. left \in Nat
  BY <1>1 DEF Proper
<1>3. pnl \in Ratio
  <2>1. -trade.fee - trade.tax \in Int
    BY DEF Proper
  <2>2. Whole(-trade.fee - trade.tax) \in Ratio
    BY <2>1, WholeType
  <2>3. QED
    BY <1>1, <2>2, PnlDeltaType, RatioAddType
<1>4. fees \in Ratio
  <2>1. row.buy_fee_accumulated.num * left \in Int
    BY <1>1, <1>2
  <2>2. row.buy_fee_accumulated.den * row.quantity \in Nat \ {0}
    BY <1>1, ProductPositive
  <2>3. QED
    BY <2>1, <2>2 DEF Ratio
<1> HIDE DEF left, pnl, fees
<1>5. reduce_opposite_direction(row, trade) =
        [row EXCEPT !.quantity = left, !.realized_pnl = pnl,
                    !.buy_fee_accumulated = fees,
                    !.status = IF left = 0 THEN "closed" ELSE "open"]
  BY DEF reduce_opposite_direction, left, pnl, fees, PositionRow
<1>6. QED
  BY <1>2, <1>3, <1>4, <1>5 DEF PositionRow, SoundRow

LEMMA AppliedRowType ==
  ASSUME NEW As, NEW Ss, NEW trade, Proper(trade, As, Ss),
         NEW held \in Option(PositionRow(As, Ss)),
         \A row \in held : row.status = "open" /\ SoundRow(row),
         NEW isForex, ~CannotApply(held, trade, isForex)
  PROVE  /\ AppliedRow(held, trade) \in PositionRow(As, Ss)
         /\ SoundRow(AppliedRow(held, trade))
<1>1. CASE held = {}
  BY <1>1, OpenedByType DEF AppliedRow
<1>2. CASE held # {}
  <2> DEFINE row == The(held)
  <2>1. row \in held /\ row \in PositionRow(As, Ss)
    BY <1>2, TheOption
  <2> HIDE DEF row
  <2>2. row.quantity # 0
    BY <2>1 DEF SoundRow
  <2>3. CASE DirectionOf(trade.action) = row.direction
    BY <1>2, <2>1, <2>2, <2>3, MergedType DEF AppliedRow, row
  <2>4. CASE DirectionOf(trade.action) # row.direction
    <3>1. ~(trade.quantity > row.quantity)
      BY <1>2, <2>1, <2>4 DEF CannotApply
    <3>2. trade.quantity <= row.quantity
      BY <2>1, <3>1 DEF PositionRow, Proper
    <3>3. QED
      BY <1>2, <2>1, <2>2, <2>4, <3>2, ReducedType DEF AppliedRow, row
  <2>5. QED
    BY <2>3, <2>4
<1>3. QED
  BY <1>1, <1>2

(***************************************************************************)
(* Tables: appending a row and replacing one                               *)
(***************************************************************************)
LEMMA Appended ==
  ASSUME NEW S, NEW table \in Seq(S), NEW row \in S
  PROVE  /\ Append(table, row) \in Seq(S)
         /\ Len(table) \in Nat
         /\ Len(table) + 1 \in Nat \ {0}
         /\ Len(table) + 1 \notin DOMAIN table
         /\ DOMAIN Append(table, row) = DOMAIN table \cup {Len(table) + 1}
         /\ \A i \in DOMAIN table : Append(table, row)[i] = table[i]
         /\ Append(table, row)[Len(table) + 1] = row
<1>1. Len(table) \in Nat /\ DOMAIN table = 1 .. Len(table)
  BY LenProperties
<1>2. /\ Append(table, row) \in Seq(S)
      /\ Len(Append(table, row)) = Len(table) + 1
      /\ \A i \in 1 .. Len(table) : Append(table, row)[i] = table[i]
      /\ Append(table, row)[Len(table) + 1] = row
  BY AppendProperties
<1>3. DOMAIN Append(table, row) = 1 .. Len(table) + 1
  BY <1>2, LenProperties
<1>4. QED
  BY <1>1, <1>2, <1>3

LEMMA Replaced ==
  ASSUME NEW S, NEW table \in Seq(S), NEW row \in S, NEW i \in DOMAIN table
  PROVE  /\ [table EXCEPT ![i] = row] \in Seq(S)
         /\ DOMAIN [table EXCEPT ![i] = row] = DOMAIN table
         /\ [table EXCEPT ![i] = row][i] = row
         /\ \A k \in DOMAIN table : k # i => [table EXCEPT ![i] = row][k] = table[k]
<1>1. DOMAIN table = 1 .. Len(table)
  BY LenProperties
<1>2. QED
  BY <1>1, ExceptSeq

LEMMA RowType ==
  ASSUME NEW S, NEW table \in Seq(S), NEW i \in DOMAIN table
  PROVE  table[i] \in S /\ i \in Nat \ {0}
<1>1. DOMAIN table = 1 .. Len(table) /\ Len(table) \in Nat
  BY LenProperties
<1>2. QED
  BY <1>1, ElementOfSeq

(***************************************************************************)
(* What the gates guarantee, and what the fees are                         *)
(***************************************************************************)
LEMMA GatesAdmit ==
  ASSUME NEW db, NEW r \in Requests, pre_trade_validation(db, r) = {}
  PROVE  Admitted(r)
<1>1. r \in RequestType /\ r.symbol \in Symbols \cup {""}
  BY PreTradeAssumption
<1>2. \A i \in DOMAIN GateOrder : ~Refuses(GateOrder[i], db, r)
  BY DEF pre_trade_validation
<1>3. /\ 1 \in DOMAIN GateOrder /\ GateOrder[1] = "ACCOUNT_NOT_FOUND"
      /\ 4 \in DOMAIN GateOrder /\ GateOrder[4] = "INVALID_SYMBOL"
      /\ 5 \in DOMAIN GateOrder /\ GateOrder[5] = "INVALID_QUANTITY"
      /\ 7 \in DOMAIN GateOrder /\ GateOrder[7] = "INVALID_PRICE"
  BY DEF GateOrder
<1>4. /\ ~Refuses("ACCOUNT_NOT_FOUND", db, r) /\ ~Refuses("INVALID_SYMBOL", db, r)
      /\ ~Refuses("INVALID_QUANTITY", db, r) /\ ~Refuses("INVALID_PRICE", db, r)
  BY <1>2, <1>3
<1>5. r.account \in Accounts
  BY <1>4 DEF Refuses
<1>6. r.symbol \in Symbols
  BY <1>1, <1>4 DEF Refuses
<1>7. ~(r.quantity <= 0)
  BY <1>4 DEF Refuses
<1>8. ~(r.requested_price <= 0)
  BY <1>4 DEF Refuses
<1>9. r.quantity \in Int /\ r.requested_price \in Int
  BY <1>1 DEF RequestType
<1>10. QED
  BY <1>5, <1>6, <1>7, <1>8, <1>9 DEF Admitted

LEMMA FeesType ==
  ASSUME NEW market, NEW action
  PROVE  /\ resolve_fee_tax(market, action).fee \in Nat
         /\ resolve_fee_tax(market, action).tax \in Nat
<1>1. Policy \in PolicyType
  BY PreTradeAssumption
<1>2. QED
  BY <1>1 DEF PolicyType, resolve_fee_tax

(***************************************************************************)
(* One session's statement, seen by the others                             *)
(***************************************************************************)
\* Session s only adds to the tables, except for the status and fill of the
\* order it works on, which is not FILLED.
Grows(s) ==
  /\ \A o \in DOMAIN orders :
       /\ o \in DOMAIN orders'
       /\ orders'[o].request = orders[o].request
       /\ orders'[o].action = orders[o].action
       /\ \/ orders'[o].status = orders[o].status
          \/ /\ job[s].pc \in OrderLabels /\ o = job[s].order
             /\ orders[o].status # "FILLED"
  /\ \A t \in DOMAIN trades : t \in DOMAIN trades' /\ trades'[t] = trades[t]
  /\ \A t \in DOMAIN trades' :
       t \notin DOMAIN trades =>
         job[s].pc \in OrderLabels /\ trades'[t].order = job[s].order
  /\ DOMAIN positions \subseteq DOMAIN positions'
  /\ keys \subseteq keys'
  /\ cash_applied \subseteq cash_applied'
  /\ position_applied \subseteq position_applied'

\* The order a session works on is the one it had, or a new one.
KeepsOrder(s) ==
  job'[s].pc \in OrderLabels =>
    \/ job[s].pc \in OrderLabels /\ job'[s].order = job[s].order
    \/ job'[s].order \notin DOMAIN orders

LEMMA OthersKeep ==
  ASSUME NEW s \in Sessions, NEW u \in Sessions, u # s,
         JobInv(u), OwnOrders, Grows(s), job'[u] = job[u]
  PROVE  JobInv(u)'
<1> DEFINE j == job[u]
<1>1. j.pc \in OrderLabels /\ job[s].pc \in OrderLabels => j.order # job[s].order
  BY DEF OwnOrders
<1>2. j.pc \in TradeLabels => j.pc \in OrderLabels
  BY DEF TradeLabels
<1>3. j.pc \in OrderLabels =>
        /\ j.order \in DOMAIN orders'
        /\ orders'[j.order].request = j.request
        /\ orders'[j.order].status = StatusAt(j.pc)
        /\ (j.pc # "validate" => orders'[j.order].action \in Actions)
  BY <1>1 DEF JobInv, Grows
<1>4. ASSUME j.pc \in OrderLabels, j.pc \notin TradeLabels
      PROVE  TradesOf(j.order)' = {}
  <2>1. \A t \in DOMAIN trades : trades[t].order # j.order
    BY <1>4 DEF JobInv, TradesOf
  <2>2. \A t \in DOMAIN trades' : trades'[t].order # j.order
    BY <1>1, <1>4, <2>1 DEF Grows
  <2>3. QED
    BY <2>2 DEF TradesOf
<1>5. j.pc \in TradeLabels =>
        /\ j.trade \in DOMAIN trades'
        /\ trades'[j.trade].order = j.order
  BY DEF JobInv, Grows
<1>6. QED
  BY <1>3, <1>4, <1>5, ZenonT(40) DEF JobInv, Grows

LEMMA OwnOrdersKept ==
  ASSUME NEW s \in Sessions, OwnOrders, \A u \in Sessions : JobInv(u),
         KeepsOrder(s), \A u \in Sessions \ {s} : job'[u] = job[u]
  PROVE  OwnOrders'
<1>1. ASSUME NEW u \in Sessions, u # s, job'[u].pc \in OrderLabels,
             job'[s].pc \in OrderLabels
      PROVE  job'[u].order # job'[s].order
  <2>1. job[u].pc \in OrderLabels /\ job'[u].order = job[u].order
    BY <1>1
  <2>2. job[u].order \in DOMAIN orders
    BY <2>1 DEF JobInv
  <2>3. QED
    BY <1>1, <2>1, <2>2 DEF OwnOrders, KeepsOrder
<1>2. QED
  BY <1>1 DEF OwnOrders

LEMMA KeysKept ==
  ASSUME NEW s \in Sessions, KeysInv, Grows(s), keys' = keys
  PROVE  KeysInv'
<1>1. ASSUME NEW row \in keys
      PROVE  /\ row.order \in DOMAIN orders' /\ row.trade \in DOMAIN trades'
             /\ row.trade \in cash_applied' \cap position_applied'
             /\ trades'[row.trade].order = row.order
             /\ orders'[row.order].status = "FILLED"
             /\ KeyOf(row.trade)' = row.idempotency_key
  BY DEF KeysInv, KeyMeansApplied, Grows, KeyOf
<1>2. QED
  BY <1>1 DEF KeysInv, KeyMeansApplied

LEMMA ReturnedKept ==
  ASSUME NEW s \in Sessions, TypeOK, OrderTradeAgreement, ReturnedInv, Grows(s),
         returned' = returned
  PROVE  ReturnedInv'
<1>1. \A t \in returned : t \in DOMAIN trades /\ KeyOf(t)' = KeyOf(t)
  BY DEF TypeOK, OrderTradeAgreement, Grows, KeyOf
<1>2. QED
  BY <1>1 DEF ReturnedInv, Grows

\* What remains to be shown of a step that leaves the key table, and the
\* results returned, as they are.
LEMMA Frame ==
  ASSUME NEW s \in Sessions, IInv, Grows(s), KeepsOrder(s),
         \A u \in Sessions \ {s} : job'[u] = job[u],
         UNCHANGED <<keys, returned>>,
         TypeOK', PortfolioStateSane', JobInv(s)', OrderTradeAgreement'
  PROVE  IInv'
<1>1. \A u \in Sessions : JobInv(u)'
  BY OthersKeep DEF IInv
<1>2. OwnOrders'
  BY OwnOrdersKept DEF IInv
<1>3. KeysInv'
  BY KeysKept DEF IInv
<1>4. ReturnedInv'
  BY ReturnedKept DEF IInv
<1>5. QED
  BY <1>1, <1>2, <1>3, <1>4 DEF IInv

(***************************************************************************)
(* The initial state, and the steps that only change the job of a session  *)
(***************************************************************************)
LEMMA IdleJobType == IdleJob \in Job /\ IdleJob.pc = "idle"
<1>1. (CHOOSE r \in Requests : TRUE) \in Requests
  BY PreTradeAssumption
<1>2. {} \in Option(PositionRow(Accounts, Symbols))
  BY EmptyOption
<1>3. QED
  BY <1>1, <1>2 DEF IdleJob, Job, Labels

LEMMA InitIInv == Init => IInv
<1> SUFFICES ASSUME Init PROVE IInv
  OBVIOUS
<1>1. \A s \in Sessions : job[s].pc = "idle"
  BY IdleJobType DEF Init
<1>2. TypeOK
  <2>1. orders \in Seq(OrderRow) /\ trades \in Seq(TradeRow)
        /\ positions \in Seq(PositionRow(Accounts, Symbols))
    BY EmptySeq DEF Init
  <2>2. cash \in [Accounts -> Int]
    BY PaperTradingAssumption DEF Init
  <2>3. job \in [Sessions -> Job]
    BY IdleJobType DEF Init
  <2>4. QED
    BY <2>1, <2>2, <2>3 DEF Init, TypeOK
<1>3. DOMAIN orders = {} /\ DOMAIN trades = {} /\ DOMAIN positions = {}
  BY DEF Init
<1>4. PortfolioStateSane
  BY <1>3, PaperTradingAssumption DEF Init, PortfolioStateSane
<1>5. \A s \in Sessions : JobInv(s)
  BY <1>1 DEF JobInv, OrderLabels, TradeLabels, AfterCash, AfterBook, AfterKey
<1>6. OwnOrders
  BY <1>1 DEF OwnOrders, OrderLabels
<1>7. OrderTradeAgreement
  BY <1>3 DEF OrderTradeAgreement
<1>8. KeysInv /\ ReturnedInv
  BY DEF Init, KeysInv, KeyMeansApplied, ReturnedInv
<1>9. QED
  BY <1>2, <1>4, <1>5, <1>6, <1>7, <1>8 DEF IInv

LEMMA JobOnly ==
  ASSUME IInv, NEW s \in Sessions, NEW j \in Job,
         job' = [job EXCEPT ![s] = j],
         UNCHANGED <<tables, cash_applied, position_applied, returned>>,
         submitted' \in Nat, failures' \in Nat,
         JobInv(s)', KeepsOrder(s)
  PROVE  IInv'
<1> USE DEF tables
<1>1. TypeOK'
  BY DEF IInv, TypeOK
<1>2. PortfolioStateSane'
  BY DEF IInv, PortfolioStateSane
<1>3. OrderTradeAgreement'
  <2>1. OrderTradeAgreement
    BY DEF IInv
  <2>2. \A o \in DOMAIN orders : TradesOf(o)' = TradesOf(o)
    BY DEF TradesOf
  <2>3. QED
    BY <2>1, <2>2 DEF OrderTradeAgreement
<1>4. Grows(s)
  BY DEF Grows
<1>5. \A u \in Sessions \ {s} : job'[u] = job[u]
  BY DEF IInv, TypeOK
<1>6. QED
  BY <1>1, <1>2, <1>3, <1>4, <1>5, Frame

LEMMA Finished ==
  ASSUME IInv, NEW s \in Sessions, Finish(s),
         UNCHANGED <<tables, cash_applied, position_applied, returned>>,
         submitted' \in Nat, failures' \in Nat
  PROVE  IInv'
<1>1. job'[s].pc = "idle"
  BY IdleJobType DEF Finish, IInv, TypeOK
<1>2. JobInv(s)' /\ KeepsOrder(s)
  BY <1>1 DEF JobInv, KeepsOrder, OrderLabels, TradeLabels, AfterCash,
              AfterBook, AfterKey
<1>3. QED
  BY <1>2, IdleJobType, JobOnly DEF Finish

LEMMA SubmitKeeps ==
  ASSUME IInv, NEW s \in Sessions, NEW r \in Requests, Submit(s, r)
  PROVE  IInv'
<1> DEFINE j == [job[s] EXCEPT !.pc = "gates", !.request = r]
<1>1. j \in Job /\ j.pc = "gates"
  BY ZenonT(40) DEF IInv, TypeOK, Job, Labels
<1>2. job' = [job EXCEPT ![s] = j] /\ job'[s] = j
  BY DEF Submit, IInv, TypeOK
<1> HIDE DEF j
<1>3. JobInv(s)' /\ KeepsOrder(s)
  BY <1>1, <1>2 DEF JobInv, KeepsOrder, OrderLabels, TradeLabels, AfterCash,
                    AfterBook, AfterKey
<1>4. UNCHANGED <<tables, cash_applied, position_applied, returned>>
      /\ submitted' \in Nat /\ failures' \in Nat
  BY DEF Submit, history, IInv, TypeOK
<1>5. QED
  BY <1>1, <1>2, <1>3, <1>4, JobOnly

LEMMA PreTradeValidationKeeps ==
  ASSUME IInv, NEW s \in Sessions, PreTradeValidation(s)
  PROVE  IInv'
<1> DEFINE db == [cash |-> cash, positions |-> positions, keys |-> keys]
           j  == [job[s] EXCEPT !.pc = "insert order"]
<1>1. UNCHANGED <<tables, cash_applied, position_applied, returned>>
      /\ submitted' \in Nat /\ failures' \in Nat
  BY DEF PreTradeValidation, bounds, history, IInv, TypeOK
<1>2. CASE pre_trade_validation(db, job[s].request) = {}
  <2>1. Goto(s, "insert order")
    BY <1>2 DEF PreTradeValidation
  <2>2. Admitted(job[s].request)
    BY <1>2, GatesAdmit DEF IInv, TypeOK, Job
  <2>3. j \in Job /\ j.pc = "insert order" /\ j.request = job[s].request
    BY ZenonT(40) DEF IInv, TypeOK, Job, Labels
  <2>4. job' = [job EXCEPT ![s] = j] /\ job'[s] = j
    BY <2>1 DEF Goto, IInv, TypeOK
  <2> HIDE DEF j
  <2>5. JobInv(s)' /\ KeepsOrder(s)
    BY <2>2, <2>3, <2>4 DEF JobInv, KeepsOrder, OrderLabels, TradeLabels,
                            AfterCash, AfterBook, AfterKey, Admitted
  <2>6. QED
    BY <1>1, <2>3, <2>4, <2>5, JobOnly
<1>3. CASE pre_trade_validation(db, job[s].request) # {}
  <2>1. Finish(s)
    BY <1>3 DEF PreTradeValidation
  <2>2. QED
    BY <1>1, <2>1, Finished
<1>4. QED
  BY <1>2, <1>3

LEMMA RaiseLateKeeps ==
  ASSUME IInv, NEW s \in Sessions, NEW why, RaiseLate(s, why),
         UNCHANGED <<tables, bounds>>
  PROVE  IInv'
BY Finished DEF RaiseLate, bounds, IInv, TypeOK

LEMMA FailKeeps ==
  ASSUME IInv, NEW s \in Sessions, Fail(s)
  PROVE  IInv'
BY Finished DEF Fail, history, IInv, TypeOK

LEMMA RefuseKeyKeeps ==
  ASSUME IInv, NEW s \in Sessions, RefuseKey(s)
  PROVE  IInv'
BY RaiseLateKeeps DEF RefuseKey

LEMMA ReadCashKeeps ==
  ASSUME IInv, NEW s \in Sessions, ReadCash(s)
  PROVE  IInv'
<1> DEFINE trade    == trades[job[s].trade]
           new_cash == NewCash(trade)
           j        == [job[s] EXCEPT !.pc = "write cash", !.cash = new_cash]
<1>1. job[s] \in Job /\ job[s].pc = "read cash" /\ JobInv(s)
  BY DEF ReadCash, At, IInv, TypeOK
<1>2. trade \in TradeRow
  BY <1>1, RowType DEF IInv, TypeOK, JobInv, TradeLabels, OrderLabels, Labels
<1>3. new_cash \in Int
  <2>1. cash[trade.account] \in Int
    BY <1>2 DEF TradeRow, IInv, TypeOK
  <2>2. trade.quantity \in Int /\ trade.fill_price \in Int
        /\ trade.fee \in Int /\ trade.tax \in Int
    BY <1>2 DEF TradeRow
  <2>3. trade.quantity * trade.fill_price \in Int
    BY <2>2
  <2> HIDE DEF trade
  <2>4. CashEffect(trade) \in Int
    BY <2>2, <2>3 DEF CashEffect, compute_buy_required_cash
  <2>5. QED
    BY <2>1, <2>4 DEF NewCash
<1> HIDE DEF trade, new_cash
<1>4. UNCHANGED <<tables, bounds>>
  BY DEF ReadCash
<1>5. CASE new_cash < 0
  BY <1>4, <1>5, RaiseLateKeeps DEF ReadCash, new_cash, trade
<1>6. CASE ~(new_cash < 0)
  <2>1. /\ j \in Job /\ j.pc = "write cash" /\ j.cash >= 0
        /\ j.request = job[s].request /\ j.order = job[s].order
        /\ j.trade = job[s].trade
    <3>1. new_cash >= 0
      BY <1>3, <1>6
    <3>2. /\ j \in Job /\ j.pc = "write cash" /\ j.cash = new_cash
          /\ j.request = job[s].request /\ j.order = job[s].order
          /\ j.trade = job[s].trade
      BY <1>1, <1>3 DEF Job, Labels
    <3>3. QED
      BY <3>1, <3>2
  <2>2. job' = [job EXCEPT ![s] = j] /\ UNCHANGED history
    BY <1>6 DEF ReadCash, IInv, TypeOK, new_cash, trade
  <2>3. job'[s] = j
    BY <2>2 DEF IInv, TypeOK
  <2> HIDE DEF j
  <2>4. UNCHANGED <<tables, cash_applied, position_applied, returned>>
        /\ submitted' \in Nat /\ failures' \in Nat
    BY <1>4, <2>2 DEF bounds, history, IInv, TypeOK
  <2>5. JobInv(s)' /\ KeepsOrder(s)
    BY <1>1, <2>1, <2>3, <2>4
    DEF JobInv, KeepsOrder, OrderLabels, TradeLabels, AfterCash, AfterBook,
        AfterKey, Labels, StatusAt, TradesOf, tables
  <2>6. QED
    BY <2>1, <2>2, <2>4, <2>5, JobOnly
<1>7. QED
  BY <1>5, <1>6

\* The row found by get_open_position, if any, is one of the symbol's open rows.
LEMMA OpenPositionType ==
  ASSUME NEW table \in Seq(PositionRow(Accounts, Symbols)), NEW a, NEW y
  PROVE  /\ get_open_position(table, a, y) \in Option(DOMAIN table)
         /\ \A p \in get_open_position(table, a, y) : table[p].status = "open"
<1> DEFINE found == get_open_position(table, a, y)
<1>1. DOMAIN table \subseteq Int
  BY LenProperties
<1>2. /\ found \subseteq DOMAIN table
      /\ \A p \in found : table[p].status = "open"
  BY DEF get_open_position
<1>3. \A p, q \in found : p <= q /\ q <= p
  BY DEF get_open_position
<1>4. \A p, q \in found : p = q
  BY <1>1, <1>2, <1>3
<1>5. QED
  BY <1>2, <1>4 DEF Option

LEMMA ReadPositionKeeps ==
  ASSUME IInv, NEW s \in Sessions, ReadPosition(s)
  PROVE  IInv'
<1> DEFINE trade == trades[job[s].trade]
           found == get_open_position(positions, trade.account, trade.symbol)
           held  == {positions[p] : p \in found}
           row   == AppliedRow(held, trade)
           p     == IF found = {} THEN 0 ELSE The(found)
           j     == [job[s] EXCEPT !.pc = "write position", !.position = p,
                                   !.row = {row}]
<1>1. job[s] \in Job /\ job[s].pc = "read position" /\ JobInv(s)
  BY DEF ReadPosition, At, IInv, TypeOK
<1>2. trade \in TradeRow
  BY <1>1, RowType DEF IInv, TypeOK, JobInv, TradeLabels, OrderLabels, Labels
<1>3. /\ found \in Option(DOMAIN positions)
      /\ \A q \in found : positions[q].status = "open"
  BY OpenPositionType DEF IInv, TypeOK
<1>4. /\ held \in Option(PositionRow(Accounts, Symbols))
      /\ \A x \in held : x.status = "open" /\ SoundRow(x)
  <2>1. \A q \in DOMAIN positions :
          positions[q] \in PositionRow(Accounts, Symbols) /\ SoundRow(positions[q])
    BY RowType DEF IInv, TypeOK, PortfolioStateSane, SoundRow
  <2>2. QED
    BY <1>3, <2>1 DEF Option
<1>5. p \in DOMAIN positions \cup {0} /\ p \in Nat
  BY <1>3, TheOption, LenProperties DEF IInv, TypeOK
<1>6. Proper(trade, Accounts, Symbols)
  BY <1>2 DEF TradeRow, Proper
<1> HIDE DEF trade, found, held, row, p
<1>7. UNCHANGED <<tables, bounds>>
  BY DEF ReadPosition
<1>8. CASE CannotApply(held, trade, IsForex(trade.account))
  BY <1>7, <1>8, RaiseLateKeeps DEF ReadPosition, trade, found, held
<1>9. CASE ~CannotApply(held, trade, IsForex(trade.account))
  <2>1. row \in PositionRow(Accounts, Symbols) /\ SoundRow(row)
    BY <1>4, <1>6, <1>9, AppliedRowType DEF row
  <2>2. {row} \in Option(PositionRow(Accounts, Symbols)) /\ The({row}) = row
    BY <2>1, SingletonOption
  <2>3. /\ j \in Job /\ j.pc = "write position"
        /\ j.request = job[s].request /\ j.order = job[s].order
        /\ j.trade = job[s].trade /\ j.position = p /\ j.row = {row}
    BY <1>1, <1>5, <2>2 DEF Job, Labels
  <2>4. job' = [job EXCEPT ![s] = j] /\ UNCHANGED history
    BY <1>9 DEF ReadPosition, IInv, TypeOK, trade, found, held, row, p
  <2>5. job'[s] = j
    BY <2>4 DEF IInv, TypeOK
  <2> HIDE DEF j
  <2>6. UNCHANGED <<tables, cash_applied, position_applied, returned>>
        /\ submitted' \in Nat /\ failures' \in Nat
    BY <1>7, <2>4 DEF bounds, history, IInv, TypeOK
  <2>7. j.row # {} /\ SoundRow(The(j.row))
    BY <2>1, <2>2, <2>3
  <2>8. JobInv(s)' /\ KeepsOrder(s)
    BY <1>1, <1>5, <2>3, <2>5, <2>6, <2>7
    DEF JobInv, KeepsOrder, OrderLabels, TradeLabels, AfterCash, AfterBook,
        AfterKey, Labels, StatusAt, TradesOf, tables
  <2>9. QED
    BY <2>3, <2>4, <2>6, <2>8, JobOnly
<1>10. QED
  BY <1>8, <1>9

LEMMA ReadStopKeeps ==
  ASSUME IInv, NEW s \in Sessions, ReadStop(s)
  PROVE  IInv'
<1> DEFINE row  == positions[job[s].position]
           stop == job[s].request.stop_loss
           new  == [row EXCEPT !.stop_loss = stop]
           j    == [job[s] EXCEPT !.pc = "write stop", !.row = {new}]
           ok   == \A x \in stop :
                     is_stop_loss_side_valid(row.direction, row.average_price, x)
<1>1. job[s] \in Job /\ job[s].pc = "read stop" /\ JobInv(s)
  BY DEF ReadStop, At, IInv, TypeOK
<1>2. row \in PositionRow(Accounts, Symbols) /\ SoundRow(row)
  <2>1. job[s].position \in DOMAIN positions
    BY <1>1 DEF JobInv
  <2>2. QED
    BY <2>1, RowType DEF IInv, TypeOK, PortfolioStateSane, SoundRow
<1>3. stop \in Option(Int)
  BY <1>1, PreTradeAssumption DEF Job, RequestType
<1> HIDE DEF row, stop
<1>4. new \in PositionRow(Accounts, Symbols) /\ SoundRow(new)
  BY <1>2, <1>3 DEF PositionRow, SoundRow
<1> HIDE DEF new
<1>5. UNCHANGED <<tables, bounds>>
  BY DEF ReadStop
<1>6. CASE ~ok
  BY <1>5, <1>6, RaiseLateKeeps DEF ReadStop, row, stop
<1>7. CASE ok
  <2>1. {new} \in Option(PositionRow(Accounts, Symbols)) /\ The({new}) = new
    BY <1>4, SingletonOption
  <2>2. /\ j \in Job /\ j.pc = "write stop"
        /\ j.request = job[s].request /\ j.order = job[s].order
        /\ j.trade = job[s].trade /\ j.position = job[s].position
        /\ j.row = {new}
    BY <1>1, <2>1 DEF Job, Labels
  <2>3. job' = [job EXCEPT ![s] = j] /\ UNCHANGED history
    BY <1>7 DEF ReadStop, IInv, TypeOK, row, stop, new
  <2>4. job'[s] = j
    BY <2>3 DEF IInv, TypeOK
  <2> HIDE DEF j
  <2>5. UNCHANGED <<tables, cash_applied, position_applied, returned>>
        /\ submitted' \in Nat /\ failures' \in Nat
    BY <1>5, <2>3 DEF bounds, history, IInv, TypeOK
  <2>6. j.row # {} /\ SoundRow(The(j.row))
    BY <1>4, <2>1, <2>2
  <2>7. JobInv(s)' /\ KeepsOrder(s)
    BY <1>1, <2>2, <2>4, <2>5, <2>6
    DEF JobInv, KeepsOrder, OrderLabels, TradeLabels, AfterCash, AfterBook,
        AfterKey, Labels, StatusAt, TradesOf, tables
  <2>8. QED
    BY <2>2, <2>3, <2>5, <2>7, JobOnly
<1>8. QED
  BY <1>6, <1>7

(***************************************************************************)
(* The steps that write the order table                                    *)
(***************************************************************************)
LEMMA CreateOrderKeeps ==
  ASSUME IInv, NEW s \in Sessions, CreateOrder(s)
  PROVE  IInv'
<1> DEFINE r   == job[s].request
           row == [account |-> r.account, symbol |-> r.symbol,
                   action |-> r.action, quantity |-> r.quantity,
                   requested_price |-> r.requested_price, status |-> "NEW",
                   filled_price |-> 0, filled_quantity |-> 0, request |-> r]
           o   == Len(orders) + 1
           j   == [job[s] EXCEPT !.pc = "validate", !.order = o]
<1>1. /\ job[s] \in Job /\ job[s].pc = "insert order" /\ JobInv(s)
      /\ orders \in Seq(OrderRow)
  BY DEF CreateOrder, At, IInv, TypeOK
<1>2. r \in Requests /\ r \in RequestType /\ Admitted(r)
  BY <1>1, PreTradeAssumption DEF Job, JobInv
<1>3. row \in OrderRow /\ row.request = r /\ row.status = "NEW"
  <2>1. /\ r.account \in Accounts /\ r.symbol \in Symbols /\ r.action \in STRING
        /\ r.quantity \in Nat \ {0} /\ r.requested_price \in Nat \ {0}
    <3>1. /\ r.action \in STRING /\ r.quantity \in Int
          /\ r.requested_price \in Int
      BY <1>2 DEF RequestType
    <3>2. /\ r.account \in Accounts /\ r.symbol \in Symbols
          /\ r.quantity > 0 /\ r.requested_price > 0
      BY <1>2 DEF Admitted
    <3>3. QED
      BY <3>1, <3>2
  <2> HIDE DEF r
  <2>2. QED
    BY <1>2, <2>1 DEF OrderRow, OrderStatuses
<1>4. orders' = Append(orders, row)
  BY DEF CreateOrder
<1> HIDE DEF row
<1>5. /\ orders' \in Seq(OrderRow)
      /\ o \in Nat \ {0} /\ o \notin DOMAIN orders
      /\ DOMAIN orders' = DOMAIN orders \cup {o}
      /\ \A i \in DOMAIN orders : orders'[i] = orders[i]
      /\ orders'[o] = row
  <2>1. row \in OrderRow /\ orders \in Seq(OrderRow)
    BY <1>1, <1>3
  <2>2. QED
    BY <1>4, <2>1, Appended
<1> HIDE DEF o
<1>6. /\ job' = [job EXCEPT ![s] = j] /\ job'[s] = j /\ j \in Job
      /\ j.pc = "validate" /\ j.order = o /\ j.request = r
  BY <1>1, <1>5 DEF CreateOrder, IInv, TypeOK, Job, Labels, o
<1> HIDE DEF j, r
<1>7. /\ UNCHANGED <<trades, positions, cash, keys, order_approvals, notified>>
      /\ UNCHANGED <<bounds, cash_applied, position_applied, returned>>
  BY DEF CreateOrder, history
<1>8. TypeOK'
  BY <1>5, <1>6, <1>7 DEF IInv, TypeOK, bounds
<1>9. PortfolioStateSane'
  BY <1>7 DEF IInv, PortfolioStateSane
<1>10. \A t \in DOMAIN trades : trades[t].order # o
  BY <1>5 DEF IInv, OrderTradeAgreement
<1>11. OrderTradeAgreement'
  <2>1. OrderTradeAgreement
    BY DEF IInv
  <2>2. \A i \in DOMAIN orders : TradesOf(i)' = TradesOf(i)
    BY <1>7 DEF TradesOf
  <2>3. QED
    BY <1>3, <1>5, <1>7, <2>1, <2>2 DEF OrderTradeAgreement
<1>12. JobInv(s)'
  BY <1>2, <1>3, <1>5, <1>6, <1>7, <1>10, ZenonT(40)
  DEF JobInv, OrderLabels, TradeLabels, AfterCash, AfterBook, AfterKey, Labels,
      StatusAt, TradesOf
<1>13. Grows(s) /\ KeepsOrder(s)
  BY <1>5, <1>6, <1>7 DEF Grows, KeepsOrder
<1>14. \A u \in Sessions \ {s} : job'[u] = job[u]
  BY <1>6 DEF IInv, TypeOK
<1>15. QED
  BY <1>7, <1>8, <1>9, <1>11, <1>12, <1>13, <1>14, Frame

\* Session s replaces the row of the order it works on.
LEMMA OrderRewritten ==
  ASSUME IInv, NEW s \in Sessions, job[s].pc \in OrderLabels,
         NEW row \in OrderRow, NEW j \in Job,
         orders[job[s].order].status # "FILLED",
         row.request = orders[job[s].order].request,
         row.action = orders[job[s].order].action,
         orders' = [orders EXCEPT ![job[s].order] = row],
         job' = [job EXCEPT ![s] = j],
         j.pc \in OrderLabels => j.order = job[s].order,
         UNCHANGED <<trades, positions, cash, keys, order_approvals, notified>>,
         UNCHANGED <<bounds, cash_applied, position_applied, returned>>,
         OrderTradeAgreement', JobInv(s)'
  PROVE  IInv'
<1> DEFINE o == job[s].order
<1>1. o \in DOMAIN orders /\ orders \in Seq(OrderRow)
  BY DEF IInv, TypeOK, JobInv
<1>2. /\ orders' \in Seq(OrderRow) /\ DOMAIN orders' = DOMAIN orders
      /\ orders'[o] = row
      /\ \A i \in DOMAIN orders : i # o => orders'[i] = orders[i]
  BY <1>1, Replaced
<1>3. TypeOK'
  BY <1>2 DEF IInv, TypeOK, bounds
<1>4. PortfolioStateSane'
  BY DEF IInv, PortfolioStateSane
<1>5. Grows(s)
  BY <1>1, <1>2 DEF Grows
<1>6. job'[s] = j /\ \A u \in Sessions \ {s} : job'[u] = job[u]
  BY DEF IInv, TypeOK
<1>7. KeepsOrder(s)
  BY <1>6 DEF KeepsOrder
<1>8. QED
  BY <1>3, <1>4, <1>5, <1>6, <1>7, Frame

(***************************************************************************)
(* The steps of submit_order when no status is refused: the invariant says *)
(* that they are all there are                                             *)
(***************************************************************************)
Transits(o, to_status) == MayMove(o, to_status) /\ transition_status(o, to_status)

Validates(s) ==
  /\ At(s, "validate")
  /\ StructurallyValid(orders[job[s].order])
  /\ Transits(job[s].order, "VALIDATED")
  /\ Goto(s, "pend")
  /\ UNCHANGED <<trades, positions, cash, keys, order_approvals, notified,
                 bounds, history>>

Rejects(s) ==
  /\ At(s, "validate")
  /\ ~StructurallyValid(orders[job[s].order])
  /\ Transits(job[s].order, "REJECTED")
  /\ RaiseLate(s, "NOT_PENDING")
  /\ UNCHANGED <<trades, positions, cash, keys, order_approvals, notified, bounds>>

Pends(s) ==
  /\ At(s, "pend")
  /\ Transits(job[s].order, "PENDING")
  /\ Goto(s, "insert trade")
  /\ UNCHANGED <<trades, positions, cash, keys, order_approvals, notified,
                 bounds, history>>

Trades(s) ==
  LET o     == job[s].order
      order == orders[o]
      ft    == resolve_fee_tax(job[s].request.market, order.action)
  IN  /\ At(s, "insert trade")
      /\ trades' = Append(trades,
           [order |-> o, account |-> order.account, symbol |-> order.symbol,
            action |-> order.action, quantity |-> order.quantity,
            fill_price |-> order.requested_price,
            fee |-> ft.fee, tax |-> ft.tax])
      /\ job' = [job EXCEPT ![s].pc = "fill", ![s].trade = Len(trades) + 1]
      /\ UNCHANGED <<orders, positions, cash, keys, order_approvals, notified,
                     bounds, history>>

Proceeds(s) ==
  \/ PreTradeValidation(s)
  \/ CreateOrder(s) \/ Validates(s) \/ Rejects(s) \/ Pends(s)
  \/ Trades(s) \/ RecordFill(s)
  \/ ReadCash(s) \/ WriteCash(s)
  \/ ReadPosition(s) \/ WritePosition(s) \/ ReadStop(s) \/ WriteStop(s)
  \/ RecordKey(s) \/ RefuseKey(s)
  \/ RecordApproval(s) \/ NotifyAndReturn(s)

\* transition_status and execute_order never refuse the order of a call: its
\* status is the one its own session wrote last.
LEMMA StepProceeds ==
  ASSUME IInv, NEW s \in Sessions, Step(s)
  PROVE  Proceeds(s)
<1> DEFINE o == job[s].order
<1>1. JobInv(s)
  BY DEF IInv
<1>2. CASE ValidateOrder(s)
  <2>1. MayMove(o, "VALIDATED")
    BY <1>1, <1>2 DEF ValidateOrder, At, JobInv, OrderLabels, Labels, StatusAt,
                      MayMove, AllowedTransitions
  <2>2. Validates(s)
    BY <1>2, <2>1 DEF ValidateOrder, Validates, Transits
  <2>3. QED
    BY <2>2 DEF Proceeds
<1>3. CASE RejectOrder(s)
  <2>1. MayMove(o, "REJECTED")
    BY <1>1, <1>3 DEF RejectOrder, At, JobInv, OrderLabels, Labels, StatusAt,
                      MayMove, AllowedTransitions
  <2>2. Rejects(s)
    BY <1>3, <2>1 DEF RejectOrder, Rejects, Transits
  <2>3. QED
    BY <2>2 DEF Proceeds
<1>4. CASE PendOrder(s)
  <2>1. MayMove(o, "PENDING")
    BY <1>1, <1>4 DEF PendOrder, At, JobInv, OrderLabels, Labels, StatusAt,
                      MayMove, AllowedTransitions
  <2>2. Pends(s)
    BY <1>4, <2>1 DEF PendOrder, Pends, Transits
  <2>3. QED
    BY <2>2 DEF Proceeds
<1>5. CASE CreateTrade(s)
  <2>1. orders[o].status = "PENDING"
    BY <1>1, <1>5 DEF CreateTrade, At, JobInv, OrderLabels, Labels, StatusAt
  <2>2. Trades(s)
    BY <1>5, <2>1 DEF CreateTrade, Trades
  <2>3. QED
    BY <2>2 DEF Proceeds
<1>6. QED
  BY <1>2, <1>3, <1>4, <1>5 DEF Step, Proceeds

LEMMA NextProceeds ==
  ASSUME IInv, Next
  PROVE  \E s \in Sessions :
           \/ \E r \in Requests : Submit(s, r)
           \/ Proceeds(s)
           \/ Fail(s)
BY StepProceeds DEF Next

\* transition_status on an order without a trade keeps the agreement of orders
\* and trades.
LEMMA TransitionAgrees ==
  ASSUME IInv, NEW o \in DOMAIN orders, TradesOf(o) = {}, NEW to_status,
         to_status # "FILLED", Transits(o, to_status), trades' = trades
  PROVE  OrderTradeAgreement'
<1>1. orders \in Seq(OrderRow) /\ OrderTradeAgreement
  BY DEF IInv, TypeOK
<1>2. DOMAIN orders' = DOMAIN orders
      /\ orders'[o].status = to_status
      /\ \A i \in DOMAIN orders : i # o => orders'[i] = orders[i]
  <2>1. orders[o] \in OrderRow
    BY <1>1, RowType
  <2>2. QED
    BY <1>1, <2>1 DEF Transits, transition_status, OrderRow
<1>3. \A t \in DOMAIN trades : trades[t].order # o
  BY DEF TradesOf
<1>4. \A i \in DOMAIN orders : TradesOf(i)' = TradesOf(i)
  BY DEF TradesOf
<1>5. QED
  BY <1>1, <1>2, <1>3, <1>4 DEF OrderTradeAgreement

LEMMA TransitionRow ==
  ASSUME IInv, NEW o \in DOMAIN orders, NEW to_status \in OrderStatuses,
         Transits(o, to_status)
  PROVE  \E row \in OrderRow :
           /\ row.request = orders[o].request /\ row.action = orders[o].action
           /\ row.status = to_status
           /\ orders' = [orders EXCEPT ![o] = row]
           /\ DOMAIN orders' = DOMAIN orders /\ orders'[o] = row
<1> DEFINE row == [orders[o] EXCEPT !.status = to_status]
<1>1. orders \in Seq(OrderRow) /\ orders[o] \in OrderRow
  BY RowType DEF IInv, TypeOK
<1>2. /\ row \in OrderRow /\ row.request = orders[o].request
      /\ row.action = orders[o].action /\ row.status = to_status
  BY <1>1 DEF OrderRow
<1>3. orders' = [orders EXCEPT ![o] = row]
  BY DEF Transits, transition_status
<1> HIDE DEF row
<1>4. DOMAIN orders' = DOMAIN orders /\ orders'[o] = row
  BY <1>1, <1>2, <1>3, Replaced
<1>5. QED
  BY <1>2, <1>3, <1>4

\* A session between the insertion of its order and that of its trade.
LEMMA JobBeforeTrade ==
  ASSUME NEW s \in Sessions, NEW j, job'[s] = j,
         j.pc \in {"validate", "pend", "insert trade"},
         Admitted(j.request), j.order \in DOMAIN orders',
         orders'[j.order].request = j.request,
         orders'[j.order].status = StatusAt(j.pc),
         j.pc # "validate" => orders'[j.order].action \in Actions,
         \A t \in DOMAIN trades' : trades'[t].order # j.order
  PROVE  JobInv(s)'
BY DEF JobInv, TradesOf, OrderLabels, TradeLabels, AfterCash, AfterBook, AfterKey, Labels,
       Admitted

LEMMA ValidateOrderKeeps ==
  ASSUME IInv, NEW s \in Sessions, Validates(s)
  PROVE  IInv'
<1> DEFINE o == job[s].order
           j == [job[s] EXCEPT !.pc = "pend"]
<1>1. /\ job[s] \in Job /\ job[s].pc = "validate" /\ JobInv(s)
      /\ Transits(o, "VALIDATED") /\ orders[o].action \in Actions
  BY DEF Validates, At, StructurallyValid, IInv, TypeOK
<1>2. /\ job[s].pc \in OrderLabels /\ o \in DOMAIN orders
      /\ orders[o].request = job[s].request /\ orders[o].status = "NEW"
      /\ TradesOf(o) = {} /\ Admitted(job[s].request)
  BY <1>1 DEF JobInv, OrderLabels, TradeLabels, Labels, StatusAt
<1>3. PICK row \in OrderRow :
           /\ row.request = orders[o].request /\ row.action = orders[o].action
           /\ row.status = "VALIDATED"
           /\ orders' = [orders EXCEPT ![o] = row]
           /\ DOMAIN orders' = DOMAIN orders /\ orders'[o] = row
  BY <1>1, <1>2, TransitionRow DEF OrderStatuses
<1>4. /\ job' = [job EXCEPT ![s] = j] /\ job'[s] = j /\ j \in Job
      /\ j.pc = "pend" /\ j.order = o /\ j.request = job[s].request
  BY <1>1 DEF Validates, Goto, IInv, TypeOK, Job, Labels
<1> HIDE DEF j
<1>5. /\ UNCHANGED <<trades, positions, cash, keys, order_approvals, notified>>
      /\ UNCHANGED <<bounds, cash_applied, position_applied, returned>>
  BY DEF Validates, history
<1>6. OrderTradeAgreement'
  BY <1>1, <1>2, <1>5, TransitionAgrees
<1>7. JobInv(s)'
  <2>1. \A t \in DOMAIN trades' : trades'[t].order # j.order
    BY <1>2, <1>4, <1>5 DEF TradesOf
  <2>2. orders'[o].status = StatusAt(j.pc)
    BY <1>3, <1>4 DEF StatusAt
  <2>3. QED
    BY <1>1, <1>2, <1>3, <1>4, <2>1, <2>2, JobBeforeTrade
<1>8. QED
  BY <1>1, <1>2, <1>3, <1>4, <1>5, <1>6, <1>7, OrderRewritten

LEMMA PendOrderKeeps ==
  ASSUME IInv, NEW s \in Sessions, Pends(s)
  PROVE  IInv'
<1> DEFINE o == job[s].order
           j == [job[s] EXCEPT !.pc = "insert trade"]
<1>1. /\ job[s] \in Job /\ job[s].pc = "pend" /\ JobInv(s)
      /\ Transits(o, "PENDING")
  BY DEF Pends, At, IInv, TypeOK
<1>2. /\ job[s].pc \in OrderLabels /\ o \in DOMAIN orders
      /\ orders[o].request = job[s].request /\ orders[o].status = "VALIDATED"
      /\ TradesOf(o) = {} /\ Admitted(job[s].request)
      /\ orders[o].action \in Actions
  BY <1>1 DEF JobInv, OrderLabels, TradeLabels, Labels, StatusAt
<1>3. PICK row \in OrderRow :
           /\ row.request = orders[o].request /\ row.action = orders[o].action
           /\ row.status = "PENDING"
           /\ orders' = [orders EXCEPT ![o] = row]
           /\ DOMAIN orders' = DOMAIN orders /\ orders'[o] = row
  BY <1>1, <1>2, TransitionRow DEF OrderStatuses
<1>4. /\ job' = [job EXCEPT ![s] = j] /\ job'[s] = j /\ j \in Job
      /\ j.pc = "insert trade" /\ j.order = o /\ j.request = job[s].request
  BY <1>1 DEF Pends, Goto, IInv, TypeOK, Job, Labels
<1> HIDE DEF j
<1>5. /\ UNCHANGED <<trades, positions, cash, keys, order_approvals, notified>>
      /\ UNCHANGED <<bounds, cash_applied, position_applied, returned>>
  BY DEF Pends, history
<1>6. OrderTradeAgreement'
  BY <1>1, <1>2, <1>5, TransitionAgrees
<1>7. JobInv(s)'
  <2>1. \A t \in DOMAIN trades' : trades'[t].order # j.order
    BY <1>2, <1>4, <1>5 DEF TradesOf
  <2>2. orders'[o].status = StatusAt(j.pc)
    BY <1>3, <1>4 DEF StatusAt
  <2>3. QED
    BY <1>1, <1>2, <1>3, <1>4, <2>1, <2>2, JobBeforeTrade
<1>8. QED
  BY <1>1, <1>2, <1>3, <1>4, <1>5, <1>6, <1>7, OrderRewritten

LEMMA RejectOrderKeeps ==
  ASSUME IInv, NEW s \in Sessions, Rejects(s)
  PROVE  IInv'
<1> DEFINE o == job[s].order
<1>1. /\ job[s].pc = "validate" /\ JobInv(s) /\ Transits(o, "REJECTED")
      /\ job' = [job EXCEPT ![s] = IdleJob]
  BY DEF Rejects, At, RaiseLate, Finish, IInv
<1>2. /\ job[s].pc \in OrderLabels /\ o \in DOMAIN orders
      /\ orders[o].status = "NEW" /\ TradesOf(o) = {}
  BY <1>1 DEF JobInv, OrderLabels, TradeLabels, Labels, StatusAt
<1>3. PICK row \in OrderRow :
           /\ row.request = orders[o].request /\ row.action = orders[o].action
           /\ row.status = "REJECTED"
           /\ orders' = [orders EXCEPT ![o] = row]
           /\ DOMAIN orders' = DOMAIN orders /\ orders'[o] = row
  BY <1>1, <1>2, TransitionRow DEF OrderStatuses
<1>4. /\ UNCHANGED <<trades, positions, cash, keys, order_approvals, notified>>
      /\ UNCHANGED <<bounds, cash_applied, position_applied, returned>>
  BY DEF Rejects, RaiseLate
<1>5. OrderTradeAgreement'
  BY <1>1, <1>2, <1>4, TransitionAgrees
<1>6. job'[s] = IdleJob
  BY <1>1 DEF IInv, TypeOK
<1>7. JobInv(s)' /\ ~(IdleJob.pc \in OrderLabels)
  BY <1>6, IdleJobType
  DEF JobInv, OrderLabels, TradeLabels, AfterCash, AfterBook, AfterKey
<1>8. QED
  BY <1>1, <1>2, <1>3, <1>4, <1>5, <1>7, IdleJobType, OrderRewritten

(***************************************************************************)
(* The steps of the execution, which write the trade and fill the order    *)
(***************************************************************************)
\* A session that has a trade: what does not depend on the statement it is at.
HasTrade(j) ==
  /\ Admitted(j.request)
  /\ j.order \in DOMAIN orders /\ j.trade \in DOMAIN trades
  /\ orders[j.order].request = j.request
  /\ orders[j.order].action \in Actions
  /\ trades[j.trade].order = j.order

LEMMA JobHasTrade ==
  ASSUME NEW s \in Sessions, JobInv(s), job[s].pc \in TradeLabels
  PROVE  HasTrade(job[s]) /\ orders[job[s].order].status = StatusAt(job[s].pc)
BY DEF JobInv, HasTrade, TradeLabels, OrderLabels, Labels

LEMMA CreateTradeKeeps ==
  ASSUME IInv, NEW s \in Sessions, Trades(s)
  PROVE  IInv'
<1> DEFINE o     == job[s].order
           order == orders[o]
           ft    == resolve_fee_tax(job[s].request.market, order.action)
           row   == [order |-> o, account |-> order.account,
                     symbol |-> order.symbol, action |-> order.action,
                     quantity |-> order.quantity,
                     fill_price |-> order.requested_price,
                     fee |-> ft.fee, tax |-> ft.tax]
           t     == Len(trades) + 1
           j     == [job[s] EXCEPT !.pc = "fill", !.trade = t]
<1>1. /\ job[s] \in Job /\ job[s].pc = "insert trade" /\ JobInv(s)
      /\ trades \in Seq(TradeRow) /\ orders \in Seq(OrderRow)
  BY DEF Trades, At, IInv, TypeOK
<1>2. /\ o \in DOMAIN orders /\ order.request = job[s].request
      /\ order.status = "PENDING" /\ order.action \in Actions
      /\ Admitted(job[s].request)
      /\ \A u \in DOMAIN trades : trades[u].order # o
  BY <1>1 DEF JobInv, OrderLabels, TradeLabels, Labels, StatusAt, TradesOf
<1>3. order \in OrderRow /\ o \in Nat \ {0}
  <2>1. o \in DOMAIN orders /\ orders \in Seq(OrderRow)
    BY <1>1, <1>2
  <2>2. orders[o] \in OrderRow /\ o \in Nat \ {0}
    BY <2>1, RowType
  <2>3. QED
    BY <2>2
<1>4. ft.fee \in Nat /\ ft.tax \in Nat
  BY FeesType
<1> HIDE DEF ft, order
<1>5. row \in TradeRow /\ row.order = o
  BY <1>2, <1>3, <1>4 DEF OrderRow, TradeRow
<1>6. trades' = Append(trades, row)
  BY DEF Trades, ft, order
<1> HIDE DEF row
<1>7. /\ trades' \in Seq(TradeRow)
      /\ t \in Nat \ {0} /\ t \notin DOMAIN trades
      /\ DOMAIN trades' = DOMAIN trades \cup {t}
      /\ \A i \in DOMAIN trades : trades'[i] = trades[i]
      /\ trades'[t] = row
  <2>1. row \in TradeRow /\ trades \in Seq(TradeRow)
    BY <1>1, <1>5
  <2>2. QED
    BY <1>6, <2>1, Appended
<1>8. /\ job' = [job EXCEPT ![s] = j] /\ job'[s] = j /\ j \in Job
      /\ j.pc = "fill" /\ j.order = o /\ j.trade = t
      /\ j.request = job[s].request
  BY <1>1, <1>7 DEF Trades, IInv, TypeOK, Job, Labels
<1> HIDE DEF t, j
<1>9. /\ UNCHANGED <<orders, positions, cash, keys, order_approvals, notified>>
      /\ UNCHANGED <<bounds, cash_applied, position_applied, returned>>
  BY DEF Trades, history
<1>10. TypeOK'
  BY <1>7, <1>8, <1>9 DEF IInv, TypeOK, bounds
<1>11. PortfolioStateSane'
  BY <1>9 DEF IInv, PortfolioStateSane
<1>12. OrderTradeAgreement'
  <2>1. OrderTradeAgreement
    BY DEF IInv
  <2>2. ASSUME NEW i \in DOMAIN orders', orders'[i].status = "FILLED"
        PROVE  \E u \in DOMAIN trades' :
                 /\ trades'[u].order = i
                 /\ orders'[i].filled_price = trades'[u].fill_price
                 /\ orders'[i].filled_quantity = trades'[u].quantity
    BY <1>7, <1>9, <2>1, <2>2 DEF OrderTradeAgreement, TradesOf
  <2>3. \A u, v \in DOMAIN trades' : trades'[u].order = trades'[v].order => u = v
    BY <1>2, <1>5, <1>7, <2>1 DEF OrderTradeAgreement
  <2>4. \A u \in DOMAIN trades' :
          /\ trades'[u].order \in DOMAIN orders'
          /\ orders'[trades'[u].order].status \in {"PENDING", "FILLED"}
    BY <1>2, <1>5, <1>7, <1>9, <2>1 DEF OrderTradeAgreement, order
  <2>5. QED
    BY <2>2, <2>3, <2>4 DEF OrderTradeAgreement, TradesOf
<1>13. JobInv(s)'
  <2>1. orders[o].status = StatusAt(j.pc) /\ orders[o].action \in Actions
        /\ orders[o].request = j.request
    BY <1>2, <1>8 DEF StatusAt, order
  <2>2. t \in DOMAIN trades' /\ trades'[t].order = o
    BY <1>5, <1>7
  <2>3. QED
    BY <1>2, <1>8, <1>9, <2>1, <2>2
    DEF JobInv, OrderLabels, TradeLabels, AfterCash, AfterBook, AfterKey, Labels
<1>14. Grows(s)
  BY <1>1, <1>5, <1>7, <1>9 DEF Grows, OrderLabels, Labels
<1>15. KeepsOrder(s) /\ \A u \in Sessions \ {s} : job'[u] = job[u]
  BY <1>1, <1>8 DEF KeepsOrder, OrderLabels, Labels, IInv, TypeOK
<1>16. QED
  BY <1>9, <1>10, <1>11, <1>12, <1>13, <1>14, <1>15, Frame

LEMMA RecordFillKeeps ==
  ASSUME IInv, NEW s \in Sessions, RecordFill(s)
  PROVE  IInv'
<1> DEFINE o   == job[s].order
           t   == job[s].trade
           row == Filled(orders[o], trades[t])
           j   == [job[s] EXCEPT !.pc = "read cash"]
<1>1. /\ job[s] \in Job /\ job[s].pc = "fill" /\ JobInv(s)
      /\ orders \in Seq(OrderRow) /\ trades \in Seq(TradeRow)
      /\ OrderTradeAgreement
  BY DEF RecordFill, At, IInv, TypeOK
<1>2. HasTrade(job[s]) /\ orders[o].status = "PENDING"
  BY <1>1, JobHasTrade DEF TradeLabels, OrderLabels, Labels, StatusAt
<1>3. orders[o] \in OrderRow /\ trades[t] \in TradeRow
  BY <1>1, <1>2, RowType DEF HasTrade
<1>4. /\ row \in OrderRow /\ row.status = "FILLED"
      /\ row.request = orders[o].request /\ row.action = orders[o].action
      /\ row.filled_price = trades[t].fill_price
      /\ row.filled_quantity = trades[t].quantity
  BY <1>3 DEF OrderRow, OrderStatuses, TradeRow, Filled
<1>5. orders' = [orders EXCEPT ![o] = row]
  BY DEF RecordFill
<1> HIDE DEF row
<1>6. /\ DOMAIN orders' = DOMAIN orders /\ orders'[o] = row
      /\ \A i \in DOMAIN orders : i # o => orders'[i] = orders[i]
  BY <1>1, <1>2, <1>4, <1>5, Replaced DEF HasTrade
<1>7. /\ job' = [job EXCEPT ![s] = j] /\ job'[s] = j /\ j \in Job
      /\ j.pc = "read cash" /\ j.order = o /\ j.trade = t
      /\ j.request = job[s].request
  BY <1>1 DEF RecordFill, Goto, IInv, TypeOK, Job, Labels
<1> HIDE DEF j
<1>8. /\ UNCHANGED <<trades, positions, cash, keys, order_approvals, notified>>
      /\ UNCHANGED <<bounds, cash_applied, position_applied, returned>>
  BY DEF RecordFill, history
<1>9. OrderTradeAgreement'
  <2>1. ASSUME NEW i \in DOMAIN orders', orders'[i].status = "FILLED"
        PROVE  \E u \in DOMAIN trades' :
                 /\ trades'[u].order = i
                 /\ orders'[i].filled_price = trades'[u].fill_price
                 /\ orders'[i].filled_quantity = trades'[u].quantity
    <3>1. CASE i = o
      BY <1>2, <1>4, <1>6, <1>8, <3>1 DEF HasTrade
    <3>2. CASE i # o
      BY <1>1, <1>6, <1>8, <2>1, <3>2 DEF OrderTradeAgreement, TradesOf
    <3>3. QED
      BY <3>1, <3>2
  <2>2. \A u \in DOMAIN trades' :
          /\ trades'[u].order \in DOMAIN orders'
          /\ orders'[trades'[u].order].status \in {"PENDING", "FILLED"}
    BY <1>1, <1>4, <1>6, <1>8 DEF OrderTradeAgreement
  <2>3. QED
    BY <1>1, <1>8, <2>1, <2>2 DEF OrderTradeAgreement, TradesOf
<1>10. JobInv(s)'
  <2>1. orders'[o].status = StatusAt(j.pc)
    BY <1>4, <1>6, <1>7 DEF StatusAt
  <2>2. QED
    BY <1>2, <1>4, <1>6, <1>7, <1>8, <2>1, ZenonT(40)
    DEF JobInv, HasTrade, OrderLabels, TradeLabels, AfterCash, AfterBook,
        AfterKey, Labels
<1>11. job[s].pc \in OrderLabels /\ orders[o].status # "FILLED"
  BY <1>1, <1>2 DEF OrderLabels, Labels
<1>12. QED
  BY <1>4, <1>5, <1>7, <1>8, <1>9, <1>10, <1>11, OrderRewritten

(***************************************************************************)
(* The steps that write the cash and the position of a trade               *)
(***************************************************************************)
\* A session whose order is FILLED.
LEMMA JobAfterFill ==
  ASSUME NEW s \in Sessions, NEW j, job'[s] = j, HasTrade(j),
         orders[j.order].status = "FILLED", UNCHANGED <<orders, trades>>,
         j.pc \in {"read position", "read stop", "insert key", "approve", "notify"},
         j.trade \in cash_applied',
         j.pc \in AfterBook => j.trade \in position_applied',
         j.pc = "read stop" => j.position \in DOMAIN positions',
         j.pc \in AfterKey =>
           [idempotency_key |-> j.request.idempotency_key,
            order |-> j.order, trade |-> j.trade] \in keys'
  PROVE  JobInv(s)'
<1>1. StatusAt(j.pc) = "FILLED" /\ j.pc \in TradeLabels
  BY DEF StatusAt, TradeLabels, OrderLabels, Labels
<1>2. j.pc \notin {"validate", "write cash", "write position", "write stop"}
  OBVIOUS
<1>3. QED
  BY <1>1, <1>2 DEF JobInv, HasTrade

LEMMA JobCash ==
  ASSUME NEW j \in Job, NEW label \in Labels, NEW n \in Int
  PROVE  [j EXCEPT !.pc = label, !.cash = n] \in Job
BY DEF Job

LEMMA WriteCashKeeps ==
  ASSUME IInv, NEW s \in Sessions, WriteCash(s)
  PROVE  IInv'
<1> DEFINE t     == job[s].trade
           trade == trades[t]
           j     == [job[s] EXCEPT !.pc = "read position", !.cash = 0]
<1>1. /\ job[s] \in Job /\ job[s].pc = "write cash" /\ JobInv(s)
      /\ trades \in Seq(TradeRow) /\ cash \in [Accounts -> Int]
  BY DEF WriteCash, At, IInv, TypeOK
<1>2. /\ HasTrade(job[s]) /\ orders[job[s].order].status = "FILLED"
      /\ job[s].cash >= 0 /\ job[s].cash \in Int
  <2>1. HasTrade(job[s]) /\ orders[job[s].order].status = StatusAt(job[s].pc)
    BY <1>1, JobHasTrade DEF TradeLabels, OrderLabels, Labels
  <2>2. StatusAt(job[s].pc) = "FILLED"
    BY <1>1 DEF StatusAt
  <2>3. job[s].cash >= 0 /\ job[s].cash \in Int
    BY <1>1 DEF JobInv, Job
  <2>4. QED
    BY <2>1, <2>2, <2>3
<1>3. t \in DOMAIN trades /\ trade.account \in Accounts
  <2>1. t \in DOMAIN trades
    BY <1>2 DEF HasTrade
  <2>2. trades \in Seq(TradeRow)
    BY <1>1
  <2>3. trades[t] \in TradeRow
    BY <2>1, <2>2, RowType
  <2>4. QED
    BY <2>1, <2>3 DEF TradeRow
<1>4. /\ cash' = [cash EXCEPT ![trade.account] = job[s].cash]
      /\ cash_applied' = cash_applied \cup {t}
      /\ UNCHANGED <<orders, trades, positions, keys, order_approvals, notified>>
      /\ UNCHANGED <<bounds, position_applied, returned>>
  BY DEF WriteCash
<1>5. /\ job' = [job EXCEPT ![s] = j] /\ job'[s] = j /\ j \in Job
      /\ j.pc = "read position" /\ j.order = job[s].order /\ j.trade = t
      /\ j.request = job[s].request
  <2>1. /\ j \in Job /\ j.pc = "read position" /\ j.order = job[s].order
        /\ j.trade = t /\ j.request = job[s].request
    <3>1. job[s] \in Job
      BY <1>1
    <3>2. /\ j.pc = "read position" /\ j.order = job[s].order
          /\ j.trade = t /\ j.request = job[s].request
      BY <3>1 DEF Job
    <3>3. "read position" \in Labels /\ 0 \in Int
      BY DEF Labels
    <3>4. j \in Job
      BY <3>1, <3>3, JobCash, Zenon
    <3>5. QED
      BY <3>2, <3>4
  <2>2. job' = [job EXCEPT ![s] = j] /\ job \in [Sessions -> Job]
    BY DEF WriteCash, IInv, TypeOK
  <2>3. QED
    BY <2>1, <2>2
<1> HIDE DEF j, trade
<1>6. TypeOK'
  BY <1>1, <1>2, <1>3, <1>4, <1>5 DEF IInv, TypeOK, bounds
<1>7. PortfolioStateSane'
  BY <1>1, <1>2, <1>3, <1>4 DEF IInv, PortfolioStateSane
<1>8. OrderTradeAgreement'
  BY <1>4 DEF IInv, OrderTradeAgreement, TradesOf
<1>9. JobInv(s)'
  <2>1. HasTrade(j) /\ orders[j.order].status = "FILLED"
    BY <1>2, <1>5 DEF HasTrade
  <2>2. j.trade \in cash_applied' /\ j.pc \notin AfterBook /\ j.pc \notin AfterKey
    BY <1>4, <1>5 DEF AfterBook, AfterKey
  <2>3. QED
    BY <1>4, <1>5, <2>1, <2>2, JobAfterFill
<1>10. Grows(s)
  BY <1>4 DEF Grows
<1>11. KeepsOrder(s) /\ \A u \in Sessions \ {s} : job'[u] = job[u]
  BY <1>1, <1>5 DEF KeepsOrder, OrderLabels, Labels, IInv, TypeOK
<1>12. QED
  BY <1>4, <1>6, <1>7, <1>8, <1>9, <1>10, <1>11, Frame

LEMMA SoundAppended ==
  ASSUME NEW S, NEW table \in Seq(S), NEW row \in S, SoundRow(row),
         \A q \in DOMAIN table : SoundRow(table[q])
  PROVE  /\ Append(table, row) \in Seq(S)
         /\ DOMAIN table \subseteq DOMAIN Append(table, row)
         /\ \A q \in DOMAIN Append(table, row) : SoundRow(Append(table, row)[q])
BY Appended

LEMMA SoundReplaced ==
  ASSUME NEW S, NEW table \in Seq(S), NEW row \in S, SoundRow(row),
         \A q \in DOMAIN table : SoundRow(table[q]), NEW i \in DOMAIN table
  PROVE  /\ [table EXCEPT ![i] = row] \in Seq(S)
         /\ DOMAIN table \subseteq DOMAIN [table EXCEPT ![i] = row]
         /\ \A q \in DOMAIN [table EXCEPT ![i] = row] :
              SoundRow([table EXCEPT ![i] = row][q])
BY Replaced

\* Session s replaces, or adds, one row of positions, and goes on.
LEMMA PositionWritten ==
  ASSUME IInv, NEW s \in Sessions, job[s].pc \in {"write position", "write stop"},
         NEW row \in PositionRow(Accounts, Symbols), SoundRow(row),
         NEW p, p \in DOMAIN positions',
         \/ positions' = Append(positions, row) /\ p = Len(positions) + 1
         \/ /\ job[s].position \in DOMAIN positions
            /\ positions' = [positions EXCEPT ![job[s].position] = row],
         NEW j \in Job, job' = [job EXCEPT ![s] = j], j.position = p,
         j.request = job[s].request, j.order = job[s].order,
         j.trade = job[s].trade, j.pc \in {"read stop", "insert key"},
         UNCHANGED <<orders, trades, cash, keys, order_approvals, notified>>,
         UNCHANGED <<bounds, cash_applied, returned>>,
         position_applied' = position_applied \cup {job[s].trade}
  PROVE  IInv'
<1>1. /\ JobInv(s) /\ positions \in Seq(PositionRow(Accounts, Symbols))
      /\ \A q \in DOMAIN positions : SoundRow(positions[q])
  BY DEF IInv, TypeOK, PortfolioStateSane, SoundRow
<1>2. /\ HasTrade(job[s]) /\ orders[job[s].order].status = "FILLED"
      /\ job[s].trade \in cash_applied
  <2>1. job[s].pc \in TradeLabels /\ job[s].pc \in AfterCash
    BY DEF TradeLabels, OrderLabels, Labels, AfterCash
  <2>2. StatusAt(job[s].pc) = "FILLED"
    BY DEF StatusAt
  <2>3. QED
    BY <1>1, <2>1, <2>2, JobHasTrade DEF JobInv
<1>3. /\ positions' \in Seq(PositionRow(Accounts, Symbols))
      /\ DOMAIN positions \subseteq DOMAIN positions'
      /\ \A q \in DOMAIN positions' : SoundRow(positions'[q])
  <2> DEFINE Rows == PositionRow(Accounts, Symbols)
  <2>1. positions \in Seq(Rows) /\ row \in Rows
    BY <1>1
  <2> HIDE DEF Rows
  <2>2. CASE positions' = Append(positions, row)
    BY <1>1, <2>1, <2>2, SoundAppended DEF Rows
  <2>3. CASE /\ job[s].position \in DOMAIN positions
             /\ positions' = [positions EXCEPT ![job[s].position] = row]
    BY <1>1, <2>1, <2>3, SoundReplaced DEF Rows
  <2>4. QED
    BY <2>2, <2>3
<1>4. job'[s] = j /\ \A u \in Sessions \ {s} : job'[u] = job[u]
  BY DEF IInv, TypeOK
<1>5. TypeOK'
  BY <1>2, <1>3 DEF IInv, TypeOK, HasTrade, bounds
<1>6. PortfolioStateSane'
  BY <1>3 DEF IInv, PortfolioStateSane, SoundRow
<1>7. OrderTradeAgreement'
  BY ZenonT(40) DEF IInv, OrderTradeAgreement, TradesOf
<1>8. JobInv(s)'
  <2>1. HasTrade(j) /\ orders[j.order].status = "FILLED"
    BY <1>2 DEF HasTrade
  <2>2. j.trade \in cash_applied' /\ j.trade \in position_applied'
        /\ j.pc \notin AfterKey
    BY <1>2 DEF AfterKey
  <2>3. QED
    BY <1>4, <2>1, <2>2, JobAfterFill
<1>9. Grows(s) /\ KeepsOrder(s)
  BY <1>3, <1>4 DEF Grows, KeepsOrder, OrderLabels, Labels
<1>10. QED
  BY <1>4, <1>5, <1>6, <1>7, <1>8, <1>9, Frame

LEMMA JobRow ==
  ASSUME NEW j \in Job, NEW label \in Labels, NEW p \in Nat
  PROVE  /\ [j EXCEPT !.pc = label, !.position = p, !.row = {}] \in Job
         /\ [j EXCEPT !.pc = label, !.row = {}] \in Job
BY EmptyOption DEF Job

LEMMA WritePositionKeeps ==
  ASSUME IInv, NEW s \in Sessions, WritePosition(s)
  PROVE  IInv'
<1> DEFINE row    == The(job[s].row)
           old    == job[s].position
           p      == IF old = 0 THEN Len(positions) + 1 ELSE old
           label  == AfterPosition(job[s].request)
           j      == [job[s] EXCEPT !.pc = label, !.position = p, !.row = {}]
<1>1. /\ job[s] \in Job /\ job[s].pc = "write position" /\ JobInv(s)
      /\ positions \in Seq(PositionRow(Accounts, Symbols))
  BY DEF WritePosition, At, IInv, TypeOK
<1>2. old \in DOMAIN positions \cup {0} /\ job[s].row # {} /\ SoundRow(row)
  BY <1>1 DEF JobInv
<1>3. row \in PositionRow(Accounts, Symbols)
  <2>1. job[s].row \in Option(PositionRow(Accounts, Symbols))
    BY <1>1 DEF Job
  <2>2. QED
    BY <1>2, <2>1, TheOption
<1>4. /\ positions' = IF old = 0 THEN Append(positions, row)
                                 ELSE [positions EXCEPT ![old] = row]
      /\ position_applied' = position_applied \cup {job[s].trade}
      /\ UNCHANGED <<orders, trades, cash, keys, order_approvals, notified>>
      /\ UNCHANGED <<bounds, cash_applied, returned>>
  BY DEF WritePosition
<1>5. label \in {"read stop", "insert key"} /\ label \in Labels
  BY DEF AfterPosition, Labels
<1>6. job' = [job EXCEPT ![s] = j]
  BY DEF WritePosition, IInv, TypeOK
<1> HIDE DEF row, label
<1>7. p \in DOMAIN positions' /\ p \in Nat
  <2> DEFINE Rows == PositionRow(Accounts, Symbols)
  <2>0. positions \in Seq(Rows) /\ row \in Rows
    BY <1>1, <1>3
  <2> HIDE DEF Rows
  <2>1. CASE old = 0
    <3>1. /\ Len(positions) + 1 \in DOMAIN Append(positions, row)
          /\ Len(positions) + 1 \in Nat
      BY <2>0, Appended
    <3>2. QED
      BY <1>4, <2>1, <3>1
  <2>2. CASE old # 0
    <3>1. old \in DOMAIN positions
      BY <1>2, <2>2
    <3>2. DOMAIN positions' = DOMAIN positions
      BY <1>4, <2>2
    <3>3. p \in DOMAIN positions' /\ p \in DOMAIN positions
      BY <3>1, <3>2, <2>2
    <3>4. QED
      BY <2>0, <3>3, RowType
  <2>3. QED
    BY <2>1, <2>2
<1>8. \/ positions' = Append(positions, row) /\ p = Len(positions) + 1
      \/ /\ old \in DOMAIN positions
         /\ positions' = [positions EXCEPT ![old] = row]
  BY <1>2, <1>4
<1> HIDE DEF p
<1>9. j \in Job
  BY <1>1, <1>5, <1>7, JobRow, Zenon
<1>10. /\ j.position = p /\ j.request = job[s].request
       /\ j.order = job[s].order /\ j.trade = job[s].trade
       /\ j.pc \in {"read stop", "insert key"}
  BY <1>1, <1>5 DEF Job
<1> HIDE DEF j
<1>11. job[s].pc \in {"write position", "write stop"}
  BY <1>1
<1>12. QED
  BY <1>2, <1>3, <1>4, <1>6, <1>7, <1>8, <1>9, <1>10, <1>11, PositionWritten

LEMMA WriteStopKeeps ==
  ASSUME IInv, NEW s \in Sessions, WriteStop(s)
  PROVE  IInv'
<1> DEFINE row == The(job[s].row)
           old == job[s].position
           j   == [job[s] EXCEPT !.pc = "insert key", !.row = {}]
<1>1. /\ job[s] \in Job /\ job[s].pc = "write stop" /\ JobInv(s)
      /\ positions \in Seq(PositionRow(Accounts, Symbols))
  BY DEF WriteStop, At, IInv, TypeOK
<1>2. /\ old \in DOMAIN positions /\ job[s].row # {} /\ SoundRow(row)
      /\ job[s].trade \in position_applied
  BY <1>1 DEF JobInv, AfterBook
<1>3. row \in PositionRow(Accounts, Symbols)
  <2>1. job[s].row \in Option(PositionRow(Accounts, Symbols))
    BY <1>1 DEF Job
  <2>2. QED
    BY <1>2, <2>1, TheOption
<1>4. /\ positions' = [positions EXCEPT ![old] = row]
      /\ position_applied' = position_applied \cup {job[s].trade}
      /\ UNCHANGED <<orders, trades, cash, keys, order_approvals, notified>>
      /\ UNCHANGED <<bounds, cash_applied, returned>>
  BY <1>2 DEF WriteStop, history
<1>5. job' = [job EXCEPT ![s] = j]
  BY DEF WriteStop, IInv, TypeOK
<1>6. "insert key" \in Labels /\ 0 \in Nat
  BY DEF Labels
<1>7. j \in Job
  BY <1>1, <1>6, JobRow, Zenon
<1>8. /\ j.position = old /\ j.request = job[s].request
      /\ j.order = job[s].order /\ j.trade = job[s].trade
      /\ j.pc \in {"read stop", "insert key"}
  BY <1>1 DEF Job
<1> HIDE DEF j, row
<1>9. old \in DOMAIN positions'
  BY <1>2, <1>4
<1>10. job[s].pc \in {"write position", "write stop"}
  BY <1>1
<1>11. QED
  BY <1>2, <1>3, <1>4, <1>5, <1>7, <1>8, <1>9, <1>10, PositionWritten

(***************************************************************************)
(* The idempotency key, and the two best-effort steps                      *)
(***************************************************************************)
\* A session past the position write: its order is FILLED and its trade applied.
LEMMA JobApplied ==
  ASSUME NEW s \in Sessions, JobInv(s), TypeOK,
         job[s].pc \in {"insert key", "approve", "notify"}
  PROVE  /\ HasTrade(job[s]) /\ orders[job[s].order].status = "FILLED"
         /\ job[s].trade \in cash_applied /\ job[s].trade \in position_applied
         /\ KeyOf(job[s].trade) = job[s].request.idempotency_key
         /\ job[s].pc \in AfterKey =>
              [idempotency_key |-> job[s].request.idempotency_key,
               order |-> job[s].order, trade |-> job[s].trade] \in keys
<1>1. HasTrade(job[s]) /\ orders[job[s].order].status = StatusAt(job[s].pc)
  BY JobHasTrade DEF TradeLabels, OrderLabels, Labels
<1>2. StatusAt(job[s].pc) = "FILLED"
  BY DEF StatusAt
<1>3. job[s].trade \in cash_applied /\ job[s].trade \in position_applied
  BY DEF JobInv, AfterCash, AfterBook
<1>4. QED
  BY <1>1, <1>2, <1>3 DEF HasTrade, KeyOf, JobInv

LEMMA RecordKeyKeeps ==
  ASSUME IInv, NEW s \in Sessions, RecordKey(s)
  PROVE  IInv'
<1> DEFINE r   == job[s].request
           row == [idempotency_key |-> r.idempotency_key,
                   order |-> job[s].order, trade |-> job[s].trade]
           j   == [job[s] EXCEPT !.pc = "approve"]
<1>1. /\ job[s] \in Job /\ job[s].pc = "insert key" /\ JobInv(s)
      /\ TypeOK /\ KeysInv
  BY DEF RecordKey, At, IInv, TypeOK
<1>2. /\ HasTrade(job[s]) /\ orders[job[s].order].status = "FILLED"
      /\ job[s].trade \in cash_applied /\ job[s].trade \in position_applied
      /\ KeyOf(job[s].trade) = r.idempotency_key
  BY <1>1, JobApplied
<1>3. row \in KeyRow
  <2>1. r.idempotency_key \in STRING
    BY <1>1, PreTradeAssumption DEF Job, RequestType
  <2>2. job[s].order \in DOMAIN orders /\ job[s].trade \in DOMAIN trades
        /\ orders \in Seq(OrderRow) /\ trades \in Seq(TradeRow)
    BY <1>1, <1>2 DEF HasTrade, TypeOK
  <2>3. job[s].order \in Nat \ {0} /\ job[s].trade \in Nat \ {0}
    BY <2>2, RowType
  <2>4. QED
    BY <2>1, <2>3 DEF KeyRow
<1>4. /\ ~KeyUsed(r.idempotency_key) /\ keys' = keys \cup {row}
      /\ UNCHANGED <<orders, trades, positions, cash, order_approvals, notified>>
      /\ UNCHANGED <<bounds, cash_applied, position_applied, returned>>
  BY DEF RecordKey, history
<1>5. /\ job' = [job EXCEPT ![s] = j] /\ job'[s] = j /\ j \in Job
      /\ j.pc = "approve" /\ j.order = job[s].order /\ j.trade = job[s].trade
      /\ j.request = r
  BY <1>1 DEF RecordKey, Goto, TypeOK, Job, Labels
<1>6. /\ row.idempotency_key = r.idempotency_key /\ row.order = job[s].order
      /\ row.trade = job[s].trade
  OBVIOUS
<1>7. TypeOK'
  BY <1>1, <1>3, <1>4, <1>5 DEF TypeOK, bounds
<1>8. PortfolioStateSane' /\ OrderTradeAgreement'
  BY <1>4 DEF IInv, PortfolioStateSane, OrderTradeAgreement, TradesOf
<1>9. Grows(s)
  BY <1>4 DEF Grows
<1>10. KeepsOrder(s) /\ \A u \in Sessions \ {s} : job'[u] = job[u]
  BY <1>1, <1>5 DEF KeepsOrder, OrderLabels, Labels, TypeOK
<1>11. JobInv(s)'
  <2>1. HasTrade(j) /\ orders[j.order].status = "FILLED"
    BY <1>2, <1>5 DEF HasTrade
  <2>2. [idempotency_key |-> j.request.idempotency_key,
         order |-> j.order, trade |-> j.trade] \in keys'
    BY <1>4, <1>5
  <2> HIDE DEF j
  <2>3. QED
    BY <1>2, <1>4, <1>5, <2>1, <2>2, JobAfterFill
<1> HIDE DEF row, j
<1>12. \A u \in Sessions : JobInv(u)'
  BY <1>9, <1>10, <1>11, OthersKeep DEF IInv
<1>13. OwnOrders'
  BY <1>10, OwnOrdersKept DEF IInv
<1>14. KeysInv'
  <2>1. ASSUME NEW x \in keys'
        PROVE  /\ x.order \in DOMAIN orders' /\ x.trade \in DOMAIN trades'
               /\ x.trade \in cash_applied' \cap position_applied'
               /\ trades'[x.trade].order = x.order
               /\ orders'[x.order].status = "FILLED"
               /\ KeyOf(x.trade)' = x.idempotency_key
    <3>1. CASE x \in keys
      BY <1>1, <1>4, <3>1 DEF KeysInv, KeyMeansApplied, KeyOf
    <3>2. CASE x = row
      BY <1>2, <1>4, <1>6, <3>2 DEF HasTrade, KeyOf
    <3>3. QED
      BY <1>4, <3>1, <3>2
  <2>2. \A x, y \in keys' : x.idempotency_key = y.idempotency_key => x = y
    BY <1>1, <1>4, <1>6 DEF KeysInv, KeyUsed
  <2>3. QED
    BY <2>1, <2>2 DEF KeysInv, KeyMeansApplied
<1>15. ReturnedInv'
  BY <1>4, <1>9, ReturnedKept DEF IInv
<1>16. QED
  BY <1>7, <1>8, <1>12, <1>13, <1>14, <1>15 DEF IInv

LEMMA RecordApprovalKeeps ==
  ASSUME IInv, NEW s \in Sessions, RecordApproval(s)
  PROVE  IInv'
<1> DEFINE j == [job[s] EXCEPT !.pc = "notify"]
<1>1. /\ job[s] \in Job /\ job[s].pc = "approve" /\ JobInv(s) /\ TypeOK
  BY DEF RecordApproval, At, IInv, TypeOK
<1>2. /\ HasTrade(job[s]) /\ orders[job[s].order].status = "FILLED"
      /\ job[s].trade \in cash_applied /\ job[s].trade \in position_applied
      /\ [idempotency_key |-> job[s].request.idempotency_key,
          order |-> job[s].order, trade |-> job[s].trade] \in keys
  BY <1>1, JobApplied DEF AfterKey
<1>3. /\ order_approvals' \subseteq order_approvals \cup {job[s].trade}
      /\ UNCHANGED <<orders, trades, positions, cash, keys, notified>>
      /\ UNCHANGED <<bounds, cash_applied, position_applied, returned>>
  BY DEF RecordApproval, history
<1>4. /\ job' = [job EXCEPT ![s] = j] /\ job'[s] = j /\ j \in Job
      /\ j.pc = "notify" /\ j.order = job[s].order /\ j.trade = job[s].trade
      /\ j.request = job[s].request
  BY <1>1 DEF RecordApproval, Goto, TypeOK, Job, Labels
<1> HIDE DEF j
<1>5. TypeOK'
  BY <1>1, <1>2, <1>3, <1>4 DEF TypeOK, HasTrade, bounds
<1>6. PortfolioStateSane' /\ OrderTradeAgreement'
  BY <1>3 DEF IInv, PortfolioStateSane, OrderTradeAgreement, TradesOf
<1>7. Grows(s)
  BY <1>3 DEF Grows
<1>8. KeepsOrder(s) /\ \A u \in Sessions \ {s} : job'[u] = job[u]
  BY <1>1, <1>4 DEF KeepsOrder, OrderLabels, Labels, TypeOK
<1>9. JobInv(s)'
  <2>1. HasTrade(j) /\ orders[j.order].status = "FILLED"
    BY <1>2, <1>4 DEF HasTrade
  <2>2. QED
    BY <1>2, <1>3, <1>4, <2>1, JobAfterFill
<1>10. QED
  BY <1>3, <1>5, <1>6, <1>7, <1>8, <1>9, Frame

LEMMA NotifyAndReturnKeeps ==
  ASSUME IInv, NEW s \in Sessions, NotifyAndReturn(s)
  PROVE  IInv'
<1> DEFINE row == [idempotency_key |-> job[s].request.idempotency_key,
                   order |-> job[s].order, trade |-> job[s].trade]
<1>1. /\ job[s] \in Job /\ job[s].pc = "notify" /\ JobInv(s) /\ TypeOK
  BY DEF NotifyAndReturn, At, IInv, TypeOK
<1>2. /\ HasTrade(job[s]) /\ row \in keys
      /\ KeyOf(job[s].trade) = job[s].request.idempotency_key
  BY <1>1, JobApplied DEF AfterKey
<1>3. /\ notified' \subseteq notified \cup {job[s].trade}
      /\ returned' = returned \cup {job[s].trade}
      /\ UNCHANGED <<orders, trades, positions, cash, keys, order_approvals>>
      /\ UNCHANGED <<bounds, cash_applied, position_applied>>
  BY DEF NotifyAndReturn
<1>4. /\ job' = [job EXCEPT ![s] = IdleJob] /\ job'[s] = IdleJob
      /\ \A u \in Sessions \ {s} : job'[u] = job[u]
  BY <1>1 DEF NotifyAndReturn, Finish, TypeOK
<1>5. TypeOK'
  BY <1>1, <1>2, <1>3, <1>4, IdleJobType DEF TypeOK, HasTrade, bounds
<1>6. PortfolioStateSane' /\ OrderTradeAgreement'
  BY <1>3 DEF IInv, PortfolioStateSane, OrderTradeAgreement, TradesOf
<1>7. Grows(s)
  BY <1>3 DEF Grows
<1>8. JobInv(s)' /\ KeepsOrder(s)
  BY <1>4, IdleJobType DEF JobInv, KeepsOrder, OrderLabels, TradeLabels,
                           AfterCash, AfterBook, AfterKey
<1>9. \A u \in Sessions : JobInv(u)'
  BY <1>4, <1>7, <1>8, OthersKeep DEF IInv
<1>10. OwnOrders'
  BY <1>4, <1>8, OwnOrdersKept DEF IInv
<1>11. KeysInv'
  BY <1>3, <1>7, KeysKept DEF IInv
<1>12. ReturnedInv'
  <2>1. ReturnedInv
    BY DEF IInv
  <2>2. \A t : KeyOf(t)' = KeyOf(t)
    BY <1>3 DEF KeyOf
  <2>3. row.trade = job[s].trade
        /\ row.idempotency_key = KeyOf(job[s].trade)
    BY <1>2
  <2> HIDE DEF row
  <2>4. QED
    BY <1>2, <1>3, <2>1, <2>2, <2>3 DEF ReturnedInv
<1>13. QED
  BY <1>5, <1>6, <1>9, <1>10, <1>11, <1>12 DEF IInv

(***************************************************************************)
(* The theorems                                                            *)
(***************************************************************************)
\* Whatever statement a session of submit_order issues, fails at, or dies
\* before, what the other sessions rely on is kept.
THEOREM StepKeepsIInv == IInv /\ [Next]_vars => IInv'
<1> SUFFICES ASSUME IInv, [Next]_vars PROVE IInv'
  OBVIOUS
<1>1. ASSUME NEW s \in Sessions, NEW r \in Requests, Submit(s, r) PROVE IInv'
  BY <1>1, SubmitKeeps
<1>2. ASSUME NEW s \in Sessions, Proceeds(s) PROVE IInv'
  <2>1. CASE PreTradeValidation(s)
    BY <2>1, PreTradeValidationKeeps
  <2>2. CASE CreateOrder(s)
    BY <2>2, CreateOrderKeeps
  <2>3. CASE Validates(s)
    BY <2>3, ValidateOrderKeeps
  <2>4. CASE Rejects(s)
    BY <2>4, RejectOrderKeeps
  <2>5. CASE Pends(s)
    BY <2>5, PendOrderKeeps
  <2>6. CASE Trades(s)
    BY <2>6, CreateTradeKeeps
  <2>7. CASE RecordFill(s)
    BY <2>7, RecordFillKeeps
  <2>8. CASE ReadCash(s)
    BY <2>8, ReadCashKeeps
  <2>9. CASE WriteCash(s)
    BY <2>9, WriteCashKeeps
  <2>10. CASE ReadPosition(s)
    BY <2>10, ReadPositionKeeps
  <2>11. CASE WritePosition(s)
    BY <2>11, WritePositionKeeps
  <2>12. CASE ReadStop(s)
    BY <2>12, ReadStopKeeps
  <2>13. CASE WriteStop(s)
    BY <2>13, WriteStopKeeps
  <2>14. CASE RecordKey(s)
    BY <2>14, RecordKeyKeeps
  <2>15. CASE RefuseKey(s)
    BY <2>15, RefuseKeyKeeps
  <2>16. CASE RecordApproval(s)
    BY <2>16, RecordApprovalKeeps
  <2>17. CASE NotifyAndReturn(s)
    BY <2>17, NotifyAndReturnKeeps
  <2>18. QED
    BY <1>2, <2>1, <2>2, <2>3, <2>4, <2>5, <2>6, <2>7, <2>8, <2>9, <2>10,
       <2>11, <2>12, <2>13, <2>14, <2>15, <2>16, <2>17 DEF Proceeds
<1>3. ASSUME NEW s \in Sessions, Fail(s) PROVE IInv'
  BY <1>3, FailKeeps
<1>4. CASE UNCHANGED vars
  <2> USE <1>4 DEF vars, tables, bounds, history
  <2>1. TypeOK' /\ PortfolioStateSane' /\ OwnOrders'
    BY DEF IInv, TypeOK, PortfolioStateSane, OwnOrders
  <2>2. OrderTradeAgreement'
    BY DEF IInv, OrderTradeAgreement, TradesOf
  <2>3. KeysInv' /\ ReturnedInv'
    BY DEF IInv, KeysInv, KeyMeansApplied, ReturnedInv, KeyOf
  <2>4. ASSUME NEW s \in Sessions PROVE JobInv(s)'
    BY DEF IInv, JobInv, TradesOf
  <2>5. QED
    BY <2>1, <2>2, <2>3, <2>4 DEF IInv
<1>5. QED
  BY <1>1, <1>2, <1>3, <1>4, NextProceeds

THEOREM IInvHolds == Spec => []IInv
BY InitIInv, StepKeepsIInv, PTL DEF Spec

\* Every table and every session of submit_order stays well typed.
THEOREM TypeCorrect == Spec => []TypeOK
<1>1. IInv => TypeOK
  BY DEF IInv
<1>2. QED
  BY <1>1, IInvHolds, PTL

\* Crashes and races leave each order with at most one trade, and each FILLED
\* order with exactly the trade that filled it.
THEOREM OrdersAgreeWithTrades == Spec => []OrderTradeAgreement
<1>1. IInv => OrderTradeAgreement
  BY DEF IInv
<1>2. QED
  BY <1>1, IInvHolds, PTL

\* An idempotency key on record stands for a request carried out completely.
THEOREM KeysMeanApplied == Spec => []KeyMeansApplied
<1>1. IInv => KeyMeansApplied
  BY DEF IInv, KeysInv
<1>2. QED
  BY <1>1, IInvHolds, PTL

\* At most one of the calls made with a key returns a trade.
THEOREM AtMostOneReturn == Spec => []OneReturnPerKey
<1>1. IInv => OneReturnPerKey
  BY DEF IInv, KeysInv, ReturnedInv, OneReturnPerKey
<1>2. QED
  BY <1>1, IInvHolds, PTL

\* Sessions that overwrite each other's values never make the cash of an
\* account negative, nor leave an empty position open.
THEOREM PortfolioStaysSane == Spec => []PortfolioStateSane
<1>1. IInv => PortfolioStateSane
  BY DEF IInv
<1>2. QED
  BY <1>1, IInvHolds, PTL

(***************************************************************************)
(* The refinement: submit_order implements OrderLifecycle                  *)
(***************************************************************************)
\* The order table, as the lifecycle sees it.
StatusOf(table) == [o \in DOMAIN table |-> table[o].status]

LEMMA StatusAppended ==
  ASSUME NEW table \in Seq(OrderRow), NEW row \in OrderRow
  PROVE  StatusOf(Append(table, row)) = Append(StatusOf(table), row.status)
<1> DEFINE n == Len(table)
           new == Append(table, row)
           old == StatusOf(table)
<1>1. /\ n \in Nat /\ DOMAIN table = 1 .. n
      /\ DOMAIN new = 1 .. n + 1 /\ new[n + 1] = row
      /\ \A i \in 1 .. n : new[i] = table[i]
  BY Appended, LenProperties, AppendProperties
<1>2. \A i \in 1 .. n : table[i] \in OrderRow
  BY <1>1, RowType
<1>3. old \in [1 .. n -> OrderStatuses] /\ old \in Seq(OrderStatuses)
  <2>1. \A i \in 1 .. n : table[i].status \in OrderStatuses
    BY <1>2 DEF OrderRow
  <2>2. old \in [1 .. n -> OrderStatuses]
    BY <1>1, <2>1 DEF StatusOf
  <2>3. QED
    BY <1>1, <2>2, SeqDef
<1>4. Len(old) = n
  BY <1>1, <1>3, LenProperties
<1>5. row.status \in OrderStatuses
  BY DEF OrderRow
<1> HIDE DEF old, new, n
<1>6. /\ Append(old, row.status) \in Seq(OrderStatuses)
      /\ DOMAIN Append(old, row.status) = 1 .. n + 1
      /\ \A i \in 1 .. n : Append(old, row.status)[i] = old[i]
      /\ Append(old, row.status)[n + 1] = row.status
  BY <1>3, <1>4, <1>5, AppendProperties, LenProperties
<1>7. Append(old, row.status) = [i \in 1 .. n + 1 |-> Append(old, row.status)[i]]
  BY <1>6, LenProperties
<1>8. \A i \in 1 .. n + 1 : Append(old, row.status)[i] = new[i].status
  <2> TAKE i \in 1 .. n + 1
  <2>1. CASE i = n + 1
    BY <1>1, <1>6, <2>1
  <2>2. CASE i # n + 1
    <3>1. i \in 1 .. n
      BY <1>1, <2>2
    <3>2. QED
      BY <1>1, <1>6, <3>1 DEF old, StatusOf
  <2>3. QED
    BY <2>1, <2>2
<1>9. StatusOf(new) = [i \in 1 .. n + 1 |-> new[i].status]
  BY <1>1 DEF StatusOf
<1>10. QED
  BY <1>7, <1>8, <1>9 DEF new, old

LEMMA StatusReplaced ==
  ASSUME NEW table \in Seq(OrderRow), NEW row \in OrderRow, NEW o \in DOMAIN table
  PROVE  StatusOf([table EXCEPT ![o] = row]) = [StatusOf(table) EXCEPT ![o] = row.status]
BY Replaced DEF StatusOf

\* A step that leaves the three tables alone is none of the lifecycle.
LEMMA Stutters ==
  ASSUME UNCHANGED <<orders, trades, keys>>
  PROVE  UNCHANGED Lifecycle!vars
BY DEF Lifecycle!vars

LEMMA LifecycleStep ==
  ASSUME NEW i \in DOMAIN StatusOf(orders),
         \/ Lifecycle!Trade(i) \/ Lifecycle!Fill(i)
         \/ \E k \in {r.idempotency_key : r \in Requests} : Lifecycle!Complete(k, i)
  PROVE  Lifecycle!Next
BY DEF Lifecycle!Next, StatusOf

LEMMA CreateOrderInserts ==
  ASSUME IInv, NEW s \in Sessions, CreateOrder(s)
  PROVE  Lifecycle!Insert
<1> DEFINE r   == job[s].request
           row == [account |-> r.account, symbol |-> r.symbol,
                   action |-> r.action, quantity |-> r.quantity,
                   requested_price |-> r.requested_price, status |-> "NEW",
                   filled_price |-> 0, filled_quantity |-> 0, request |-> r]
<1>1. /\ job[s] \in Job /\ job[s].pc = "insert order" /\ JobInv(s)
      /\ orders \in Seq(OrderRow)
  BY DEF CreateOrder, At, IInv, TypeOK
<1>2. r \in Requests /\ r \in RequestType /\ Admitted(r)
  BY <1>1, PreTradeAssumption DEF Job, JobInv
<1>3. row \in OrderRow
  <2>1. /\ r.account \in Accounts /\ r.symbol \in Symbols /\ r.action \in STRING
        /\ r.quantity \in Nat \ {0} /\ r.requested_price \in Nat \ {0}
    <3>1. /\ r.action \in STRING /\ r.quantity \in Int
          /\ r.requested_price \in Int
      BY <1>2 DEF RequestType
    <3>2. QED
      BY <1>2, <3>1 DEF Admitted
  <2> HIDE DEF r
  <2>2. QED
    BY <1>2, <2>1 DEF OrderRow, OrderStatuses
<1>4. orders' = Append(orders, row)
  BY DEF CreateOrder
<1>5. row.status = "NEW"
  OBVIOUS
<1> HIDE DEF row
<1>6. StatusOf(orders') = Append(StatusOf(orders), "NEW")
  BY <1>1, <1>3, <1>4, <1>5, StatusAppended
<1>7. UNCHANGED <<trades, keys>>
  BY DEF CreateOrder
<1>8. QED
  BY <1>6, <1>7 DEF Lifecycle!Insert, StatusOf

LEMMA TransitionAdvances ==
  ASSUME IInv, NEW o \in DOMAIN orders, NEW to_status \in OrderStatuses,
         Transits(o, to_status), UNCHANGED <<trades, keys>>
  PROVE  Lifecycle!Advance(o, orders[o].status, to_status)
<1>1. orders \in Seq(OrderRow)
  BY DEF IInv, TypeOK
<1>2. PICK row \in OrderRow :
        row.status = to_status /\ orders' = [orders EXCEPT ![o] = row]
  BY TransitionRow
<1>3. StatusOf(orders') = [StatusOf(orders) EXCEPT ![o] = to_status]
  BY <1>1, <1>2, StatusReplaced
<1>4. StatusOf(orders)[o] = orders[o].status
  BY DEF StatusOf
<1>5. QED
  BY <1>3, <1>4 DEF Lifecycle!Advance, StatusOf

LEMMA TransitionRefines ==
  ASSUME IInv, NEW s \in Sessions, UNCHANGED <<trades, keys>>,
         \/ /\ job[s].pc = "validate"
            /\ \/ Transits(job[s].order, "VALIDATED")
               \/ Transits(job[s].order, "REJECTED")
         \/ job[s].pc = "pend" /\ Transits(job[s].order, "PENDING")
  PROVE  Lifecycle!Next
<1> DEFINE o == job[s].order
<1>1. o \in DOMAIN orders /\ orders[o].status = StatusAt(job[s].pc)
  BY DEF IInv, JobInv, OrderLabels, Labels
<1>2. o \in DOMAIN [i \in DOMAIN orders |-> orders[i].status]
  BY <1>1
<1>3. CASE job[s].pc = "validate" /\ Transits(o, "VALIDATED")
  <2>1. Lifecycle!Advance(o, "NEW", "VALIDATED")
    BY <1>1, <1>3, TransitionAdvances DEF OrderStatuses, StatusAt
  <2>2. QED
    BY <1>2, <2>1 DEF Lifecycle!Next
<1>4. CASE job[s].pc = "validate" /\ Transits(o, "REJECTED")
  <2>1. Lifecycle!Advance(o, "NEW", "REJECTED")
    BY <1>1, <1>4, TransitionAdvances DEF OrderStatuses, StatusAt
  <2>2. QED
    BY <1>2, <2>1 DEF Lifecycle!Next
<1>5. CASE job[s].pc = "pend" /\ Transits(o, "PENDING")
  <2>1. Lifecycle!Advance(o, "VALIDATED", "PENDING")
    BY <1>1, <1>5, TransitionAdvances DEF OrderStatuses, StatusAt
  <2>2. QED
    BY <1>2, <2>1 DEF Lifecycle!Next
<1>6. QED
  BY <1>3, <1>4, <1>5

LEMMA TradeAppended ==
  ASSUME NEW S, NEW table \in Seq(S), NEW row
  PROVE  /\ DOMAIN Append(table, row) = DOMAIN table \cup {Len(table) + 1}
         /\ \A i \in DOMAIN table : Append(table, row)[i] = table[i]
         /\ Append(table, row)[Len(table) + 1] = row
<1>1. table \in Seq(S \cup {row}) /\ row \in S \cup {row}
  OBVIOUS
<1>2. QED
  BY <1>1, Appended

LEMMA CreateTradeTrades ==
  ASSUME IInv, NEW s \in Sessions, Trades(s)
  PROVE  Lifecycle!Next
<1> PICK o : o = job[s].order
  OBVIOUS
<1> DEFINE order == orders[o]
           ft    == resolve_fee_tax(job[s].request.market, order.action)
           row   == [order |-> o, account |-> order.account,
                     symbol |-> order.symbol, action |-> order.action,
                     quantity |-> order.quantity,
                     fill_price |-> order.requested_price,
                     fee |-> ft.fee, tax |-> ft.tax]
<1>1. /\ o \in DOMAIN orders /\ orders[o].status = "PENDING"
      /\ \A u \in DOMAIN trades : trades[u].order # o
  BY DEF Trades, At, IInv, JobInv, OrderLabels, TradeLabels, Labels,
         StatusAt, TradesOf
<1>2. trades' = Append(trades, row) /\ row.order = o /\ UNCHANGED <<orders, keys>>
  BY DEF Trades
<1> HIDE DEF row
<1>3. /\ DOMAIN trades' = DOMAIN trades \cup {Len(trades) + 1}
      /\ \A i \in DOMAIN trades : trades'[i] = trades[i]
      /\ trades'[Len(trades) + 1] = row
  BY <1>2, TradeAppended DEF IInv, TypeOK
<1>4. {trades'[t].order : t \in DOMAIN trades'}
        = {trades[t].order : t \in DOMAIN trades} \cup {o}
  BY <1>2, <1>3
<1>5. Lifecycle!Trade(o)
  BY <1>1, <1>2, <1>4 DEF Lifecycle!Trade
<1>6. o \in DOMAIN StatusOf(orders)
  BY <1>1 DEF StatusOf
<1>7. QED
  BY <1>5, <1>6, LifecycleStep

LEMMA RecordFillRow ==
  ASSUME IInv, NEW s \in Sessions, RecordFill(s)
  PROVE  \E row \in OrderRow :
           row.status = "FILLED" /\ orders' = [orders EXCEPT ![job[s].order] = row]
<1> DEFINE o   == job[s].order
           row == Filled(orders[o], trades[job[s].trade])
<1>1. /\ JobInv(s) /\ job[s].pc = "fill"
      /\ orders \in Seq(OrderRow) /\ trades \in Seq(TradeRow)
  BY DEF RecordFill, At, IInv, TypeOK
<1>2. HasTrade(job[s])
  BY <1>1, JobHasTrade DEF TradeLabels, OrderLabels, Labels
<1>3. orders[o] \in OrderRow /\ trades[job[s].trade] \in TradeRow
  BY <1>1, <1>2, RowType DEF HasTrade
<1>4. row \in OrderRow /\ row.status = "FILLED"
  BY <1>3 DEF OrderRow, OrderStatuses, TradeRow, Filled
<1>5. orders' = [orders EXCEPT ![o] = row]
  BY DEF RecordFill
<1> HIDE DEF row
<1>6. QED
  BY <1>4, <1>5

LEMMA RecordFillFills ==
  ASSUME IInv, NEW s \in Sessions, RecordFill(s)
  PROVE  Lifecycle!Next
<1>1. PICK o : o = job[s].order
  OBVIOUS
<1>2. /\ JobInv(s) /\ job[s].pc = "fill" /\ orders \in Seq(OrderRow)
      /\ UNCHANGED <<trades, keys>>
  BY DEF RecordFill, At, IInv, TypeOK
<1>3. HasTrade(job[s]) /\ orders[o].status = "PENDING"
  BY <1>1, <1>2, JobHasTrade DEF TradeLabels, OrderLabels, Labels, StatusAt
<1>4. o \in DOMAIN orders /\ o \in {trades[i].order : i \in DOMAIN trades}
  BY <1>1, <1>3 DEF HasTrade
<1>5. PICK row \in OrderRow :
        row.status = "FILLED" /\ orders' = [orders EXCEPT ![o] = row]
  BY <1>1, RecordFillRow
<1>6. StatusOf(orders') = [StatusOf(orders) EXCEPT ![o] = "FILLED"]
  BY <1>2, <1>4, <1>5, StatusReplaced, ZenonT(40)
<1>7. o \in DOMAIN StatusOf(orders) /\ StatusOf(orders)[o] = "PENDING"
  BY <1>3, <1>4 DEF StatusOf
<1>8. Lifecycle!Fill(o)
  BY <1>2, <1>4, <1>6, <1>7 DEF Lifecycle!Fill, Lifecycle!Advance, StatusOf
<1>9. QED
  BY <1>7, <1>8, LifecycleStep

\* An order completes one request: a key on record for it would be its own.
LEMMA RecordKeyCompletes ==
  ASSUME IInv, NEW s \in Sessions, RecordKey(s)
  PROVE  Lifecycle!Next
<1> PICK o, k : o = job[s].order /\ k = job[s].request.idempotency_key
  OBVIOUS
<1> DEFINE row == [idempotency_key |-> k, order |-> o, trade |-> job[s].trade]
<1>1. /\ job[s] \in Job /\ job[s].pc = "insert key" /\ JobInv(s)
      /\ TypeOK /\ KeysInv
  BY DEF RecordKey, At, IInv, TypeOK
<1>2. /\ HasTrade(job[s]) /\ orders[o].status = "FILLED"
  BY <1>1, JobApplied
<1>3. ~KeyUsed(k) /\ keys' = keys \cup {row} /\ UNCHANGED <<orders, trades>>
  BY DEF RecordKey
<1>4. row.idempotency_key = k /\ row.order = o
  OBVIOUS
<1>5. k \in {r.idempotency_key : r \in Requests}
  BY <1>1 DEF Job
<1>6. orders[o].request.idempotency_key = k
  BY <1>2 DEF HasTrade
<1> HIDE DEF row
<1>7. ASSUME NEW x \in keys PROVE x.idempotency_key # k /\ x.order # o
  <2>1. x.idempotency_key # k
    BY <1>3 DEF KeyUsed
  <2>2. orders[x.order].request.idempotency_key = x.idempotency_key
    BY <1>1 DEF KeysInv, KeyMeansApplied, KeyOf
  <2>3. QED
    BY <1>6, <2>1, <2>2
<1>8. {<<x.idempotency_key, x.order>> : x \in keys'}
        = {<<x.idempotency_key, x.order>> : x \in keys} \cup {<<k, o>>}
  BY <1>3, <1>4
<1>9. \A c \in {<<x.idempotency_key, x.order>> : x \in keys} : c[1] # k /\ c[2] # o
  BY <1>7
<1>10. o \in DOMAIN StatusOf(orders) /\ StatusOf(orders)[o] = "FILLED"
  BY <1>2 DEF HasTrade, StatusOf
<1>11. Lifecycle!Complete(k, o)
  BY <1>3, <1>8, <1>9, <1>10 DEF Lifecycle!Complete, StatusOf
<1>12. QED
  BY <1>5, <1>10, <1>11, LifecycleStep

\* Of the statements of submit_order, seven are steps of the lifecycle and the
\* others are none.
LEMMA StepRefines ==
  ASSUME IInv, [Next]_vars
  PROVE  [Lifecycle!Next]_(Lifecycle!vars)
<1> DEFINE Kept == UNCHANGED <<orders, trades, keys>>
<1>1. CASE UNCHANGED vars
  BY <1>1, Stutters DEF vars, tables
<1>2. ASSUME NEW s \in Sessions, NEW r \in Requests, Submit(s, r) PROVE Kept
  BY <1>2 DEF Submit, tables
<1>3. ASSUME NEW s \in Sessions, Fail(s) PROVE Kept
  BY <1>3 DEF Fail, tables
<1>4. ASSUME NEW s \in Sessions, Proceeds(s) PROVE Kept \/ Lifecycle!Next
  <2>1. CASE CreateOrder(s)
    BY <2>1, CreateOrderInserts DEF Lifecycle!Next
  <2>2. CASE Validates(s)
    BY <2>2, TransitionRefines DEF Validates, At
  <2>3. CASE Rejects(s)
    BY <2>3, TransitionRefines DEF Rejects, At
  <2>4. CASE Pends(s)
    BY <2>4, TransitionRefines DEF Pends, At
  <2>5. CASE Trades(s)
    BY <2>5, CreateTradeTrades
  <2>6. CASE RecordFill(s)
    BY <2>6, RecordFillFills
  <2>7. CASE RecordKey(s)
    BY <2>7, RecordKeyCompletes
  <2>8. CASE PreTradeValidation(s) \/ ReadCash(s) \/ ReadPosition(s) \/ ReadStop(s)
             \/ RefuseKey(s)
    BY <2>8 DEF PreTradeValidation, ReadCash, ReadPosition, ReadStop, RefuseKey,
                tables
  <2>9. CASE WriteCash(s) \/ WritePosition(s) \/ WriteStop(s)
             \/ RecordApproval(s) \/ NotifyAndReturn(s)
    BY <2>9 DEF WriteCash, WritePosition, WriteStop, RecordApproval,
                NotifyAndReturn
  <2>10. QED
    BY <1>4, <2>1, <2>2, <2>3, <2>4, <2>5, <2>6, <2>7, <2>8, <2>9 DEF Proceeds
<1>5. QED
  BY <1>1, <1>2, <1>3, <1>4, Stutters, NextProceeds

\* submit_order, with its failures and races, is a correct implementation of
\* the order lifecycle: whatever statement fails and whichever sessions race,
\* the order, trade and key tables take only the steps that OrderLifecycle has.
THEOREM SubmitOrderImplementsLifecycle == Spec => ImplementsLifecycle
<1>1. Init => Lifecycle!Init
  BY DEF Init, Lifecycle!Init
<1>2. QED
  BY <1>1, IInvHolds, StepRefines, PTL
  DEF Spec, ImplementsLifecycle, Lifecycle!Spec

(***************************************************************************)
(* Failures are counted: a trade that no key records                       *)
(***************************************************************************)
\* The trades that neither a key nor a running session accounts for.
Unaccounted ==
  DOMAIN trades \ ({row.trade : row \in keys} \cup {job[s].trade : s \in Sessions})

\* An order raises late at most once: the session that worked on it is gone,
\* and no other session works on it.
LateInv ==
  /\ IsFiniteSet(late_raises)
  /\ \A e \in late_raises : e[1] \in DOMAIN orders
  /\ \A e \in late_raises, s \in Sessions :
       job[s].pc \in OrderLabels => job[s].order # e[1]
  /\ \A s \in Sessions : job[s].pc \notin TradeLabels => job[s].trade = 0

FailuresInv == LateInv /\ UnrecordedTradesAreFailures

LEMMA SomeRowsFinite ==
  ASSUME NEW S, NEW table \in Seq(S), NEW some, some \subseteq DOMAIN table
  PROVE  IsFiniteSet(some) /\ Cardinality(some) \in Nat /\ 0 \notin DOMAIN table
<1>1. DOMAIN table = 1 .. Len(table) /\ Len(table) \in Nat
  BY LenProperties
<1>2. IsFiniteSet(DOMAIN table)
  BY <1>1, FS_Interval
<1>3. IsFiniteSet(some)
  BY <1>2, FS_Subset
<1>4. QED
  BY <1>1, <1>3, FS_CardinalityType

\* A trade stays accounted for when its session goes on or a key records it.
LEMMA NothingLost ==
  ASSUME NEW s \in Sessions, \A u \in Sessions \ {s} : job'[u] = job[u],
         keys \subseteq keys', DOMAIN trades \subseteq DOMAIN trades',
         DOMAIN trades' \subseteq DOMAIN trades \cup {job'[s].trade},
         \/ job'[s].trade = job[s].trade
         \/ job[s].trade \notin DOMAIN trades
         \/ \E row \in keys : row.trade = job[s].trade
  PROVE  Unaccounted' \subseteq Unaccounted
<1> SUFFICES ASSUME NEW t \in DOMAIN trades', t \notin Unaccounted,
                    \A row \in keys' : row.trade # t,
                    \A u \in Sessions : job'[u].trade # t
             PROVE  FALSE
  BY DEF Unaccounted
<1>1. t \in DOMAIN trades
  OBVIOUS
<1>2. \A row \in keys : row.trade # t
  OBVIOUS
<1>3. PICK u \in Sessions : job[u].trade = t
  BY <1>1, <1>2 DEF Unaccounted
<1>4. QED
  BY <1>1, <1>2, <1>3

\* The end of a call loses at most the trade of the call.
LEMMA OneLost ==
  ASSUME NEW s \in Sessions, \A u \in Sessions \ {s} : job'[u] = job[u],
         UNCHANGED <<trades, keys>>
  PROVE  Unaccounted' \subseteq Unaccounted \cup {job[s].trade}
<1> SUFFICES ASSUME NEW t \in DOMAIN trades, t \notin Unaccounted,
                    \A row \in keys : row.trade # t,
                    \A u \in Sessions : job'[u].trade # t,
                    t # job[s].trade
             PROVE  FALSE
  BY DEF Unaccounted
<1>1. PICK u \in Sessions : job[u].trade = t
  BY DEF Unaccounted
<1>2. QED
  BY <1>1

LEMMA OneMore ==
  ASSUME NEW S, NEW T, NEW x, IsFiniteSet(S), T \subseteq S \cup {x}
  PROVE  Cardinality(T) <= Cardinality(S) + 1
<1>1. /\ IsFiniteSet(S \cup {x})
      /\ Cardinality(S \cup {x})
           = IF x \in S THEN Cardinality(S) ELSE Cardinality(S) + 1
  BY FS_AddElement
<1>2. Cardinality(T) <= Cardinality(S \cup {x}) /\ IsFiniteSet(T)
  BY <1>1, FS_Subset
<1>3. Cardinality(S) \in Nat /\ Cardinality(T) \in Nat
  BY <1>2, FS_CardinalityType
<1>4. QED
  BY <1>1, <1>2, <1>3

LEMMA Counted ==
  ASSUME TypeOK, TypeOK', FailuresInv, IsFiniteSet(late_raises'),
         \/ /\ Unaccounted' \subseteq Unaccounted
            /\ failures' + Cardinality(late_raises')
                 >= failures + Cardinality(late_raises)
         \/ /\ \E t : Unaccounted' \subseteq Unaccounted \cup {t}
            /\ failures' + Cardinality(late_raises')
                 >= failures + Cardinality(late_raises) + 1
  PROVE  UnrecordedTradesAreFailures'
<1> DEFINE bound == failures + Cardinality(late_raises)
<1>1. IsFiniteSet(Unaccounted) /\ Cardinality(Unaccounted) <= bound
  <2>1. IsFiniteSet(Unaccounted)
    BY SomeRowsFinite DEF TypeOK, Unaccounted
  <2>2. QED
    BY <2>1 DEF FailuresInv, UnrecordedTradesAreFailures, Unaccounted
<1>2. /\ Cardinality(Unaccounted) \in Nat /\ bound \in Nat /\ bound' \in Nat
  BY <1>1, FS_CardinalityType, SMTT(40) DEF FailuresInv, LateInv, TypeOK
<1>3. IsFiniteSet(Unaccounted') /\ Cardinality(Unaccounted') \in Nat
  BY SomeRowsFinite DEF TypeOK, Unaccounted
<1>4. CASE Unaccounted' \subseteq Unaccounted /\ bound' >= bound
  <2>1. Cardinality(Unaccounted') <= Cardinality(Unaccounted)
    BY <1>1, <1>4, FS_Subset
  <2>2. QED
    BY <1>1, <1>2, <1>3, <1>4, <2>1 DEF UnrecordedTradesAreFailures, Unaccounted
<1>5. CASE (\E t : Unaccounted' \subseteq Unaccounted \cup {t}) /\ bound' >= bound + 1
  <2>1. PICK t : Unaccounted' \subseteq Unaccounted \cup {t}
    BY <1>5
  <2>2. Cardinality(Unaccounted') <= Cardinality(Unaccounted) + 1
    BY <1>1, <2>1, OneMore
  <2>3. QED
    BY <1>1, <1>2, <1>3, <1>5, <2>2 DEF UnrecordedTradesAreFailures, Unaccounted
<1>6. QED
  BY <1>4, <1>5

\* A step that keeps the orders raised late out of the hands of sessions.
LEMMA LateKept ==
  ASSUME IInv, LateInv, NEW s \in Sessions, KeepsOrder(s),
         DOMAIN orders \subseteq DOMAIN orders',
         \A u \in Sessions \ {s} : job'[u] = job[u],
         late_raises' = late_raises,
         job'[s].pc \notin TradeLabels => job'[s].trade = 0
  PROVE  LateInv'
BY DEF LateInv, KeepsOrder

LEMMA QuietKeeps ==
  ASSUME IInv, IInv', FailuresInv, NEW s \in Sessions, KeepsOrder(s),
         DOMAIN orders \subseteq DOMAIN orders',
         keys \subseteq keys', DOMAIN trades \subseteq DOMAIN trades',
         DOMAIN trades' \subseteq DOMAIN trades \cup {job'[s].trade},
         \A u \in Sessions \ {s} : job'[u] = job[u],
         UNCHANGED <<late_raises, failures>>,
         job'[s].pc \notin TradeLabels => job'[s].trade = 0,
         \/ job'[s].trade = job[s].trade
         \/ job[s].trade \notin DOMAIN trades
         \/ \E row \in keys : row.trade = job[s].trade
  PROVE  FailuresInv'
<1>1. LateInv'
  BY LateKept DEF FailuresInv
<1>2. Unaccounted' \subseteq Unaccounted
  BY NothingLost
<1>3. failures' + Cardinality(late_raises') >= failures + Cardinality(late_raises)
  <2>1. Cardinality(late_raises) \in Nat /\ failures \in Nat
    BY FS_CardinalityType DEF FailuresInv, LateInv, IInv, TypeOK
  <2>2. QED
    BY <2>1
<1>4. QED
  BY <1>1, <1>2, <1>3, Counted DEF FailuresInv, LateInv, IInv

LEMMA FinishedJob ==
  ASSUME IInv, NEW s \in Sessions, Finish(s)
  PROVE  /\ \A u \in Sessions \ {s} : job'[u] = job[u]
         /\ job'[s].trade = 0 /\ job'[s].pc \notin OrderLabels
         /\ job'[s].pc \notin TradeLabels /\ KeepsOrder(s)
<1>1. job'[s] = IdleJob /\ \A u \in Sessions \ {s} : job'[u] = job[u]
  BY DEF Finish, IInv, TypeOK
<1>2. IdleJob.pc = "idle" /\ IdleJob.trade = 0
  BY DEF IdleJob
<1>3. QED
  BY <1>1, <1>2 DEF OrderLabels, TradeLabels, KeepsOrder

LEMMA FailCounts ==
  ASSUME IInv, IInv', FailuresInv, NEW s \in Sessions, Fail(s)
  PROVE  FailuresInv'
<1>1. /\ Finish(s) /\ failures' = failures + 1
      /\ UNCHANGED <<orders, trades, keys, late_raises>>
  BY DEF Fail, tables, history
<1>2. LateInv'
  BY <1>1, FinishedJob, LateKept DEF FailuresInv
<1>3. Unaccounted' \subseteq Unaccounted \cup {job[s].trade}
  BY <1>1, FinishedJob, OneLost
<1>4. failures' + Cardinality(late_raises') >= failures + Cardinality(late_raises) + 1
  <2>1. Cardinality(late_raises) \in Nat /\ failures \in Nat
    BY FS_CardinalityType DEF FailuresInv, LateInv, IInv, TypeOK
  <2>2. QED
    BY <1>1, <2>1
<1>5. QED
  BY <1>2, <1>3, <1>4, Counted DEF FailuresInv, LateInv, IInv

LEMMA RaiseLateCounts ==
  ASSUME IInv, IInv', FailuresInv, NEW s \in Sessions, NEW why,
         RaiseLate(s, why), job[s].pc \in OrderLabels,
         UNCHANGED <<trades, keys, failures>>, DOMAIN orders' = DOMAIN orders
  PROVE  FailuresInv'
<1> DEFINE new == <<job[s].order, why>>
<1>1. Finish(s) /\ late_raises' = late_raises \cup {new}
  BY DEF RaiseLate
<1>2. /\ new[1] = job[s].order /\ job[s].order \in DOMAIN orders
      /\ \A u \in Sessions \ {s} :
           job[u].pc \in OrderLabels => job[u].order # job[s].order
  BY DEF IInv, JobInv, OwnOrders
<1>3. new \notin late_raises
  BY <1>2 DEF FailuresInv, LateInv
<1>4. /\ IsFiniteSet(late_raises')
      /\ Cardinality(late_raises') = Cardinality(late_raises) + 1
  BY <1>1, <1>3, FS_AddElement DEF FailuresInv, LateInv
<1>5. LateInv'
  <2>1. \A e \in late_raises' : e[1] \in DOMAIN orders'
    BY <1>1, <1>2 DEF FailuresInv, LateInv
  <2>2. ASSUME NEW e \in late_raises', NEW u \in Sessions, job'[u].pc \in OrderLabels
        PROVE  job'[u].order # e[1]
    BY <1>1, <1>2, <2>2, FinishedJob DEF FailuresInv, LateInv
  <2>3. \A u \in Sessions : job'[u].pc \notin TradeLabels => job'[u].trade = 0
    BY <1>1, FinishedJob DEF FailuresInv, LateInv
  <2>4. QED
    BY <1>4, <2>1, <2>2, <2>3 DEF LateInv
<1>6. Unaccounted' \subseteq Unaccounted \cup {job[s].trade}
  BY <1>1, FinishedJob, OneLost
<1>7. failures' + Cardinality(late_raises') >= failures + Cardinality(late_raises) + 1
  <2>1. Cardinality(late_raises) \in Nat /\ failures \in Nat
    BY FS_CardinalityType DEF FailuresInv, LateInv, IInv, TypeOK
  <2>2. QED
    BY <1>4, <2>1
<1>8. QED
  BY <1>4, <1>5, <1>6, <1>7, Counted DEF FailuresInv, IInv

LEMMA GotoJob ==
  ASSUME TypeOK, NEW s \in Sessions, NEW label, Goto(s, label)
  PROVE  /\ \A u \in Sessions \ {s} : job'[u] = job[u]
         /\ job'[s].order = job[s].order /\ job'[s].trade = job[s].trade
         /\ job'[s].pc = label
BY DEF TypeOK, Job, Goto

\* What a step that ends no call does to the job and the tables.
LEMMA StepGoesOn ==
  ASSUME IInv, FailuresInv, NEW s \in Sessions,
         \/ \E r \in Requests : Submit(s, r)
         \/ CreateOrder(s) \/ Validates(s) \/ Pends(s)
         \/ RecordFill(s) \/ WriteCash(s) \/ WritePosition(s) \/ WriteStop(s)
         \/ RecordKey(s) \/ RecordApproval(s)
  PROVE  /\ job'[s].trade = job[s].trade
         /\ \A u \in Sessions \ {s} : job'[u] = job[u]
         /\ job'[s].pc \notin TradeLabels => job[s].pc \notin TradeLabels
         /\ KeepsOrder(s)
         /\ keys \subseteq keys'
         /\ UNCHANGED <<trades, late_raises, failures>>
         /\ DOMAIN orders \subseteq DOMAIN orders'
<1>1. job \in [Sessions -> Job] /\ orders \in Seq(OrderRow)
  BY DEF IInv, TypeOK
<1>2. CASE \E r \in Requests : Submit(s, r)
  <2>1. PICK r \in Requests : job' = [job EXCEPT ![s].pc = "gates", ![s].request = r]
    BY <1>2 DEF Submit
  <2>2. /\ job[s].pc = "idle"
        /\ UNCHANGED <<orders, trades, keys, late_raises, failures>>
    BY <1>2 DEF Submit, At, tables, history
  <2>3. /\ job'[s].trade = job[s].trade /\ job'[s].pc = "gates"
        /\ \A u \in Sessions \ {s} : job'[u] = job[u]
    BY <1>1, <2>1 DEF Job
  <2>4. QED
    BY <2>2, <2>3 DEF TradeLabels, OrderLabels, KeepsOrder
<1>3. CASE CreateOrder(s)
  <2>1. Len(orders) + 1 \notin DOMAIN orders /\ DOMAIN orders \subseteq DOMAIN orders'
    <3>1. PICK row : orders' = Append(orders, row)
      BY <1>3 DEF CreateOrder
    <3>2. QED
      BY <1>1, <3>1, TradeAppended, LenProperties
  <2>2. QED
    BY <1>1, <1>3, <2>1 DEF CreateOrder, history, bounds, At, TradeLabels,
                       OrderLabels, Job, KeepsOrder
<1>4. CASE Validates(s) \/ Pends(s)
  <2>1. /\ job[s].pc \in {"validate", "pend"}
        /\ Goto(s, "pend") \/ Goto(s, "insert trade")
        /\ DOMAIN orders' = DOMAIN orders
        /\ UNCHANGED <<keys, trades, late_raises, failures>>
    BY <1>4 DEF Validates, Pends, Transits, transition_status, history, bounds, At
  <2>2. QED
    BY <2>1, GotoJob DEF TradeLabels, OrderLabels, Labels, KeepsOrder, IInv
<1>5. CASE RecordFill(s)
  BY <1>1, <1>5 DEF RecordFill, history, bounds, At, Goto, TradeLabels,
                    OrderLabels, Labels, Job, KeepsOrder
<1>6. CASE WriteCash(s)
  BY <1>1, <1>6 DEF WriteCash, bounds, At, TradeLabels, OrderLabels, Labels, Job,
                    KeepsOrder
<1>7. CASE WritePosition(s)
  <2>1. AfterPosition(job[s].request) \in {"insert key", "read stop"}
    BY DEF AfterPosition
  <2>2. QED
    BY <1>1, <1>7, <2>1 DEF WritePosition, bounds, At, TradeLabels, OrderLabels,
                            Labels, Job, KeepsOrder
<1>8. CASE WriteStop(s)
  BY <1>1, <1>8 DEF WriteStop, bounds, history, At, TradeLabels, OrderLabels,
                    Labels, Job, KeepsOrder
<1>9. CASE RecordKey(s) \/ RecordApproval(s)
  <2>1. /\ job[s].pc \in {"insert key", "approve"}
        /\ Goto(s, "approve") \/ Goto(s, "notify")
        /\ keys \subseteq keys'
        /\ UNCHANGED <<orders, trades, late_raises, failures>>
    BY <1>9 DEF RecordKey, RecordApproval, bounds, history, At
  <2>2. /\ job'[s].order = job[s].order /\ job'[s].trade = job[s].trade
        /\ job'[s].pc \in {"approve", "notify"}
        /\ \A u \in Sessions \ {s} : job'[u] = job[u]
    BY <2>1, GotoJob DEF IInv
  <2>3. QED
    BY <2>1, <2>2 DEF TradeLabels, OrderLabels, Labels, KeepsOrder
<1>10. QED
  BY <1>2, <1>3, <1>4, <1>5, <1>6, <1>7, <1>8, <1>9

LEMMA CreateTradeCounts ==
  ASSUME IInv, IInv', FailuresInv, NEW s \in Sessions, Trades(s)
  PROVE  FailuresInv'
<1>1. job \in [Sessions -> Job] /\ trades \in Seq(TradeRow)
  BY DEF IInv, TypeOK
<1>2. job[s].pc = "insert trade" /\ job[s].trade = 0
  BY DEF Trades, At, FailuresInv, LateInv, TradeLabels
<1>3. /\ job'[s].trade = Len(trades) + 1 /\ job'[s].pc = "fill"
      /\ job'[s].order = job[s].order
      /\ \A u \in Sessions \ {s} : job'[u] = job[u]
      /\ UNCHANGED <<orders, keys, late_raises, failures>>
  BY <1>1 DEF Trades, Job, bounds, history
<1>4. DOMAIN trades' = DOMAIN trades \cup {Len(trades) + 1} /\ 0 \notin DOMAIN trades
  <2>1. PICK row : trades' = Append(trades, row)
    BY DEF Trades
  <2>2. QED
    BY <1>1, <2>1, TradeAppended, SomeRowsFinite
<1>5. KeepsOrder(s) /\ job'[s].pc \in TradeLabels
  BY <1>2, <1>3 DEF KeepsOrder, OrderLabels, TradeLabels, Labels
<1>6. QED
  BY <1>2, <1>3, <1>4, <1>5, QuietKeeps

LEMMA GoesOnCounts ==
  ASSUME IInv, IInv', FailuresInv, NEW s \in Sessions,
         \A u \in Sessions \ {s} : job'[u] = job[u],
         UNCHANGED <<orders, trades, keys, late_raises, failures>>,
         \/ /\ job'[s].trade = job[s].trade /\ KeepsOrder(s)
            /\ job'[s].pc \notin TradeLabels => job[s].pc \notin TradeLabels
         \/ Finish(s) /\ job[s].pc = "gates"
         \/ Finish(s) /\ job[s].pc = "notify"
  PROVE  FailuresInv'
<1>1. CASE job'[s].trade = job[s].trade
  <2>1. job'[s].pc \notin TradeLabels => job'[s].trade = 0
    BY <1>1, FinishedJob DEF FailuresInv, LateInv
  <2>2. QED
    BY <1>1, <2>1, FinishedJob, QuietKeeps
<1>2. CASE Finish(s) /\ job[s].pc = "gates"
  <2>1. job[s].trade = 0
    BY <1>2 DEF FailuresInv, LateInv, TradeLabels, OrderLabels
  <2>2. QED
    BY <1>1, <1>2, <2>1, FinishedJob
<1>3. CASE Finish(s) /\ job[s].pc = "notify"
  <2>1. \E row \in keys : row.trade = job[s].trade
    BY <1>3 DEF IInv, JobInv, AfterKey
  <2>2. QED
    BY <1>3, <2>1, FinishedJob, QuietKeeps
<1>4. QED
  BY <1>1, <1>2, <1>3

LEMMA StepCounts ==
  ASSUME IInv, IInv', FailuresInv, NEW s \in Sessions, Proceeds(s)
  PROVE  FailuresInv'
<1>1. CASE \/ CreateOrder(s) \/ Validates(s) \/ Pends(s)
           \/ RecordFill(s) \/ WriteCash(s) \/ WritePosition(s) \/ WriteStop(s)
           \/ RecordKey(s) \/ RecordApproval(s)
  BY <1>1, StepGoesOn, QuietKeeps DEF FailuresInv, LateInv
<1>2. CASE Trades(s)
  BY <1>2, CreateTradeCounts
<1>3. CASE PreTradeValidation(s)
  <2>1. /\ job[s].pc = "gates"
        /\ UNCHANGED <<orders, trades, keys, late_raises, failures>>
    BY <1>3 DEF PreTradeValidation, At, tables, bounds, history
  <2>2. CASE Goto(s, "insert order")
    <3>1. /\ job'[s].order = job[s].order /\ job'[s].trade = job[s].trade
          /\ job'[s].pc = "insert order"
          /\ \A u \in Sessions \ {s} : job'[u] = job[u]
      BY <2>2, GotoJob DEF IInv
    <3>2. /\ KeepsOrder(s)
          /\ job'[s].pc \notin TradeLabels => job[s].pc \notin TradeLabels
      BY <2>1, <3>1 DEF TradeLabels, OrderLabels, KeepsOrder
    <3>3. QED
      BY <2>1, <3>1, <3>2, GoesOnCounts
  <2>3. CASE Finish(s)
    <3>1. \A u \in Sessions \ {s} : job'[u] = job[u]
      BY <2>3, FinishedJob
    <3>2. QED
      BY <2>1, <2>3, <3>1, GoesOnCounts
  <2>4. QED
    BY <1>3, <2>2, <2>3 DEF PreTradeValidation
<1>4. CASE NotifyAndReturn(s)
  <2>1. /\ job[s].pc = "notify" /\ Finish(s)
        /\ UNCHANGED <<orders, trades, keys, late_raises, failures>>
    BY <1>4 DEF NotifyAndReturn, At, bounds
  <2>2. QED
    BY <2>1, FinishedJob, GoesOnCounts
<1>5. CASE ReadCash(s) \/ ReadPosition(s) \/ ReadStop(s)
  <2>1. /\ job[s].pc \in {"read cash", "read position", "read stop"}
        /\ UNCHANGED <<orders, trades, keys, failures>>
    BY <1>5 DEF ReadCash, ReadPosition, ReadStop, At, tables, bounds
  <2>2. CASE \E why : RaiseLate(s, why)
    BY <2>1, <2>2, RaiseLateCounts DEF OrderLabels, Labels
  <2>3. CASE ~\E why : RaiseLate(s, why)
    <3>1. /\ job'[s].trade = job[s].trade /\ job'[s].order = job[s].order
          /\ job'[s].pc \in {"write cash", "write position", "write stop"}
          /\ \A u \in Sessions \ {s} : job'[u] = job[u]
          /\ late_raises' = late_raises
      <4>1. job \in [Sessions -> Job]
        BY DEF IInv, TypeOK
      <4>2. CASE ReadCash(s)
        BY <2>3, <4>1, <4>2 DEF ReadCash, Job, history
      <4>3. CASE ReadPosition(s)
        <5>1. PICK p, x : /\ job' = [job EXCEPT ![s].pc = "write position",
                                               ![s].position = p, ![s].row = x]
                          /\ UNCHANGED history
          BY <2>3, <4>3 DEF ReadPosition
        <5>2. QED
          BY <4>1, <5>1 DEF Job, history
      <4>4. CASE ReadStop(s)
        BY <2>3, <4>1, <4>4, ZenonT(40) DEF ReadStop, Job, history
      <4>5. QED
        BY <1>5, <4>2, <4>3, <4>4
    <3>2. QED
      BY <2>1, <3>1, GoesOnCounts DEF KeepsOrder, TradeLabels, OrderLabels, Labels
  <2>4. QED
    BY <2>2, <2>3
<1>6. CASE Rejects(s)
  <2>1. /\ job[s].pc = "validate" /\ RaiseLate(s, "NOT_PENDING")
        /\ UNCHANGED <<trades, keys, failures>> /\ DOMAIN orders' = DOMAIN orders
    BY <1>6 DEF Rejects, Transits, transition_status, At, bounds
  <2>2. QED
    BY <2>1, RaiseLateCounts DEF OrderLabels, Labels
<1>7. CASE RefuseKey(s)
  <2>1. /\ job[s].pc = "insert key" /\ RaiseLate(s, "DUPLICATE_KEY")
        /\ UNCHANGED <<orders, trades, keys, failures>>
    BY <1>7 DEF RefuseKey, At, tables, bounds
  <2>2. QED
    BY <2>1, RaiseLateCounts DEF OrderLabels, Labels
<1>8. QED
  BY <1>1, <1>2, <1>3, <1>4, <1>5, <1>6, <1>7 DEF Proceeds

LEMMA InitFailures == Init => FailuresInv
<1> SUFFICES ASSUME Init PROVE FailuresInv
  OBVIOUS
<1>1. LateInv
  BY FS_EmptySet DEF Init, LateInv, IdleJob, OrderLabels
<1>2. UnrecordedTradesAreFailures
  <2>1. DOMAIN trades \ ({row.trade : row \in keys} \cup {job[s].trade : s \in Sessions})
          = {} /\ failures = 0 /\ late_raises = {}
    BY DEF Init
  <2>2. Cardinality({}) = 0
    BY FS_EmptySet
  <2>3. QED
    BY <2>1, <2>2 DEF UnrecordedTradesAreFailures
<1>3. QED
  BY <1>1, <1>2 DEF FailuresInv

LEMMA NextCounts ==
  ASSUME IInv, IInv', FailuresInv, [Next]_vars
  PROVE  FailuresInv'
<1>1. CASE UNCHANGED vars
  BY <1>1 DEF vars, tables, bounds, history, FailuresInv, LateInv,
              UnrecordedTradesAreFailures
<1>2. ASSUME NEW s \in Sessions, NEW r \in Requests, Submit(s, r) PROVE FailuresInv'
  BY <1>2, StepGoesOn, QuietKeeps DEF FailuresInv, LateInv
<1>3. QED
  BY <1>1, <1>2, StepCounts, FailCounts, NextProceeds

\* Retrying a request duplicates its trade only after a call that raised or
\* failed: there are never more trades without a key than calls that ended so,
\* but for those of the calls still running.
THEOREM FailuresAccountForTrades == Spec => []UnrecordedTradesAreFailures
<1>1. FailuresInv => UnrecordedTradesAreFailures
  BY DEF FailuresInv
<1>2. QED
  BY <1>1, InitFailures, NextCounts, IInvHolds, PTL DEF Spec

(***************************************************************************)
(* Failures are counted: an order that nobody carries on                   *)
(***************************************************************************)
StrandedInv ==
  /\ \A s \in Sessions : job[s].pc \notin OrderLabels => job[s].order = 0
  /\ StrandedOrdersAreFailures

LEMMA StrandedFinite ==
  ASSUME IInv, IInv'
  PROVE  /\ IsFiniteSet(Stranded) /\ Cardinality(Stranded) \in Nat
         /\ IsFiniteSet(Stranded') /\ Cardinality(Stranded') \in Nat
         /\ failures \in Nat /\ 0 \notin DOMAIN orders'
<1>1. orders \in Seq(OrderRow) /\ orders' \in Seq(OrderRow) /\ failures \in Nat
  BY DEF IInv, TypeOK
<1>2. Stranded \subseteq DOMAIN orders /\ Stranded' \subseteq DOMAIN orders'
  BY DEF Stranded
<1>3. QED
  BY <1>1, <1>2, SomeRowsFinite

\* A session strands no order if it keeps its own, or leaves it FILLED or
\* REJECTED, and changes no other.
LEMMA NoneStranded ==
  ASSUME IInv, IInv', StrandedInv, NEW s \in Sessions,
         \A u \in Sessions \ {s} : job'[u] = job[u],
         \A o \in DOMAIN orders' :
           \/ o = job'[s].order
           \/ o \in DOMAIN orders /\ o = job[s].order
           \/ o \in DOMAIN orders /\ orders'[o].status = orders[o].status,
         \/ job'[s].order = job[s].order
         \/ job[s].order = 0
         \/ orders'[job[s].order].status \in {"FILLED", "REJECTED"},
         job'[s].pc \notin OrderLabels => job'[s].order = 0,
         failures' = failures
  PROVE  StrandedInv'
<1>1. Stranded' \subseteq Stranded
  <2>1. SUFFICES ASSUME NEW o \in DOMAIN orders',
                        orders'[o].status \notin {"FILLED", "REJECTED"},
                        \A u \in Sessions : job'[u].order # o
                 PROVE  o \in Stranded
    BY DEF Stranded
  <2>2. o # job[s].order
    BY <2>1, StrandedFinite
  <2>3. o \in DOMAIN orders /\ orders'[o].status = orders[o].status
    BY <2>1, <2>2
  <2>4. \A u \in Sessions : job[u].order # o
    BY <2>1, <2>2
  <2>5. QED
    BY <2>1, <2>3, <2>4 DEF Stranded
<1>2. Cardinality(Stranded') <= Cardinality(Stranded)
  BY <1>1, StrandedFinite, FS_Subset
<1>3. Cardinality(Stranded') \in Nat
  BY StrandedFinite
<1>4. QED
  BY <1>2, <1>3, StrandedFinite DEF StrandedInv, StrandedOrdersAreFailures

\* A statement that leaves the orders alone, and the end of a call whose order
\* is FILLED or that has none.
LEMMA QuietStrandsNone ==
  ASSUME IInv, IInv', StrandedInv, NEW s \in Sessions,
         UNCHANGED <<orders, failures>>,
         \/ /\ \A u \in Sessions \ {s} : job'[u] = job[u]
            /\ job'[s].order = job[s].order
            /\ job'[s].pc \in OrderLabels \/ job[s].pc \notin OrderLabels
         \/ /\ Finish(s)
            /\ \/ job[s].pc \notin OrderLabels
               \/ StatusAt(job[s].pc) = "FILLED"
  PROVE  StrandedInv'
<1>1. CASE /\ \A u \in Sessions \ {s} : job'[u] = job[u]
           /\ job'[s].order = job[s].order
           /\ job'[s].pc \in OrderLabels \/ job[s].pc \notin OrderLabels
  BY <1>1, NoneStranded DEF StrandedInv
<1>2. CASE /\ Finish(s)
           /\ \/ job[s].pc \notin OrderLabels
              \/ StatusAt(job[s].pc) = "FILLED"
  <2>1. job'[s] = IdleJob /\ \A u \in Sessions \ {s} : job'[u] = job[u]
    BY <1>2 DEF Finish, IInv, TypeOK
  <2>2. job'[s].order = 0
    BY <2>1 DEF IdleJob
  <2>3. job[s].order = 0 \/ orders'[job[s].order].status \in {"FILLED", "REJECTED"}
    BY <1>2 DEF StrandedInv, IInv, JobInv
  <2>4. QED
    BY <2>1, <2>2, <2>3, NoneStranded
<1>3. QED
  BY <1>1, <1>2

LEMMA FailStrandsOne ==
  ASSUME IInv, IInv', StrandedInv, NEW s \in Sessions, Fail(s)
  PROVE  StrandedInv'
<1>1. Finish(s) /\ failures' = failures + 1 /\ orders' = orders
  BY DEF Fail, tables
<1>2. job'[s] = IdleJob /\ \A u \in Sessions \ {s} : job'[u] = job[u]
  BY <1>1 DEF Finish, IInv, TypeOK
<1>3. Stranded' \subseteq Stranded \cup {job[s].order}
  BY <1>1, <1>2 DEF Stranded
<1>4. Cardinality(Stranded') <= Cardinality(Stranded) + 1
  BY <1>3, StrandedFinite, OneMore
<1>5. StrandedOrdersAreFailures'
  <2>1. Cardinality(Stranded') \in Nat
    BY StrandedFinite
  <2>2. Cardinality(Stranded) \in Nat /\ failures \in Nat
    BY StrandedFinite
  <2>3. QED
    BY <1>1, <1>4, <2>1, <2>2 DEF StrandedInv, StrandedOrdersAreFailures
<1>6. QED
  BY <1>2, <1>5 DEF StrandedInv, IdleJob

\* The steps that write to the orders.
LEMMA OrderStepStrandsNone ==
  ASSUME IInv, IInv', StrandedInv, NEW s \in Sessions,
         \/ CreateOrder(s) \/ Validates(s) \/ Rejects(s) \/ Pends(s) \/ RecordFill(s)
  PROVE  StrandedInv'
<1>1. job \in [Sessions -> Job] /\ orders \in Seq(OrderRow) /\ JobInv(s)
  BY DEF IInv, TypeOK
<1>2. CASE CreateOrder(s)
  <2>1. PICK row : orders' = Append(orders, row)
    BY <1>2 DEF CreateOrder
  <2>2. /\ DOMAIN orders' = DOMAIN orders \cup {Len(orders) + 1}
        /\ \A o \in DOMAIN orders : orders'[o] = orders[o]
    BY <1>1, <2>1, TradeAppended
  <2>3. /\ job[s].pc = "insert order" /\ job'[s].order = Len(orders) + 1
        /\ job'[s].pc = "validate" /\ failures' = failures
        /\ \A u \in Sessions \ {s} : job'[u] = job[u]
    BY <1>1, <1>2 DEF CreateOrder, At, Job, bounds
  <2>4. job[s].order = 0 /\ job'[s].pc \in OrderLabels
    BY <2>3 DEF StrandedInv, OrderLabels, Labels
  <2>5. QED
    BY <2>2, <2>3, <2>4, NoneStranded
<1>3. CASE \/ Validates(s) \/ Rejects(s) \/ Pends(s) \/ RecordFill(s)
  <2>1. /\ job[s].pc \in OrderLabels /\ job[s].order \in DOMAIN orders
        /\ failures' = failures
    BY <1>1, <1>3 DEF Validates, Rejects, Pends, RecordFill, At, JobInv, OrderLabels,
                      Labels, bounds
  <2>2. PICK row : orders' = [orders EXCEPT ![job[s].order] = row]
    BY <1>3 DEF Validates, Rejects, Pends, RecordFill, Transits, transition_status
  <2>3. \A o \in DOMAIN orders' :
          o \in DOMAIN orders /\ (o = job[s].order \/ orders'[o] = orders[o])
    BY <1>1, <2>2
  <2>4. CASE \/ Validates(s) \/ Pends(s) \/ RecordFill(s)
    <3>1. Goto(s, "pend") \/ Goto(s, "insert trade") \/ Goto(s, "read cash")
      BY <2>4 DEF Validates, Pends, RecordFill
    <3>2. /\ job'[s].order = job[s].order /\ job'[s].pc \in OrderLabels
          /\ \A u \in Sessions \ {s} : job'[u] = job[u]
      <4>1. ASSUME NEW label \in {"pend", "insert trade", "read cash"}, Goto(s, label)
            PROVE  /\ job'[s].order = job[s].order /\ job'[s].pc = label
                   /\ \A u \in Sessions \ {s} : job'[u] = job[u]
        BY <4>1, GotoJob DEF IInv
      <4>2. QED
        BY <3>1, <4>1 DEF OrderLabels, Labels
    <3>3. QED
      BY <2>1, <2>3, <3>2, NoneStranded
  <2>5. CASE Rejects(s)
    <3>1. /\ Finish(s)
          /\ orders' = [orders EXCEPT ![job[s].order].status = "REJECTED"]
      BY <2>5 DEF Rejects, Transits, transition_status, RaiseLate
    <3>2. job'[s] = IdleJob /\ \A u \in Sessions \ {s} : job'[u] = job[u]
      BY <3>1 DEF Finish, IInv, TypeOK
    <3>3. orders[job[s].order] \in OrderRow
      BY <1>1, <2>1, RowType
    <3>4. orders'[job[s].order].status = "REJECTED"
      BY <1>1, <2>1, <3>1, <3>3 DEF OrderRow
    <3>5. IdleJob.order = 0
      BY DEF IdleJob
    <3>6. QED
      BY <2>1, <2>3, <3>2, <3>4, <3>5, NoneStranded
  <2>6. QED
    BY <1>3, <2>4, <2>5
<1>4. QED
  BY <1>2, <1>3

\* The steps that may refuse a FILLED order, and those after them.
LEMMA LaterStepStrandsNone ==
  ASSUME IInv, IInv', StrandedInv, NEW s \in Sessions,
         \/ ReadCash(s) \/ ReadPosition(s) \/ ReadStop(s) \/ RefuseKey(s)
         \/ NotifyAndReturn(s)
  PROVE  StrandedInv'
<1>1. job \in [Sessions -> Job]
  BY DEF IInv, TypeOK
<1>2. /\ job[s].pc \in {"read cash", "read position", "read stop", "insert key",
                        "notify"}
      /\ UNCHANGED <<orders, failures>>
  BY DEF ReadCash, ReadPosition, ReadStop, RefuseKey, NotifyAndReturn, At, tables,
         bounds
<1>3. CASE Finish(s)
  <2>1. StatusAt(job[s].pc) = "FILLED"
    BY <1>2 DEF StatusAt
  <2>2. QED
    BY <1>2, <1>3, <2>1, QuietStrandsNone
<1>4. CASE ~Finish(s)
  <2>1. /\ job'[s].order = job[s].order
        /\ job'[s].pc \in {"write cash", "write position", "write stop"}
        /\ \A u \in Sessions \ {s} : job'[u] = job[u]
    <3>1. CASE ReadCash(s)
      BY <1>1, <1>4, <3>1 DEF ReadCash, RaiseLate, Job
    <3>2. CASE ReadPosition(s)
      <4>1. PICK p, x : job' = [job EXCEPT ![s].pc = "write position",
                                           ![s].position = p, ![s].row = x]
        BY <1>4, <3>2 DEF ReadPosition, RaiseLate
      <4>2. QED
        BY <1>1, <4>1 DEF Job
    <3>3. CASE ReadStop(s)
      BY <1>1, <1>4, <3>3, ZenonT(40) DEF ReadStop, RaiseLate, Job
    <3>4. QED
      BY <1>4, <3>1, <3>2, <3>3 DEF RefuseKey, NotifyAndReturn, RaiseLate
  <2>2. QED
    BY <1>2, <2>1, QuietStrandsNone DEF OrderLabels, Labels
<1>5. QED
  BY <1>3, <1>4

\* The steps that go on and leave the orders alone.
LEMMA OtherStepStrandsNone ==
  ASSUME IInv, IInv', StrandedInv, NEW s \in Sessions,
         \/ \E r \in Requests : Submit(s, r)
         \/ PreTradeValidation(s) \/ Trades(s) \/ WriteCash(s) \/ WritePosition(s)
         \/ WriteStop(s) \/ RecordKey(s) \/ RecordApproval(s)
  PROVE  StrandedInv'
<1>1. job \in [Sessions -> Job]
  BY DEF IInv, TypeOK
<1>2. UNCHANGED <<orders, failures>>
  BY DEF Submit, PreTradeValidation, Trades, WriteCash, WritePosition, WriteStop,
         RecordKey, RecordApproval, tables, bounds
<1>3. CASE \E r \in Requests : Submit(s, r)
  <2>1. PICK r \in Requests : job' = [job EXCEPT ![s].pc = "gates", ![s].request = r]
    BY <1>3 DEF Submit
  <2>2. /\ job'[s].order = job[s].order
        /\ \A u \in Sessions \ {s} : job'[u] = job[u]
    BY <1>1, <2>1 DEF Job
  <2>3. job[s].pc \notin OrderLabels
    BY <1>3 DEF Submit, At, OrderLabels
  <2>4. QED
    BY <1>2, <2>2, <2>3, QuietStrandsNone
<1>4. CASE PreTradeValidation(s)
  <2>1. job[s].pc \notin OrderLabels
    BY <1>4 DEF PreTradeValidation, At, OrderLabels
  <2>2. Finish(s) \/ Goto(s, "insert order")
    BY <1>4 DEF PreTradeValidation
  <2>3. QED
    BY <1>2, <2>1, <2>2, GotoJob, QuietStrandsNone DEF IInv
<1>5. CASE Trades(s) \/ WriteCash(s) \/ WriteStop(s)
  <2>1. /\ job'[s].order = job[s].order
        /\ job'[s].pc \in {"fill", "read position", "insert key"}
        /\ \A u \in Sessions \ {s} : job'[u] = job[u]
    <3>1. CASE Trades(s)
      BY <1>1, <3>1 DEF Trades, Job
    <3>2. CASE WriteCash(s)
      BY <1>1, <3>2 DEF WriteCash, Job
    <3>3. CASE WriteStop(s)
      BY <1>1, <3>3 DEF WriteStop, Job
    <3>4. QED
      BY <1>5, <3>1, <3>2, <3>3
  <2>2. QED
    BY <1>2, <2>1, QuietStrandsNone DEF OrderLabels, Labels
<1>6. CASE WritePosition(s)
  <2>1. AfterPosition(job[s].request) \in {"insert key", "read stop"}
    BY DEF AfterPosition
  <2>2. /\ job'[s].order = job[s].order
        /\ job'[s].pc \in {"insert key", "read stop"}
        /\ \A u \in Sessions \ {s} : job'[u] = job[u]
    BY <1>1, <1>6, <2>1 DEF WritePosition, Job
  <2>3. QED
    BY <1>2, <2>2, QuietStrandsNone DEF OrderLabels, Labels
<1>7. CASE RecordKey(s) \/ RecordApproval(s)
  <2>1. Goto(s, "approve") \/ Goto(s, "notify")
    BY <1>7 DEF RecordKey, RecordApproval
  <2>2. /\ job'[s].order = job[s].order
        /\ job'[s].pc \in {"approve", "notify"}
        /\ \A u \in Sessions \ {s} : job'[u] = job[u]
    BY <2>1, GotoJob DEF IInv
  <2>3. QED
    BY <1>2, <2>2, QuietStrandsNone DEF OrderLabels, Labels
<1>8. QED
  BY <1>3, <1>4, <1>5, <1>6, <1>7

LEMMA InitStrandsNone == Init => StrandedInv
<1> SUFFICES ASSUME Init PROVE StrandedInv
  OBVIOUS
<1>1. Stranded = {} /\ failures = 0
  BY DEF Init, Stranded
<1>2. Cardinality({}) = 0
  BY FS_EmptySet
<1>3. \A s \in Sessions : job[s].order = 0
  BY DEF Init, IdleJob
<1>4. QED
  BY <1>1, <1>2, <1>3 DEF StrandedInv, StrandedOrdersAreFailures

LEMMA NextStrands ==
  ASSUME IInv, IInv', StrandedInv, [Next]_vars
  PROVE  StrandedInv'
<1>1. CASE UNCHANGED vars
  BY <1>1 DEF vars, tables, bounds, StrandedInv, StrandedOrdersAreFailures, Stranded
<1>2. CASE Next
  BY <1>2, NextProceeds, FailStrandsOne, OrderStepStrandsNone, LaterStepStrandsNone,
     OtherStepStrandsNone
  DEF Proceeds
<1>3. QED
  BY <1>1, <1>2

\* An order that is neither FILLED nor REJECTED and that no call works on was
\* left by a statement that failed, one order per failure, however many
\* sessions submit whatever requests.
THEOREM FailuresAccountForOrders == Spec => []StrandedOrdersAreFailures
<1>1. StrandedInv => StrandedOrdersAreFailures
  BY DEF StrandedInv
<1>2. QED
  BY <1>1, InitStrandsNone, NextStrands, IInvHolds, PTL DEF Spec

(***************************************************************************)
(* What the columns of a row owe to the request it comes from              *)
(***************************************************************************)
OfRequest(order, r) ==
  /\ order.account = r.account /\ order.symbol = r.symbol
  /\ order.action = r.action /\ order.quantity = r.quantity
  /\ order.requested_price = r.requested_price

ForRequest(trade, r) ==
  LET ft == resolve_fee_tax(r.market, r.action)
  IN  /\ trade.account = r.account /\ trade.symbol = r.symbol
      /\ trade.action = r.action /\ trade.quantity = r.quantity
      /\ trade.fill_price = r.requested_price
      /\ trade.fee = ft.fee /\ trade.tax = ft.tax

ColumnsMatch ==
  /\ \A o \in DOMAIN orders : OfRequest(orders[o], orders[o].request)
  /\ \A t \in DOMAIN trades :
       ForRequest(trades[t], orders[trades[t].order].request)

LEMMA OrdersMatch ==
  ASSUME OrderTradeAgreement, ColumnsMatch, trades' = trades,
         DOMAIN orders \subseteq DOMAIN orders',
         \A o \in DOMAIN orders' :
           \/ o \notin DOMAIN orders /\ OfRequest(orders'[o], orders'[o].request)
           \/ /\ o \in DOMAIN orders
              /\ orders'[o].request = orders[o].request
              /\ OfRequest(orders[o], orders[o].request)
                   => OfRequest(orders'[o], orders[o].request)
  PROVE  ColumnsMatch'
<1>1. \A o \in DOMAIN orders' : OfRequest(orders'[o], orders'[o].request)
  BY DEF ColumnsMatch
<1>2. ASSUME NEW t \in DOMAIN trades
      PROVE  ForRequest(trades[t], orders'[trades[t].order].request)
  <2>1. trades[t].order \in DOMAIN orders
    BY DEF OrderTradeAgreement
  <2>2. orders'[trades[t].order].request = orders[trades[t].order].request
    BY <2>1
  <2>3. QED
    BY <2>2 DEF ColumnsMatch
<1>3. QED
  BY <1>1, <1>2 DEF ColumnsMatch

LEMMA CreateOrderMatches ==
  ASSUME IInv, ColumnsMatch, NEW s \in Sessions, CreateOrder(s)
  PROVE  ColumnsMatch'
<1> DEFINE r   == job[s].request
           row == [account |-> r.account, symbol |-> r.symbol,
                   action |-> r.action, quantity |-> r.quantity,
                   requested_price |-> r.requested_price, status |-> "NEW",
                   filled_price |-> 0, filled_quantity |-> 0, request |-> r]
<1>1. orders \in Seq(OrderRow) /\ OrderTradeAgreement
  BY DEF IInv, TypeOK
<1>2. row.request = r /\ OfRequest(row, r)
  BY DEF OfRequest
<1>3. orders' = Append(orders, row) /\ trades' = trades
  BY DEF CreateOrder
<1> HIDE DEF row, r
<1>4. /\ DOMAIN orders' = DOMAIN orders \cup {Len(orders) + 1}
      /\ Len(orders) + 1 \notin DOMAIN orders
      /\ \A i \in DOMAIN orders : orders'[i] = orders[i]
      /\ orders'[Len(orders) + 1] = row
  BY <1>1, <1>3, TradeAppended, LenProperties
<1>5. QED
  BY <1>1, <1>2, <1>3, <1>4, OrdersMatch

LEMMA RewriteMatches ==
  ASSUME IInv, ColumnsMatch, NEW o \in DOMAIN orders, NEW row \in OrderRow,
         orders' = [orders EXCEPT ![o] = row], trades' = trades,
         row.request = orders[o].request, row.account = orders[o].account,
         row.symbol = orders[o].symbol, row.action = orders[o].action,
         row.quantity = orders[o].quantity,
         row.requested_price = orders[o].requested_price
  PROVE  ColumnsMatch'
<1>1. orders \in Seq(OrderRow) /\ OrderTradeAgreement
  BY DEF IInv, TypeOK
<1>2. /\ DOMAIN orders' = DOMAIN orders /\ orders'[o] = row
      /\ \A i \in DOMAIN orders : i # o => orders'[i] = orders[i]
  BY <1>1, Replaced
<1>3. OfRequest(orders[o], orders[o].request) => OfRequest(row, orders[o].request)
  BY DEF OfRequest
<1>4. QED
  BY <1>1, <1>2, <1>3, OrdersMatch

LEMMA TransitionMatches ==
  ASSUME IInv, ColumnsMatch, NEW o \in DOMAIN orders, NEW to_status \in OrderStatuses,
         Transits(o, to_status), trades' = trades
  PROVE  ColumnsMatch'
<1> DEFINE row == [orders[o] EXCEPT !.status = to_status]
<1>1. orders[o] \in OrderRow
  BY RowType DEF IInv, TypeOK
<1>2. /\ row \in OrderRow
      /\ row.request = orders[o].request /\ row.account = orders[o].account
      /\ row.symbol = orders[o].symbol /\ row.action = orders[o].action
      /\ row.quantity = orders[o].quantity
      /\ row.requested_price = orders[o].requested_price
  BY <1>1 DEF OrderRow
<1>3. orders' = [orders EXCEPT ![o] = row]
  BY DEF Transits, transition_status
<1> HIDE DEF row
<1>4. QED
  BY <1>2, <1>3, RewriteMatches

LEMMA RecordFillMatches ==
  ASSUME IInv, ColumnsMatch, NEW s \in Sessions, RecordFill(s)
  PROVE  ColumnsMatch'
<1> DEFINE o   == job[s].order
           t   == job[s].trade
           row == Filled(orders[o], trades[t])
<1>1. /\ JobInv(s) /\ job[s].pc = "fill"
      /\ orders \in Seq(OrderRow) /\ trades \in Seq(TradeRow)
  BY DEF RecordFill, At, IInv, TypeOK
<1>2. HasTrade(job[s])
  BY <1>1, JobHasTrade DEF TradeLabels, OrderLabels, Labels
<1>3. o \in DOMAIN orders /\ orders[o] \in OrderRow /\ trades[t] \in TradeRow
  BY <1>1, <1>2, RowType DEF HasTrade
<1>4. /\ row \in OrderRow
      /\ row.request = orders[o].request /\ row.account = orders[o].account
      /\ row.symbol = orders[o].symbol /\ row.action = orders[o].action
      /\ row.quantity = orders[o].quantity
      /\ row.requested_price = orders[o].requested_price
  BY <1>3 DEF OrderRow, OrderStatuses, TradeRow, Filled
<1>5. orders' = [orders EXCEPT ![o] = row] /\ trades' = trades
  BY DEF RecordFill
<1> HIDE DEF row
<1>6. QED
  BY <1>3, <1>4, <1>5, RewriteMatches

LEMMA CreateTradeMatches ==
  ASSUME IInv, ColumnsMatch, NEW s \in Sessions, Trades(s)
  PROVE  ColumnsMatch'
<1> DEFINE o   == job[s].order
           r   == job[s].request
           ft  == resolve_fee_tax(r.market, orders[o].action)
           row == [order |-> o, account |-> orders[o].account,
                   symbol |-> orders[o].symbol, action |-> orders[o].action,
                   quantity |-> orders[o].quantity,
                   fill_price |-> orders[o].requested_price,
                   fee |-> ft.fee, tax |-> ft.tax]
<1>1. o \in DOMAIN orders /\ orders[o].request = r
  BY DEF Trades, At, IInv, JobInv, OrderLabels, Labels
<1>2. OfRequest(orders[o], r)
  BY <1>1 DEF ColumnsMatch
<1>3. trades' = Append(trades, row) /\ orders' = orders
  BY DEF Trades
<1>4. row.order = o /\ ForRequest(row, r)
  <2>1. resolve_fee_tax(r.market, orders[o].action) = resolve_fee_tax(r.market, r.action)
    BY <1>2 DEF OfRequest
  <2>2. QED
    BY <1>2, <2>1 DEF OfRequest, ForRequest
<1> HIDE DEF row, r
<1>5. /\ DOMAIN trades' = DOMAIN trades \cup {Len(trades) + 1}
      /\ \A i \in DOMAIN trades : trades'[i] = trades[i]
      /\ trades'[Len(trades) + 1] = row
  BY <1>3, TradeAppended DEF IInv, TypeOK
<1>6. QED
  BY <1>1, <1>3, <1>4, <1>5 DEF ColumnsMatch

LEMMA StepMatches ==
  ASSUME IInv, ColumnsMatch, [Next]_vars
  PROVE  ColumnsMatch'
<1>1. CASE UNCHANGED <<orders, trades>>
  BY <1>1 DEF ColumnsMatch
<1>2. ASSUME NEW s \in Sessions, Proceeds(s) PROVE ColumnsMatch'
  <2>1. CASE CreateOrder(s)
    BY <2>1, CreateOrderMatches
  <2>2. CASE Trades(s)
    BY <2>2, CreateTradeMatches
  <2>3. CASE RecordFill(s)
    BY <2>3, RecordFillMatches
  <2>4. CASE Validates(s) \/ Rejects(s) \/ Pends(s)
    <3>1. PICK to_status \in OrderStatuses :
            Transits(job[s].order, to_status) /\ trades' = trades
      BY <2>4 DEF Validates, Rejects, Pends, OrderStatuses
    <3>2. job[s].order \in DOMAIN orders
      BY <2>4 DEF Validates, Rejects, Pends, At, IInv, JobInv,
                  OrderLabels, Labels
    <3>3. QED
      BY <3>1, <3>2, TransitionMatches
  <2>5. CASE \/ PreTradeValidation(s) \/ ReadCash(s) \/ WriteCash(s)
             \/ ReadPosition(s) \/ WritePosition(s) \/ ReadStop(s)
             \/ WriteStop(s) \/ RecordKey(s) \/ RefuseKey(s)
             \/ RecordApproval(s) \/ NotifyAndReturn(s)
    <3>1. UNCHANGED <<orders, trades>>
      BY <2>5 DEF PreTradeValidation, ReadCash, WriteCash, ReadPosition,
                  WritePosition, ReadStop, WriteStop, RecordKey, RefuseKey,
                  RecordApproval, NotifyAndReturn, tables
    <3>2. QED
      BY <1>1, <3>1
  <2>6. QED
    BY <1>2, <2>1, <2>2, <2>3, <2>4, <2>5 DEF Proceeds
<1>3. ASSUME NEW s \in Sessions, Fail(s) \/ \E r \in Requests : Submit(s, r)
      PROVE  ColumnsMatch'
  BY <1>1, <1>3 DEF Fail, Submit, tables
<1>4. QED
  BY <1>1, <1>2, <1>3, NextProceeds DEF vars, tables

(***************************************************************************)
(* What the gates guarantee, beyond a well-formed request                  *)
(***************************************************************************)
LEMMA GatesGuarantee ==
  ASSUME NEW db, NEW r \in Requests, pre_trade_validation(db, r) = {}
  PROVE  /\ IsForex(r.account) => r.stop_loss # {}
         /\ ~IsForex(r.account) /\ r.action = "BUY" => CashOk(db, r)
         /\ ~IsForex(r.account) /\ r.action = "SELL" => Held(db, r) >= r.quantity
         /\ \A row \in db.keys : row.idempotency_key # r.idempotency_key
<1>1. \A i \in DOMAIN GateOrder : ~Refuses(GateOrder[i], db, r)
  BY DEF pre_trade_validation
<1>2. /\ 1 \in DOMAIN GateOrder /\ GateOrder[1] = "ACCOUNT_NOT_FOUND"
      /\ 10 \in DOMAIN GateOrder /\ GateOrder[10] = "FOREX_STOP_LOSS_REQUIRED"
      /\ 13 \in DOMAIN GateOrder /\ GateOrder[13] = "INSUFFICIENT_CASH"
      /\ 14 \in DOMAIN GateOrder /\ GateOrder[14] = "INSUFFICIENT_POSITION"
      /\ 15 \in DOMAIN GateOrder /\ GateOrder[15] = "DUPLICATE_REQUEST"
  BY DEF GateOrder
<1>3. /\ ~Refuses("ACCOUNT_NOT_FOUND", db, r)
      /\ ~Refuses("FOREX_STOP_LOSS_REQUIRED", db, r)
      /\ ~Refuses("INSUFFICIENT_CASH", db, r)
      /\ ~Refuses("INSUFFICIENT_POSITION", db, r)
      /\ ~Refuses("DUPLICATE_REQUEST", db, r)
  BY <1>1, <1>2
<1>4. r.account \in Accounts
  BY <1>3 DEF Refuses
<1>5. IsForex(r.account) => r.stop_loss # {}
  BY <1>3, <1>4 DEF Refuses
<1>6. ~IsForex(r.account) /\ r.action = "BUY" => CashOk(db, r)
  BY <1>3, <1>4 DEF Refuses
<1>7. r.action = "SELL" => PositionOk(db, r)
  BY <1>3, <1>4 DEF Refuses
<1>8. \A row \in db.keys : row.idempotency_key # r.idempotency_key
  BY <1>3 DEF Refuses
<1>9. QED
  BY <1>5, <1>6, <1>7, <1>8 DEF PositionOk

(***************************************************************************)
(* Positions: those of accounts that are not forex are long, those of      *)
(* forex accounts are protected or about to be                             *)
(***************************************************************************)
StopLabels == {"read stop", "write stop"}

LongUnlessForex(row) == ~IsForex(row.account) => row.direction = "LONG"

ProtectedBy(row, stop) ==
  is_stop_loss_side_valid(row.direction, row.average_price, stop)

\* The row a session is about to write, and the stop loss it owes.
RowInv(s) ==
  LET j == job[s]
      r == j.request
  IN  /\ j.pc \notin {"idle", "gates"} => (IsForex(r.account) => r.stop_loss # {})
      /\ j.pc \in {"write position", "write stop"} => LongUnlessForex(The(j.row))
      /\ j.pc = "write position" => The(j.row).account = r.account
      /\ j.pc \in StopLabels => r.stop_loss # {}
      /\ j.pc = "write stop" =>
           /\ The(j.row).stop_loss # {}
           /\ \A x \in The(j.row).stop_loss : ProtectedBy(The(j.row), x)

\* An open forex position has a valid stop loss, unless a session is about to
\* give it one, or a call failed or was refused late.
Protected ==
  Unharmed =>
    \A p \in DOMAIN positions :
      IsForex(positions[p].account) /\ positions[p].status = "open" =>
        \/ \E x \in positions[p].stop_loss : ProtectedBy(positions[p], x)
        \/ \E s \in Sessions : job[s].pc \in StopLabels /\ job[s].position = p

BookInv ==
  /\ \A s \in Sessions : RowInv(s)
  /\ \A p \in DOMAIN positions : LongUnlessForex(positions[p])
  /\ Protected

\* Harm is not undone, and what is refused late is harm.
LEMMA HarmStays ==
  ASSUME UNCHANGED <<failures, late_raises>>
  PROVE  Unharmed' <=> Unharmed
BY DEF Unharmed

LEMMA HarmDone ==
  ASSUME NEW s, NEW why, RaiseLate(s, why), failures' = failures
  PROVE  Unharmed' => Unharmed /\ why \in Harmless
<1>1. late_raises' = late_raises \cup {<<job[s].order, why>>}
  BY DEF RaiseLate
<1>2. <<job[s].order, why>>[2] = why
  OBVIOUS
<1>3. QED
  BY <1>1, <1>2 DEF Unharmed

\* A step that leaves the positions alone and does not forget a stop loss,
\* unless it ends in failure.
LEMMA BookKept ==
  ASSUME BookInv, NEW s \in Sessions, RowInv(s)', positions' = positions,
         \A u \in Sessions \ {s} : job'[u] = job[u],
         Unharmed' =>
           /\ Unharmed
           /\ job[s].pc \in StopLabels =>
                job'[s].pc \in StopLabels /\ job'[s].position = job[s].position
  PROVE  BookInv'
<1>1. \A u \in Sessions : RowInv(u)'
  BY DEF BookInv, RowInv
<1>2. Protected'
  <2> SUFFICES ASSUME Unharmed', NEW p \in DOMAIN positions,
                      IsForex(positions[p].account), positions[p].status = "open",
                      ~\E x \in positions[p].stop_loss : ProtectedBy(positions[p], x)
               PROVE  \E u \in Sessions : job'[u].pc \in StopLabels /\ job'[u].position = p
    BY DEF Protected
  <2>1. PICK u \in Sessions : job[u].pc \in StopLabels /\ job[u].position = p
    BY DEF BookInv, Protected
  <2>2. QED
    BY <2>1
<1>3. QED
  BY <1>1, <1>2 DEF BookInv

LEMMA FinishKeepsBook ==
  ASSUME IInv, BookInv, NEW s \in Sessions, Finish(s), positions' = positions,
         Unharmed' => Unharmed /\ job[s].pc \notin StopLabels
  PROVE  BookInv'
<1>1. job'[s].pc = "idle" /\ \A u \in Sessions \ {s} : job'[u] = job[u]
  BY IdleJobType DEF Finish, IInv, TypeOK
<1>2. RowInv(s)'
  BY <1>1 DEF RowInv, StopLabels
<1>3. QED
  BY <1>1, <1>2, BookKept

LEMMA RaiseLateKeepsBook ==
  ASSUME IInv, BookInv, NEW s \in Sessions, NEW why, RaiseLate(s, why),
         UNCHANGED <<positions, failures>>,
         why \notin Harmless \/ job[s].pc \notin StopLabels
  PROVE  BookInv'
BY FinishKeepsBook, HarmDone DEF RaiseLate

\* A step to a statement that writes no row.
LEMMA GoOnKeepsBook ==
  ASSUME BookInv, NEW s \in Sessions, job'[s].request = job[s].request,
         job[s].pc \notin {"idle", "gates"} \cup StopLabels,
         job'[s].pc \notin {"write position", "write stop", "read stop"},
         \A u \in Sessions \ {s} : job'[u] = job[u],
         UNCHANGED <<positions, failures, late_raises>>
  PROVE  BookInv'
<1>1. RowInv(s)'
  BY DEF BookInv, RowInv, StopLabels
<1>2. QED
  BY <1>1, BookKept, HarmStays

LEMMA GoOnSteps ==
  ASSUME IInv, BookInv, NEW s \in Sessions,
         \/ CreateOrder(s) \/ Validates(s) \/ Pends(s) \/ Trades(s)
         \/ RecordFill(s) \/ WriteCash(s) \/ RecordKey(s) \/ RecordApproval(s)
  PROVE  BookInv'
<1> DEFINE OnTo(label) == /\ job'[s].pc = label /\ job'[s].request = job[s].request
                          /\ \A u \in Sessions \ {s} : job'[u] = job[u]
<1>1. job[s] \in Job /\ job \in [Sessions -> Job]
  BY DEF IInv, TypeOK
<1>2. /\ job[s].pc \in Labels \ ({"idle", "gates"} \cup StopLabels)
      /\ UNCHANGED <<failures, late_raises, positions>>
  BY DEF CreateOrder, Trades, WriteCash, Validates, Pends, RecordFill,
         RecordKey, RecordApproval, At, bounds, history, StopLabels, Labels
<1>3. \E label \in {"validate", "fill", "read position", "pend", "insert trade",
                    "read cash", "approve", "notify"} : OnTo(label)
  <2>1. CASE CreateOrder(s)
    <3>1. OnTo("validate")
      BY <1>1, <2>1 DEF CreateOrder, Job
    <3>2. QED
      BY <3>1
  <2>2. CASE Trades(s)
    <3>1. OnTo("fill")
      BY <1>1, <2>2 DEF Trades, Job
    <3>2. QED
      BY <3>1
  <2>3. CASE WriteCash(s)
    <3>1. OnTo("read position")
      BY <1>1, <2>3 DEF WriteCash, Job
    <3>2. QED
      BY <3>1
  <2>4. CASE \/ Validates(s) \/ Pends(s) \/ RecordFill(s)
             \/ RecordKey(s) \/ RecordApproval(s)
    <3>1. PICK label \in {"pend", "insert trade", "read cash", "approve", "notify"} :
            Goto(s, label)
      BY <2>4 DEF Validates, Pends, RecordFill, RecordKey, RecordApproval
    <3>2. OnTo(label)
      BY <1>1, <3>1 DEF Goto, Job
    <3>3. QED
      BY <3>2
  <2>5. QED
    BY <2>1, <2>2, <2>3, <2>4
<1>4. QED
  BY <1>2, <1>3, GoOnKeepsBook

LEMMA PreTradeValidationKeepsBook ==
  ASSUME IInv, BookInv, NEW s \in Sessions, PreTradeValidation(s)
  PROVE  BookInv'
<1> DEFINE db == [cash |-> cash, positions |-> positions, keys |-> keys]
<1>1. /\ job[s].pc = "gates" /\ job[s] \in Job /\ job \in [Sessions -> Job]
      /\ UNCHANGED <<positions, failures, late_raises>>
  BY DEF PreTradeValidation, At, tables, bounds, history, IInv, TypeOK
<1>2. CASE pre_trade_validation(db, job[s].request) = {}
  <2>1. Goto(s, "insert order")
    BY <1>2 DEF PreTradeValidation
  <2>2. IsForex(job[s].request.account) => job[s].request.stop_loss # {}
    BY <1>1, <1>2, GatesGuarantee DEF Job
  <2>3. /\ job'[s].request = job[s].request /\ job'[s].pc = "insert order"
        /\ \A u \in Sessions \ {s} : job'[u] = job[u]
    BY <1>1, <2>1 DEF Goto, Job
  <2>4. RowInv(s)'
    BY <2>2, <2>3 DEF RowInv, StopLabels
  <2>5. QED
    BY <1>1, <2>3, <2>4, BookKept, HarmStays DEF StopLabels
<1>3. CASE pre_trade_validation(db, job[s].request) # {}
  BY <1>1, <1>3, FinishKeepsBook, HarmStays DEF PreTradeValidation, StopLabels
<1>4. QED
  BY <1>2, <1>3

LEMMA ReadCashKeepsBook ==
  ASSUME IInv, BookInv, NEW s \in Sessions, ReadCash(s)
  PROVE  BookInv'
<1> PICK c : c = NewCash(trades[job[s].trade])
  OBVIOUS
<1>1. /\ job[s].pc = "read cash" /\ job[s] \in Job /\ job \in [Sessions -> Job]
      /\ UNCHANGED <<positions, failures>>
  BY DEF ReadCash, At, tables, bounds, IInv, TypeOK
<1>2. CASE c < 0
  BY <1>1, <1>2, RaiseLateKeepsBook DEF ReadCash, StopLabels
<1>3. CASE ~(c < 0)
  <2>1. /\ job'[s].request = job[s].request /\ job'[s].pc = "write cash"
        /\ \A u \in Sessions \ {s} : job'[u] = job[u]
        /\ late_raises' = late_raises
    BY <1>1, <1>3 DEF ReadCash, Job, history
  <2>2. QED
    BY <1>1, <2>1, GoOnKeepsBook DEF StopLabels
<1>4. QED
  BY <1>2, <1>3

\* The trade of a session is that of its request.
LEMMA JobTrade ==
  ASSUME IInv, ColumnsMatch, NEW s \in Sessions, job[s].pc \in TradeLabels
  PROVE  /\ job[s].trade \in DOMAIN trades
         /\ trades[job[s].trade] \in TradeRow
         /\ ForRequest(trades[job[s].trade], job[s].request)
<1>1. HasTrade(job[s])
  BY JobHasTrade DEF IInv
<1>2. trades[job[s].trade] \in TradeRow
  BY <1>1, RowType DEF HasTrade, IInv, TypeOK
<1>3. QED
  BY <1>1, <1>2 DEF HasTrade, ColumnsMatch

LEMMA OpenPositionOf ==
  ASSUME NEW table, NEW a, NEW y, NEW p \in get_open_position(table, a, y)
  PROVE  /\ p \in DOMAIN table /\ table[p].account = a /\ table[p].symbol = y
         /\ table[p].status = "open"
BY DEF get_open_position

\* The open row of an account and a symbol, as the services read it.
RowHeld(a, y) == {positions[p] : p \in get_open_position(positions, a, y)}

LEMMA HeldOpen ==
  ASSUME IInv, BookInv, NEW a, NEW y
  PROVE  /\ RowHeld(a, y) \in Option(PositionRow(Accounts, Symbols))
         /\ \A x \in RowHeld(a, y) : x.account = a /\ LongUnlessForex(x)
<1>1. PICK found : found = get_open_position(positions, a, y)
  OBVIOUS
<1>2. found \in Option(DOMAIN positions)
  BY <1>1, OpenPositionType DEF IInv, TypeOK
<1>3. \A p \in DOMAIN positions : positions[p] \in PositionRow(Accounts, Symbols)
  BY RowType DEF IInv, TypeOK
<1>4. \A p \in found : p \in DOMAIN positions /\ positions[p].account = a
  BY <1>1, OpenPositionOf
<1>5. RowHeld(a, y) = {positions[p] : p \in found}
  BY <1>1 DEF RowHeld
<1>6. RowHeld(a, y) \in Option(PositionRow(Accounts, Symbols))
  BY <1>2, <1>3, <1>5 DEF Option
<1>7. QED
  BY <1>4, <1>5, <1>6 DEF BookInv

LEMMA AppliedKeepsSide ==
  ASSUME NEW trade, trade.action \in Actions,
         NEW held \in Option(PositionRow(Accounts, Symbols)),
         \A x \in held : x.account = trade.account /\ LongUnlessForex(x),
         ~CannotApply(held, trade, IsForex(trade.account))
  PROVE  /\ AppliedRow(held, trade).account = trade.account
         /\ LongUnlessForex(AppliedRow(held, trade))
<1>1. CASE held = {}
  <2>1. AppliedRow(held, trade) = OpenedBy(trade)
    BY <1>1 DEF AppliedRow
  <2>2. /\ OpenedBy(trade).account = trade.account
        /\ OpenedBy(trade).direction = DirectionOf(trade.action)
    BY DEF OpenedBy
  <2>3. ~IsForex(trade.account) => trade.action = "BUY"
    BY <1>1 DEF CannotApply, Actions
  <2>4. QED
    BY <2>1, <2>2, <2>3 DEF LongUnlessForex, DirectionOf
<1>2. CASE held # {}
  <2>1. PICK x \in held : x = The(held) /\ x \in PositionRow(Accounts, Symbols)
    BY <1>2, TheOption
  <2>2. \/ AppliedRow(held, trade) = merge_same_direction(x, trade)
        \/ AppliedRow(held, trade) = reduce_opposite_direction(x, trade)
    BY <1>2, <2>1 DEF AppliedRow
  <2>3. /\ merge_same_direction(x, trade).account = x.account
        /\ merge_same_direction(x, trade).direction = x.direction
    BY <2>1 DEF merge_same_direction, PositionRow
  <2>4. /\ reduce_opposite_direction(x, trade).account = x.account
        /\ reduce_opposite_direction(x, trade).direction = x.direction
    BY <2>1 DEF reduce_opposite_direction, PositionRow
  <2>5. QED
    BY <2>2, <2>3, <2>4 DEF LongUnlessForex
<1>3. QED
  BY <1>1, <1>2

LEMMA ReadPositionKeepsBook ==
  ASSUME IInv, ColumnsMatch, BookInv, NEW s \in Sessions, ReadPosition(s)
  PROVE  BookInv'
<1> PICK trade : trade = trades[job[s].trade]
  OBVIOUS
<1>b. PICK held : held = RowHeld(trade.account, trade.symbol)
  OBVIOUS
<1>c. PICK row : row = AppliedRow(held, trade)
  OBVIOUS
<1>1. /\ job[s].pc = "read position" /\ job[s] \in Job /\ job \in [Sessions -> Job]
      /\ UNCHANGED <<positions, failures>>
  BY DEF ReadPosition, At, tables, bounds, IInv, TypeOK
<1>2. trade \in TradeRow /\ ForRequest(trade, job[s].request)
  BY <1>1, JobTrade DEF TradeLabels, OrderLabels, Labels
<1>3. /\ held \in Option(PositionRow(Accounts, Symbols))
      /\ \A x \in held : x.account = trade.account /\ LongUnlessForex(x)
  BY <1>b, HeldOpen
<1>4. \A x \in held : x.account = trade.account /\ LongUnlessForex(x)
  BY <1>3
<1>5. CASE CannotApply(held, trade, IsForex(trade.account))
  BY <1>1, <1>5, <1>b, RaiseLateKeepsBook DEF ReadPosition, RowHeld, StopLabels
<1>6. CASE ~CannotApply(held, trade, IsForex(trade.account))
  <2>1. row.account = trade.account /\ LongUnlessForex(row)
    BY <1>2, <1>3, <1>4, <1>6, <1>c, AppliedKeepsSide DEF TradeRow
  <2>2. PICK p : /\ job' = [job EXCEPT ![s].pc = "write position",
                                      ![s].position = p, ![s].row = {row}]
                 /\ UNCHANGED history
    BY <1>6, <1>b, <1>c DEF ReadPosition, RowHeld
  <2>3. /\ job'[s].request = job[s].request /\ job'[s].pc = "write position"
        /\ job'[s].row = {row} /\ \A u \in Sessions \ {s} : job'[u] = job[u]
        /\ late_raises' = late_raises
    BY <1>1, <2>2 DEF Job, history
  <2>4. The(job'[s].row) = row
    BY <2>3 DEF The
  <2>5. RowInv(s)'
    BY <1>1, <1>2, <2>1, <2>3, <2>4 DEF BookInv, RowInv, StopLabels, ForRequest
  <2>6. QED
    BY <1>1, <2>3, <2>5, BookKept, HarmStays DEF StopLabels
<1>7. QED
  BY <1>5, <1>6

\* A row that is written is protected, or its session has still to see to it.
LEMMA RowWritten ==
  ASSUME BookInv, NEW s \in Sessions, NEW p, NEW row, RowInv(s)',
         \A u \in Sessions \ {s} : job'[u] = job[u],
         DOMAIN positions' = DOMAIN positions \cup {p}, positions'[p] = row,
         \A q \in DOMAIN positions : q # p => positions'[q] = positions[q],
         LongUnlessForex(row), UNCHANGED <<failures, late_raises>>,
         job[s].pc \in StopLabels => job[s].position = p,
         \/ IsForex(row.account) => job'[s].pc \in StopLabels /\ job'[s].position = p
         \/ \E x \in row.stop_loss : ProtectedBy(row, x)
  PROVE  BookInv'
<1>1. \A u \in Sessions : RowInv(u)'
  BY ZenonT(40) DEF BookInv, RowInv
<1>2. \A q \in DOMAIN positions' : LongUnlessForex(positions'[q])
  BY DEF BookInv
<1>3. Protected'
  <2> SUFFICES ASSUME Unharmed', NEW q \in DOMAIN positions',
                      IsForex(positions'[q].account), positions'[q].status = "open",
                      ~\E x \in positions'[q].stop_loss : ProtectedBy(positions'[q], x)
               PROVE  \E u \in Sessions : job'[u].pc \in StopLabels /\ job'[u].position = q
    BY DEF Protected
  <2>1. CASE q = p
    BY <2>1
  <2>2. CASE q # p
    <3>1. q \in DOMAIN positions /\ positions'[q] = positions[q]
      BY <2>2
    <3>2. PICK u \in Sessions : job[u].pc \in StopLabels /\ job[u].position = q
      BY <3>1, HarmStays DEF BookInv, Protected
    <3>3. QED
      BY <2>2, <3>2
  <2>3. QED
    BY <2>1, <2>2
<1>4. QED
  BY <1>1, <1>2, <1>3 DEF BookInv

LEMMA WritePositionKeepsBook ==
  ASSUME IInv, BookInv, NEW s \in Sessions, WritePosition(s)
  PROVE  BookInv'
<1> PICK row, p : row = The(job[s].row) /\ p = job[s].position
  OBVIOUS
<1>1. /\ job[s].pc = "write position" /\ job[s] \in Job /\ job \in [Sessions -> Job]
      /\ JobInv(s) /\ positions \in Seq(PositionRow(Accounts, Symbols))
      /\ UNCHANGED <<failures, late_raises>>
  BY DEF WritePosition, At, bounds, IInv, TypeOK
<1>2. /\ LongUnlessForex(row) /\ row.account = job[s].request.account
      /\ IsForex(row.account) => job[s].request.stop_loss # {}
  BY <1>1 DEF BookInv, RowInv
<1>3. row \in PositionRow(Accounts, Symbols)
  BY <1>1, TheOption DEF Job, JobInv
<1>4. PICK q : /\ DOMAIN positions' = DOMAIN positions \cup {q} /\ positions'[q] = row
               /\ \A i \in DOMAIN positions : i # q => positions'[i] = positions[i]
               /\ job'[s].position = q
  <2>1. CASE p = 0
    <3>1. positions' = Append(positions, row)
      BY <2>1 DEF WritePosition
    <3>2. job'[s].position = Len(positions) + 1
      BY <1>1, <2>1 DEF WritePosition, Job
    <3>3. /\ DOMAIN positions' = DOMAIN positions \cup {Len(positions) + 1}
          /\ positions'[Len(positions) + 1] = row
          /\ \A i \in DOMAIN positions : positions'[i] = positions[i]
      <4>1. PICK S : positions \in Seq(S) /\ row \in S
        BY <1>1, <1>3
      <4>2. QED
        BY <3>1, <4>1, Appended
    <3>4. QED
      BY <3>2, <3>3
  <2>2. CASE p # 0
    <3>1. positions' = [positions EXCEPT ![p] = row]
      BY <2>2 DEF WritePosition
    <3>2. job'[s].position = p
      BY <1>1, <2>2 DEF WritePosition, Job
    <3>3. p \in DOMAIN positions
      BY <1>1, <2>2 DEF JobInv
    <3>4. /\ DOMAIN positions' = DOMAIN positions /\ positions'[p] = row
          /\ \A i \in DOMAIN positions : i # p => positions'[i] = positions[i]
      BY <1>1, <1>3, <3>1, <3>3, Replaced
    <3>5. QED
      BY <3>2, <3>3, <3>4
  <2>3. QED
    BY <2>1, <2>2
<1>5. /\ job'[s].pc = AfterPosition(job[s].request)
      /\ job'[s].request = job[s].request
      /\ \A u \in Sessions \ {s} : job'[u] = job[u]
  BY <1>1 DEF WritePosition, Job
<1>6. RowInv(s)'
  BY <1>1, <1>5 DEF BookInv, RowInv, AfterPosition, StopLabels
<1>7. IsForex(row.account) => job'[s].pc \in StopLabels
  BY <1>2, <1>5 DEF AfterPosition, StopLabels
<1>8. QED
  BY <1>1, <1>2, <1>4, <1>5, <1>6, <1>7, RowWritten DEF StopLabels

LEMMA ReadStopKeepsBook ==
  ASSUME IInv, BookInv, NEW s \in Sessions, ReadStop(s)
  PROVE  BookInv'
<1> PICK row, stop : row = positions[job[s].position] /\ stop = job[s].request.stop_loss
  OBVIOUS
<1> DEFINE new == [row EXCEPT !.stop_loss = stop]
           ok  == \A x \in stop : ProtectedBy(row, x)
<1>1. /\ job[s].pc = "read stop" /\ job[s] \in Job /\ job \in [Sessions -> Job]
      /\ JobInv(s) /\ UNCHANGED <<positions, failures>>
  BY DEF ReadStop, At, tables, bounds, IInv, TypeOK
<1>2. /\ row \in PositionRow(Accounts, Symbols) /\ LongUnlessForex(row)
      /\ stop # {}
  <2>1. job[s].position \in DOMAIN positions
    BY <1>1 DEF JobInv
  <2>2. QED
    BY <1>1, <2>1, RowType DEF IInv, TypeOK, BookInv, RowInv, StopLabels
<1>3. CASE ~ok
  BY <1>1, <1>3, RaiseLateKeepsBook DEF ReadStop, ProtectedBy, Harmless
<1>4. CASE ok
  <2>1. /\ new.stop_loss = stop /\ new.account = row.account
        /\ new.direction = row.direction /\ new.average_price = row.average_price
    BY <1>2 DEF PositionRow
  <2>2. /\ job' = [job EXCEPT ![s].pc = "write stop", ![s].row = {new}]
        /\ UNCHANGED history
    BY <1>4 DEF ReadStop, ProtectedBy
  <2> HIDE DEF new
  <2>3. /\ job'[s].request = job[s].request /\ job'[s].pc = "write stop"
        /\ job'[s].position = job[s].position /\ job'[s].row = {new}
        /\ \A u \in Sessions \ {s} : job'[u] = job[u]
        /\ late_raises' = late_raises
    BY <1>1, <2>2 DEF Job, history
  <2>4. The(job'[s].row) = new
    BY <2>3 DEF The
  <2>5. LongUnlessForex(new) /\ \A x \in stop : ProtectedBy(new, x)
    BY <1>2, <1>4, <2>1 DEF LongUnlessForex, ProtectedBy
  <2>6. RowInv(s)'
    BY <1>1, <1>2, <2>1, <2>3, <2>4, <2>5 DEF BookInv, RowInv, StopLabels
  <2>7. QED
    BY <1>1, <2>3, <2>6, BookKept, HarmStays DEF StopLabels
<1>5. QED
  BY <1>3, <1>4

LEMMA WriteStopKeepsBook ==
  ASSUME IInv, BookInv, NEW s \in Sessions, WriteStop(s)
  PROVE  BookInv'
<1> PICK row, p : row = The(job[s].row) /\ p = job[s].position
  OBVIOUS
<1>1. /\ job[s].pc = "write stop" /\ job[s] \in Job /\ job \in [Sessions -> Job]
      /\ JobInv(s) /\ positions \in Seq(PositionRow(Accounts, Symbols))
      /\ UNCHANGED <<failures, late_raises>>
  BY DEF WriteStop, At, bounds, history, IInv, TypeOK
<1>2. /\ LongUnlessForex(row) /\ \E x \in row.stop_loss : ProtectedBy(row, x)
  BY <1>1 DEF BookInv, RowInv
<1>3. row \in PositionRow(Accounts, Symbols) /\ p \in DOMAIN positions
  BY <1>1, TheOption DEF Job, JobInv
<1>4. /\ DOMAIN positions' = DOMAIN positions \cup {p} /\ positions'[p] = row
      /\ \A i \in DOMAIN positions : i # p => positions'[i] = positions[i]
  <2>1. positions' = [positions EXCEPT ![p] = row]
    BY DEF WriteStop
  <2>2. /\ DOMAIN positions' = DOMAIN positions /\ positions'[p] = row
        /\ \A i \in DOMAIN positions : i # p => positions'[i] = positions[i]
    BY <1>1, <1>3, <2>1, Replaced
  <2>3. QED
    BY <1>3, <2>2
<1>5. /\ job'[s].pc = "insert key" /\ job'[s].request = job[s].request
      /\ \A u \in Sessions \ {s} : job'[u] = job[u]
  BY <1>1 DEF WriteStop, Job
<1>6. RowInv(s)'
  BY <1>1, <1>5 DEF BookInv, RowInv, StopLabels
<1>7. QED
  BY <1>1, <1>2, <1>4, <1>5, <1>6, RowWritten DEF StopLabels

LEMMA StepKeepsBook ==
  ASSUME IInv, ColumnsMatch, BookInv, [Next]_vars
  PROVE  BookInv'
<1>1. CASE UNCHANGED vars
  BY <1>1 DEF vars, tables, bounds, history, BookInv, RowInv, Protected, Unharmed
<1>2. ASSUME NEW s \in Sessions, NEW r \in Requests, Submit(s, r) PROVE BookInv'
  <2>1. /\ job[s].pc = "idle" /\ job'[s].pc = "gates"
        /\ \A u \in Sessions \ {s} : job'[u] = job[u]
        /\ UNCHANGED <<positions, failures, late_raises>>
    BY <1>2 DEF Submit, At, tables, history, IInv, TypeOK, Job
  <2>2. RowInv(s)'
    BY <2>1 DEF RowInv, StopLabels
  <2>3. QED
    BY <2>1, <2>2, BookKept, HarmStays DEF StopLabels
<1>3. ASSUME NEW s \in Sessions, Fail(s) PROVE BookInv'
  <2>1. Finish(s) /\ positions' = positions /\ failures' # 0
    BY <1>3 DEF Fail, tables, IInv, TypeOK
  <2>2. ~Unharmed'
    BY <2>1 DEF Unharmed
  <2>3. QED
    BY <2>1, <2>2, FinishKeepsBook
<1>4. ASSUME NEW s \in Sessions, Proceeds(s) PROVE BookInv'
  <2>1. CASE Rejects(s) \/ RefuseKey(s)
    BY <2>1, RaiseLateKeepsBook DEF Rejects, RefuseKey, tables, bounds, At, StopLabels
  <2>2. CASE NotifyAndReturn(s)
    BY <2>2, FinishKeepsBook, HarmStays DEF NotifyAndReturn, At, bounds, StopLabels
  <2>3. QED
    BY <1>4, <2>1, <2>2, GoOnSteps, PreTradeValidationKeepsBook, ReadCashKeepsBook,
       ReadPositionKeepsBook, WritePositionKeepsBook, ReadStopKeepsBook,
       WriteStopKeepsBook
    DEF Proceeds
<1>5. QED
  BY <1>1, <1>2, <1>3, <1>4, NextProceeds

LEMMA InitBook == Init => ColumnsMatch /\ BookInv
<1> SUFFICES ASSUME Init PROVE ColumnsMatch /\ BookInv
  OBVIOUS
<1>1. DOMAIN orders = {} /\ DOMAIN trades = {} /\ DOMAIN positions = {}
  BY DEF Init
<1>2. \A s \in Sessions : job[s].pc = "idle"
  BY IdleJobType DEF Init
<1>3. QED
  BY <1>1, <1>2 DEF ColumnsMatch, BookInv, Protected, RowInv, StopLabels

\* Unless a call failed, no forex position is left without a valid stop loss:
\* for any number of sessions that overwrite each other's rows.
THEOREM ForexStaysProtected == Spec => []ForexProtected
<1>1. IInv /\ BookInv => ForexProtected
  <2> SUFFICES ASSUME IInv, BookInv, Quiescent, failures = 0, late_raises = {},
                      NEW p \in DOMAIN positions,
                      IsForex(positions[p].account), positions[p].status = "open"
               PROVE  \E stop \in positions[p].stop_loss :
                        /\ ProtectedBy(positions[p], stop)
                        /\ positions[p].direction = "LONG"
                             /\ positions[p].average_price.den = 1 =>
                               MonitorTrigger(positions[p],
                                              positions[p].average_price.num)
                                 = "NO_TRIGGER"
    BY DEF ForexProtected, ProtectedBy
  <2>1. PICK x \in positions[p].stop_loss : ProtectedBy(positions[p], x)
    BY DEF BookInv, Protected, Unharmed, Quiescent, At, StopLabels
  <2>2. positions[p] \in PositionRow(Accounts, Symbols)
    BY RowType DEF IInv, TypeOK
  <2>3. /\ positions[p].stop_loss = {x} /\ x \in Int
        /\ positions[p].average_price.num \in Int
    BY <2>1, <2>2 DEF PositionRow, Option, Ratio
  <2>4. ASSUME positions[p].direction = "LONG", positions[p].average_price.den = 1
        PROVE  ~(positions[p].average_price.num <= x)
    BY <2>1, <2>3, <2>4 DEF ProtectedBy, is_stop_loss_side_valid
  <2>5. QED
    BY <2>1, <2>3, <2>4 DEF MonitorTrigger
<1>2. Init => ColumnsMatch /\ BookInv
  BY InitBook
<1>3. IInv /\ ColumnsMatch /\ BookInv /\ [Next]_vars => (ColumnsMatch /\ BookInv)'
  BY StepMatches, StepKeepsBook
<1>4. QED
  BY <1>1, <1>2, <1>3, IInvHolds, PTL DEF Spec

(***************************************************************************)
(* Calls one at a time: what the gates saw still holds when it matters     *)
(***************************************************************************)
OneSession == \A s, u \in Sessions : s = u

Db == [cash |-> cash, positions |-> positions, keys |-> keys]

BeforeCash == {"insert order", "validate", "pend", "insert trade", "fill", "read cash"}
BeforeBook == BeforeCash \cup {"write cash", "read position"}
BeforeKey  == BeforeBook \cup {"write position", "read stop", "write stop", "insert key"}

GateInv(s) ==
  LET j == job[s]
      r == j.request
  IN  /\ j.pc \in BeforeCash /\ ~IsForex(r.account) /\ r.action = "BUY" =>
           CashOk(Db, r)
      /\ j.pc \in BeforeBook /\ ~IsForex(r.account) /\ r.action = "SELL" =>
           Held(Db, r) >= r.quantity
      /\ j.pc \in BeforeKey => ~KeyUsed(r.idempotency_key)

LEMMA GateKept ==
  ASSUME NEW s \in Sessions, GateInv(s), job'[s].request = job[s].request,
         job'[s].pc \in BeforeCash => job[s].pc \in BeforeCash /\ cash' = cash,
         job'[s].pc \in BeforeBook => job[s].pc \in BeforeBook /\ positions' = positions,
         job'[s].pc \in BeforeKey => job[s].pc \in BeforeKey /\ keys' = keys
  PROVE  GateInv(s)'
<1> PICK r : r = job[s].request
  OBVIOUS
<1>1. cash' = cash => CashOk(Db, r)' = CashOk(Db, r)
  BY DEF CashOk, Db
<1>2. positions' = positions => Held(Db, r)' = Held(Db, r)
  BY DEF Held, OpenRow, Db
<1>3. keys' = keys => KeyUsed(r.idempotency_key)' = KeyUsed(r.idempotency_key)
  BY DEF KeyUsed
<1>4. QED
  BY <1>1, <1>2, <1>3 DEF GateInv

LEMMA GateOff ==
  ASSUME NEW s \in Sessions, job'[s].pc \in {"idle", "gates", "approve", "notify"}
  PROVE  GateInv(s)'
BY DEF GateInv, BeforeCash, BeforeBook, BeforeKey

LEMMA GateOpens ==
  ASSUME IInv, NEW s \in Sessions, PreTradeValidation(s)
  PROVE  GateInv(s)'
<1>1. /\ job[s] \in Job /\ job \in [Sessions -> Job]
      /\ UNCHANGED <<cash, positions, keys>>
  BY DEF PreTradeValidation, tables, IInv, TypeOK
<1>2. CASE pre_trade_validation(Db, job[s].request) = {}
  <2> PICK r \in Requests : r = job[s].request
    BY <1>1 DEF Job
  <2>1. Goto(s, "insert order")
    BY <1>2 DEF PreTradeValidation, Db
  <2>2. /\ job'[s].request = r /\ job'[s].pc = "insert order"
    BY <1>1, <2>1 DEF Goto, Job
  <2>3. /\ ~IsForex(r.account) /\ r.action = "BUY" => CashOk(Db, r)
        /\ ~IsForex(r.account) /\ r.action = "SELL" => Held(Db, r) >= r.quantity
        /\ \A row \in Db.keys : row.idempotency_key # r.idempotency_key
    BY <1>2, GatesGuarantee
  <2>4. Db' = Db /\ Db.keys = keys
    BY <1>1 DEF Db
  <2>5. CashOk(Db, r)' = CashOk(Db, r) /\ Held(Db, r)' = Held(Db, r)
    BY <1>1 DEF Db, CashOk, Held, OpenRow
  <2>6. ~KeyUsed(r.idempotency_key)'
    BY <1>1, <2>3, <2>4 DEF KeyUsed
  <2>7. QED
    BY <2>2, <2>3, <2>5, <2>6 DEF GateInv
<1>3. CASE pre_trade_validation(Db, job[s].request) # {}
  <2>1. Finish(s)
    BY <1>3 DEF PreTradeValidation, Db
  <2>2. job'[s].pc = "idle"
    BY <1>1, <2>1, IdleJobType DEF Finish
  <2>3. QED
    BY <2>2, GateOff
<1>4. QED
  BY <1>2, <1>3

LEMMA StepKeepsGate ==
  ASSUME IInv, NEW s \in Sessions, GateInv(s), Proceeds(s)
  PROVE  GateInv(s)'
<1> USE DEF BeforeCash, BeforeBook, BeforeKey
<1>1. job[s] \in Job /\ job \in [Sessions -> Job]
  BY DEF IInv, TypeOK
<1>2. CASE Finish(s)
  <2>1. job'[s].pc = "idle"
    BY <1>1, <1>2, IdleJobType DEF Finish
  <2>2. QED
    BY <2>1, GateOff
<1>3. CASE PreTradeValidation(s)
  BY <1>3, GateOpens
<1>4. CASE CreateOrder(s)
  <2>1. /\ job'[s].request = job[s].request /\ job'[s].pc = "validate"
        /\ job[s].pc = "insert order" /\ UNCHANGED <<cash, positions, keys>>
    BY <1>1, <1>4 DEF CreateOrder, At, Job
  <2>2. QED
    BY <2>1, GateKept
<1>5. CASE Trades(s)
  <2>1. /\ job'[s].request = job[s].request /\ job'[s].pc = "fill"
        /\ job[s].pc = "insert trade" /\ UNCHANGED <<cash, positions, keys>>
    BY <1>1, <1>5 DEF Trades, At, Job
  <2>2. QED
    BY <2>1, GateKept
<1>6. CASE Validates(s) \/ Pends(s) \/ RecordFill(s)
  <2>1. /\ job'[s].request = job[s].request
        /\ job'[s].pc \in {"pend", "insert trade", "read cash"}
        /\ job[s].pc \in {"validate", "pend", "fill"}
        /\ UNCHANGED <<cash, positions, keys>>
    BY <1>1, <1>6, ZenonT(40) DEF Validates, Pends, RecordFill, At, Goto, Job
  <2>2. QED
    BY <2>1, GateKept
<1>7. CASE ReadCash(s) /\ ~Finish(s)
  <2>1. /\ job'[s].request = job[s].request /\ job'[s].pc = "write cash"
        /\ job[s].pc = "read cash" /\ UNCHANGED <<cash, positions, keys>>
    BY <1>1, <1>7 DEF ReadCash, RaiseLate, At, tables, Job
  <2>2. QED
    BY <2>1, GateKept
<1>8. CASE WriteCash(s)
  <2>1. /\ job'[s].request = job[s].request /\ job'[s].pc = "read position"
        /\ job[s].pc = "write cash" /\ UNCHANGED <<positions, keys>>
    BY <1>1, <1>8 DEF WriteCash, At, Job
  <2>2. QED
    BY <2>1, GateKept
<1>9. CASE ReadPosition(s) /\ ~Finish(s)
  <2>1. PICK p, x : job' = [job EXCEPT ![s].pc = "write position",
                                       ![s].position = p, ![s].row = x]
    BY <1>9 DEF ReadPosition, RaiseLate
  <2>2. /\ job'[s].request = job[s].request /\ job'[s].pc = "write position"
        /\ job[s].pc = "read position" /\ keys' = keys
    BY <1>1, <1>9, <2>1 DEF ReadPosition, At, tables, Job
  <2>3. QED
    BY <2>2, GateKept
<1>10. CASE WritePosition(s)
  <2>1. /\ job'[s].request = job[s].request
        /\ job'[s].pc \in {"insert key", "read stop"}
        /\ job[s].pc = "write position" /\ keys' = keys
    BY <1>1, <1>10 DEF WritePosition, AfterPosition, At, Job
  <2>2. QED
    BY <2>1, GateKept
<1>11. CASE ReadStop(s) /\ ~Finish(s)
  <2>1. /\ job'[s].request = job[s].request /\ job'[s].pc = "write stop"
        /\ job[s].pc = "read stop" /\ keys' = keys
    <3>1. PICK x : job' = [job EXCEPT ![s].pc = "write stop", ![s].row = x]
      BY <1>11 DEF ReadStop, RaiseLate
    <3>2. job[s].pc = "read stop" /\ keys' = keys
      BY <1>11 DEF ReadStop, At, tables
    <3>3. QED
      BY <1>1, <3>1, <3>2 DEF Job
  <2>2. QED
    BY <2>1, GateKept
<1>12. CASE WriteStop(s)
  <2>1. /\ job'[s].request = job[s].request /\ job'[s].pc = "insert key"
        /\ job[s].pc = "write stop" /\ keys' = keys
    BY <1>1, <1>12 DEF WriteStop, At, Job
  <2>2. QED
    BY <2>1, GateKept
<1>13. CASE RecordKey(s) \/ RecordApproval(s)
  <2>1. job'[s].pc \in {"approve", "notify"}
    BY <1>1, <1>13 DEF RecordKey, RecordApproval, Goto, Job
  <2>2. QED
    BY <2>1, GateOff
<1>14. CASE Rejects(s) \/ RefuseKey(s) \/ NotifyAndReturn(s)
  BY <1>2, <1>14 DEF Rejects, RefuseKey, NotifyAndReturn, RaiseLate
<1>15. QED
  BY <1>2, <1>3, <1>4, <1>5, <1>6, <1>7, <1>8, <1>9, <1>10, <1>11, <1>12, <1>13,
     <1>14
  DEF Proceeds

(***************************************************************************)
(* The refusals after the gates                                            *)
(***************************************************************************)
\* The exceptions of GatesSuffice, for the request of the order that raised.
Foreseen(r, why) ==
  LET ft == resolve_fee_tax(r.market, r.action)
  IN  \/ why = "NOT_PENDING" /\ r.action \notin Actions
      \/ /\ why = "INSUFFICIENT_CASH" /\ r.action = "SELL"
         /\ OrderValue(r) < ft.fee + ft.tax
      \/ IsForex(r.account)
      \/ r.stop_loss # {}

LEMMA CashShort ==
  ASSUME NEW value \in Int, NEW fee \in Int, NEW tax \in Int, NEW money \in Int,
         money >= 0, NEW trade, trade.fee = fee, trade.tax = tax,
         trade.quantity * trade.fill_price = value,
         money + CashEffect(trade) < 0
  PROVE  /\ trade.action = "BUY" => ~(money >= compute_buy_required_cash(value, fee, tax))
         /\ trade.action # "BUY" => value < fee + tax
<1>1. CASE trade.action = "BUY"
  <2>1. CashEffect(trade) = -compute_buy_required_cash(value, fee, tax)
    BY <1>1 DEF CashEffect
  <2>2. compute_buy_required_cash(value, fee, tax) \in Int
    BY DEF compute_buy_required_cash
  <2> HIDE DEF compute_buy_required_cash
  <2>3. QED
    BY <1>1, <2>1, <2>2
<1>2. CASE trade.action # "BUY"
  <2>1. CashEffect(trade) = value - fee - tax
    BY <1>2 DEF CashEffect
  <2>2. QED
    BY <1>2, <2>1
<1>3. QED
  BY <1>1, <1>2

LEMMA TradeShort ==
  ASSUME NEW trade \in TradeRow, NEW r, ForRequest(trade, r),
         NEW money \in Int, money >= 0, money + CashEffect(trade) < 0
  PROVE  LET ft == resolve_fee_tax(r.market, r.action)
         IN  /\ r.action = "BUY" =>
                  ~(money >= compute_buy_required_cash(OrderValue(r), ft.fee, ft.tax))
             /\ r.action # "BUY" => OrderValue(r) < ft.fee + ft.tax
<1>1. PICK ft : ft = resolve_fee_tax(r.market, r.action)
  OBVIOUS
<1>2. /\ trade.fee \in Int /\ trade.tax \in Int
      /\ trade.quantity \in Int /\ trade.fill_price \in Int
  BY DEF TradeRow
<1>3. /\ trade.quantity = r.quantity /\ trade.fill_price = r.requested_price
      /\ trade.action = r.action /\ trade.fee = ft.fee /\ trade.tax = ft.tax
  BY <1>1 DEF ForRequest
<1>4. PICK value : value = trade.quantity * trade.fill_price
  OBVIOUS
<1>5. value \in Int
  BY <1>2, <1>4
<1>6. OrderValue(r) = value
  BY <1>3, <1>4 DEF OrderValue
<1>7. /\ trade.action = "BUY" =>
           ~(money >= compute_buy_required_cash(value, trade.fee, trade.tax))
      /\ trade.action # "BUY" => value < trade.fee + trade.tax
  BY <1>2, <1>4, <1>5, CashShort
<1>8. QED
  BY <1>1, <1>3, <1>6, <1>7

LEMMA CashForeseen ==
  ASSUME IInv, ColumnsMatch, NEW s \in Sessions, GateInv(s), job[s].pc = "read cash",
         NewCash(trades[job[s].trade]) < 0
  PROVE  Foreseen(job[s].request, "INSUFFICIENT_CASH")
<1>1. PICK trade, r : trade = trades[job[s].trade] /\ r = job[s].request
  OBVIOUS
<1>2. PICK ft : ft = resolve_fee_tax(r.market, r.action)
  OBVIOUS
<1>3. trade \in TradeRow /\ ForRequest(trade, r)
  BY <1>1, JobTrade DEF TradeLabels, OrderLabels, Labels
<1>4. /\ trade.account = r.account /\ trade.action = r.action
      /\ r.account \in Accounts /\ r.action \in Actions
  BY <1>3 DEF ForRequest, TradeRow
<1>5. cash[r.account] \in Int /\ cash[r.account] >= 0
  BY <1>4 DEF IInv, TypeOK, PortfolioStateSane
<1>6. cash[r.account] + CashEffect(trade) < 0
  BY <1>1, <1>4 DEF NewCash
<1>7. /\ r.action = "BUY" =>
           ~(cash[r.account] >= compute_buy_required_cash(OrderValue(r), ft.fee, ft.tax))
      /\ r.action # "BUY" => OrderValue(r) < ft.fee + ft.tax
  BY <1>2, <1>3, <1>5, <1>6, TradeShort
<1>8. ~IsForex(r.account) /\ r.action = "BUY" =>
        cash[r.account] >= compute_buy_required_cash(OrderValue(r), ft.fee, ft.tax)
  BY <1>1, <1>2 DEF GateInv, BeforeCash, CashOk, Db
<1>9. QED
  BY <1>1, <1>2, <1>4, <1>7, <1>8 DEF Foreseen, Actions

LEMMA SellCovered ==
  ASSUME NEW held \in Option(PositionRow(Accounts, Symbols)), NEW trade,
         trade.action \in Actions, trade.quantity \in Nat \ {0},
         \A x \in held : x.direction = "LONG",
         trade.action = "SELL" =>
           (IF held = {} THEN 0 ELSE The(held).quantity) >= trade.quantity,
         NEW isForex, ~isForex
  PROVE  ~CannotApply(held, trade, isForex)
<1>1. CASE held = {}
  BY <1>1 DEF CannotApply, Actions
<1>2. CASE held # {}
  <2>1. PICK x \in PositionRow(Accounts, Symbols) : x = The(held) /\ held = {x}
    BY <1>2, TheOption
  <2>2. x.quantity \in Nat /\ x.direction = "LONG"
    BY <2>1 DEF PositionRow
  <2>3. CASE trade.action = "BUY"
    BY <1>2, <2>1, <2>2, <2>3 DEF CannotApply, DirectionOf
  <2>4. CASE trade.action = "SELL"
    <3>1. x.quantity >= trade.quantity
      BY <1>2, <2>1, <2>4
    <3>2. QED
      BY <1>2, <2>1, <2>2, <2>4, <3>1 DEF CannotApply
  <2>5. QED
    BY <2>3, <2>4 DEF Actions
<1>3. QED
  BY <1>1, <1>2

LEMMA PositionForeseen ==
  ASSUME IInv, ColumnsMatch, BookInv, NEW s \in Sessions, GateInv(s),
         job[s].pc = "read position", NEW trade, trade = trades[job[s].trade],
         ~IsForex(job[s].request.account)
  PROVE  ~CannotApply(RowHeld(trade.account, trade.symbol), trade,
                      IsForex(trade.account))
<1>1. PICK r : r = job[s].request
  OBVIOUS
<1>2. trade \in TradeRow /\ ForRequest(trade, r)
  BY <1>1, JobTrade DEF TradeLabels, OrderLabels, Labels
<1>3. /\ trade.account = r.account /\ trade.symbol = r.symbol
      /\ trade.quantity = r.quantity /\ trade.action = r.action
      /\ trade.quantity \in Nat \ {0} /\ trade.action \in Actions
  BY <1>2 DEF ForRequest, TradeRow
<1>4. PICK held : held = RowHeld(trade.account, trade.symbol)
  OBVIOUS
<1>5. /\ held \in Option(PositionRow(Accounts, Symbols))
      /\ \A x \in held : x.account = trade.account /\ LongUnlessForex(x)
  BY <1>4, HeldOpen
<1>6. ~IsForex(trade.account) /\ ~IsForex(r.account)
  BY <1>1, <1>3
<1>7. r.action = "SELL" => Held(Db, r) >= r.quantity
  BY <1>1, <1>6 DEF GateInv, BeforeBook
<1>8. held = OpenRow(Db, r)
  BY <1>3, <1>4 DEF OpenRow, RowHeld, Db
<1>9. Held(Db, r) = IF held = {} THEN 0 ELSE The(held).quantity
  BY <1>8 DEF Held
<1>10. \A x \in held : x.direction = "LONG"
  BY <1>5, <1>6 DEF LongUnlessForex
<1>11. \A isForex : ~isForex => ~CannotApply(held, trade, isForex)
  BY <1>3, <1>5, <1>7, <1>9, <1>10, SellCovered
<1>12. QED
  BY <1>4, <1>6, <1>11

\* Whatever raises late was foreseen.
LEMMA RaisesForeseen ==
  ASSUME IInv, ColumnsMatch, BookInv, NEW s \in Sessions, GateInv(s), Proceeds(s),
         NEW e \in late_raises', e \notin late_raises
  PROVE  e[1] = job[s].order /\ job[s].pc \in OrderLabels
           /\ Foreseen(job[s].request, e[2])
<1> USE DEF OrderLabels, Labels
<1>1. CASE Rejects(s)
  <2>1. /\ job[s].pc = "validate" /\ ~StructurallyValid(orders[job[s].order])
        /\ e = <<job[s].order, "NOT_PENDING">>
    BY <1>1 DEF Rejects, At, RaiseLate
  <2>2. /\ job[s].order \in DOMAIN orders
        /\ orders[job[s].order].request = job[s].request
    BY <2>1 DEF IInv, JobInv
  <2>3. job[s].request.action \notin Actions
    BY <2>1, <2>2 DEF ColumnsMatch, OfRequest, StructurallyValid
  <2>4. QED
    BY <2>1, <2>3 DEF Foreseen
<1>2. CASE ReadCash(s)
  <2>1. /\ job[s].pc = "read cash" /\ NewCash(trades[job[s].trade]) < 0
        /\ e = <<job[s].order, "INSUFFICIENT_CASH">>
    BY <1>2 DEF ReadCash, At, RaiseLate, history
  <2>2. QED
    BY <2>1, CashForeseen
<1>3. CASE ReadPosition(s)
  <2> PICK trade : trade = trades[job[s].trade]
    OBVIOUS
  <2>1. /\ job[s].pc = "read position"
        /\ CannotApply(RowHeld(trade.account, trade.symbol), trade,
                       IsForex(trade.account))
        /\ e = <<job[s].order, "INSUFFICIENT_POSITION">>
    BY <1>3 DEF ReadPosition, At, RaiseLate, RowHeld, history
  <2>2. IsForex(job[s].request.account)
    BY <2>1, PositionForeseen
  <2>3. QED
    BY <2>1, <2>2 DEF Foreseen
<1>4. CASE ReadStop(s)
  <2>1. job[s].pc = "read stop" /\ e = <<job[s].order, "STOP_LOSS">>
    BY <1>4 DEF ReadStop, At, RaiseLate, history
  <2>2. job[s].request.stop_loss # {}
    BY <2>1 DEF BookInv, RowInv, StopLabels
  <2>3. QED
    BY <2>1, <2>2 DEF Foreseen
<1>5. CASE RefuseKey(s)
  BY <1>5 DEF RefuseKey, At, GateInv, BeforeKey
<1>6. CASE \/ PreTradeValidation(s) \/ CreateOrder(s) \/ Validates(s)
           \/ Pends(s) \/ Trades(s) \/ RecordFill(s) \/ WriteCash(s)
           \/ WritePosition(s) \/ WriteStop(s) \/ RecordKey(s)
           \/ RecordApproval(s) \/ NotifyAndReturn(s)
  <2>1. late_raises' = late_raises
    BY <1>6 DEF PreTradeValidation, CreateOrder, Validates, Pends,
                Trades, RecordFill, WriteCash, WritePosition, WriteStop,
                RecordKey, RecordApproval, NotifyAndReturn, history
  <2>2. QED
    BY <2>1
<1>7. QED
  BY <1>1, <1>2, <1>3, <1>4, <1>5, <1>6 DEF Proceeds

\* The request of an order does not change.
LEMMA RequestsStay ==
  ASSUME IInv, [Next]_vars, NEW o \in DOMAIN orders
  PROVE  o \in DOMAIN orders' /\ orders'[o].request = orders[o].request
<1>1. orders \in Seq(OrderRow)
  BY DEF IInv, TypeOK
<1>2. CASE orders' = orders
  BY <1>2
<1>3. ASSUME NEW s \in Sessions, CreateOrder(s)
      PROVE  o \in DOMAIN orders' /\ orders'[o].request = orders[o].request
  <2>1. PICK row : orders' = Append(orders, row)
    BY <1>3 DEF CreateOrder
  <2>2. QED
    BY <1>1, <2>1, TradeAppended
<1>4. ASSUME NEW i, NEW to_status, Transits(i, to_status)
      PROVE  o \in DOMAIN orders' /\ orders'[o].request = orders[o].request
  BY <1>1, <1>4 DEF Transits, transition_status
<1>5. ASSUME NEW s \in Sessions, RecordFill(s)
      PROVE  o \in DOMAIN orders' /\ orders'[o].request = orders[o].request
  <2>1. \A i \in DOMAIN orders : orders[i] \in OrderRow
    BY <1>1, RowType
  <2>2. \A row \in OrderRow : \A trade : Filled(row, trade).request = row.request
    BY DEF Filled, OrderRow
  <2>3. QED
    BY <1>1, <1>5, <2>1, <2>2 DEF RecordFill
<1>6. QED
  BY <1>2, <1>3, <1>4, <1>5, NextProceeds, ZenonT(40)
  DEF Proceeds, vars, tables, Submit, Fail, PreTradeValidation, Validates,
      Rejects, Pends, Trades, ReadCash, WriteCash, ReadPosition,
      WritePosition, ReadStop, WriteStop, RecordKey, RefuseKey, RecordApproval,
      NotifyAndReturn

LEMMA NextKeepsGate ==
  ASSUME IInv, OneSession, [Next]_vars, NEW s \in Sessions, GateInv(s)
  PROVE  GateInv(s)'
<1>1. CASE UNCHANGED vars
  <2>1. UNCHANGED <<job, cash, positions, keys>>
    BY <1>1 DEF vars, tables
  <2>2. QED
    BY <2>1, GateKept
<1>2. ASSUME NEW u \in Sessions, Proceeds(u) PROVE GateInv(s)'
  <2>1. u = s
    BY DEF OneSession
  <2>2. QED
    BY <1>2, <2>1, StepKeepsGate
<1>3. ASSUME NEW u \in Sessions, NEW r \in Requests, Submit(u, r) PROVE GateInv(s)'
  <2>1. job'[s].pc = "gates"
    BY <1>3 DEF OneSession, Submit, IInv, TypeOK, Job
  <2>2. QED
    BY <2>1, GateOff
<1>4. ASSUME NEW u \in Sessions, Fail(u) PROVE GateInv(s)'
  <2>1. job'[s].pc = "idle"
    BY <1>4, IdleJobType DEF OneSession, Fail, Finish, IInv, TypeOK
  <2>2. QED
    BY <2>1, GateOff
<1>5. QED
  BY <1>1, <1>2, <1>3, <1>4, NextProceeds

LEMMA NextKeepsGatesSuffice ==
  ASSUME IInv, ColumnsMatch, BookInv, LateInv, GatesSuffice, [Next]_vars,
         \A s \in Sessions : GateInv(s)
  PROVE  GatesSuffice'
<1> SUFFICES ASSUME NEW e \in late_raises'
             PROVE  Foreseen(orders'[e[1]].request, e[2])
  BY DEF GatesSuffice, Foreseen
<1>1. CASE e \in late_raises
  <2>1. Foreseen(orders[e[1]].request, e[2])
    BY <1>1 DEF GatesSuffice, Foreseen
  <2>2. orders'[e[1]].request = orders[e[1]].request
    BY <1>1, RequestsStay DEF LateInv
  <2>3. QED
    BY <2>1, <2>2
<1>2. CASE e \notin late_raises
  <2>1. PICK s \in Sessions : Proceeds(s)
    BY <1>2, NextProceeds DEF vars, history, Submit, Fail
  <2>2. /\ e[1] = job[s].order /\ job[s].pc \in OrderLabels
        /\ Foreseen(job[s].request, e[2])
    BY <1>2, <2>1, RaisesForeseen
  <2>3. e[1] \in DOMAIN orders /\ orders[e[1]].request = job[s].request
    BY <2>2 DEF IInv, JobInv
  <2>4. orders'[e[1]].request = orders[e[1]].request
    BY <2>3, RequestsStay
  <2>5. QED
    BY <2>2, <2>3, <2>4
<1>3. QED
  BY <1>1, <1>2

\* With calls one at a time, nothing that passed the gates is refused later,
\* but for the exceptions that GatesSuffice names; and forex positions stay
\* protected.
THEOREM GatesAndStops ==
  ASSUME OneSession
  PROVE  Spec => []GatesAndStopsHold
<1> DEFINE Inv == /\ ColumnsMatch /\ BookInv /\ FailuresInv
                  /\ GatesSuffice /\ \A s \in Sessions : GateInv(s)
<1>1. Init => Inv
  <2> SUFFICES ASSUME Init PROVE Inv
    OBVIOUS
  <2>1. ColumnsMatch /\ BookInv
    BY InitBook
  <2>2. FailuresInv
    BY InitFailures
  <2>3. GatesSuffice
    BY DEF Init, GatesSuffice
  <2>4. \A s \in Sessions : GateInv(s)
    BY IdleJobType DEF Init, GateInv, BeforeCash, BeforeBook, BeforeKey
  <2>5. QED
    BY <2>1, <2>2, <2>3, <2>4
<1>2. IInv /\ IInv' /\ Inv /\ [Next]_vars => Inv'
  <2> SUFFICES ASSUME IInv, IInv', Inv, [Next]_vars PROVE Inv'
    OBVIOUS
  <2>1. ColumnsMatch' /\ BookInv'
    BY StepMatches, StepKeepsBook
  <2>2. FailuresInv'
    BY NextCounts
  <2>3. GatesSuffice'
    BY NextKeepsGatesSuffice DEF FailuresInv
  <2>4. \A s \in Sessions : GateInv(s)'
    BY NextKeepsGate
  <2>5. QED
    BY <2>1, <2>2, <2>3, <2>4
<1> HIDE DEF Inv
<1>3. Spec => []Inv
  BY <1>1, <1>2, IInvHolds, PTL DEF Spec
<1>4. Inv => GatesSuffice
  BY DEF Inv
<1>5. QED
  BY <1>3, <1>4, ForexStaysProtected, PTL DEF GatesAndStopsHold

(***************************************************************************)
(* Calls one at a time: cash and positions are the sums of the trades      *)
(* applied to them                                                         *)
(***************************************************************************)
CashTrades(a) == {t \in cash_applied : trades[t].account = a}

BookTrades(a, y) ==
  {t \in position_applied : trades[t].account = a /\ trades[t].symbol = y}

CashEffects      == [t \in DOMAIN trades |-> CashEffect(trades[t])]
SignedTrades     == [t \in DOMAIN trades |-> SignedTrade(trades[t])]
SignedQuantities == [p \in DOMAIN positions |-> SignedQuantity(positions[p])]

SameStake(x, y) ==
  /\ x.account = y.account /\ x.symbol = y.symbol /\ x.direction = y.direction
  /\ x.quantity = y.quantity /\ x.status = y.status

\* What a call computed from the tables that it is about to write back.
Pending(j) ==
  LET trade == trades[j.trade]
      held  == RowHeld(trade.account, trade.symbol)
      found == get_open_position(positions, trade.account, trade.symbol)
  IN  /\ j.pc = "write cash" => j.cash = NewCash(trade)
      /\ j.pc = "write position" =>
           /\ ~CannotApply(held, trade, IsForex(trade.account))
           /\ j.row = {AppliedRow(held, trade)}
           /\ j.position = IF found = {} THEN 0 ELSE The(found)
      /\ j.pc = "write stop" => SameStake(The(j.row), positions[j.position])

BeforeCashWrite == {"fill", "read cash", "write cash"}
BeforeBookWrite == BeforeCashWrite \cup {"read position", "write position"}

\* A trade is applied when its statement is issued, never before.
Unapplied(j) ==
  /\ j.pc \in BeforeCashWrite => j.trade \notin cash_applied
  /\ j.pc \in BeforeBookWrite => j.trade \notin position_applied

LedgerInv ==
  /\ CashLedger
  /\ PositionLedger
  /\ \A s \in Sessions : Pending(job[s]) /\ Unapplied(job[s])

LEMMA LedgersStated ==
  /\ CashLedger <=> \A a \in Accounts :
       cash[a] = StartingCash[a] + SumOver(CashEffects, CashTrades(a))
  /\ PositionLedger <=> \A a \in Accounts, y \in Symbols :
       /\ Cardinality(OpenOf(a, y)) <= 1
       /\ SumOver(SignedQuantities, OpenOf(a, y)) = SumOver(SignedTrades, BookTrades(a, y))
BY DEF CashLedger, PositionLedger, CashEffects, CashTrades, SignedQuantities,
       SignedTrades, BookTrades

LEMMA LedgersStatedNext ==
  /\ CashLedger' <=> \A a \in Accounts :
       cash'[a] = StartingCash[a] + SumOver(CashEffects', CashTrades(a)')
  /\ PositionLedger' <=> \A a \in Accounts, y \in Symbols :
       /\ Cardinality(OpenOf(a, y)') <= 1
       /\ SumOver(SignedQuantities', OpenOf(a, y)')
            = SumOver(SignedTrades', BookTrades(a, y)')
BY DEF CashLedger, PositionLedger, CashEffects, CashTrades, SignedQuantities,
       SignedTrades, BookTrades

\* The amounts are integers, and the sets that are summed over are finite.
LEMMA AmountsAreInts ==
  ASSUME IInv
  PROVE  /\ \A t \in DOMAIN trades : /\ CashEffects[t] \in Int /\ SignedTrades[t] \in Int
                                     /\ CashEffects[t] = CashEffect(trades[t])
                                     /\ SignedTrades[t] = SignedTrade(trades[t])
         /\ \A p \in DOMAIN positions :
              /\ SignedQuantities[p] \in Int
              /\ SignedQuantities[p] = SignedQuantity(positions[p])
<1>1. \A t \in DOMAIN trades : trades[t] \in TradeRow
  BY RowType DEF IInv, TypeOK
<1>2. \A p \in DOMAIN positions : positions[p] \in PositionRow(Accounts, Symbols)
  BY RowType DEF IInv, TypeOK
<1>3. ASSUME NEW trade \in TradeRow
      PROVE  CashEffect(trade) \in Int /\ SignedTrade(trade) \in Int
  <2>1. /\ trade.quantity \in Int /\ trade.fill_price \in Int
        /\ trade.fee \in Int /\ trade.tax \in Int
    BY <1>3 DEF TradeRow
  <2>2. trade.quantity * trade.fill_price \in Int
    BY <2>1
  <2>3. PICK value \in Int : value = trade.quantity * trade.fill_price
    BY <2>2
  <2>4. CashEffect(trade) = IF trade.action = "BUY" THEN -(value + trade.fee + trade.tax)
                            ELSE value - trade.fee - trade.tax
    BY <2>3 DEF CashEffect, compute_buy_required_cash
  <2>5. QED
    BY <2>1, <2>3, <2>4 DEF SignedTrade
<1>4. ASSUME NEW row \in PositionRow(Accounts, Symbols) PROVE SignedQuantity(row) \in Int
  BY <1>4 DEF PositionRow, SignedQuantity
<1>5. QED
  BY <1>1, <1>2, <1>3, <1>4 DEF CashEffects, SignedTrades, SignedQuantities

LEMMA AmountsNext ==
  ASSUME IInv'
  PROVE  \A p \in DOMAIN positions' : SignedQuantities'[p] \in Int
<1>1. \A p \in DOMAIN positions' : positions'[p] \in PositionRow(Accounts, Symbols)
  BY RowType DEF IInv, TypeOK
<1>2. ASSUME NEW row \in PositionRow(Accounts, Symbols) PROVE SignedQuantity(row) \in Int
  BY <1>2 DEF PositionRow, SignedQuantity
<1>3. \A p \in DOMAIN positions' : SignedQuantities'[p] = SignedQuantity(positions'[p])
  BY DEF SignedQuantities
<1>4. QED
  BY <1>1, <1>2, <1>3

LEMMA SummedSets ==
  ASSUME IInv, NEW a, NEW y
  PROVE  /\ CashTrades(a) \subseteq DOMAIN trades /\ IsFiniteSet(CashTrades(a))
         /\ BookTrades(a, y) \subseteq DOMAIN trades /\ IsFiniteSet(BookTrades(a, y))
         /\ OpenOf(a, y) \subseteq DOMAIN positions /\ IsFiniteSet(OpenOf(a, y))
<1>1. /\ trades \in Seq(TradeRow) /\ positions \in Seq(PositionRow(Accounts, Symbols))
      /\ cash_applied \subseteq DOMAIN trades /\ position_applied \subseteq DOMAIN trades
  BY DEF IInv, TypeOK
<1>2. /\ CashTrades(a) \subseteq DOMAIN trades /\ BookTrades(a, y) \subseteq DOMAIN trades
      /\ OpenOf(a, y) \subseteq DOMAIN positions
  BY <1>1 DEF CashTrades, BookTrades, OpenOf
<1>3. IsFiniteSet(CashTrades(a)) /\ IsFiniteSet(BookTrades(a, y))
  BY <1>1, <1>2, SomeRowsFinite
<1>4. IsFiniteSet(OpenOf(a, y))
  BY <1>1, <1>2, SomeRowsFinite
<1>5. QED
  BY <1>2, <1>3, <1>4

LEMMA AtMostOne ==
  ASSUME NEW S, IsFiniteSet(S), Cardinality(S) <= 1
  PROVE  S = {} \/ \E p \in S : S = {p}
<1> SUFFICES ASSUME NEW p \in S PROVE S = {p}
  OBVIOUS
<1>1. /\ IsFiniteSet(S \ {p}) /\ Cardinality(S) \in Nat /\ Cardinality(S \ {p}) \in Nat
      /\ Cardinality(S \ {p}) = Cardinality(S) - 1
  BY SmallerByOne
<1>2. Cardinality(S \ {p}) = 0
  BY <1>1
<1>3. S \ {p} = {}
  BY <1>1, <1>2, FS_EmptySet
<1>4. QED
  BY <1>3

LEMMA NoneIsFew == Cardinality({}) <= 1
<1>1. PICK n : n = Cardinality({}) /\ n = 0
  BY FS_EmptySet
<1>2. QED
  BY <1>1

LEMMA OneIsFew == ASSUME NEW p PROVE Cardinality({p}) <= 1
<1>1. PICK n : n = Cardinality({p}) /\ n = 1
  BY FS_Singleton
<1>2. QED
  BY <1>1

\* With one open row at most, get_open_position finds it.
LEMMA FoundIsOpen ==
  ASSUME IInv, PositionLedger, NEW a \in Accounts, NEW y \in Symbols
  PROVE  /\ get_open_position(positions, a, y) = OpenOf(a, y)
         /\ OpenOf(a, y) = {} \/ \E p \in DOMAIN positions : OpenOf(a, y) = {p}
<1>1. OpenOf(a, y) = {} \/ \E p \in OpenOf(a, y) : OpenOf(a, y) = {p}
  BY SummedSets, AtMostOne, LedgersStated
<1>2. DOMAIN positions \subseteq Int
  BY LenProperties DEF IInv, TypeOK
<1>3. get_open_position(positions, a, y) = {p \in OpenOf(a, y) : \A q \in OpenOf(a, y) : p <= q}
  BY DEF get_open_position, OpenOf
<1>4. OpenOf(a, y) \subseteq DOMAIN positions
  BY SummedSets
<1>5. QED
  BY <1>1, <1>2, <1>3, <1>4

\* The row that apply_trade writes holds what was held, plus the trade.
LEMMA AppliedQuantity ==
  ASSUME NEW trade, Proper(trade, Accounts, Symbols),
         NEW x \in PositionRow(Accounts, Symbols), x.status = "open", SoundRow(x),
         x.account = trade.account, x.symbol = trade.symbol,
         NEW isForex, ~CannotApply({x}, trade, isForex),
         NEW row, row = AppliedRow({x}, trade)
  PROVE  /\ row.account = trade.account /\ row.symbol = trade.symbol
         /\ SignedQuantity(row) = SignedQuantity(x) + SignedTrade(trade)
         /\ row.status # "open" => SignedQuantity(row) = 0
<1>1. The({x}) = x
  BY DEF The
<1>2. /\ x.quantity \in Nat /\ x.direction \in Directions
      /\ trade.quantity \in Nat \ {0} /\ trade.action \in Actions
  BY DEF PositionRow, Proper
<1>3. CASE DirectionOf(trade.action) = x.direction
  <2>1. row = merge_same_direction(x, trade)
    BY <1>1, <1>3 DEF AppliedRow
  <2>2. /\ row.account = x.account /\ row.symbol = x.symbol
        /\ row.direction = x.direction /\ row.status = "open"
        /\ row.quantity = x.quantity + trade.quantity
    BY <2>1 DEF merge_same_direction, PositionRow
  <2>3. QED
    BY <1>2, <1>3, <2>2 DEF SignedQuantity, SignedTrade, DirectionOf, Actions, Directions
<1>4. CASE DirectionOf(trade.action) # x.direction
  <2>1. row = reduce_opposite_direction(x, trade)
    BY <1>1, <1>4 DEF AppliedRow
  <2>2. /\ row.account = x.account /\ row.symbol = x.symbol
        /\ row.direction = x.direction
        /\ row.quantity = x.quantity - trade.quantity
        /\ row.status = IF x.quantity - trade.quantity = 0 THEN "closed" ELSE "open"
    BY <2>1 DEF reduce_opposite_direction, PositionRow
  <2>3. QED
    BY <1>2, <1>4, <2>2 DEF SignedQuantity, SignedTrade, DirectionOf, Actions, Directions
<1>5. QED
  BY <1>3, <1>4

LEMMA OpenedQuantity ==
  ASSUME NEW trade, trade.action \in Actions
  PROVE  LET row == AppliedRow({}, trade)
         IN  /\ row.account = trade.account /\ row.symbol = trade.symbol
             /\ row.status = "open" /\ SignedQuantity(row) = SignedTrade(trade)
<1>1. AppliedRow({}, trade) = OpenedBy(trade)
  BY DEF AppliedRow
<1>2. /\ OpenedBy(trade).account = trade.account /\ OpenedBy(trade).symbol = trade.symbol
      /\ OpenedBy(trade).status = "open" /\ OpenedBy(trade).quantity = trade.quantity
      /\ OpenedBy(trade).direction = DirectionOf(trade.action)
  BY DEF OpenedBy
<1>3. SignedQuantity(OpenedBy(trade)) = SignedTrade(trade)
  BY <1>2 DEF SignedQuantity, SignedTrade, DirectionOf
<1>4. QED
  BY <1>1, <1>2, <1>3

(***************************************************************************)
(* The steps                                                               *)
(***************************************************************************)
\* A step that touches no table that is summed over.
LEMMA TablesKept ==
  ASSUME LedgerInv,
         UNCHANGED <<trades, positions, cash, cash_applied, position_applied>>
  PROVE  CashLedger' /\ PositionLedger'
<1>1. /\ CashEffects' = CashEffects /\ SignedTrades' = SignedTrades
      /\ SignedQuantities' = SignedQuantities
      /\ \A a : CashTrades(a)' = CashTrades(a)
      /\ \A a, y : BookTrades(a, y)' = BookTrades(a, y) /\ OpenOf(a, y)' = OpenOf(a, y)
  BY DEF CashEffects, SignedTrades, SignedQuantities, CashTrades, BookTrades, OpenOf
<1>2. QED
  BY <1>1, LedgersStated, LedgersStatedNext DEF LedgerInv

LEMMA LedgersKept ==
  ASSUME IInv, OneSession, LedgerInv, NEW s \in Sessions,
         UNCHANGED <<trades, positions, cash, cash_applied, position_applied>>,
         (Pending(job[s]) /\ Unapplied(job[s]))'
  PROVE  LedgerInv'
<1>1. CashLedger' /\ PositionLedger'
  BY TablesKept
<1>2. \A u \in Sessions : u = s
  BY DEF OneSession
<1>3. \A u \in Sessions : (Pending(job[u]) /\ Unapplied(job[u]))'
  BY <1>2
<1>4. QED
  BY <1>1, <1>3 DEF LedgerInv

\* A call that has nothing to write back yet, and no trade that is not applied.
LEMMA LedgersKeptQuietly ==
  ASSUME IInv, OneSession, LedgerInv, NEW s \in Sessions,
         UNCHANGED <<trades, positions, cash, cash_applied, position_applied>>,
         job'[s].pc \notin {"write cash", "write position", "write stop"},
         job'[s].trade = job[s].trade \/ job'[s].pc \notin BeforeBookWrite,
         job'[s].pc \in BeforeCashWrite => job[s].pc \in BeforeCashWrite,
         job'[s].pc \in BeforeBookWrite => job[s].pc \in BeforeBookWrite
  PROVE  LedgerInv'
<1>1. Unapplied(job[s])
  BY DEF LedgerInv
<1>2. Unapplied(job[s])'
  BY <1>1 DEF Unapplied, BeforeBookWrite
<1>3. Pending(job[s])'
  BY DEF Pending
<1>4. QED
  BY <1>2, <1>3, LedgersKept

LEMMA FinishKeepsLedgers ==
  ASSUME IInv, OneSession, LedgerInv, NEW s \in Sessions, Finish(s),
         UNCHANGED <<trades, positions, cash, cash_applied, position_applied>>
  PROVE  LedgerInv'
<1>1. job'[s].pc = "idle"
  BY IdleJobType DEF Finish, IInv, TypeOK
<1>2. QED
  BY <1>1, LedgersKeptQuietly DEF BeforeBookWrite, BeforeCashWrite

\* A trade is inserted: it is in no sum yet.
LEMMA CreateTradeKeepsLedgers ==
  ASSUME IInv, OneSession, LedgerInv, NEW s \in Sessions, Trades(s)
  PROVE  LedgerInv'
<1> PICK t : t = Len(trades) + 1
  OBVIOUS
<1>1. /\ trades \in Seq(TradeRow) /\ job[s] \in Job /\ job \in [Sessions -> Job]
      /\ cash_applied \subseteq DOMAIN trades /\ position_applied \subseteq DOMAIN trades
      /\ UNCHANGED <<positions, cash, cash_applied, position_applied>>
  BY DEF Trades, IInv, TypeOK, history
<1>2. /\ t \notin DOMAIN trades
      /\ DOMAIN trades' = DOMAIN trades \cup {t}
      /\ \A i \in DOMAIN trades : trades'[i] = trades[i]
  <2>1. PICK row : trades' = Append(trades, row)
    BY DEF Trades
  <2>2. QED
    BY <1>1, <2>1, TradeAppended, LenProperties
<1>3. /\ \A i \in DOMAIN trades : /\ CashEffects'[i] = CashEffects[i]
                                   /\ SignedTrades'[i] = SignedTrades[i]
      /\ SignedQuantities' = SignedQuantities
  BY <1>1, <1>2 DEF CashEffects, SignedTrades, SignedQuantities
<1>4. ASSUME NEW a, NEW y
      PROVE  /\ CashTrades(a)' = CashTrades(a) /\ BookTrades(a, y)' = BookTrades(a, y)
             /\ OpenOf(a, y)' = OpenOf(a, y)
  BY <1>1, <1>2 DEF CashTrades, BookTrades, OpenOf
<1>5. ASSUME NEW a, NEW y
      PROVE  /\ SumOver(CashEffects', CashTrades(a)) = SumOver(CashEffects, CashTrades(a))
             /\ SumOver(SignedTrades', BookTrades(a, y))
                  = SumOver(SignedTrades, BookTrades(a, y))
  BY <1>3, SummedSets, SumOfSame
<1>6. CashLedger' /\ PositionLedger'
  BY <1>1, <1>3, <1>4, <1>5, LedgersStated, LedgersStatedNext DEF LedgerInv
<1>7. job'[s].pc = "fill" /\ job'[s].trade = t
  BY <1>1 DEF Trades, Job
<1>8. (Pending(job[s]) /\ Unapplied(job[s]))'
  BY <1>1, <1>2, <1>7 DEF Pending, Unapplied, BeforeCashWrite, BeforeBookWrite
<1>9. \A u \in Sessions : u = s
  BY DEF OneSession
<1>10. QED
  BY <1>6, <1>8, <1>9 DEF LedgerInv

LEMMA ReadCashKeepsLedgers ==
  ASSUME IInv, OneSession, LedgerInv, NEW s \in Sessions, ReadCash(s)
  PROVE  LedgerInv'
<1>1. /\ job[s] \in Job /\ job \in [Sessions -> Job] /\ job[s].pc = "read cash"
      /\ UNCHANGED <<trades, positions, cash>>
      /\ UNCHANGED <<cash_applied, position_applied>>
  BY DEF ReadCash, RaiseLate, At, tables, history, IInv, TypeOK
<1>2. CASE Finish(s)
  BY <1>1, <1>2, FinishKeepsLedgers
<1>3. CASE ~Finish(s)
  <2>1. job' = [job EXCEPT ![s].pc = "write cash",
                           ![s].cash = NewCash(trades[job[s].trade])]
    BY <1>3 DEF ReadCash, RaiseLate
  <2>2. /\ job'[s].pc = "write cash" /\ job'[s].trade = job[s].trade
        /\ job'[s].cash = NewCash(trades[job[s].trade])
    BY <1>1, <2>1 DEF Job
  <2>3. NewCash(trades[job[s].trade])' = NewCash(trades[job[s].trade]) 
    BY <1>1, <2>2 DEF NewCash
  <2>4. Pending(job[s])'
    BY <2>2, <2>3 DEF Pending
  <2>5. Unapplied(job[s])
    BY DEF LedgerInv
  <2>6. Unapplied(job[s])'
    BY <1>1, <2>2, <2>5 DEF Unapplied, BeforeCashWrite, BeforeBookWrite
  <2>7. QED
    BY <1>1, <2>4, <2>6, LedgersKept
<1>4. QED
  BY <1>2, <1>3

\* The new cash of one account is its sum with one more trade in it.
LEMMA WriteCashKeepsLedgers ==
  ASSUME IInv, OneSession, LedgerInv, NEW s \in Sessions, WriteCash(s)
  PROVE  LedgerInv'
<1> PICK t, trade : t = job[s].trade /\ trade = trades[t]
  OBVIOUS
<1>1. /\ job[s] \in Job /\ job \in [Sessions -> Job] /\ job[s].pc = "write cash"
      /\ cash \in [Accounts -> Int] /\ UNCHANGED <<trades, positions, position_applied>>
      /\ cash_applied' = cash_applied \cup {t}
      /\ cash' = [cash EXCEPT ![trade.account] = job[s].cash]
  BY DEF WriteCash, At, IInv, TypeOK
<1>2. HasTrade(job[s])
  BY <1>1, JobHasTrade DEF IInv, TradeLabels, OrderLabels, Labels
<1>3. t \in DOMAIN trades /\ trade.account \in Accounts
  <2>1. trades[t] \in TradeRow /\ t \in DOMAIN trades
    BY <1>2, RowType DEF HasTrade, IInv, TypeOK
  <2>2. QED
    BY <2>1 DEF TradeRow
<1>4. t \notin cash_applied /\ t \notin position_applied
      /\ job[s].cash = cash[trade.account] + CashEffect(trade)
  BY <1>1 DEF LedgerInv, Pending, Unapplied, BeforeCashWrite, BeforeBookWrite, NewCash
<1>5. /\ CashEffects' = CashEffects /\ SignedTrades' = SignedTrades
      /\ SignedQuantities' = SignedQuantities
      /\ \A a, y : BookTrades(a, y)' = BookTrades(a, y) /\ OpenOf(a, y)' = OpenOf(a, y)
  BY <1>1 DEF CashEffects, SignedTrades, SignedQuantities, BookTrades, OpenOf
<1>6. PositionLedger'
  BY <1>5, LedgersStated, LedgersStatedNext DEF LedgerInv
<1>7. ASSUME NEW a \in Accounts
      PROVE  cash'[a] = StartingCash[a] + SumOver(CashEffects, CashTrades(a)')
  <2>1. cash[a] = StartingCash[a] + SumOver(CashEffects, CashTrades(a))
    BY LedgersStated DEF LedgerInv
  <2>2. CASE a # trade.account
    <3>1. CashTrades(a)' = CashTrades(a) /\ cash'[a] = cash[a]
      BY <1>1, <2>2 DEF CashTrades
    <3>2. QED
      BY <2>1, <3>1
  <2>3. CASE a = trade.account
    <3> PICK T : T = CashTrades(a)
      OBVIOUS
    <3>1. CashTrades(a)' = T \cup {t} /\ t \notin T
      BY <1>1, <1>4, <2>3 DEF CashTrades
    <3>2. T \subseteq DOMAIN trades /\ IsFiniteSet(T)
      BY SummedSets
    <3>3. \A i \in T \cup {t} : CashEffects[i] \in Int
      BY <1>3, <3>2, AmountsAreInts
    <3>4. SumOver(CashEffects, T \cup {t}) = SumOver(CashEffects, T) + CashEffects[t]
      BY <3>1, <3>2, <3>3, SumOfOneMore
    <3>5. SumOver(CashEffects, T) \in Int
      BY <3>2, <3>3, SumOfInts
    <3>6. CashEffects[t] = CashEffect(trade) /\ CashEffects[t] \in Int
      BY <1>3, AmountsAreInts
    <3>7. StartingCash[a] \in Int
      BY PaperTradingAssumption
    <3>8. cash'[a] = cash[a] + CashEffect(trade)
      BY <1>1, <1>4, <2>3
    <3>9. QED
      BY <2>1, <3>1, <3>4, <3>5, <3>6, <3>7, <3>8
  <2>4. QED
    BY <2>2, <2>3
<1>8. CashLedger'
  BY <1>5, <1>7, LedgersStatedNext
<1>9. job'[s].pc = "read position" /\ job'[s].trade = t
  BY <1>1 DEF WriteCash, Job
<1>10. (Pending(job[s]) /\ Unapplied(job[s]))'
  BY <1>1, <1>4, <1>9 DEF Pending, Unapplied, BeforeCashWrite, BeforeBookWrite
<1>11. \A u \in Sessions : u = s
  BY DEF OneSession
<1>12. QED
  BY <1>6, <1>8, <1>10, <1>11 DEF LedgerInv

LEMMA ReadPositionKeepsLedgers ==
  ASSUME IInv, OneSession, LedgerInv, NEW s \in Sessions, ReadPosition(s)
  PROVE  LedgerInv'
<1> PICK trade : trade = trades[job[s].trade]
  OBVIOUS
<1> PICK found : found = get_open_position(positions, trade.account, trade.symbol)
  OBVIOUS
<1> PICK held : held = RowHeld(trade.account, trade.symbol)
  OBVIOUS
<1>1. /\ job[s] \in Job /\ job \in [Sessions -> Job] /\ job[s].pc = "read position"
      /\ UNCHANGED <<trades, positions, cash>>
      /\ UNCHANGED <<cash_applied, position_applied>>
  BY DEF ReadPosition, RaiseLate, At, tables, history, IInv, TypeOK
<1>2. held = {positions[p] : p \in found}
  BY DEF RowHeld
<1>3. CASE CannotApply(held, trade, IsForex(trade.account))
  BY <1>1, <1>2, <1>3, FinishKeepsLedgers DEF ReadPosition, RaiseLate
<1>4. CASE ~CannotApply(held, trade, IsForex(trade.account))
  <2>1. PICK p, x : /\ p = (IF found = {} THEN 0 ELSE The(found))
                    /\ x = {AppliedRow(held, trade)}
    OBVIOUS
  <2>2. job' = [job EXCEPT ![s].pc = "write position", ![s].position = p, ![s].row = x]
    BY <1>2, <1>4, <2>1 DEF ReadPosition
  <2>3. /\ job'[s].pc = "write position" /\ job'[s].trade = job[s].trade
        /\ job'[s].position = p /\ job'[s].row = x
    BY <1>1, <2>2 DEF Job
  <2>4. RowHeld(trade.account, trade.symbol)' = held
    BY <1>1 DEF RowHeld
  <2>5. Pending(job[s])'
    BY <1>1, <1>4, <2>1, <2>3, <2>4 DEF Pending
  <2>6. Unapplied(job[s])
    BY DEF LedgerInv
  <2>7. Unapplied(job[s])'
    BY <1>1, <2>3, <2>6 DEF Unapplied, BeforeCashWrite, BeforeBookWrite
  <2>8. QED
    BY <1>1, <2>5, <2>7, LedgersKept
<1>5. QED
  BY <1>3, <1>4

\* A row of an account and a symbol is written, where their open row was.
Booked(q, row, a, y) ==
  /\ DOMAIN positions' = DOMAIN positions \cup {q} /\ positions'[q] = row
  /\ \A i \in DOMAIN positions : i # q => positions'[i] = positions[i]
  /\ row.account = a /\ row.symbol = y
  /\ q \in DOMAIN positions => positions[q].account = a /\ positions[q].symbol = y
  /\ \/ OpenOf(a, y) = {q}
     \/ OpenOf(a, y) = {} /\ \A i \in DOMAIN positions : i < q

\* What WritePosition writes, and where.
LEMMA AppliedRowWritten ==
  ASSUME IInv, LedgerInv, NEW s \in Sessions, WritePosition(s),
         NEW trade, trade = trades[job[s].trade],
         NEW a, a = trade.account, NEW y, y = trade.symbol
  PROVE  \E q, row :
           /\ Booked(q, row, a, y)
           /\ row = AppliedRow(RowHeld(a, y), trade)
           /\ ~CannotApply(RowHeld(a, y), trade, IsForex(a))
           /\ SignedQuantity(row) =
                SumOver(SignedQuantities, OpenOf(a, y)) + SignedTrade(trade)
           /\ row.status # "open" => SignedQuantity(row) = 0
<1> PICK row, p : row = The(job[s].row) /\ p = job[s].position
  OBVIOUS
<1>1. /\ job[s].pc = "write position" /\ JobInv(s) /\ trades \in Seq(TradeRow)
      /\ positions \in Seq(PositionRow(Accounts, Symbols))
  BY DEF WritePosition, At, IInv, TypeOK
<1>2. trade \in TradeRow /\ job[s].trade \in DOMAIN trades
  <2>1. job[s].trade \in DOMAIN trades
    BY <1>1 DEF JobInv, TradeLabels, OrderLabels, Labels
  <2>2. QED
    BY <1>1, <2>1, RowType
<1>3. Proper(trade, Accounts, Symbols) /\ a \in Accounts /\ y \in Symbols
  BY <1>2 DEF TradeRow, Proper
<1>4. /\ get_open_position(positions, a, y) = OpenOf(a, y)
      /\ OpenOf(a, y) = {} \/ \E i \in DOMAIN positions : OpenOf(a, y) = {i}
  BY <1>3, FoundIsOpen DEF LedgerInv
<1>5. /\ ~CannotApply(RowHeld(a, y), trade, IsForex(a))
      /\ row = AppliedRow(RowHeld(a, y), trade)
      /\ p = IF OpenOf(a, y) = {} THEN 0 ELSE The(OpenOf(a, y))
  <2>1. Pending(job[s])
    BY DEF LedgerInv
  <2>2. /\ ~CannotApply(RowHeld(a, y), trade, IsForex(a))
        /\ job[s].row = {AppliedRow(RowHeld(a, y), trade)}
        /\ p = IF OpenOf(a, y) = {} THEN 0 ELSE The(OpenOf(a, y))
    BY <1>1, <1>4, <2>1 DEF Pending
  <2>3. row = AppliedRow(RowHeld(a, y), trade)
    BY <2>2 DEF The
  <2>4. QED
    BY <2>2, <2>3
<1>6. RowHeld(a, y) = {positions[i] : i \in OpenOf(a, y)}
  BY <1>4 DEF RowHeld
<1>7. CASE OpenOf(a, y) = {}
  <2> PICK q : q = Len(positions) + 1
    OBVIOUS
  <2>1. positions' = Append(positions, row)
    BY <1>5, <1>7 DEF WritePosition
  <2>2. /\ DOMAIN positions' = DOMAIN positions \cup {q} /\ positions'[q] = row
        /\ \A i \in DOMAIN positions : i # q => positions'[i] = positions[i]
        /\ \A i \in DOMAIN positions : i < q
    <3>1. PICK S : positions \in Seq(S)
      BY <1>1
    <3>2. \A i \in DOMAIN positions : i < q
      BY <3>1, LenProperties
    <3>3. QED
      BY <2>1, <3>1, <3>2, TradeAppended, LenProperties
  <2>3. row = AppliedRow({}, trade)
    BY <1>5, <1>6, <1>7
  <2>4. /\ row.account = a /\ row.symbol = y
        /\ row.status = "open" /\ SignedQuantity(row) = SignedTrade(trade)
    BY <1>3, <2>3, OpenedQuantity DEF Proper
  <2>5. SumOver(SignedQuantities, OpenOf(a, y)) = 0 /\ SignedTrade(trade) \in Int
    BY <1>2, <1>7, SumOfNone, AmountsAreInts
  <2>6. SignedQuantity(row) = SumOver(SignedQuantities, OpenOf(a, y)) + SignedTrade(trade)
    BY <2>4, <2>5
  <2>7. Booked(q, row, a, y)
    <3>1. q \notin DOMAIN positions
      BY <2>2, LenProperties DEF IInv, TypeOK
    <3>2. QED
      BY <1>7, <2>2, <2>4, <3>1 DEF Booked
  <2>8. QED
    BY <1>5, <2>4, <2>6, <2>7
<1>8. CASE OpenOf(a, y) # {}
  <2>1. PICK q \in DOMAIN positions : OpenOf(a, y) = {q}
    BY <1>4, <1>8
  <2> PICK x : x = positions[q]
    OBVIOUS
  <2>2. /\ x \in PositionRow(Accounts, Symbols) /\ q \in Nat \ {0} /\ SoundRow(x)
    BY <1>1, RowType DEF IInv, PortfolioStateSane, SoundRow
  <2>3. x.status = "open" /\ x.account = a /\ x.symbol = y
    BY <2>1 DEF OpenOf
  <2>4. p = q
    BY <1>5, <2>1 DEF The
  <2>5. RowHeld(a, y) = {x}
    BY <1>6, <2>1
  <2>6. row = AppliedRow({x}, trade) /\ ~CannotApply({x}, trade, IsForex(a))
    BY <1>5, <2>5
  <2>7. /\ row.account = a /\ row.symbol = y
        /\ SignedQuantity(row) = SignedQuantity(x) + SignedTrade(trade)
        /\ row.status # "open" => SignedQuantity(row) = 0
    BY <1>3, <2>2, <2>3, <2>6, AppliedQuantity
  <2>8. positions' = [positions EXCEPT ![q] = row]
    BY <2>2, <2>4 DEF WritePosition
  <2>9. /\ DOMAIN positions' = DOMAIN positions \cup {q} /\ positions'[q] = row
        /\ \A i \in DOMAIN positions : i # q => positions'[i] = positions[i]
    BY <2>8
  <2>10. SumOver(SignedQuantities, OpenOf(a, y)) = SignedQuantity(x)
    BY <2>1, AmountsAreInts, SumOfOne
  <2>11. Booked(q, row, a, y)
    BY <2>1, <2>3, <2>7, <2>9 DEF Booked
  <2>12. QED
    BY <1>5, <2>7, <2>10, <2>11
<1>9. QED
  BY <1>7, <1>8

LEMMA WritePositionKeepsLedgers ==
  ASSUME IInv, IInv', OneSession, LedgerInv, NEW s \in Sessions, WritePosition(s)
  PROVE  LedgerInv'
<1> PICK t, trade : t = job[s].trade /\ trade = trades[t]
  OBVIOUS
<1> PICK a, y : a = trade.account /\ y = trade.symbol
  OBVIOUS
<1>1. /\ job[s] \in Job /\ job \in [Sessions -> Job] /\ job[s].pc = "write position"
      /\ UNCHANGED <<trades, cash, cash_applied>> /\ JobInv(s)
      /\ position_applied' = position_applied \cup {t}
  BY DEF WritePosition, At, IInv, TypeOK
<1>2. PICK q, row :
           /\ Booked(q, row, a, y)
           /\ SignedQuantity(row) =
                SumOver(SignedQuantities, OpenOf(a, y)) + SignedTrade(trade)
           /\ row.status # "open" => SignedQuantity(row) = 0
  BY AppliedRowWritten
<1>3. /\ OpenOf(a, y)' = IF row.status = "open" THEN {q} ELSE {}
      /\ \A b, z : b # a \/ z # y => OpenOf(b, z)' = OpenOf(b, z) /\ q \notin OpenOf(b, z)
      /\ SignedQuantities'[q] = SignedQuantity(row)
      /\ \A i \in DOMAIN positions : i # q => SignedQuantities'[i] = SignedQuantities[i]
  <2>1. OpenOf(a, y)' = IF row.status = "open" THEN {q} ELSE {}
    BY <1>2 DEF Booked, OpenOf
  <2>2. ASSUME NEW b, NEW z, b # a \/ z # y
        PROVE  OpenOf(b, z)' = OpenOf(b, z) /\ q \notin OpenOf(b, z)
    BY <1>2, <2>2 DEF Booked, OpenOf
  <2>3. /\ SignedQuantities'[q] = SignedQuantity(row)
        /\ \A i \in DOMAIN positions : i # q => SignedQuantities'[i] = SignedQuantities[i]
    BY <1>2 DEF Booked, SignedQuantities
  <2>4. QED
    BY <2>1, <2>2, <2>3
<1>4. t \in DOMAIN trades /\ t \notin position_applied
  BY <1>1 DEF JobInv, TradeLabels, OrderLabels, Labels, LedgerInv, Unapplied,
              BeforeBookWrite
<1>5. /\ CashEffects' = CashEffects /\ SignedTrades' = SignedTrades
      /\ \A b : CashTrades(b)' = CashTrades(b)
  BY <1>1 DEF CashEffects, SignedTrades, CashTrades
<1>6. CashLedger'
  BY <1>1, <1>5, LedgersStated, LedgersStatedNext DEF LedgerInv
<1>7. ASSUME NEW b \in Accounts, NEW z \in Symbols
      PROVE  /\ Cardinality(OpenOf(b, z)') <= 1
             /\ SumOver(SignedQuantities', OpenOf(b, z)')
                  = SumOver(SignedTrades, BookTrades(b, z)')
  <2>1. /\ Cardinality(OpenOf(b, z)) <= 1
        /\ SumOver(SignedQuantities, OpenOf(b, z)) = SumOver(SignedTrades, BookTrades(b, z))
    BY LedgersStated DEF LedgerInv
  <2> PICK T : T = BookTrades(b, z)
    OBVIOUS
  <2>2. T \subseteq DOMAIN trades /\ IsFiniteSet(T)
    BY SummedSets
  <2>3. CASE b # a \/ z # y
    <3>1. OpenOf(b, z)' = OpenOf(b, z) /\ q \notin OpenOf(b, z)
      BY <1>3, <2>3
    <3>2. BookTrades(b, z)' = BookTrades(b, z)
      BY <1>1, <2>3 DEF BookTrades
    <3>3. OpenOf(b, z) \subseteq DOMAIN positions /\ IsFiniteSet(OpenOf(b, z))
      BY SummedSets
    <3>4. \A i \in OpenOf(b, z) : SignedQuantities'[i] = SignedQuantities[i]
      BY <1>3, <3>1, <3>3
    <3>5. SumOver(SignedQuantities', OpenOf(b, z)) = SumOver(SignedQuantities, OpenOf(b, z))
      BY <3>3, <3>4, SumOfSame
    <3>6. QED
      BY <2>1, <3>1, <3>2, <3>5
  <2>4. CASE b = a /\ z = y
    <3>1. BookTrades(b, z)' = T \cup {t} /\ t \notin T
      BY <1>1, <1>4, <2>4 DEF BookTrades
    <3>2. \A i \in T \cup {t} : SignedTrades[i] \in Int
      BY <1>4, <2>2, AmountsAreInts
    <3>3. SumOver(SignedTrades, T \cup {t}) = SumOver(SignedTrades, T) + SignedTrades[t]
      BY <2>2, <3>1, <3>2, SumOfOneMore
    <3>4. SignedTrades[t] = SignedTrade(trade)
      BY <1>4, AmountsAreInts
    <3>5. SignedQuantity(row) = SumOver(SignedTrades, BookTrades(b, z)')
      BY <1>2, <2>1, <2>4, <3>1, <3>3, <3>4
    <3>6. CASE row.status = "open"
      <4>1. OpenOf(b, z)' = {q}
        BY <1>3, <2>4, <3>6
      <4>2. SignedQuantities'[q] \in Int
        <5>1. q \in DOMAIN positions'
          BY <1>2 DEF Booked
        <5>2. QED
          BY <5>1, AmountsNext
      <4>3. SumOver(SignedQuantities', {q}) = SignedQuantities'[q]
        BY <4>2, SumOfOne
      <4>4. QED
        BY <1>3, <3>5, <4>1, <4>3, OneIsFew
    <3>7. CASE row.status # "open"
      <4>1. OpenOf(b, z)' = {} /\ SignedQuantity(row) = 0
        BY <1>2, <1>3, <2>4, <3>7
      <4>2. QED
        BY <3>5, <4>1, SumOfNone, NoneIsFew
    <3>8. QED
      BY <3>6, <3>7
  <2>5. QED
    BY <2>3, <2>4
<1>8. PositionLedger'
  BY <1>5, <1>7, LedgersStatedNext
<1>9. job'[s].pc \in {"insert key", "read stop"}
  BY <1>1 DEF WritePosition, Job, AfterPosition
<1>10. (Pending(job[s]) /\ Unapplied(job[s]))'
  BY <1>9 DEF Pending, Unapplied, BeforeCashWrite, BeforeBookWrite
<1>11. \A u \in Sessions : u = s
  BY DEF OneSession
<1>12. QED
  BY <1>6, <1>8, <1>10, <1>11 DEF LedgerInv

LEMMA ReadStopKeepsLedgers ==
  ASSUME IInv, OneSession, LedgerInv, NEW s \in Sessions, ReadStop(s)
  PROVE  LedgerInv'
<1> PICK row, stop : row = positions[job[s].position] /\ stop = job[s].request.stop_loss
  OBVIOUS
<1> PICK new : new = [row EXCEPT !.stop_loss = stop]
  OBVIOUS
<1>1. /\ job[s] \in Job /\ job \in [Sessions -> Job] /\ job[s].pc = "read stop"
      /\ JobInv(s) /\ UNCHANGED <<trades, positions, cash>>
      /\ UNCHANGED <<cash_applied, position_applied>>
  BY DEF ReadStop, RaiseLate, At, tables, history, IInv, TypeOK
<1>2. row \in PositionRow(Accounts, Symbols)
  BY <1>1, RowType DEF JobInv, IInv, TypeOK
<1>3. SameStake(new, row)
  BY <1>2 DEF SameStake, PositionRow
<1>4. CASE Finish(s)
  BY <1>1, <1>4, FinishKeepsLedgers
<1>5. CASE ~Finish(s)
  <2>1. job' = [job EXCEPT ![s].pc = "write stop", ![s].row = {new}]
    BY <1>5 DEF ReadStop, RaiseLate
  <2>2. /\ job'[s].pc = "write stop" /\ job'[s].position = job[s].position
        /\ job'[s].row = {new}
    BY <1>1, <2>1 DEF Job
  <2>3. The(job'[s].row) = new
    BY <2>2 DEF The
  <2>4. SameStake(The(job'[s].row), positions'[job'[s].position])
    BY <1>1, <1>3, <2>2, <2>3
  <2>5. (Pending(job[s]) /\ Unapplied(job[s]))'
    BY <2>2, <2>4 DEF Pending, Unapplied, BeforeCashWrite, BeforeBookWrite
  <2>6. QED
    BY <1>1, <2>5, LedgersKept
<1>6. QED
  BY <1>4, <1>5

\* The stop loss is written back into a row that holds what it held.
LEMMA WriteStopKeepsLedgers ==
  ASSUME IInv, OneSession, LedgerInv, NEW s \in Sessions, WriteStop(s)
  PROVE  LedgerInv'
<1> PICK row, p : row = The(job[s].row) /\ p = job[s].position
  OBVIOUS
<1>1. /\ job[s] \in Job /\ job \in [Sessions -> Job] /\ job[s].pc = "write stop"
      /\ JobInv(s) /\ UNCHANGED <<trades, cash>>
      /\ UNCHANGED <<cash_applied, position_applied>>
      /\ positions' = [positions EXCEPT ![p] = row]
  BY DEF WriteStop, At, history, IInv, TypeOK
<1>2. SameStake(row, positions[p]) /\ p \in DOMAIN positions
  BY <1>1 DEF LedgerInv, Pending, JobInv
<1>3. /\ DOMAIN positions' = DOMAIN positions
      /\ \A i \in DOMAIN positions : SameStake(positions'[i], positions[i])
  BY <1>1, <1>2 DEF SameStake
<1>4. \A i \in DOMAIN positions : SignedQuantities'[i] = SignedQuantities[i]
  BY <1>3 DEF SameStake, SignedQuantities, SignedQuantity
<1>5. ASSUME NEW a, NEW y
      PROVE  /\ CashTrades(a)' = CashTrades(a) /\ BookTrades(a, y)' = BookTrades(a, y)
             /\ OpenOf(a, y)' = OpenOf(a, y)
  <2>1. CashTrades(a)' = CashTrades(a) /\ BookTrades(a, y)' = BookTrades(a, y)
    BY <1>1 DEF CashTrades, BookTrades
  <2>2. OpenOf(a, y)' = OpenOf(a, y)
    BY <1>3 DEF OpenOf, SameStake
  <2>3. QED
    BY <2>1, <2>2
<1>6. CashEffects' = CashEffects /\ SignedTrades' = SignedTrades
  BY <1>1 DEF CashEffects, SignedTrades
<1>7. ASSUME NEW a, NEW y
      PROVE  SumOver(SignedQuantities', OpenOf(a, y)) = SumOver(SignedQuantities, OpenOf(a, y))
  <2>1. OpenOf(a, y) \subseteq DOMAIN positions /\ IsFiniteSet(OpenOf(a, y))
    BY SummedSets
  <2>2. QED
    BY <1>4, <2>1, SumOfSame
<1>8. CashLedger' /\ PositionLedger'
  <2>1. CashLedger'
    BY <1>1, <1>5, <1>6, LedgersStated, LedgersStatedNext DEF LedgerInv
  <2>2. ASSUME NEW a \in Accounts, NEW y \in Symbols
        PROVE  /\ Cardinality(OpenOf(a, y)') <= 1
               /\ SumOver(SignedQuantities', OpenOf(a, y)')
                    = SumOver(SignedTrades', BookTrades(a, y)')
    BY <1>5, <1>6, <1>7, LedgersStated DEF LedgerInv
  <2>3. QED
    BY <2>1, <2>2, LedgersStatedNext
<1>9. job'[s].pc = "insert key"
  BY <1>1 DEF WriteStop, Job
<1>10. (Pending(job[s]) /\ Unapplied(job[s]))'
  BY <1>9 DEF Pending, Unapplied, BeforeCashWrite, BeforeBookWrite
<1>11. \A u \in Sessions : u = s
  BY DEF OneSession
<1>12. QED
  BY <1>8, <1>10, <1>11 DEF LedgerInv

LEMMA GoOnKeepsLedgers ==
  ASSUME IInv, OneSession, LedgerInv, NEW s \in Sessions,
         \/ PreTradeValidation(s) \/ CreateOrder(s) \/ Validates(s) \/ Rejects(s)
         \/ Pends(s) \/ RecordFill(s) \/ RecordKey(s) \/ RefuseKey(s)
         \/ RecordApproval(s) \/ NotifyAndReturn(s) \/ Fail(s)
         \/ \E r \in Requests : Submit(s, r)
  PROVE  LedgerInv'
<1>1. /\ job[s] \in Job /\ job \in [Sessions -> Job]
      /\ UNCHANGED <<trades, positions, cash>>
      /\ UNCHANGED <<cash_applied, position_applied>>
  BY DEF PreTradeValidation, CreateOrder, Validates, Rejects, Pends,
         RecordFill, RecordKey, RefuseKey, RecordApproval, NotifyAndReturn, Fail,
         Submit, RaiseLate, tables, history, IInv, TypeOK
<1>2. CASE Finish(s)
  BY <1>1, <1>2, FinishKeepsLedgers
<1>3. CASE \/ \E label \in {"insert order", "pend", "insert trade", "approve", "notify"} :
                Goto(s, label)
           \/ CreateOrder(s) \/ \E r \in Requests : Submit(s, r)
  <2>1. \/ job'[s].pc \in {"insert order", "pend", "insert trade", "approve", "notify"}
        \/ CreateOrder(s) \/ \E r \in Requests : Submit(s, r)
    BY <1>1, <1>3 DEF Goto, Job
  <2>2. CreateOrder(s) => job'[s].pc = "validate"
    BY <1>1 DEF CreateOrder, Job
  <2>3. (\E r \in Requests : Submit(s, r)) => job'[s].pc = "gates"
    BY <1>1 DEF Submit, Job
  <2>4. /\ job'[s].pc \notin {"write cash", "write position", "write stop"}
        /\ job'[s].pc \notin BeforeBookWrite
    BY <2>1, <2>2, <2>3 DEF BeforeCashWrite, BeforeBookWrite
  <2>5. QED
    BY <1>1, <2>4, LedgersKeptQuietly DEF BeforeBookWrite
<1>4. CASE RecordFill(s)
  <2>1. /\ job[s].pc = "fill" /\ job'[s].pc = "read cash"
        /\ job'[s].trade = job[s].trade
    BY <1>1, <1>4 DEF RecordFill, Goto, At, Job
  <2>2. QED
    BY <1>1, <2>1, LedgersKeptQuietly DEF BeforeCashWrite, BeforeBookWrite
<1>5. QED
  BY <1>2, <1>3, <1>4
  DEF PreTradeValidation, Validates, Rejects, Pends, RecordKey,
      RefuseKey, RecordApproval, NotifyAndReturn, Fail, RaiseLate

LEMMA NextKeepsLedgers ==
  ASSUME IInv, IInv', OneSession, LedgerInv, [Next]_vars
  PROVE  LedgerInv'
<1>1. CASE UNCHANGED vars
  <2>1. /\ UNCHANGED <<trades, positions, cash, cash_applied, position_applied>>
        /\ job' = job
    BY <1>1 DEF vars, tables, history
  <2>2. CashLedger' /\ PositionLedger'
    BY <2>1, TablesKept
  <2>3. ASSUME NEW s \in Sessions PROVE (Pending(job[s]) /\ Unapplied(job[s]))'
    <3>1. Pending(job[s]) /\ Unapplied(job[s])
      BY DEF LedgerInv
    <3>2. Unapplied(job[s])'
      BY <2>1, <3>1 DEF Unapplied
    <3>3. PICK j, trade : j = job[s] /\ trade = trades[j.trade]
      OBVIOUS
    <3>4. /\ RowHeld(trade.account, trade.symbol)' = RowHeld(trade.account, trade.symbol)
          /\ NewCash(trade)' = NewCash(trade)
      BY <2>1 DEF RowHeld, NewCash
    <3>5. Pending(job[s])'
      BY <2>1, <3>1, <3>3, <3>4 DEF Pending
    <3>6. QED
      BY <3>2, <3>5
  <2>4. QED
    BY <2>2, <2>3 DEF LedgerInv
<1>2. CASE Next
  <2>1. PICK s \in Sessions : Proceeds(s) \/ Fail(s) \/ \E r \in Requests : Submit(s, r)
    BY <1>2, NextProceeds
  <2>2. QED
    BY <2>1, CreateTradeKeepsLedgers, ReadCashKeepsLedgers, WriteCashKeepsLedgers,
       ReadPositionKeepsLedgers, WritePositionKeepsLedgers, ReadStopKeepsLedgers,
       WriteStopKeepsLedgers, GoOnKeepsLedgers
    DEF Proceeds
<1>3. QED
  BY <1>1, <1>2

LEMMA InitLedgers == Init => LedgerInv
<1> SUFFICES ASSUME Init PROVE LedgerInv
  OBVIOUS
<1>1. /\ \A a : CashTrades(a) = {} /\ \A y : BookTrades(a, y) = {} /\ OpenOf(a, y) = {}
      /\ cash = StartingCash
  BY DEF Init, CashTrades, BookTrades, OpenOf
<1>2. \A a \in Accounts : StartingCash[a] \in Int
  BY PaperTradingAssumption
<1>3. CashLedger
  <2>1. ASSUME NEW a \in Accounts
        PROVE  cash[a] = StartingCash[a] + SumOver(CashEffects, CashTrades(a))
    <3>1. SumOver(CashEffects, CashTrades(a)) = 0
      BY <1>1, SumOfNone
    <3>2. QED
      BY <1>1, <1>2, <3>1
  <2>2. QED
    BY <2>1, LedgersStated
<1>4. PositionLedger
  BY <1>1, SumOfNone, NoneIsFew, LedgersStated
<1>5. \A s \in Sessions : job[s].pc = "idle"
  BY IdleJobType DEF Init
<1>6. QED
  BY <1>3, <1>4, <1>5 DEF LedgerInv, Pending, Unapplied, BeforeCashWrite, BeforeBookWrite

\* With calls one at a time, cash is the starting cash and the effects of the
\* trades whose cash was written, and a symbol's one open row is the sum of
\* the trades booked on it: whichever statement of whichever call failed, for
\* any number of calls, prices, quantities, fees and taxes.
THEOREM LedgersAreSums ==
  ASSUME OneSession
  PROVE  Spec => []LedgersMatchTrades
<1>1. IInv /\ IInv' /\ LedgerInv /\ [Next]_vars => LedgerInv'
  BY NextKeepsLedgers
<1>2. LedgerInv => LedgersMatchTrades
  BY DEF LedgerInv, LedgersMatchTrades
<1>3. QED
  BY <1>1, <1>2, InitLedgers, IInvHolds, PTL DEF Spec

(***************************************************************************)
(* The replay of a reconciliation, unfolded                                *)
(***************************************************************************)
Concerns(trade, a, y) == trade.account = a /\ trade.symbol = y

ReplayBody(table, a, y, g, n) ==
  IF n = 0 THEN [row |-> {}, sound |-> TRUE]
  ELSE IF Concerns(table[n], a, y) THEN ReplayStep(g[n - 1], table[n])
  ELSE g[n - 1]

ReplaysUpTo(table, a, y, n, g) == \A k \in 0 .. n : g[k] = ReplayBody(table, a, y, g, k)

LEMMA ReplayLooksBack ==
  ASSUME NEW table, NEW a, NEW y, NEW k, NEW g, NEW h, k # 0 => g[k - 1] = h[k - 1]
  PROVE  ReplayBody(table, a, y, g, k) = ReplayBody(table, a, y, h, k)
BY DEF ReplayBody

\* What has been replayed for n trades can be replayed for one more.
LEMMA ReplayOneUp ==
  ASSUME NEW table, NEW a, NEW y, NEW n \in Nat, NEW g, ReplaysUpTo(table, a, y, n, g)
  PROVE  \E h : ReplaysUpTo(table, a, y, n + 1, h)
<1> DEFINE Body1(f, k) == ReplayBody(table, a, y, f, k)
<1>g. \A k \in 0 .. n : g[k] = Body1(g, k)
  BY DEF ReplaysUpTo
<1>b. \A f : \A k \in 0 .. n + 1 : k # 0 => (f[k - 1] = g[k - 1] => Body1(f, k) = Body1(g, k))
  BY ReplayLooksBack
<1>z. \A f : Body1(f, 0) = Body1(g, 0)
  BY DEF ReplayBody
<1> HIDE DEF Body1
<1> DEFINE h == [k \in 0 .. n + 1 |-> IF k <= n THEN g[k] ELSE Body1(g, k)]
<1>1. ASSUME NEW k \in 0 .. n + 1 PROVE h[k] = Body1(h, k)
  <2>1. h[k] = Body1(g, k)
    BY <1>g
  <2>2. CASE k = 0
    BY <1>z, <2>1, <2>2
  <2>3. CASE k # 0
    <3>1. k - 1 \in 0 .. n + 1 /\ k - 1 <= n
      BY <2>3
    <3>2. h[k - 1] = g[k - 1]
      BY <3>1
    <3>3. Body1(h, k) = Body1(g, k)
      <4> HIDE DEF h
      <4> QED BY <1>b, <2>3, <3>2
    <3>4. QED
      BY <2>1, <3>3
  <2>4. QED
    BY <2>2, <2>3
<1>2. ReplaysUpTo(table, a, y, n + 1, h)
  BY <1>1 DEF ReplaysUpTo, Body1
<1>3. QED
  BY <1>2

LEMMA ReplaySolvable ==
  ASSUME NEW table, NEW a, NEW y, NEW n \in Nat
  PROVE  \E g : ReplaysUpTo(table, a, y, n, g)
<1> DEFINE Unsolved == {m \in Nat : ~\E g : ReplaysUpTo(table, a, y, m, g)}
<1> SUFFICES ASSUME Unsolved # {} PROVE FALSE
  OBVIOUS
<1>1. PICK m \in Unsolved : \A k \in Unsolved : m <= k
  <2>1. Unsolved \in SUBSET Nat /\ Unsolved # {}
    OBVIOUS
  <2> HIDE DEF Unsolved
  <2>2. QED
    BY <2>1, NatLeast
<1>2. CASE m = 0
  <2>1. ReplaysUpTo(table, a, y, 0, [k \in {0} |-> [row |-> {}, sound |-> TRUE]])
    BY DEF ReplaysUpTo, ReplayBody
  <2>2. QED
    BY <1>2, <2>1
<1>3. CASE m # 0
  <2>1. m - 1 \in Nat /\ (m - 1) + 1 = m
    BY <1>3
  <2>2. PICK g : ReplaysUpTo(table, a, y, m - 1, g)
    BY <1>1, <2>1
  <2>3. \E h : ReplaysUpTo(table, a, y, (m - 1) + 1, h)
    BY <2>1, <2>2, ReplayOneUp
  <2>4. QED
    BY <2>1, <2>3
<1>4. QED
  BY <1>2, <1>3

LEMMA ReplayUnfold ==
  ASSUME NEW table, Len(table) \in Nat, NEW a, NEW y
  PROVE  ReplaysUpTo(table, a, y, Len(table), replay_trades(table, a, y))
<1> DEFINE L == Len(table)
           Body1(f, k) == ReplayBody(table, a, y, f, k)
<1>1. PICK g : ReplaysUpTo(table, a, y, L, g)
  BY ReplaySolvable
<1>g. \A k \in 0 .. L : g[k] = Body1(g, k)
  BY <1>1 DEF ReplaysUpTo
<1>b. \A f : \A k \in 0 .. L : k # 0 => (f[k - 1] = g[k - 1] => Body1(f, k) = Body1(g, k))
  BY ReplayLooksBack
<1>z. \A f : Body1(f, 0) = Body1(g, 0)
  BY DEF ReplayBody
<1>r. replay_trades(table, a, y) = CHOOSE f : f = [k \in 0 .. L |-> Body1(f, k)]
  BY DEF replay_trades, ReplayBody, Concerns
<1>l. L \in Nat
  OBVIOUS
<1> HIDE DEF Body1, L
<1> DEFINE h == [k \in 0 .. L |-> g[k]]
<1>2. ASSUME NEW k \in 0 .. L PROVE h[k] = Body1(h, k)
  <2>1. h[k] = Body1(g, k)
    BY <1>g
  <2>2. CASE k = 0
    BY <1>z, <2>1, <2>2
  <2>3. CASE k # 0
    <3>1. k - 1 \in 0 .. L
      BY <1>l, <2>3
    <3>2. h[k - 1] = g[k - 1]
      BY <3>1
    <3>3. Body1(h, k) = Body1(g, k)
      <4> HIDE DEF h
      <4> QED BY <1>b, <2>3, <3>2
    <3>4. QED
      BY <2>1, <3>3
  <2>4. QED
    BY <2>2, <2>3
<1>3. h = [k \in 0 .. L |-> Body1(h, k)]
  <2>1. [k \in 0 .. L |-> h[k]] = [k \in 0 .. L |-> Body1(h, k)]
    BY <1>2
  <2>2. QED
    BY <2>1
<1>4. \E f : f = [k \in 0 .. L |-> Body1(f, k)]
  BY <1>3
<1>6. PICK w : w = replay_trades(table, a, y)
  OBVIOUS
<1>7. w = [k \in 0 .. L |-> Body1(w, k)]
  BY <1>4, <1>r, <1>6
<1>8. ASSUME NEW k \in 0 .. L PROVE w[k] = Body1(w, k)
  <2> DEFINE v == [i \in 0 .. L |-> Body1(w, i)]
  <2>1. v[k] = Body1(w, k)
    OBVIOUS
  <2>2. QED
    BY <1>7, <2>1
<1>9. QED
  BY <1>6, <1>8 DEF ReplaysUpTo, Body1, L

\* The replay of no trade, and of one more.
LEMMA ReplayStarts ==
  ASSUME NEW table, Len(table) \in Nat, NEW a, NEW y
  PROVE  replay_trades(table, a, y)[0] = [row |-> {}, sound |-> TRUE]
<1>1. 0 \in 0 .. Len(table)
  OBVIOUS
<1>2. QED
  BY <1>1, ReplayUnfold DEF ReplaysUpTo, ReplayBody

LEMMA ReplayGoesOn ==
  ASSUME NEW table, Len(table) \in Nat, NEW a, NEW y, NEW n \in 1 .. Len(table)
  PROVE  /\ n - 1 \in 0 .. Len(table)
         /\ replay_trades(table, a, y)[n] =
              IF Concerns(table[n], a, y)
              THEN ReplayStep(replay_trades(table, a, y)[n - 1], table[n])
              ELSE replay_trades(table, a, y)[n - 1]
<1>1. n \in 0 .. Len(table) /\ n # 0 /\ n - 1 \in 0 .. Len(table)
  OBVIOUS
<1>2. QED
  BY <1>1, ReplayUnfold DEF ReplaysUpTo, ReplayBody

\* Replays of tables that agree agree.
LEMMA ReplayOfPrefix ==
  ASSUME NEW table, NEW other, Len(table) \in Nat, Len(other) \in Nat,
         Len(table) <= Len(other), \A i \in 1 .. Len(table) : other[i] = table[i],
         NEW a, NEW y, NEW n \in 0 .. Len(table)
  PROVE  replay_trades(other, a, y)[n] = replay_trades(table, a, y)[n]
<1> DEFINE R(k) == replay_trades(table, a, y)[k]
           O(k) == replay_trades(other, a, y)[k]
           Odd  == {k \in 0 .. Len(table) : O(k) # R(k)}
<1> SUFFICES ASSUME Odd # {} PROVE FALSE
  OBVIOUS
<1>1. PICK m \in Odd : \A k \in Odd : m <= k
  <2>1. Odd \in SUBSET Nat /\ Odd # {}
    OBVIOUS
  <2> HIDE DEF Odd
  <2>2. QED
    BY <2>1, NatLeast
<1>2. R(0) = O(0)
  BY ReplayStarts
<1>3. m # 0 /\ m \in 1 .. Len(table) /\ m \in 1 .. Len(other)
  BY <1>1, <1>2
<1>4. m - 1 \in 0 .. Len(table) /\ ~(m <= m - 1)
  BY <1>3
<1>5. O(m - 1) = R(m - 1)
  BY <1>1, <1>4
<1>6. R(m) = IF Concerns(table[m], a, y) THEN ReplayStep(R(m - 1), table[m]) ELSE R(m - 1)
  BY <1>3, ReplayGoesOn
<1>7. O(m) = IF Concerns(other[m], a, y) THEN ReplayStep(O(m - 1), other[m]) ELSE O(m - 1)
  BY <1>3, ReplayGoesOn
<1>8. other[m] = table[m] /\ O(m) # R(m)
  BY <1>1, <1>3
<1> HIDE DEF O, R
<1>9. QED
  BY <1>5, <1>6, <1>7, <1>8

(***************************************************************************)
(* What a replay finds: a row of the symbol, and unless a trade could not  *)
(* have been applied, one that holds the sum of the trades                 *)
(***************************************************************************)
Worth(rows) == IF rows = {} THEN 0 ELSE SignedQuantity(The(rows))

\* The outcome of a replay, of a row and a verdict.
OutcomeOf(state, a, y, total) ==
  /\ state = [row |-> state.row, sound |-> state.sound]
  /\ state.row \in Option(PositionRow(Accounts, Symbols))
  /\ \A x \in state.row : x.account = a /\ x.symbol = y /\ SoundRow(x)
  /\ state.sound => Worth(state.row) = total

LEMMA ReplayStepAdds ==
  ASSUME NEW a, NEW y, NEW total \in Int, NEW state, OutcomeOf(state, a, y, total),
         NEW trade, Proper(trade, Accounts, Symbols), Concerns(trade, a, y)
  PROVE  OutcomeOf(ReplayStep(state, trade), a, y, total + SignedTrade(trade))
<1> PICK open : open = {row \in state.row : row.status = "open"}
  OBVIOUS
<1> PICK forex : forex = IsForex(trade.account)
  OBVIOUS
<1>1. PICK rows : rows = state.row /\ rows \in Option(PositionRow(Accounts, Symbols))
  BY DEF OutcomeOf
<1>2. open \in Option(PositionRow(Accounts, Symbols))
  BY <1>1 DEF Option
<1>3. \A x \in open : x.status = "open" /\ SoundRow(x) /\ x.account = a /\ x.symbol = y
  BY <1>1 DEF OutcomeOf
<1>4. CASE CannotApply(open, trade, forex)
  <2>1. ReplayStep(state, trade) = [state EXCEPT !.sound = FALSE]
    BY <1>4 DEF ReplayStep
  <2>2. PICK v : state = [row |-> rows, sound |-> v]
    BY <1>1 DEF OutcomeOf
  <2>3. ReplayStep(state, trade) = [row |-> rows, sound |-> FALSE]
    BY <2>1, <2>2
  <2>4. QED
    BY <1>1, <2>3 DEF OutcomeOf
<1>5. CASE ~CannotApply(open, trade, forex)
  <2> PICK row : row = AppliedRow(open, trade)
    OBVIOUS
  <2>1. ReplayStep(state, trade) = [state EXCEPT !.row = {row}]
    BY <1>5 DEF ReplayStep
  <2>2. PICK v : state = [row |-> rows, sound |-> v] /\ v = state.sound
    BY <1>1 DEF OutcomeOf
  <2>3. ReplayStep(state, trade) = [row |-> {row}, sound |-> v]
    BY <2>1, <2>2
  <2>4. row \in PositionRow(Accounts, Symbols) /\ SoundRow(row)
    BY <1>2, <1>3, <1>5, AppliedRowType
  <2>5. {row} \in Option(PositionRow(Accounts, Symbols)) /\ The({row}) = row
    BY <2>4, SingletonOption
  <2>6. /\ row.account = a /\ row.symbol = y
        /\ v => SignedQuantity(row) = total + SignedTrade(trade)
    <3>1. CASE open = {}
      <4>1. /\ row.account = a /\ row.symbol = y /\ SignedQuantity(row) = SignedTrade(trade)
        BY <3>1, OpenedQuantity DEF Proper, Concerns
      <4>2. SignedTrade(trade) \in Int
        BY DEF Proper, SignedTrade
      <4>3. Worth(rows) = 0
        <5>1. CASE rows = {}
          BY <5>1 DEF Worth
        <5>2. CASE rows # {}
          <6>1. PICK x \in rows : x = The(rows) /\ x \in PositionRow(Accounts, Symbols)
            BY <1>1, <5>2, TheOption
          <6>2. x.status = "closed" /\ SoundRow(x)
            BY <1>1, <3>1, <6>1 DEF PositionRow, OutcomeOf
          <6>3. x.quantity = 0
            BY <6>2 DEF SoundRow
          <6>4. SignedQuantity(x) = 0
            <7>1. PICK n \in Int : n = x.quantity /\ n = 0 /\ -n = 0
              BY <6>3
            <7>2. QED
              BY <7>1 DEF SignedQuantity
          <6>5. QED
            BY <5>2, <6>1, <6>4 DEF Worth
        <5>3. QED
          BY <5>1, <5>2
      <4>4. v => total = 0
        BY <1>1, <2>2, <4>3 DEF OutcomeOf
      <4>5. QED
        BY <4>1, <4>2, <4>4
    <3>2. CASE open # {}
      <4>1. PICK x \in open : x \in PositionRow(Accounts, Symbols) /\ open = {x}
        BY <1>2, <3>2, TheOption
      <4>2. rows = {x} /\ The(rows) = x
        <5>1. rows = {x}
          BY <1>1, <4>1 DEF Option
        <5>2. QED
          BY <5>1 DEF The
      <4>3. /\ row.account = a /\ row.symbol = y
            /\ SignedQuantity(row) = SignedQuantity(x) + SignedTrade(trade)
        BY <1>3, <1>5, <4>1, AppliedQuantity DEF Concerns
      <4>4. v => SignedQuantity(x) = total
        BY <1>1, <2>2, <4>2 DEF OutcomeOf, Worth
      <4>5. QED
        BY <4>3, <4>4
    <3>3. QED
      BY <3>1, <3>2
  <2>7. PICK next : next = ReplayStep(state, trade)
    OBVIOUS
  <2>8. next.row = {row} /\ next.sound = v /\ next = [row |-> next.row, sound |-> next.sound]
    BY <2>3, <2>7
  <2>9. Worth({row}) = SignedQuantity(row)
    BY <2>5 DEF Worth
  <2>10. \A x \in next.row : x.account = a /\ x.symbol = y /\ SoundRow(x)
    BY <2>4, <2>6, <2>8
  <2>11. OutcomeOf(next, a, y, total + SignedTrade(trade))
    BY <2>5, <2>6, <2>8, <2>9, <2>10 DEF OutcomeOf
  <2>12. QED
    BY <2>7, <2>11
<1>6. QED
  BY <1>4, <1>5

SignedOf(table) == [t \in DOMAIN table |-> SignedTrade(table[t])]

Concerned(table, a, y, n) == {t \in 1 .. n : Concerns(table[t], a, y)}

LEMMA ConcernedRows ==
  ASSUME NEW table \in Seq(TradeRow), NEW a, NEW y, NEW n \in 0 .. Len(table)
  PROVE  /\ IsFiniteSet(Concerned(table, a, y, n))
         /\ \A t \in 1 .. Len(table) : SignedOf(table)[t] \in Int
         /\ \A t \in 1 .. Len(table) : SignedOf(table)[t] = SignedTrade(table[t])
         /\ \A t \in 1 .. Len(table) : Proper(table[t], Accounts, Symbols)
         /\ Concerned(table, a, y, n) \subseteq 1 .. Len(table)
         /\ SumOver(SignedOf(table), Concerned(table, a, y, n)) \in Int
<1>1. Len(table) \in Nat /\ DOMAIN table = 1 .. Len(table)
  BY LenProperties
<1>2. \A t \in 1 .. Len(table) : table[t] \in TradeRow
  BY ElementOfSeq
<1>3. \A trade \in TradeRow : SignedTrade(trade) \in Int /\ Proper(trade, Accounts, Symbols)
  BY DEF TradeRow, SignedTrade, Proper
<1>4. /\ \A t \in 1 .. Len(table) : SignedOf(table)[t] \in Int
      /\ \A t \in 1 .. Len(table) : SignedOf(table)[t] = SignedTrade(table[t])
  BY <1>1, <1>2, <1>3 DEF SignedOf
<1>5. IsFiniteSet(1 .. n) /\ Concerned(table, a, y, n) \subseteq 1 .. n
  BY FS_Interval DEF Concerned
<1>6. IsFiniteSet(Concerned(table, a, y, n))
  BY <1>5, FS_Subset
<1>7. Concerned(table, a, y, n) \subseteq 1 .. Len(table)
  BY <1>1 DEF Concerned
<1>8. \A t \in Concerned(table, a, y, n) : SignedOf(table)[t] \in Int
  BY <1>4, <1>7
<1>9. SumOver(SignedOf(table), Concerned(table, a, y, n)) \in Int
  BY <1>6, <1>8, SumOfInts
<1>10. QED
  BY <1>2, <1>3, <1>4, <1>6, <1>7, <1>9

LEMMA ReplayAddsUp ==
  ASSUME NEW table \in Seq(TradeRow), NEW a, NEW y, NEW n \in 0 .. Len(table)
  PROVE  OutcomeOf(replay_trades(table, a, y)[n], a, y,
                   SumOver(SignedOf(table), Concerned(table, a, y, n)))
<1> DEFINE R(k)    == replay_trades(table, a, y)[k]
           T(k)    == Concerned(table, a, y, k)
           Good(k) == OutcomeOf(R(k), a, y, SumOver(SignedOf(table), T(k)))
           Odd     == {k \in 0 .. Len(table) : ~Good(k)}
<1> SUFFICES ASSUME Odd # {} PROVE FALSE
  OBVIOUS
<1>0. Len(table) \in Nat
  BY LenProperties
<1>1. PICK m \in Odd : \A k \in Odd : m <= k
  <2>1. Odd \in SUBSET Nat /\ Odd # {}
    BY <1>0
  <2> HIDE DEF Odd
  <2>2. QED
    BY <2>1, NatLeast
<1>2. Good(0)
  <2>1. R(0) = [row |-> {}, sound |-> TRUE]
    BY <1>0, ReplayStarts
  <2>2. T(0) = {}
    BY DEF Concerned
  <2>3. SumOver(SignedOf(table), {}) = 0
    BY SumOfNone
  <2>4. R(0).row = {} /\ R(0) = [row |-> R(0).row, sound |-> R(0).sound]
    BY <2>1
  <2>5. SumOver(SignedOf(table), T(0)) = 0 /\ Worth({}) = 0
    BY <2>2, <2>3 DEF Worth
  <2>6. {} \in Option(PositionRow(Accounts, Symbols))
    BY EmptyOption
  <2> HIDE DEF R, T
  <2>7. QED
    BY <2>4, <2>5, <2>6 DEF OutcomeOf
<1>3. m # 0 /\ m \in 1 .. Len(table) /\ m \in 0 .. Len(table)
  BY <1>0, <1>1, <1>2
<1>4. m - 1 \in 0 .. Len(table) /\ ~(m <= m - 1)
  BY <1>0, <1>3
<1>5. Good(m - 1)
  BY <1>1, <1>4
<1>6. R(m) = IF Concerns(table[m], a, y) THEN ReplayStep(R(m - 1), table[m]) ELSE R(m - 1)
  BY <1>0, <1>3, ReplayGoesOn
<1>7. CASE Concerns(table[m], a, y)
  <2>1. T(m) = T(m - 1) \cup {m} /\ m \notin T(m - 1)
    BY <1>3, <1>7 DEF Concerned
  <2>2. PICK S : S = T(m - 1) /\ IsFiniteSet(S) /\ S \subseteq 1 .. Len(table)
    BY <1>4, ConcernedRows
  <2>3. \A t \in S \cup {m} : SignedOf(table)[t] \in Int
    BY <1>3, <2>2, ConcernedRows
  <2>4. SumOver(SignedOf(table), S \cup {m}) = SumOver(SignedOf(table), S) + SignedOf(table)[m]
    BY <2>1, <2>2, <2>3, SumOfOneMore
  <2>5. /\ SignedOf(table)[m] = SignedTrade(table[m]) /\ Proper(table[m], Accounts, Symbols)
        /\ SumOver(SignedOf(table), S) \in Int
    BY <1>3, <1>4, <2>2, ConcernedRows
  <2>6. OutcomeOf(ReplayStep(R(m - 1), table[m]), a, y,
                  SumOver(SignedOf(table), S) + SignedTrade(table[m]))
    BY <1>5, <1>7, <2>2, <2>5, ReplayStepAdds
  <2>7. Good(m)
    BY <1>6, <1>7, <2>1, <2>2, <2>4, <2>5, <2>6
  <2>8. QED
    BY <1>1, <2>7
<1>8. CASE ~Concerns(table[m], a, y)
  <2>1. T(m) = T(m - 1)
    BY <1>3, <1>8 DEF Concerned
  <2>2. Good(m)
    BY <1>5, <1>6, <1>8, <2>1
  <2>3. QED
    BY <1>1, <2>2
<1>9. QED
  BY <1>7, <1>8

(***************************************************************************)
(* The most recent row of a symbol                                         *)
(***************************************************************************)
RowsOn(a, y) ==
  {p \in DOMAIN positions : positions[p].account = a /\ positions[p].symbol = y}

\* An open row has no successor.
OpenIsLatest ==
  \A p, q \in DOMAIN positions :
    /\ positions[p].status = "open"
    /\ positions[q].account = positions[p].account
    /\ positions[q].symbol = positions[p].symbol
    => q <= p

LEMMA CurrentRowOf ==
  ASSUME IInv, NEW a, NEW y, NEW p \in RowsOn(a, y), \A q \in RowsOn(a, y) : q <= p
  PROVE  CurrentRow(a, y) = {positions[p]}
<1>1. CurrentRow(a, y) = {positions[Max(RowsOn(a, y))]}
  BY DEF CurrentRow, RowsOn
<1>2. RowsOn(a, y) \subseteq Nat
  <2>1. \A q \in DOMAIN positions : q \in Nat
    BY RowType DEF IInv, TypeOK
  <2>2. QED
    BY <2>1 DEF RowsOn
<1>3. PICK S : S = RowsOn(a, y) /\ S \subseteq Nat /\ p \in S /\ \A q \in S : q <= p
  BY <1>2
<1>4. \A x \in S : (\A q \in S : x >= q) => x = p
  BY <1>3
<1>5. \A q \in S : p >= q
  BY <1>3
<1>6. Max(S) = p
  BY <1>3, <1>4, <1>5 DEF Max
<1>7. QED
  BY <1>1, <1>3, <1>6

\* The same of the next state.
LEMMA CurrentRowOfNext ==
  ASSUME IInv', NEW a, NEW y, NEW p \in RowsOn(a, y)', \A q \in RowsOn(a, y)' : q <= p
  PROVE  CurrentRow(a, y)' = {positions'[p]}
<1>1. CurrentRow(a, y)' = {positions'[Max(RowsOn(a, y)')]}
  BY DEF CurrentRow, RowsOn
<1>2. RowsOn(a, y)' \subseteq Nat
  <2>1. \A q \in DOMAIN positions' : q \in Nat
    BY RowType DEF IInv, TypeOK
  <2>2. QED
    BY <2>1 DEF RowsOn
<1>3. PICK S : S = RowsOn(a, y)' /\ S \subseteq Nat /\ p \in S /\ \A q \in S : q <= p
  BY <1>2
<1>4. \A x \in S : (\A q \in S : x >= q) => x = p
  BY <1>3
<1>5. \A q \in S : p >= q
  BY <1>3
<1>6. Max(S) = p
  BY <1>3, <1>4, <1>5 DEF Max
<1>7. QED
  BY <1>1, <1>3, <1>6

LEMMA LatestExists ==
  ASSUME IInv, NEW a, NEW y, RowsOn(a, y) # {}
  PROVE  \E p \in RowsOn(a, y) : \A q \in RowsOn(a, y) : q <= p
<1> PICK L : L = Len(positions)
  OBVIOUS
<1>1. L \in Nat /\ DOMAIN positions = 1 .. L
  BY LenProperties DEF IInv, TypeOK
<1>2. PICK S : S = RowsOn(a, y) /\ S \subseteq 1 .. L /\ S # {}
  BY <1>1 DEF RowsOn
<1> PICK D : D = {L - p : p \in S}
  OBVIOUS
<1>3. D \in SUBSET Nat /\ D # {}
  BY <1>1, <1>2
<1>4. PICK d \in D : \A e \in D : d <= e
  BY <1>3, NatLeast
<1>5. PICK p \in S : d = L - p
  BY <1>4
<1>6. ASSUME NEW q \in S PROVE q <= p
  <2>1. L - q \in D
    OBVIOUS
  <2>2. d <= L - q
    BY <1>4, <2>1
  <2>3. p \in Int /\ q \in Int /\ d = L - p
    BY <1>1, <1>2, <1>5
  <2>4. QED
    BY <1>1, <2>2, <2>3
<1>7. QED
  BY <1>2, <1>6

\* The current row exists when a row does; the open row is the current one.
LEMMA CurrentRowExists ==
  ASSUME IInv, NEW a, NEW y
  PROVE  \/ RowsOn(a, y) = {} /\ CurrentRow(a, y) = {}
         \/ \E p \in RowsOn(a, y) : /\ CurrentRow(a, y) = {positions[p]}
                                    /\ \A q \in RowsOn(a, y) : q <= p
<1>1. CASE RowsOn(a, y) = {}
  BY <1>1 DEF CurrentRow, RowsOn
<1>2. CASE RowsOn(a, y) # {}
  BY <1>2, LatestExists, CurrentRowOf
<1>3. QED
  BY <1>1, <1>2

LEMMA OpenIsCurrent ==
  ASSUME IInv, OpenIsLatest, NEW a, NEW y
  PROVE  /\ \A p \in OpenOf(a, y) : p \in RowsOn(a, y) /\ \A q \in RowsOn(a, y) : q <= p
         /\ {positions[p] : p \in OpenOf(a, y)}
              = {x \in CurrentRow(a, y) : x.status = "open"}
<1>1. ASSUME NEW p \in OpenOf(a, y)
      PROVE  p \in RowsOn(a, y) /\ \A q \in RowsOn(a, y) : q <= p
  BY DEF OpenOf, RowsOn, OpenIsLatest
<1>2. ASSUME NEW p \in OpenOf(a, y)
      PROVE  positions[p] \in CurrentRow(a, y) /\ positions[p].status = "open"
  <2>1. CurrentRow(a, y) = {positions[p]}
    BY <1>1, CurrentRowOf
  <2>2. QED
    BY <2>1 DEF OpenOf
<1>3. ASSUME NEW x \in CurrentRow(a, y), x.status = "open"
      PROVE  x \in {positions[p] : p \in OpenOf(a, y)}
  <2>1. PICK p \in RowsOn(a, y) : CurrentRow(a, y) = {positions[p]}
    BY CurrentRowExists
  <2>2. x = positions[p] /\ p \in OpenOf(a, y)
    BY <1>3, <2>1 DEF RowsOn, OpenOf
  <2>3. QED
    BY <2>2
<1>4. QED
  BY <1>1, <1>2, <1>3

(***************************************************************************)
(* The stop loss is no part of what a trade does to a row                  *)
(***************************************************************************)
Bare(row) == [row EXCEPT !.stop_loss = {}]

LEMMA BareRow ==
  ASSUME NEW row \in PositionRow(Accounts, Symbols)
  PROVE  /\ Bare(row) \in PositionRow(Accounts, Symbols)
         /\ Bare(row).account = row.account /\ Bare(row).symbol = row.symbol
         /\ Bare(row).direction = row.direction /\ Bare(row).quantity = row.quantity
         /\ Bare(row).average_price = row.average_price
         /\ Bare(row).realized_pnl = row.realized_pnl
         /\ Bare(row).buy_fee_accumulated = row.buy_fee_accumulated
         /\ Bare(row).status = row.status
<1>1. {} \in Option(Int)
  BY EmptyOption
<1>2. QED
  BY <1>1 DEF Bare, PositionRow

LEMMA BareApplied ==
  ASSUME NEW trade, Proper(trade, Accounts, Symbols), NEW isForex,
         NEW held \in Option(PositionRow(Accounts, Symbols)),
         NEW bare, bare = {Bare(x) : x \in held}
  PROVE  /\ CannotApply(bare, trade, isForex) <=> CannotApply(held, trade, isForex)
         /\ AppliedRow(bare, trade) = Bare(AppliedRow(held, trade))
<1>1. CASE held = {}
  <2>1. bare = {}
    BY <1>1
  <2>2. Bare(OpenedBy(trade)) = OpenedBy(trade)
    <3>1. PICK row \in PositionRow(Accounts, Symbols) :
            row = OpenedBy(trade) /\ row.stop_loss = {}
      <4>1. OpenedBy(trade) \in PositionRow(Accounts, Symbols)
        BY OpenedByType
      <4>2. OpenedBy(trade).stop_loss = {}
        BY DEF OpenedBy
      <4>3. QED
        BY <4>1, <4>2
    <3>2. [row EXCEPT !.stop_loss = {}] = row
      BY <3>1 DEF PositionRow
    <3>3. QED
      BY <3>1, <3>2 DEF Bare
  <2>3. QED
    BY <1>1, <2>1, <2>2 DEF CannotApply, AppliedRow
<1>2. CASE held # {}
  <2>1. PICK x \in PositionRow(Accounts, Symbols) : held = {x}
    BY <1>2, TheOption
  <2>2. bare = {Bare(x)}
    BY <2>1
  <2>3. The({x}) = x /\ The({Bare(x)}) = Bare(x)
    BY DEF The
  <2>4. Bare(x).direction = x.direction /\ Bare(x).quantity = x.quantity
    BY <2>1, BareRow
  <2>5. CannotApply(bare, trade, isForex) <=> CannotApply(held, trade, isForex)
    BY <2>1, <2>2, <2>4 DEF CannotApply
  <2>6. merge_same_direction(Bare(x), trade) = Bare(merge_same_direction(x, trade))
    BY <2>1 DEF Bare, merge_same_direction, PositionRow
  <2>7. reduce_opposite_direction(Bare(x), trade) = Bare(reduce_opposite_direction(x, trade))
    BY <2>1 DEF Bare, reduce_opposite_direction, PositionRow, PnlDelta
  <2>8. AppliedRow(bare, trade) = Bare(AppliedRow(held, trade))
    BY <2>1, <2>2, <2>3, <2>4, <2>6, <2>7 DEF AppliedRow
  <2>9. QED
    BY <2>5, <2>8
<1>3. QED
  BY <1>1, <1>2

(***************************************************************************)
(* What the audit finds while calls are made one at a time                 *)
(***************************************************************************)
\* A trade that is not booked yet is the last one, and a stop loss is written
\* into a row that is otherwise as it was.
Handled(j) ==
  /\ j.pc \in BeforeBookWrite => j.trade = Len(trades)
  /\ j.pc = "write stop" => Bare(The(j.row)) = Bare(positions[j.position])

\* The trades that are booked.
Settled ==
  IF \E s \in Sessions : job[s].pc \in BeforeBookWrite
  THEN Len(trades) - 1 ELSE Len(trades)

\* The replay of the first n trades finds the rows that are in the table.
ReplayFinds(n) ==
  \A a \in Accounts, y \in Symbols :
    /\ replay_trades(trades, a, y)[n].sound
    /\ replay_trades(trades, a, y)[n].row = {Bare(x) : x \in CurrentRow(a, y)}

\* Every trade has filled its order and is in the cash, unless its call is
\* about to see to it.
Accounted ==
  \A t \in DOMAIN trades :
    /\ \/ orders[trades[t].order].status = "FILLED"
       \/ \E s \in Sessions : job[s].pc = "fill" /\ job[s].trade = t
    /\ \/ t \in cash_applied
       \/ \E s \in Sessions : job[s].pc \in BeforeCashWrite /\ job[s].trade = t

AuditInv ==
  /\ OpenIsLatest
  /\ \A s \in Sessions : Handled(job[s])
  /\ Unharmed => Accounted /\ ReplayFinds(Settled)

LEMMA InitAudit == Init => AuditInv
<1> SUFFICES ASSUME Init PROVE AuditInv
  OBVIOUS
<1>1. /\ DOMAIN positions = {} /\ DOMAIN trades = {} /\ Len(trades) = 0
  BY DEF Init
<1>2. \A s \in Sessions : job[s].pc = "idle"
  BY IdleJobType DEF Init
<1>3. Settled = 0
  BY <1>1, <1>2 DEF Settled, BeforeBookWrite, BeforeCashWrite
<1>4. ASSUME NEW a, NEW y
      PROVE  /\ CurrentRow(a, y) = {}
             /\ replay_trades(trades, a, y)[0] = [row |-> {}, sound |-> TRUE]
  BY <1>1, ReplayStarts DEF CurrentRow
<1>5. ReplayFinds(0)
  BY <1>4 DEF ReplayFinds
<1>6. QED
  BY <1>1, <1>2, <1>3, <1>5
  DEF AuditInv, OpenIsLatest, Handled, Accounted, BeforeBookWrite, BeforeCashWrite

\* A step that leaves trades and positions alone.
LEMMA AuditKept ==
  ASSUME OneSession, AuditInv, NEW s \in Sessions, UNCHANGED <<trades, positions>>,
         Handled(job[s])',
         Unharmed' =>
           /\ Unharmed
           /\ job'[s].pc \in BeforeBookWrite <=> job[s].pc \in BeforeBookWrite
           /\ Accounted'
  PROVE  AuditInv'
<1>1. \A u \in Sessions : u = s
  BY DEF OneSession
<1>2. OpenIsLatest'
  BY DEF AuditInv, OpenIsLatest
<1>3. \A u \in Sessions : Handled(job[u])'
  BY <1>1
<1>4. ASSUME Unharmed' PROVE ReplayFinds(Settled)'
  <2>1. Settled' = Settled
    BY <1>1, <1>4 DEF Settled
  <2>2. \A a, y : CurrentRow(a, y)' = CurrentRow(a, y)
    BY DEF CurrentRow
  <2>3. ReplayFinds(Settled)
    BY <1>4 DEF AuditInv
  <2>4. QED
    BY <2>1, <2>2, <2>3 DEF ReplayFinds
<1>5. QED
  BY <1>2, <1>3, <1>4 DEF AuditInv

\* A FILLED order stays FILLED.
LEMMA FilledForGood ==
  ASSUME IInv, NEW s \in Sessions, Proceeds(s) \/ Fail(s) \/ \E r \in Requests : Submit(s, r),
         NEW o \in DOMAIN orders, orders[o].status = "FILLED"
  PROVE  orders'[o].status = "FILLED"
<1>1. orders \in Seq(OrderRow) /\ job[s] \in Job
  BY DEF IInv, TypeOK
<1>2. CASE orders' = orders
  BY <1>2
<1>3. CASE CreateOrder(s)
  <2>1. PICK row : orders' = Append(orders, row)
    BY <1>3 DEF CreateOrder
  <2>2. orders'[o] = orders[o]
    BY <1>1, <2>1, TradeAppended, LenProperties
  <2>3. QED
    BY <2>2
<1>4. CASE Validates(s) \/ Rejects(s) \/ Pends(s)
  <2>1. PICK to : Transits(job[s].order, to)
    BY <1>4 DEF Validates, Rejects, Pends
  <2>2. /\ orders[job[s].order].status # "FILLED"
        /\ orders' = [orders EXCEPT ![job[s].order].status = to]
    BY <2>1 DEF Transits, MayMove, transition_status, AllowedTransitions
  <2>3. o # job[s].order
    BY <2>2
  <2>4. orders'[o] = orders[o]
    BY <2>2, <2>3
  <2>5. QED
    BY <2>4
<1>5. CASE RecordFill(s)
  <2>1. orders' = [orders EXCEPT ![job[s].order] =
                     Filled(orders[job[s].order], trades[job[s].trade])]
    BY <1>5 DEF RecordFill
  <2>2. CASE o = job[s].order
    <3>1. orders'[o] = Filled(orders[o], trades[job[s].trade])
      BY <2>1, <2>2
    <3>2. orders[o] \in OrderRow
      BY <1>1, RowType
    <3>3. QED
      BY <3>1, <3>2 DEF Filled, OrderRow
  <2>3. CASE o # job[s].order
    BY <2>1, <2>3
  <2>4. QED
    BY <2>2, <2>3
<1>6. QED
  BY <1>2, <1>3, <1>4, <1>5
  DEF Proceeds, Submit, Fail, PreTradeValidation, Trades, ReadCash, WriteCash,
      ReadPosition, WritePosition, ReadStop, WriteStop, RecordKey, RefuseKey,
      RecordApproval, NotifyAndReturn, tables

\* A step outside of the bookings.
LEMMA QuietKeepsAudit ==
  ASSUME IInv, OneSession, AuditInv, NEW s \in Sessions,
         Proceeds(s) \/ Fail(s) \/ \E r \in Requests : Submit(s, r),
         UNCHANGED <<trades, positions>>, cash_applied' = cash_applied,
         job[s].pc \notin BeforeBookWrite, job'[s].pc \notin BeforeBookWrite,
         Handled(job[s])', Unharmed' => Unharmed
  PROVE  AuditInv'
<1>1. \A u \in Sessions : u = s
  BY DEF OneSession
<1>2. ASSUME Unharmed', NEW t \in DOMAIN trades
      PROVE  orders'[trades[t].order].status = "FILLED" /\ t \in cash_applied
  <2>1. /\ orders[trades[t].order].status = "FILLED" /\ t \in cash_applied
    <3>1. /\ \/ orders[trades[t].order].status = "FILLED"
             \/ job[s].pc = "fill"
          /\ \/ t \in cash_applied
             \/ job[s].pc \in BeforeCashWrite
      BY <1>1, <1>2 DEF AuditInv, Accounted
    <3>2. QED
      BY <3>1 DEF BeforeBookWrite, BeforeCashWrite
  <2>2. trades[t].order \in DOMAIN orders
    BY DEF IInv, OrderTradeAgreement
  <2>3. QED
    BY <2>1, <2>2, FilledForGood
<1>3. Unharmed' => Accounted'
  BY <1>2 DEF Accounted
<1>4. QED
  BY <1>3, AuditKept

\* A step that does harm.
LEMMA HarmKeepsAudit ==
  ASSUME IInv, OneSession, AuditInv, NEW s \in Sessions, Finish(s), ~Unharmed',
         UNCHANGED <<trades, positions>>
  PROVE  AuditInv'
<1>1. job'[s].pc = "idle"
  BY IdleJobType DEF Finish, IInv, TypeOK
<1>2. Handled(job[s])'
  BY <1>1 DEF Handled, BeforeBookWrite, BeforeCashWrite
<1>3. QED
  BY <1>2, AuditKept

LEMMA RaiseLateKeepsAudit ==
  ASSUME IInv, OneSession, AuditInv, NEW s \in Sessions, NEW why, RaiseLate(s, why),
         why \notin Harmless, UNCHANGED <<trades, positions, failures>>
  PROVE  AuditInv'
BY HarmDone, HarmKeepsAudit DEF RaiseLate

LEMMA GoOnKeepsAudit ==
  ASSUME IInv, OneSession, AuditInv, NEW s \in Sessions,
         \/ PreTradeValidation(s) \/ CreateOrder(s) \/ Validates(s) \/ Rejects(s)
         \/ Pends(s) \/ RecordKey(s) \/ RecordApproval(s) \/ NotifyAndReturn(s)
         \/ \E r \in Requests : Submit(s, r)
  PROVE  AuditInv'
<1>1. /\ job[s] \in Job /\ job \in [Sessions -> Job]
      /\ UNCHANGED <<trades, positions>> /\ UNCHANGED <<failures, cash_applied>>
  BY DEF PreTradeValidation, CreateOrder, Validates, Rejects, Pends,
         RecordKey, RecordApproval, NotifyAndReturn, Submit, RaiseLate, tables, bounds,
         history, IInv, TypeOK
<1>2. job[s].pc \in {"idle", "gates", "insert order", "validate", "pend", "insert key",
                     "approve", "notify"}
  BY DEF PreTradeValidation, CreateOrder, Validates, Rejects, Pends,
         RecordKey, RecordApproval, NotifyAndReturn, Submit, At
<1>3. job'[s].pc \in {"idle", "gates", "insert order", "validate", "pend",
                      "insert trade", "approve", "notify"}
  <2>1. CASE Finish(s)
    BY <2>1, IdleJobType DEF Finish, IInv, TypeOK
  <2>2. CASE \E label \in {"insert order", "pend", "insert trade", "approve", "notify"} :
               Goto(s, label)
    BY <1>1, <2>2 DEF Goto, Job
  <2>3. CASE CreateOrder(s)
    BY <1>1, <2>3 DEF CreateOrder, Job
  <2>4. CASE \E r \in Requests : Submit(s, r)
    BY <1>1, <2>4 DEF Submit, Job
  <2>5. QED
    BY <2>1, <2>2, <2>3, <2>4
    DEF PreTradeValidation, Validates, Rejects, Pends, RecordKey,
        RecordApproval, NotifyAndReturn, RaiseLate
<1>4. Unharmed' => Unharmed
  <2>1. CASE Rejects(s)
    BY <1>1, <2>1, HarmDone DEF Rejects
  <2>2. CASE late_raises' = late_raises
    BY <1>1, <2>2, HarmStays
  <2>3. QED
    BY <2>1, <2>2
    DEF PreTradeValidation, CreateOrder, Validates, Pends, RecordKey,
        RecordApproval, NotifyAndReturn, Submit, history
<1>5. Proceeds(s) \/ \E r \in Requests : Submit(s, r)
  BY DEF Proceeds
<1>6. Handled(job[s])'
  BY <1>3 DEF Handled, BeforeBookWrite, BeforeCashWrite
<1>7. job[s].pc \notin BeforeBookWrite /\ job'[s].pc \notin BeforeBookWrite
  BY <1>2, <1>3 DEF BeforeBookWrite, BeforeCashWrite
<1>8. QED
  BY <1>1, <1>4, <1>5, <1>6, <1>7, QuietKeepsAudit

\* A booking goes on.
LEMMA OnwardKeepsAudit ==
  ASSUME IInv, OneSession, AuditInv, NEW s \in Sessions, Proceeds(s),
         UNCHANGED <<trades, positions, failures, late_raises>>,
         cash_applied \subseteq cash_applied',
         job[s].pc \in BeforeBookWrite, job'[s].pc \in BeforeBookWrite,
         job'[s].trade = job[s].trade,
         job[s].pc = "fill" => orders'[trades[job[s].trade].order].status = "FILLED",
         job[s].pc \in BeforeCashWrite =>
           job'[s].pc \in BeforeCashWrite \/ job[s].trade \in cash_applied'
  PROVE  AuditInv'
<1>1. \A u \in Sessions : u = s
  BY DEF OneSession
<1>2. Unharmed' <=> Unharmed
  BY HarmStays
<1>3. ASSUME Unharmed', NEW t \in DOMAIN trades
      PROVE  /\ orders'[trades[t].order].status = "FILLED"
             /\ \/ t \in cash_applied'
                \/ job'[s].pc \in BeforeCashWrite /\ job'[s].trade = t
  <2>1. /\ \/ orders[trades[t].order].status = "FILLED"
           \/ job[s].pc = "fill" /\ job[s].trade = t
        /\ \/ t \in cash_applied
           \/ job[s].pc \in BeforeCashWrite /\ job[s].trade = t
    BY <1>1, <1>2, <1>3 DEF AuditInv, Accounted
  <2>2. trades[t].order \in DOMAIN orders
    BY DEF IInv, OrderTradeAgreement
  <2>3. orders'[trades[t].order].status = "FILLED"
    BY <2>1, <2>2, FilledForGood
  <2>4. QED
    BY <2>1, <2>3
<1>4. Unharmed' => Accounted'
  BY <1>3 DEF Accounted
<1>5. Handled(job[s])'
  <2>1. job[s].trade = Len(trades)
    BY DEF AuditInv, Handled
  <2>2. QED
    BY <2>1 DEF Handled, BeforeBookWrite, BeforeCashWrite
<1>6. QED
  BY <1>2, <1>4, <1>5, AuditKept

LEMMA RecordFillKeepsAudit ==
  ASSUME IInv, OneSession, AuditInv, NEW s \in Sessions, RecordFill(s)
  PROVE  AuditInv'
<1>1. /\ job[s] \in Job /\ job \in [Sessions -> Job] /\ JobInv(s)
      /\ job[s].pc = "fill" /\ orders \in Seq(OrderRow)
      /\ UNCHANGED <<trades, positions, failures, late_raises>>
      /\ cash_applied' = cash_applied
  BY DEF RecordFill, At, bounds, history, IInv, TypeOK
<1>2. job'[s].pc = "read cash" /\ job'[s].trade = job[s].trade
  BY <1>1 DEF RecordFill, Goto, Job
<1>3. orders'[trades[job[s].trade].order].status = "FILLED"
  <2>1. job[s].order \in DOMAIN orders /\ trades[job[s].trade].order = job[s].order
    BY <1>1 DEF JobInv, TradeLabels, OrderLabels, Labels
  <2>2. orders[job[s].order] \in OrderRow
    BY <1>1, <2>1, RowType
  <2>3. orders'[job[s].order] = Filled(orders[job[s].order], trades[job[s].trade])
    BY <2>1 DEF RecordFill
  <2>4. QED
    BY <2>1, <2>2, <2>3 DEF Filled, OrderRow
<1>4. Proceeds(s)
  BY DEF Proceeds
<1>5. QED
  BY <1>1, <1>2, <1>3, <1>4, OnwardKeepsAudit DEF BeforeBookWrite, BeforeCashWrite

LEMMA ReadCashKeepsAudit ==
  ASSUME IInv, OneSession, AuditInv, NEW s \in Sessions, ReadCash(s)
  PROVE  AuditInv'
<1> PICK c : c = NewCash(trades[job[s].trade])
  OBVIOUS
<1>1. /\ job[s] \in Job /\ job \in [Sessions -> Job] /\ job[s].pc = "read cash"
      /\ UNCHANGED <<trades, positions, failures>>
  BY DEF ReadCash, At, tables, bounds, IInv, TypeOK
<1>2. CASE c < 0
  BY <1>1, <1>2, RaiseLateKeepsAudit DEF ReadCash, Harmless
<1>3. CASE ~(c < 0)
  <2>1. /\ job'[s].pc = "write cash" /\ job'[s].trade = job[s].trade
        /\ UNCHANGED <<late_raises, cash_applied>>
    BY <1>1, <1>3 DEF ReadCash, Job, history
  <2>2. Proceeds(s)
    BY DEF Proceeds
  <2>3. QED
    BY <1>1, <2>1, <2>2, OnwardKeepsAudit DEF BeforeBookWrite, BeforeCashWrite
<1>4. QED
  BY <1>2, <1>3

LEMMA WriteCashKeepsAudit ==
  ASSUME IInv, OneSession, AuditInv, NEW s \in Sessions, WriteCash(s)
  PROVE  AuditInv'
<1>1. /\ job[s] \in Job /\ job \in [Sessions -> Job] /\ job[s].pc = "write cash"
      /\ UNCHANGED <<trades, positions, failures, late_raises>>
      /\ cash_applied' = cash_applied \cup {job[s].trade}
  BY DEF WriteCash, At, bounds, IInv, TypeOK
<1>2. job'[s].pc = "read position" /\ job'[s].trade = job[s].trade
  BY <1>1 DEF WriteCash, Job
<1>3. Proceeds(s)
  BY DEF Proceeds
<1>4. QED
  BY <1>1, <1>2, <1>3, OnwardKeepsAudit DEF BeforeBookWrite, BeforeCashWrite

LEMMA ReadPositionKeepsAudit ==
  ASSUME IInv, OneSession, AuditInv, NEW s \in Sessions, ReadPosition(s)
  PROVE  AuditInv'
<1> PICK trade : trade = trades[job[s].trade]
  OBVIOUS
<1>b. PICK held : held = RowHeld(trade.account, trade.symbol)
  OBVIOUS
<1>1. /\ job[s] \in Job /\ job \in [Sessions -> Job] /\ job[s].pc = "read position"
      /\ UNCHANGED <<trades, positions, failures>>
  BY DEF ReadPosition, At, tables, bounds, IInv, TypeOK
<1>2. CASE CannotApply(held, trade, IsForex(trade.account))
  BY <1>1, <1>2, <1>b, RaiseLateKeepsAudit DEF ReadPosition, RowHeld, Harmless
<1>3. CASE ~CannotApply(held, trade, IsForex(trade.account))
  <2>1. PICK p, x : /\ job' = [job EXCEPT ![s].pc = "write position",
                                          ![s].position = p, ![s].row = x]
                    /\ UNCHANGED history
    BY <1>3, <1>b DEF ReadPosition, RowHeld
  <2>2. /\ job'[s].pc = "write position" /\ job'[s].trade = job[s].trade
        /\ UNCHANGED <<late_raises, cash_applied>>
    BY <1>1, <2>1 DEF Job, history
  <2>3. Proceeds(s)
    BY DEF Proceeds
  <2>4. QED
    BY <1>1, <2>2, <2>3, OnwardKeepsAudit DEF BeforeBookWrite, BeforeCashWrite
<1>4. QED
  BY <1>2, <1>3

LEMMA RefuseKeyKeepsAudit ==
  ASSUME IInv, OneSession, AuditInv, NEW s \in Sessions, RefuseKey(s)
  PROVE  AuditInv'
BY RaiseLateKeepsAudit DEF RefuseKey, tables, bounds, Harmless

LEMMA FailKeepsAudit ==
  ASSUME IInv, OneSession, AuditInv, NEW s \in Sessions, Fail(s)
  PROVE  AuditInv'
<1>1. ~Unharmed'
  BY DEF Fail, Unharmed, IInv, TypeOK
<1>2. QED
  BY <1>1, HarmKeepsAudit DEF Fail, tables

LEMMA ReadStopKeepsAudit ==
  ASSUME IInv, OneSession, AuditInv, NEW s \in Sessions, ReadStop(s)
  PROVE  AuditInv'
<1> PICK row, stop : row = positions[job[s].position] /\ stop = job[s].request.stop_loss
  OBVIOUS
<1> PICK new : new = [row EXCEPT !.stop_loss = stop]
  OBVIOUS
<1>1. /\ job[s].pc = "read stop" /\ job[s] \in Job /\ job \in [Sessions -> Job]
      /\ JobInv(s) /\ UNCHANGED <<trades, positions, failures>>
  BY DEF ReadStop, At, tables, bounds, IInv, TypeOK
<1>2. CASE RaiseLate(s, "STOP_LOSS")
  BY <1>1, <1>2, RaiseLateKeepsAudit DEF Harmless
<1>3. CASE ~RaiseLate(s, "STOP_LOSS")
  <2>1. job' = [job EXCEPT ![s].pc = "write stop", ![s].row = {new}] /\ UNCHANGED history
    BY <1>3 DEF ReadStop
  <2>2. /\ job'[s].pc = "write stop" /\ job'[s].position = job[s].position
        /\ job'[s].row = {new} /\ UNCHANGED <<late_raises, cash_applied>>
    BY <1>1, <2>1 DEF Job, history
  <2>3. row \in PositionRow(Accounts, Symbols)
    BY <1>1, RowType DEF JobInv, IInv, TypeOK
  <2>4. Bare(new) = Bare(row) /\ The({new}) = new
    BY <2>3 DEF Bare, PositionRow, The
  <2>5. Handled(job[s])'
    BY <1>1, <2>2, <2>4 DEF Handled, BeforeBookWrite, BeforeCashWrite
  <2>6. Proceeds(s)
    BY DEF Proceeds
  <2>7. job[s].pc \notin BeforeBookWrite /\ job'[s].pc \notin BeforeBookWrite
    BY <1>1, <2>2 DEF BeforeBookWrite, BeforeCashWrite
  <2>8. QED
    BY <1>1, <2>2, <2>5, <2>6, <2>7, HarmStays, QuietKeepsAudit
<1>4. QED
  BY <1>2, <1>3

\* A trade is inserted: it is the one that is not booked yet.
LEMMA CreateTradeKeepsAudit ==
  ASSUME IInv, OneSession, AuditInv, NEW s \in Sessions, Trades(s)
  PROVE  AuditInv'
<1> PICK n : n = Len(trades)
  OBVIOUS
<1>1. /\ job[s] \in Job /\ job \in [Sessions -> Job] /\ job[s].pc = "insert trade"
      /\ trades \in Seq(TradeRow)
      /\ UNCHANGED <<orders, positions, failures, late_raises, cash_applied>>
  BY DEF Trades, At, bounds, history, IInv, TypeOK
<1>2. PICK new : trades' = Append(trades, new)
  BY DEF Trades
<1>3. job'[s].pc = "fill" /\ job'[s].trade = n + 1
  BY <1>1 DEF Trades, Job
<1>4. /\ n \in Nat /\ DOMAIN trades = 1 .. n
      /\ DOMAIN trades' = 1 .. n + 1 /\ Len(trades') = n + 1
      /\ \A i \in 1 .. n : trades'[i] = trades[i]
  <2>1. PICK S : trades \in Seq(S)
    BY <1>1
  <2>2. trades \in Seq(S \cup {new}) /\ new \in S \cup {new}
    BY <2>1
  <2>3. QED
    BY <1>2, <2>2, AppendProperties, LenProperties
<1>5. \A u \in Sessions : u = s
  BY DEF OneSession
<1>6. OpenIsLatest'
  BY <1>1 DEF AuditInv, OpenIsLatest
<1>7. \A u \in Sessions : Handled(job[u])'
  BY <1>3, <1>4, <1>5 DEF Handled
<1>8. ASSUME Unharmed' PROVE Accounted' /\ ReplayFinds(Settled)'
  <2>1. Unharmed
    BY <1>1, <1>8, HarmStays
  <2>2. job[s].pc \notin BeforeBookWrite /\ job[s].pc \notin BeforeCashWrite
    BY <1>1 DEF BeforeBookWrite, BeforeCashWrite
  <2>3. Settled = n
    BY <1>5, <2>2 DEF Settled
  <2>4. Settled' = n
    <3>1. job'[s].pc \in BeforeBookWrite
      BY <1>3 DEF BeforeBookWrite, BeforeCashWrite
    <3>2. Settled' = Len(trades') - 1
      BY <3>1 DEF Settled
    <3>3. QED
      BY <1>4, <3>2
  <2>5. ASSUME NEW t \in 1 .. n + 1
        PROVE  /\ \/ orders[trades'[t].order].status = "FILLED"
                  \/ job'[s].pc = "fill" /\ job'[s].trade = t
               /\ \/ t \in cash_applied
                  \/ job'[s].pc \in BeforeCashWrite /\ job'[s].trade = t
    <3>1. CASE t = n + 1
      BY <1>3, <3>1 DEF BeforeCashWrite
    <3>2. CASE t # n + 1
      <4>1. t \in 1 .. n
        BY <1>4, <3>2
      <4>2. /\ orders[trades[t].order].status = "FILLED" \/ job[s].pc = "fill"
            /\ t \in cash_applied \/ job[s].pc \in BeforeCashWrite
        BY <1>4, <1>5, <2>1, <4>1 DEF AuditInv, Accounted
      <4>3. QED
        BY <1>1, <1>4, <2>2, <4>1, <4>2
    <3>3. QED
      BY <3>1, <3>2
  <2>6. Accounted'
    BY <1>1, <1>4, <2>5 DEF Accounted
  <2>7. ASSUME NEW a, NEW y
        PROVE  replay_trades(trades', a, y)[n] = replay_trades(trades, a, y)[n]
    <3>1. n \in 0 .. Len(trades) /\ Len(trades) <= Len(trades')
      BY <1>4
    <3>2. Len(trades) \in Nat /\ Len(trades') \in Nat
      BY <1>4
    <3>3. \A i \in 1 .. Len(trades) : trades'[i] = trades[i]
      BY <1>4
    <3>4. PICK other : other = trades'
      OBVIOUS
    <3>5. QED
      BY <3>1, <3>2, <3>3, <3>4, ReplayOfPrefix
  <2>8. \A a, y : CurrentRow(a, y)' = CurrentRow(a, y)
    BY <1>1 DEF CurrentRow
  <2>9. ReplayFinds(n)
    BY <2>1, <2>3 DEF AuditInv
  <2>10. ReplayFinds(Settled)'
    BY <2>4, <2>7, <2>8, <2>9 DEF ReplayFinds
  <2>11. QED
    BY <2>6, <2>10
<1>9. QED
  BY <1>6, <1>7, <1>8 DEF AuditInv

\* A row is written as the latest of its symbol.
LEMMA BookedIsLatest ==
  ASSUME OpenIsLatest, NEW i, NEW row, NEW a, NEW y, Booked(i, row, a, y), IInv,
         i \in Nat
  PROVE  /\ OpenIsLatest'
         /\ i \in RowsOn(a, y)' /\ \A q \in RowsOn(a, y)' : q <= i
         /\ \A b, z : b # a \/ z # y =>
              /\ RowsOn(b, z)' = RowsOn(b, z)
              /\ \A q \in RowsOn(b, z) : positions'[q] = positions[q]
<1>0. \A q \in DOMAIN positions : q \in Nat
  BY RowType DEF IInv, TypeOK
<1>1. /\ DOMAIN positions' = DOMAIN positions \cup {i} /\ positions'[i] = row
      /\ \A q \in DOMAIN positions : q # i => positions'[q] = positions[q]
      /\ row.account = a /\ row.symbol = y
      /\ i \in DOMAIN positions => positions[i].account = a /\ positions[i].symbol = y
  BY DEF Booked
<1>2. ASSUME NEW q \in DOMAIN positions,
             q # i => positions[q].account = a /\ positions[q].symbol = y
      PROVE  q <= i
  <2>1. CASE q = i
    BY <2>1
  <2>2. CASE q # i /\ OpenOf(a, y) = {i}
    <3>1. i \in DOMAIN positions /\ positions[i].status = "open"
      BY <2>2 DEF OpenOf
    <3>2. QED
      BY <1>1, <1>2, <2>2, <3>1 DEF OpenIsLatest
  <2>3. CASE \A k \in DOMAIN positions : k < i
    BY <1>0, <2>3
  <2>4. QED
    BY <2>1, <2>2, <2>3 DEF Booked
<1>3. i \in RowsOn(a, y)' /\ \A q \in RowsOn(a, y)' : q <= i
  <2>1. i \in RowsOn(a, y)'
    BY <1>1 DEF RowsOn
  <2>2. ASSUME NEW q \in RowsOn(a, y)' PROVE q <= i
    <3>1. q \in DOMAIN positions' /\ positions'[q].account = a /\ positions'[q].symbol = y
      BY <2>2 DEF RowsOn
    <3>2. CASE q = i
      BY <3>2
    <3>3. CASE q # i
      BY <1>1, <1>2, <3>1, <3>3
    <3>4. QED
      BY <3>2, <3>3
  <2>3. QED
    BY <2>1, <2>2
<1>4. ASSUME NEW b, NEW z, b # a \/ z # y
      PROVE  /\ RowsOn(b, z)' = RowsOn(b, z)
             /\ \A q \in RowsOn(b, z) : positions'[q] = positions[q]
  BY <1>1, <1>4 DEF RowsOn
<1>5. OpenIsLatest'
  <2> SUFFICES ASSUME NEW p \in DOMAIN positions', NEW q \in DOMAIN positions',
                      positions'[p].status = "open",
                      positions'[q].account = positions'[p].account,
                      positions'[q].symbol = positions'[p].symbol
               PROVE  q <= p
    BY DEF OpenIsLatest
  <2>1. CASE p = i
    <3>1. q \in RowsOn(a, y)'
      BY <1>1, <2>1 DEF RowsOn
    <3>2. QED
      BY <1>3, <2>1, <3>1
  <2>2. CASE p # i /\ q = i
    <3>1. p \in OpenOf(a, y)
      BY <1>1, <2>2 DEF OpenOf
    <3>2. QED
      BY <2>2, <3>1 DEF Booked
  <2>3. CASE p # i /\ q # i
    BY <1>1, <2>3 DEF OpenIsLatest
  <2>4. QED
    BY <2>1, <2>2, <2>3
<1>6. QED
  BY <1>3, <1>4, <1>5

\* The row that a trade is booked on is what the replay of it finds.
LEMMA WritePositionKeepsAudit ==
  ASSUME IInv, IInv', OneSession, LedgerInv, AuditInv, NEW s \in Sessions, WritePosition(s)
  PROVE  AuditInv'
<1> PICK n, trade : n = job[s].trade /\ trade = trades[n]
  OBVIOUS
<1> PICK a, y : a = trade.account /\ y = trade.symbol
  OBVIOUS
<1>1. /\ job[s] \in Job /\ job \in [Sessions -> Job] /\ job[s].pc = "write position"
      /\ JobInv(s) /\ trades \in Seq(TradeRow)
      /\ UNCHANGED <<orders, trades, failures, late_raises, cash_applied>>
  BY DEF WritePosition, At, bounds, IInv, TypeOK
<1>2. PICK i, row :
           /\ Booked(i, row, a, y)
           /\ row = AppliedRow(RowHeld(a, y), trade)
           /\ ~CannotApply(RowHeld(a, y), trade, IsForex(a))
  BY AppliedRowWritten
<1>3. /\ n \in DOMAIN trades /\ n = Len(trades) /\ n \in Nat \ {0}
      /\ trade \in TradeRow /\ n \in 1 .. Len(trades)
  <2>1. n \in DOMAIN trades
    BY <1>1 DEF JobInv, TradeLabels, OrderLabels, Labels
  <2>2. n = Len(trades)
    BY <1>1 DEF AuditInv, Handled, BeforeBookWrite
  <2>3. trade \in TradeRow /\ n \in Nat \ {0}
    BY <1>1, <2>1, RowType
  <2>4. QED
    BY <2>1, <2>2, <2>3
<1>4. a \in Accounts /\ y \in Symbols /\ Proper(trade, Accounts, Symbols)
  BY <1>3 DEF TradeRow, Proper
<1>5. job'[s].pc \in {"insert key", "read stop"}
  BY <1>1 DEF WritePosition, Job, AfterPosition
<1>6. \A u \in Sessions : u = s
  BY DEF OneSession
<1>7. /\ OpenIsLatest'
      /\ i \in RowsOn(a, y)' /\ \A q \in RowsOn(a, y)' : q <= i
      /\ \A b, z : b # a \/ z # y =>
           /\ RowsOn(b, z)' = RowsOn(b, z)
           /\ \A q \in RowsOn(b, z) : positions'[q] = positions[q]
  <2>1. i \in Nat
    <3>1. i \in DOMAIN positions'
      BY <1>2 DEF Booked
    <3>2. QED
      BY <3>1, RowType DEF IInv, TypeOK
  <2>2. OpenIsLatest
    BY DEF AuditInv
  <2>3. QED
    BY <1>2, <2>1, <2>2, BookedIsLatest
<1>8. \A u \in Sessions : Handled(job[u])'
  BY <1>5, <1>6 DEF Handled, BeforeBookWrite, BeforeCashWrite
<1>9. ASSUME Unharmed' PROVE Accounted'
  <2>1. Unharmed
    BY <1>1, <1>9, HarmStays
  <2>2. \A t \in DOMAIN trades :
          /\ orders[trades[t].order].status = "FILLED" \/ job[s].pc = "fill"
          /\ t \in cash_applied \/ job[s].pc \in BeforeCashWrite
    BY <1>6, <2>1 DEF AuditInv, Accounted
  <2>3. QED
    BY <1>1, <2>2 DEF Accounted, BeforeCashWrite
<1>10. ASSUME Unharmed', NEW b \in Accounts, NEW z \in Symbols
       PROVE  /\ replay_trades(trades, b, z)[n].sound
              /\ replay_trades(trades, b, z)[n].row = {Bare(x) : x \in CurrentRow(b, z)'}
  <2> PICK r, q : r = replay_trades(trades, b, z)[n - 1] /\ q = replay_trades(trades, b, z)[n]
    OBVIOUS
  <2>1. Unharmed
    BY <1>1, <1>10, HarmStays
  <2>2. Settled = n - 1
    BY <1>1, <1>3 DEF Settled, BeforeBookWrite
  <2>3. r.sound /\ r.row = {Bare(x) : x \in CurrentRow(b, z)}
    BY <2>1, <2>2 DEF AuditInv, ReplayFinds
  <2>4. q = IF Concerns(trade, b, z) THEN ReplayStep(r, trade) ELSE r
    <3>1. Len(trades) \in Nat
      BY <1>3
    <3>2. QED
      BY <1>3, <3>1, ReplayGoesOn
  <2>5. CASE b # a \/ z # y
    <3>1. CurrentRow(b, z)' = CurrentRow(b, z)
      <4>1. /\ RowsOn(b, z)' = RowsOn(b, z)
            /\ \A k \in RowsOn(b, z) : positions'[k] = positions[k]
        BY <1>7, <2>5
      <4>2. \/ RowsOn(b, z) = {} /\ CurrentRow(b, z) = {}
            \/ \E p \in RowsOn(b, z) : /\ CurrentRow(b, z) = {positions[p]}
                                       /\ \A k \in RowsOn(b, z) : k <= p
        BY CurrentRowExists
      <4>3. CASE RowsOn(b, z) = {} /\ CurrentRow(b, z) = {}
        <5>1. CurrentRow(b, z)' = {}
          BY <4>1, <4>3 DEF CurrentRow, RowsOn
        <5>2. QED
          BY <4>3, <5>1
      <4>4. ASSUME NEW p \in RowsOn(b, z), CurrentRow(b, z) = {positions[p]},
                   \A k \in RowsOn(b, z) : k <= p
            PROVE  CurrentRow(b, z)' = {positions'[p]}
        BY <4>1, <4>4, CurrentRowOfNext
      <4>5. QED
        BY <4>1, <4>2, <4>3, <4>4
    <3>2. ~Concerns(trade, b, z)
      BY <2>5 DEF Concerns
    <3>3. QED
      BY <2>3, <2>4, <3>1, <3>2
  <2>6. CASE b = a /\ z = y
    <3>1. CurrentRow(b, z)' = {row}
      <4>1. positions'[i] = row
        BY <1>2 DEF Booked
      <4>2. QED
        BY <1>7, <2>6, <4>1, CurrentRowOfNext
    <3>2. PICK held : /\ held = RowHeld(a, y)
                      /\ held \in Option(PositionRow(Accounts, Symbols))
                      /\ held = {x \in CurrentRow(a, y) : x.status = "open"}
      <4>1. RowHeld(a, y) = {positions[p] : p \in OpenOf(a, y)}
        BY <1>4, FoundIsOpen DEF RowHeld, LedgerInv
      <4>2. RowHeld(a, y) = {x \in CurrentRow(a, y) : x.status = "open"}
        BY <4>1, OpenIsCurrent DEF AuditInv
      <4>3. OpenOf(a, y) = {} \/ \E p \in DOMAIN positions : OpenOf(a, y) = {p}
        BY <1>4, FoundIsOpen DEF LedgerInv
      <4>4. \A p \in DOMAIN positions : positions[p] \in PositionRow(Accounts, Symbols)
        BY RowType DEF IInv, TypeOK
      <4>5. RowHeld(a, y) \in Option(PositionRow(Accounts, Symbols))
        BY <4>1, <4>3, <4>4 DEF Option
      <4>6. QED
        BY <4>2, <4>5
    <3>3. \A x \in CurrentRow(a, y) : x \in PositionRow(Accounts, Symbols)
      <4>1. CurrentRow(a, y) = {} \/ \E p \in DOMAIN positions : CurrentRow(a, y) = {positions[p]}
        BY CurrentRowExists DEF RowsOn
      <4>2. QED
        BY <4>1, RowType DEF IInv, TypeOK
    <3>4. PICK open : open = {x \in r.row : x.status = "open"}
      OBVIOUS
    <3>5. open = {Bare(x) : x \in held}
      <4>1. \A x \in CurrentRow(a, y) : Bare(x).status = x.status
        BY <3>3, BareRow
      <4>2. QED
        BY <2>3, <2>6, <3>2, <3>4, <4>1
    <3>6. /\ ~CannotApply(open, trade, IsForex(a))
          /\ AppliedRow(open, trade) = Bare(row)
      BY <1>2, <1>4, <3>2, <3>5, BareApplied
    <3>7. q = [r EXCEPT !.row = {Bare(row)}]
      BY <2>4, <2>6, <3>4, <3>6 DEF ReplayStep, Concerns
    <3>8. r = [row |-> r.row, sound |-> r.sound]
      <4>1. n - 1 \in 0 .. Len(trades)
        BY <1>3
      <4>2. OutcomeOf(r, b, z, SumOver(SignedOf(trades), Concerned(trades, b, z, n - 1)))
        BY <1>1, <4>1, ReplayAddsUp
      <4>3. QED
        BY <4>2 DEF OutcomeOf
    <3>9. q.sound = r.sound /\ q.row = {Bare(row)}
      BY <3>7, <3>8
    <3>10. QED
      BY <2>3, <3>1, <3>9
  <2>7. QED
    BY <2>5, <2>6
<1>11. ASSUME Unharmed' PROVE ReplayFinds(Settled)'
  <2>1. Settled' = n
    BY <1>1, <1>3, <1>5, <1>6 DEF Settled, BeforeBookWrite, BeforeCashWrite
  <2>2. QED
    BY <1>1, <1>10, <1>11, <2>1 DEF ReplayFinds
<1>12. QED
  BY <1>7, <1>8, <1>9, <1>11 DEF AuditInv

\* A stop loss is no part of what is compared.
LEMMA WriteStopKeepsAudit ==
  ASSUME IInv, IInv', OneSession, LedgerInv, AuditInv, NEW s \in Sessions, WriteStop(s)
  PROVE  AuditInv'
<1> PICK row, p : row = The(job[s].row) /\ p = job[s].position
  OBVIOUS
<1>1. /\ job[s] \in Job /\ job \in [Sessions -> Job] /\ job[s].pc = "write stop"
      /\ JobInv(s) /\ positions' = [positions EXCEPT ![p] = row]
      /\ UNCHANGED <<orders, trades, failures, late_raises, cash_applied>>
  BY DEF WriteStop, At, bounds, history, IInv, TypeOK
<1>2. p \in DOMAIN positions /\ SameStake(row, positions[p]) /\ Bare(row) = Bare(positions[p])
  BY <1>1 DEF JobInv, LedgerInv, Pending, AuditInv, Handled
<1>3. /\ DOMAIN positions' = DOMAIN positions
      /\ \A i \in DOMAIN positions :
           /\ positions'[i].account = positions[i].account
           /\ positions'[i].symbol = positions[i].symbol
           /\ positions'[i].status = positions[i].status
           /\ Bare(positions'[i]) = Bare(positions[i])
  BY <1>1, <1>2 DEF SameStake
<1>4. \A u \in Sessions : u = s
  BY DEF OneSession
<1>5. job'[s].pc = "insert key"
  BY <1>1 DEF WriteStop, Job
<1>6. OpenIsLatest'
  BY <1>3 DEF AuditInv, OpenIsLatest
<1>7. \A u \in Sessions : Handled(job[u])'
  BY <1>4, <1>5 DEF Handled, BeforeBookWrite, BeforeCashWrite
<1>8. ASSUME NEW a, NEW y
      PROVE  {Bare(x) : x \in CurrentRow(a, y)'} = {Bare(x) : x \in CurrentRow(a, y)}
  <2>1. RowsOn(a, y)' = RowsOn(a, y)
    BY <1>3 DEF RowsOn
  <2>2. CASE RowsOn(a, y) = {}
    <3>1. CurrentRow(a, y) = {} /\ CurrentRow(a, y)' = {}
      BY <2>1, <2>2 DEF CurrentRow, RowsOn
    <3>2. QED
      BY <3>1
  <2>3. CASE RowsOn(a, y) # {}
    <3>1. PICK q \in RowsOn(a, y) : \A k \in RowsOn(a, y) : k <= q
      BY <2>3, LatestExists
    <3>2. CurrentRow(a, y) = {positions[q]} /\ CurrentRow(a, y)' = {positions'[q]}
      BY <2>1, <3>1, CurrentRowOf, CurrentRowOfNext
    <3>3. Bare(positions'[q]) = Bare(positions[q])
      BY <1>3 DEF RowsOn
    <3>4. QED
      BY <3>2, <3>3
  <2>4. QED
    BY <2>2, <2>3
<1>9. ASSUME Unharmed' PROVE Accounted' /\ ReplayFinds(Settled)'
  <2>1. Unharmed
    BY <1>1, <1>9, HarmStays
  <2>2. \A t \in DOMAIN trades :
          /\ orders[trades[t].order].status = "FILLED" \/ job[s].pc = "fill"
          /\ t \in cash_applied \/ job[s].pc \in BeforeCashWrite
    BY <1>4, <2>1 DEF AuditInv, Accounted
  <2>3. Accounted'
    BY <1>1, <2>2 DEF Accounted, BeforeCashWrite
  <2>4. Settled' = Settled
    BY <1>1, <1>4, <1>5 DEF Settled, BeforeBookWrite, BeforeCashWrite
  <2>5. ReplayFinds(Settled)
    BY <2>1 DEF AuditInv
  <2>6. ReplayFinds(Settled)'
    BY <1>1, <1>8, <2>4, <2>5 DEF ReplayFinds
  <2>7. QED
    BY <2>3, <2>6
<1>10. QED
  BY <1>6, <1>7, <1>9 DEF AuditInv

LEMMA NextKeepsAudit ==
  ASSUME IInv, IInv', OneSession, LedgerInv, AuditInv, [Next]_vars
  PROVE  AuditInv'
<1>1. CASE UNCHANGED vars
  <2>1. /\ UNCHANGED <<trades, positions, orders, cash_applied, job>>
        /\ UNCHANGED <<failures, late_raises>>
    BY <1>1 DEF vars, tables, history, bounds
  <2>2. \A a, y : CurrentRow(a, y)' = CurrentRow(a, y)
    BY <2>1 DEF CurrentRow
  <2>3. OpenIsLatest' /\ \A s \in Sessions : Handled(job[s])'
    BY <2>1 DEF AuditInv, OpenIsLatest, Handled
  <2>4. ASSUME Unharmed' PROVE Accounted' /\ ReplayFinds(Settled)'
    <3>1. Accounted /\ ReplayFinds(Settled)
      BY <2>1, <2>4, HarmStays DEF AuditInv
    <3>2. Settled' = Settled
      BY <2>1 DEF Settled
    <3>3. QED
      BY <2>1, <2>2, <3>1, <3>2 DEF Accounted, ReplayFinds
  <2>5. QED
    BY <2>3, <2>4 DEF AuditInv
<1>2. CASE Next
  <2>1. PICK s \in Sessions : Proceeds(s) \/ Fail(s) \/ \E r \in Requests : Submit(s, r)
    BY <1>2, NextProceeds
  <2>2. QED
    BY <2>1, CreateTradeKeepsAudit, RecordFillKeepsAudit, ReadCashKeepsAudit,
       WriteCashKeepsAudit, ReadPositionKeepsAudit, WritePositionKeepsAudit,
       ReadStopKeepsAudit, WriteStopKeepsAudit, RefuseKeyKeepsAudit, FailKeepsAudit,
       GoOnKeepsAudit
    DEF Proceeds
<1>3. QED
  BY <1>1, <1>2

(***************************************************************************)
(* The verdict                                                             *)
(***************************************************************************)
\* The trades that are lost are those that are in no ledger.
LEMMA LostAndBooked ==
  ASSUME IInv, NEW a, NEW y
  PROVE  LET all  == Concerned(trades, a, y, Len(trades))
             cashed == {t \in DOMAIN trades : trades[t].account = a}
         IN  /\ SumOver(SignedTrades, all)
                  = SumOver(SignedTrades, BookTrades(a, y)) + SumOver(SignedTrades, LostInBook(a, y))
             /\ SumOver(CashEffects, cashed)
                  = SumOver(CashEffects, CashTrades(a)) + SumOver(CashEffects, LostInCash(a))
<1> PICK all, booked, lost : /\ all = Concerned(trades, a, y, Len(trades))
                             /\ booked = BookTrades(a, y) /\ lost = LostInBook(a, y)
  OBVIOUS
<1> PICK every, cashed, gone : /\ every = {t \in DOMAIN trades : trades[t].account = a}
                               /\ cashed = CashTrades(a) /\ gone = LostInCash(a)
  OBVIOUS
<1>1. /\ trades \in Seq(TradeRow) /\ DOMAIN trades = 1 .. Len(trades)
      /\ cash_applied \subseteq DOMAIN trades /\ position_applied \subseteq DOMAIN trades
  BY LenProperties DEF IInv, TypeOK
<1>2. all \subseteq DOMAIN trades /\ lost \subseteq all /\ all \ lost = booked
  BY <1>1 DEF Concerned, Concerns, BookTrades, LostInBook
<1>3. every \subseteq DOMAIN trades /\ gone \subseteq every /\ every \ gone = cashed
  BY <1>1 DEF CashTrades, LostInCash
<1>4. IsFiniteSet(all) /\ IsFiniteSet(every)
  BY <1>1, <1>2, <1>3, SomeRowsFinite
<1>5. /\ \A t \in all : SignedTrades[t] \in Int
      /\ \A t \in every : CashEffects[t] \in Int
  BY <1>2, <1>3, AmountsAreInts
<1>6. SumOver(SignedTrades, all) = SumOver(SignedTrades, all \ lost) + SumOver(SignedTrades, lost)
  BY <1>2, <1>4, <1>5, SumOfParts
<1>7. SumOver(CashEffects, every) = SumOver(CashEffects, every \ gone) + SumOver(CashEffects, gone)
  BY <1>3, <1>4, <1>5, SumOfParts
<1>8. QED
  BY <1>2, <1>3, <1>6, <1>7

LEMMA SumsAreInts ==
  ASSUME IInv, NEW a, NEW y
  PROVE  /\ SumOver(SignedTrades, BookTrades(a, y)) \in Int
         /\ SumOver(SignedTrades, LostInBook(a, y)) \in Int
         /\ SumOver(CashEffects, CashTrades(a)) \in Int
         /\ SumOver(CashEffects, LostInCash(a)) \in Int
<1>1. /\ trades \in Seq(TradeRow)
      /\ cash_applied \subseteq DOMAIN trades /\ position_applied \subseteq DOMAIN trades
  BY DEF IInv, TypeOK
<1>2. ASSUME NEW S \in SUBSET DOMAIN trades
      PROVE  SumOver(SignedTrades, S) \in Int /\ SumOver(CashEffects, S) \in Int
  <2>1. IsFiniteSet(S)
    BY <1>1, SomeRowsFinite
  <2>2. \A t \in S : SignedTrades[t] \in Int /\ CashEffects[t] \in Int
    BY AmountsAreInts
  <2>3. QED
    BY <2>1, <2>2, SumOfInts
<1>3. /\ BookTrades(a, y) \in SUBSET DOMAIN trades /\ LostInBook(a, y) \in SUBSET DOMAIN trades
      /\ CashTrades(a) \in SUBSET DOMAIN trades /\ LostInCash(a) \in SUBSET DOMAIN trades
  BY <1>1 DEF BookTrades, LostInBook, CashTrades, LostInCash
<1>4. QED
  BY <1>2, <1>3

\* What is held is what the current row is worth.
LEMMA CurrentRowWorth ==
  ASSUME IInv, LedgerInv, OpenIsLatest, NEW a \in Accounts, NEW y \in Symbols
  PROVE  /\ Worth(CurrentRow(a, y)) = SumOver(SignedTrades, BookTrades(a, y))
         /\ CurrentRow(a, y) \in Option(PositionRow(Accounts, Symbols))
<1>1. SumOver(SignedQuantities, OpenOf(a, y)) = SumOver(SignedTrades, BookTrades(a, y))
  BY LedgersStated DEF LedgerInv
<1>2. OpenOf(a, y) = {} \/ \E p \in DOMAIN positions : OpenOf(a, y) = {p}
  BY FoundIsOpen DEF LedgerInv
<1>3. \/ RowsOn(a, y) = {} /\ CurrentRow(a, y) = {}
      \/ \E p \in RowsOn(a, y) : CurrentRow(a, y) = {positions[p]}
  BY CurrentRowExists
<1>4. \A p \in DOMAIN positions : positions[p] \in PositionRow(Accounts, Symbols)
  BY RowType DEF IInv, TypeOK
<1>5. CurrentRow(a, y) \in Option(PositionRow(Accounts, Symbols))
  BY <1>3, <1>4, EmptyOption, SingletonOption DEF RowsOn
<1>6. CASE OpenOf(a, y) = {}
  <2>1. Worth(CurrentRow(a, y)) = 0
    <3>1. CASE CurrentRow(a, y) = {}
      BY <3>1 DEF Worth
    <3>2. CASE CurrentRow(a, y) # {}
      <4>1. PICK p \in RowsOn(a, y) : CurrentRow(a, y) = {positions[p]}
        BY <1>3, <3>2
      <4>2. p \in DOMAIN positions /\ positions[p].status # "open"
        BY <1>6, <4>1 DEF RowsOn, OpenOf
      <4>3. positions[p].quantity = 0
        BY <1>4, <4>2 DEF IInv, PortfolioStateSane, PositionRow
      <4>4. SignedQuantity(positions[p]) = 0
        <5>1. PICK k \in Int : k = positions[p].quantity /\ k = 0 /\ -k = 0
          BY <4>3
        <5>2. QED
          BY <5>1 DEF SignedQuantity
      <4>5. The({positions[p]}) = positions[p]
        BY DEF The
      <4>6. QED
        BY <3>2, <4>1, <4>4, <4>5 DEF Worth
    <3>3. QED
      BY <3>1, <3>2
  <2>2. SumOver(SignedQuantities, OpenOf(a, y)) = 0
    BY <1>6, SumOfNone
  <2>3. QED
    BY <1>1, <1>5, <2>1, <2>2
<1>7. CASE OpenOf(a, y) # {}
  <2>1. PICK p \in DOMAIN positions : OpenOf(a, y) = {p}
    BY <1>2, <1>7
  <2>2. p \in RowsOn(a, y) /\ \A q \in RowsOn(a, y) : q <= p
    BY <2>1, OpenIsCurrent
  <2>3. CurrentRow(a, y) = {positions[p]}
    BY <2>2, CurrentRowOf
  <2>4. SumOver(SignedQuantities, {p}) = SignedQuantity(positions[p])
    BY AmountsAreInts, SumOfOne
  <2>5. The({positions[p]}) = positions[p]
    BY DEF The
  <2>6. Worth(CurrentRow(a, y)) = SignedQuantity(positions[p])
    BY <2>3, <2>5 DEF Worth
  <2>7. QED
    BY <1>1, <1>5, <2>1, <2>4, <2>6
<1>8. QED
  BY <1>6, <1>7

\* An account that reconciles has lost nothing that does not cancel out.
LEMMA ConsistentLostNothing ==
  ASSUME IInv, LedgerInv, OpenIsLatest, NEW a \in Accounts, reconcile_account(a)
  PROVE  /\ SumOver(CashEffects, LostInCash(a)) = 0
         /\ \A y \in Symbols : SumOver(SignedTrades, LostInBook(a, y)) = 0
<1>1. SumOver(CashEffects, LostInCash(a)) = 0
  <2> PICK c, e, l : /\ c = StartingCash[a] /\ e = SumOver(CashEffects, CashTrades(a))
                     /\ l = SumOver(CashEffects, LostInCash(a))
    OBVIOUS
  <2>1. c \in Int /\ e \in Int /\ l \in Int
    BY SumsAreInts, PaperTradingAssumption
  <2>2. cash[a] = c + e
    BY LedgersStated DEF LedgerInv
  <2>3. cash[a] = c + SumOver(CashEffects, {t \in DOMAIN trades : trades[t].account = a})
    BY DEF reconcile_account, check_trade_cash, CashEffects
  <2>4. SumOver(CashEffects, {t \in DOMAIN trades : trades[t].account = a}) = e + l
    BY LostAndBooked
  <2>5. QED
    BY <2>1, <2>2, <2>3, <2>4
<1>2. ASSUME NEW y \in Symbols PROVE SumOver(SignedTrades, LostInBook(a, y)) = 0
  <2> PICK r, current : /\ r = replay_trades(trades, a, y)[Len(trades)]
                        /\ current = CurrentRow(a, y)
    OBVIOUS
  <2> PICK b, l : /\ b = SumOver(SignedTrades, BookTrades(a, y))
                  /\ l = SumOver(SignedTrades, LostInBook(a, y))
    OBVIOUS
  <2>1. b \in Int /\ l \in Int
    BY SumsAreInts
  <2>2. /\ r.sound
        /\ (current = {}) <=> (r.row = {})
        /\ \A x \in current, z \in r.row : SameHolding(x, z)
    BY DEF reconcile_account, check_trade_position, replay_position
  <2>3. OutcomeOf(r, a, y, b + l)
    <3>1. trades \in Seq(TradeRow) /\ Len(trades) \in 0 .. Len(trades)
      BY LenProperties DEF IInv, TypeOK
    <3>2. SignedOf(trades) = SignedTrades
      BY DEF SignedOf, SignedTrades
    <3>3. SumOver(SignedTrades, Concerned(trades, a, y, Len(trades))) = b + l
      BY LostAndBooked
    <3>4. QED
      BY <3>1, <3>2, <3>3, ReplayAddsUp
  <2>4. Worth(r.row) = b + l
    BY <2>2, <2>3 DEF OutcomeOf
  <2>5. Worth(current) = b /\ current \in Option(PositionRow(Accounts, Symbols))
    BY CurrentRowWorth
  <2>6. Worth(r.row) = Worth(current)
    <3>1. CASE current = {}
      BY <2>2, <3>1
    <3>2. CASE current # {}
      <4>1. The(current) \in current /\ The(r.row) \in r.row /\ r.row # {}
        BY <2>2, <3>2 DEF The
      <4>2. SameHolding(The(current), The(r.row))
        BY <2>2, <4>1
      <4>3. QED
        BY <3>2, <4>1, <4>2 DEF Worth, SameHolding, SignedQuantity
    <3>3. QED
      BY <3>1, <3>2
  <2>7. QED
    BY <2>1, <2>4, <2>5, <2>6
<1>3. QED
  BY <1>1, <1>2

LEMMA LossIsSeen ==
  ASSUME IInv, LedgerInv, AuditInv PROVE PartialTradeDetected
<1> SUFFICES ASSUME NEW a \in Accounts, reconcile_account(a)
             PROVE  /\ ~(SumOver([t \in DOMAIN trades |-> CashEffect(trades[t])],
                                 LostInCash(a)) # 0)
                    /\ ~\E y \in Symbols :
                          SumOver([t \in DOMAIN trades |-> SignedTrade(trades[t])],
                                  LostInBook(a, y)) # 0
  BY DEF PartialTradeDetected
<1>1. /\ SumOver(CashEffects, LostInCash(a)) = 0
      /\ \A y \in Symbols : SumOver(SignedTrades, LostInBook(a, y)) = 0
  BY ConsistentLostNothing DEF AuditInv
<1>2. QED
  BY <1>1 DEF CashEffects, SignedTrades

\* Books that nothing harmed reconcile.
LEMMA UnharmedIsConsistent ==
  ASSUME IInv, BookInv, LedgerInv, AuditInv, Quiescent, Unharmed, NEW a \in Accounts
  PROVE  reconcile_account(a)
<1>1. \A s \in Sessions : job[s].pc = "idle"
  BY DEF Quiescent, At
<1>2. \A t \in DOMAIN trades :
        /\ orders[trades[t].order].status = "FILLED" /\ t \in cash_applied
  BY <1>1 DEF AuditInv, Accounted, BeforeCashWrite
<1>3. Settled = Len(trades)
  BY <1>1 DEF Settled, BeforeBookWrite, BeforeCashWrite
<1>4. ReplayFinds(Len(trades))
  BY <1>3 DEF AuditInv
<1>5. check_order_trade(a)
  <2> SUFFICES ASSUME NEW o \in DOMAIN orders
               PROVE  IF orders[o].status = "FILLED"
                      THEN /\ Cardinality(TradesOf(o)) = 1
                           /\ \A t \in TradesOf(o) :
                                /\ orders[o].filled_price = trades[t].fill_price
                                /\ orders[o].filled_quantity = trades[t].quantity
                      ELSE TradesOf(o) = {}
    BY DEF check_order_trade
  <2>1. CASE orders[o].status = "FILLED"
    <3>1. PICK t \in TradesOf(o) : /\ orders[o].filled_price = trades[t].fill_price
                                   /\ orders[o].filled_quantity = trades[t].quantity
      BY <2>1 DEF IInv, OrderTradeAgreement
    <3>2. TradesOf(o) = {t}
      BY <3>1 DEF IInv, OrderTradeAgreement, TradesOf
    <3>3. Cardinality({t}) = 1
      BY FS_Singleton
    <3>4. QED
      BY <2>1, <3>1, <3>2, <3>3
  <2>2. CASE orders[o].status # "FILLED"
    <3>1. TradesOf(o) = {}
      BY <1>2, <2>2 DEF TradesOf
    <3>2. QED
      BY <2>2, <3>1
  <2>3. QED
    BY <2>1, <2>2
<1>6. check_trade_cash(a)
  <2>1. CashTrades(a) = {t \in DOMAIN trades : trades[t].account = a}
    BY <1>2 DEF CashTrades, IInv, TypeOK
  <2>2. cash[a] = StartingCash[a] + SumOver(CashEffects, CashTrades(a))
    BY LedgersStated DEF LedgerInv
  <2>3. QED
    BY <2>1, <2>2 DEF check_trade_cash, CashEffects
<1>7. check_trade_position(a)
  <2>1. ASSUME NEW y \in Symbols
        PROVE  LET r == replay_position(a, y) IN
               /\ r.sound
               /\ (CurrentRow(a, y) = {}) <=> (r.row = {})
               /\ \A x \in CurrentRow(a, y), z \in r.row : SameHolding(x, z)
    <3>1. PICK r, current : r = replay_position(a, y) /\ current = CurrentRow(a, y)
      OBVIOUS
    <3>2. r.sound /\ r.row = {Bare(x) : x \in current}
      BY <1>4, <3>1 DEF ReplayFinds, replay_position
    <3>3. current \in Option(PositionRow(Accounts, Symbols))
      BY <3>1, CurrentRowWorth DEF AuditInv
    <3>4. ASSUME NEW x \in current, NEW z \in r.row PROVE SameHolding(x, z)
      <4>1. z = Bare(x) /\ x \in PositionRow(Accounts, Symbols)
        BY <3>2, <3>3 DEF Option
      <4>2. /\ z.direction = x.direction /\ z.quantity = x.quantity
            /\ z.average_price = x.average_price /\ z.realized_pnl = x.realized_pnl
            /\ z.buy_fee_accumulated = x.buy_fee_accumulated /\ z.status = x.status
        BY <4>1, BareRow
      <4>3. QED
        BY <4>2 DEF SameHolding, RatioEq
    <3>5. (current = {}) <=> (r.row = {})
      BY <3>2
    <3>6. QED
      BY <3>1, <3>2, <3>4, <3>5
  <2>2. QED
    BY <2>1 DEF check_trade_position
<1>8. check_portfolio_state(a)
  <2>1. \A p \in DOMAIN positions : positions[p].status \in {"open", "closed"}
    <3>1. \A p \in DOMAIN positions : positions[p] \in PositionRow(Accounts, Symbols)
      BY RowType DEF IInv, TypeOK
    <3>2. QED
      BY <3>1 DEF PositionRow
  <2>2. QED
    BY <2>1 DEF check_portfolio_state, IInv, PortfolioStateSane
<1>9. check_forex_state(a)
  <2> SUFFICES ASSUME IsForex(a), NEW p \in DOMAIN positions, positions[p].account = a,
                      positions[p].quantity > 0
               PROVE  \E stop \in positions[p].stop_loss : ProtectedBy(positions[p], stop)
    BY DEF check_forex_state, ProtectedBy
  <2>1. positions[p] \in PositionRow(Accounts, Symbols)
    BY RowType DEF IInv, TypeOK
  <2>2. positions[p].status = "open"
    BY <2>1 DEF PositionRow, IInv, PortfolioStateSane
  <2>3. QED
    BY <1>1, <2>2 DEF BookInv, Protected, StopLabels
<1>10. QED
  BY <1>5, <1>6, <1>7, <1>8, <1>9 DEF reconcile_account

\* With calls one at a time, the audit of an account reports nothing as long as
\* no call failed and no service refused late, and when what broken-off calls
\* lost does not cancel out it reports it: for any number of calls, any
\* accounts and symbols, and all prices, quantities, fees and taxes.
THEOREM ReconciliationTells ==
  ASSUME OneSession
  PROVE  Spec => []ReconciliationIsExact
<1>1. IInv /\ BookInv /\ LedgerInv /\ AuditInv => ReconciliationIsExact
  <2> SUFFICES ASSUME IInv, BookInv, LedgerInv, AuditInv PROVE ReconciliationIsExact
    OBVIOUS
  <2>1. UnharmedReconciles
    BY UnharmedIsConsistent DEF UnharmedReconciles
  <2>2. QED
    BY <2>1, LossIsSeen DEF ReconciliationIsExact
<1>2. Init => ColumnsMatch /\ BookInv /\ LedgerInv /\ AuditInv
  BY InitBook, InitLedgers, InitAudit
<1>3. IInv /\ IInv' /\ ColumnsMatch /\ BookInv /\ [Next]_vars => (ColumnsMatch /\ BookInv)'
  BY StepMatches, StepKeepsBook
<1>4. IInv /\ IInv' /\ LedgerInv /\ AuditInv /\ [Next]_vars => (LedgerInv /\ AuditInv)'
  BY NextKeepsLedgers, NextKeepsAudit
<1>5. QED
  BY <1>1, <1>2, <1>3, <1>4, IInvHolds, PTL DEF Spec
=============================================================================
