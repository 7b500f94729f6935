----------------------------- MODULE MockBroker -----------------------------
(***************************************************************************)
(* The in-memory broker of futur3/execution/adapters/mock_broker.py: order *)
(* book, event stream, weighted-average positions, realized PnL and the    *)
(* per-trade ledger.  Every backtest runs against it, so its accounting is *)
(* the accounting of every reported result.                                *)
(*                                                                         *)
(* A broker order id is the position of the order in `orders`              *)
(* (_next_order_id_seq counts up from 1 and nothing is ever removed).  The *)
(* loop of advance() is taken one order per step, so that an exception in  *)
(* the middle of it leaves the orders before the failing one filled; all   *)
(* other operations wait for it, since advance() never awaits.             *)
(*                                                                         *)
(* Prices are integers (ticks).  Decimal division keeps 28 digits in the   *)
(* code; the model only takes the fills whose weighted average is itself   *)
(* an integer (Exact), so that no rounding of its own enters the model.    *)
(***************************************************************************)
EXTENDS Integers, Sequences, FiniteSetsExt, Functions

CONSTANTS
    Contracts,      \* contract symbols
    Configured,     \* the contracts whose root has a CONTRACT_MULTIPLIER entry
    Mult,           \* Mult[c]: USD per point
    Supported,      \* the order types of restrict_supported_to
    Quantities,     \* quantities an Order may ask for
    Prices,         \* limit, stop and injected fill prices
    Bars,           \* the bars advance() may be called with
    Slippage,       \* the adverse haircut on MKT and STP fills (0: no model)
    RollPairs,      \* the <<front, back>> pairs of the roll calendar
    RollFills,      \* front / back settles a roll may be booked at
    MaxOrders,      \* bound: orders placed between two resets
    MaxEvents       \* bound: events emitted between two resets

OrderTypes == {"MKT", "LMT", "STP", "OTHER"}
Sides == {"BUY", "SELL"}

\* Order.__post_init__: a LMT order has a limit price, a STP order a stop price.
\* `price` is the one of the two the type reads, 0 where it reads none.
PricesFor(type) == IF type \in {"LMT", "STP"} THEN Prices ELSE {0}
Orders == {o \in [contract : Contracts, side : Sides, qty : Quantities,
                  type : OrderTypes, price : Prices \cup {0}] :
              o.price \in PricesFor(o.type)}

ASSUME ConstantsAssumption ==
    /\ IsFiniteSet(Contracts)
    /\ Configured \subseteq Contracts
    /\ Mult \in [Contracts -> Nat \ {0}]
    /\ Supported \subseteq OrderTypes
    /\ Quantities \subseteq Nat \ {0}
    /\ Prices \subseteq Int
    /\ Bars \subseteq [contract : Contracts, open : Int, high : Int, low : Int]
    /\ Slippage \in Nat
    /\ RollPairs \subseteq {p \in Contracts \X Contracts : p[1] # p[2]}
    /\ RollFills \subseteq Int
    /\ MaxOrders \in Nat
    /\ MaxEvents \in Nat

VARIABLES
    orders,         \* _orders: sequence of Order, indexed by broker order id
    cancelled,      \* _cancelled: ids
    filled,         \* _filled_qty: cumulative fill per id
    events,         \* _events: the order event stream
    book,           \* _positions, _realized_pnl_today, _trade_pnls, _open_trade_pnl
    bar,            \* the bar advance() is working through
    cursor          \* 0: idle; otherwise the id advance() looks at next

vars == <<orders, cancelled, filled, events, book, bar, cursor>>

-----------------------------------------------------------------------------
(* Positions.  A contract never traded and a contract closed to flat are the *)
(* same record: quantity 0, average price 0 (_apply_fill_to_position treats  *)
(* `existing is None` and `existing.quantity == 0` alike).                   *)

FlatPosition == [qty |-> 0, avg |-> 0, realized |-> 0]

EmptyBook == [pos      |-> [c \in Contracts |-> FlatPosition],
              realized |-> 0,
              trades   |-> <<>>,
              tally    |-> [c \in Contracts |-> 0]]

Abs(n) == IF n < 0 THEN -n ELSE n

Signed(side, qty) == IF side = "BUY" THEN qty ELSE -qty

SameSign(a, b) == (a > 0 /\ b > 0) \/ (a < 0 /\ b < 0)

\* Weighted-average cost of adding delta at price to position p.
Notional(p, delta, price) == p.avg * Abs(p.qty) + price * Abs(delta)
NewAverage(p, delta, price) == Notional(p, delta, price) \div Abs(p.qty + delta)

\* Mutant: a fill into a flat slot falls through to the closing branch.
AverageAfterNoReopen(p, delta, price) ==
    IF SameSign(p.qty, delta) THEN NewAverage(p, delta, price)
    ELSE IF p.qty + delta = 0 THEN 0
    ELSE IF (p.qty > 0) = (p.qty + delta > 0) THEN p.avg ELSE price

\* The average price of the position after the leg: a (re-)open and a flip
\* start at the fill price, an increase averages, a partial close keeps the
\* price and a full close drops it.
AverageAfter(p, delta, price) ==
    IF p.qty = 0 THEN price
    ELSE IF SameSign(p.qty, delta) THEN NewAverage(p, delta, price)
    ELSE IF p.qty + delta = 0 THEN 0
    ELSE IF (p.qty > 0) = (p.qty + delta > 0) THEN p.avg ELSE price

\* What the leg realizes on the part of the position it closes, in USD.
ClosingQty(p, delta) == IF Abs(p.qty) < Abs(delta) THEN Abs(p.qty) ELSE Abs(delta)

\* Mutant: realized PnL in points.
RealizedDeltaInPoints(c, p, delta, price) ==
    IF p.qty = 0 \/ SameSign(p.qty, delta) THEN 0
    ELSE (IF p.qty > 0 THEN price - p.avg ELSE p.avg - price) * ClosingQty(p, delta)

RealizedDelta(c, p, delta, price) ==
    IF p.qty = 0 \/ SameSign(p.qty, delta) THEN 0
    ELSE (IF p.qty > 0 THEN price - p.avg ELSE p.avg - price)
            * ClosingQty(p, delta) * Mult[c]

\* The bet ends when the leg closes it to flat (unless a roll carries it on)
\* or flips its sign.
BetEnds(p, delta, isRoll) ==
    /\ p.qty # 0
    /\ ~SameSign(p.qty, delta)
    /\ ~SameSign(p.qty, p.qty + delta)
    /\ p.qty + delta = 0 => ~isRoll

\* _apply_fill_to_position up to the construction of the new Position: the PnL
\* totals and the trade ledger.
Realize(b, c, delta, price, isRoll) ==
    LET p == b.pos[c]
        gain == RealizedDelta(c, p, delta, price)
        ends == BetEnds(p, delta, isRoll)
    IN  [pos      |-> b.pos,
         realized |-> b.realized + gain,
         trades   |-> IF ends THEN Append(b.trades, b.tally[c] + gain) ELSE b.trades,
         tally    |-> [b.tally EXCEPT ![c] = IF ends THEN 0 ELSE @ + gain]]

\* The new Position itself.
PositionAfter(b, c, delta, price) ==
    LET p == b.pos[c]
    IN  [qty      |-> p.qty + delta,
         avg      |-> AverageAfter(p, delta, price),
         realized |-> p.realized + RealizedDelta(c, p, delta, price)]

ApplyLeg(b, c, delta, price, isRoll) ==
    LET r == Realize(b, c, delta, price, isRoll)
    IN  [pos      |-> [b.pos EXCEPT ![c] = PositionAfter(b, c, delta, price)],
         realized |-> r.realized,
         trades   |-> r.trades,
         tally    |-> r.tally]

\* multiplier_for raises for an unconfigured root, before anything is changed.
Unpriced(b, c, delta) ==
    /\ c \notin Configured
    /\ b.pos[c].qty # 0
    /\ ~SameSign(b.pos[c].qty, delta)

\* Position.__post_init__ refuses a nonzero quantity at a price that is not
\* positive, after the PnL totals were changed.
Refused(b, c, delta, price) ==
    LET p == PositionAfter(b, c, delta, price) IN p.qty # 0 /\ p.avg <= 0

\* What is left of the book when a leg raises.
Aborted(b, c, delta, price, isRoll) ==
    IF Unpriced(b, c, delta) THEN b ELSE Realize(b, c, delta, price, isRoll)

\* Model bound: the weighted average lands on an integer price.
Exact(b, c, delta, price) ==
    LET p == b.pos[c]
    IN  p.qty # 0 /\ SameSign(p.qty, delta) =>
            NewAverage(p, delta, price) * Abs(p.qty + delta) = Notional(p, delta, price)

-----------------------------------------------------------------------------
(* Orders and events.  Of an OrderEvent the model keeps the id, the type and *)
(* the two running quantities; client id, timestamp, price and payload hash  *)
(* are copied through and decide nothing.                                    *)

Event(id, type, cum, rem) == [id |-> id, type |-> type, cum |-> cum, rem |-> rem]

NonNeg(n) == IF n < 0 THEN 0 ELSE n

Emit(es) ==
    /\ Len(events) + Len(es) <= MaxEvents
    /\ events' = events \o es

Idle == cursor = 0

Init ==
    /\ orders = <<>>
    /\ cancelled = {}
    /\ filled = <<>>
    /\ events = <<>>
    /\ book = EmptyBook
    /\ bar \in Bars
    /\ cursor = 0

\* place_order: an unsupported type raises and changes nothing.
PlaceOrder(o) ==
    LET id == Len(orders) + 1
    IN  /\ Idle
        /\ o.type \in Supported
        /\ Len(orders) < MaxOrders
        /\ orders' = Append(orders, o)
        /\ filled' = Append(filled, 0)
        /\ Emit(<<Event(id, "submitted", 0, o.qty), Event(id, "ack", 0, o.qty)>>)
        /\ UNCHANGED <<cancelled, book, bar, cursor>>

\* cancel_order: refused for an unknown or a cancelled id, and for no other.
CancelOrder(id) ==
    /\ Idle
    /\ id \notin cancelled
    /\ cancelled' = cancelled \cup {id}
    /\ Emit(<<Event(id, "cancelled", filled[id], NonNeg(orders[id].qty - filled[id]))>>)
    /\ UNCHANGED <<orders, filled, book, bar, cursor>>

\* The Order that modify_order puts in the place of the old one: a new total
\* quantity, a new limit or stop price, or both.
Modified(o, qty, price) ==
    [contract |-> o.contract, side |-> o.side, qty |-> qty, type |-> o.type, price |-> price]

\* Mutant: the event of a modification reports the new quantity as remaining.
ModifyOrderRestates(id, qty, price) ==
    /\ Idle
    /\ id \notin cancelled
    /\ orders' = [orders EXCEPT ![id] = Modified(@, qty, price)]
    /\ Emit(<<Event(id, "modified", filled[id], qty)>>)
    /\ UNCHANGED <<cancelled, filled, book, bar, cursor>>

\* modify_order: refused for an unknown or a cancelled id, and for no other.
ModifyOrder(id, qty, price) ==
    /\ Idle
    /\ id \notin cancelled
    /\ orders' = [orders EXCEPT ![id] = Modified(@, qty, price)]
    /\ Emit(<<Event(id, "modified", filled[id], NonNeg(qty - filled[id]))>>)
    /\ UNCHANGED <<cancelled, filled, book, bar, cursor>>

\* Mutant: fill_order does not look at _cancelled.
CanFillCancelled(id, qty) == qty \in 1 .. (orders[id].qty - filled[id])

\* The checks at the top of fill_order.
CanFill(id, qty) ==
    /\ id \notin cancelled
    /\ qty \in 1 .. (orders[id].qty - filled[id])

\* fill_order past its checks: _filled_qty first, then the position, then the
\* event.
Fill(id, qty, price) ==
    LET o == orders[id]
        delta == Signed(o.side, qty)
        cum == filled[id] + qty
        rem == o.qty - cum
    IN  /\ CanFill(id, qty)
        /\ ~Unpriced(book, o.contract, delta)
        /\ Exact(book, o.contract, delta, price)
        /\ filled' = [filled EXCEPT ![id] = cum]
        /\ book' = ApplyLeg(book, o.contract, delta, price, FALSE)
        /\ Emit(<<Event(id, IF rem = 0 THEN "filled" ELSE "partial_fill", cum, rem)>>)
        /\ UNCHANGED <<orders, cancelled>>

\* The same call when the contract's root has no multiplier: the exception
\* leaves _filled_qty changed and nothing else.
FillRaises(id, qty) ==
    /\ CanFill(id, qty)
    /\ Unpriced(book, orders[id].contract, Signed(orders[id].side, qty))
    /\ filled' = [filled EXCEPT ![id] = @ + qty]
    /\ UNCHANGED <<orders, cancelled, book, events>>

\* fill_order called directly (injected fill).
FillOrder(id, qty, price) ==
    /\ Idle
    /\ price > 0
    /\ Fill(id, qty, price) \/ FillRaises(id, qty)
    /\ UNCHANGED <<bar, cursor>>

-----------------------------------------------------------------------------
(* advance(bar): fill what the bar fills, in submission order.               *)

\* _backtest_fill_price: the orders the bar fills, and the price before slippage.
Crosses(o, b) ==
    \/ o.type = "MKT"
    \/ o.type = "LMT" /\ (IF o.side = "BUY" THEN b.low <= o.price ELSE b.high >= o.price)
    \/ o.type = "STP" /\ (IF o.side = "BUY" THEN b.high >= o.price ELSE b.low <= o.price)
IntendedPrice(o, b) == IF o.type = "MKT" THEN b.open ELSE o.price

\* The slippage model moves the price against MKT and STP orders only.
ExecutedPrice(o, b) ==
    IF o.type = "LMT" THEN o.price
    ELSE IntendedPrice(o, b) + Signed(o.side, Slippage)

\* The order at the cursor is filled by the bar.
Hit(id) ==
    /\ id \notin cancelled
    /\ orders[id].contract = bar.contract
    /\ filled[id] < orders[id].qty
    /\ Crosses(orders[id], bar)

\* apply_slippage and fill_order both refuse a price that is not positive, and
\* tick_size_for a contract whose root is not configured (the tick sizes and the
\* multipliers list the same roots).
BadPrice(id) ==
    \/ IntendedPrice(orders[id], bar) <= 0
    \/ ExecutedPrice(orders[id], bar) <= 0
    \/ Slippage > 0 /\ orders[id].type # "LMT" /\ orders[id].contract \notin Configured

AdvanceStart(b) ==
    /\ Idle
    /\ orders # <<>>
    /\ Len(events) + Len(orders) <= MaxEvents
    /\ bar' = b
    /\ cursor' = 1
    /\ UNCHANGED <<orders, cancelled, filled, events, book>>

\* Mutant: the loop stops one order early.
NextCursorShort == IF cursor + 1 >= Len(orders) THEN 0 ELSE cursor + 1

NextCursor == IF cursor = Len(orders) THEN 0 ELSE cursor + 1

AdvanceSkip ==
    /\ ~Idle
    /\ ~Hit(cursor)
    /\ cursor' = NextCursor
    /\ UNCHANGED <<orders, cancelled, filled, events, book, bar>>

AdvanceFill ==
    /\ ~Idle
    /\ Hit(cursor)
    /\ ~BadPrice(cursor)
    /\ Fill(cursor, orders[cursor].qty - filled[cursor], ExecutedPrice(orders[cursor], bar))
    /\ cursor' = NextCursor
    /\ UNCHANGED bar

\* An exception leaves the loop: later orders are not looked at.
AdvanceRaises ==
    /\ ~Idle
    /\ Hit(cursor)
    /\ \/ BadPrice(cursor) /\ UNCHANGED <<orders, cancelled, filled, events, book>>
       \/ ~BadPrice(cursor) /\ FillRaises(cursor, orders[cursor].qty - filled[cursor])
    /\ cursor' = 0
    /\ UNCHANGED bar

-----------------------------------------------------------------------------
(* roll_position(front, back, front_fill, back_fill)                         *)

\* The book after the front leg.
FrontClosed(front, frontFill) ==
    ApplyLeg(book, front, -book.pos[front].qty, frontFill, TRUE)

\* Mutant: the front leg's tally is dropped with the front contract.
CarryNothing(b, front, back) == [b EXCEPT !.tally[front] = 0]

\* The front leg's tally moves to the back contract.
Carry(b, front, back) ==
    [pos      |-> b.pos,
     realized |-> b.realized,
     trades   |-> b.trades,
     tally    |-> [b.tally EXCEPT ![front] = 0, ![back] = @ + b.tally[front]]]

\* A flat front returns 0; a front with no multiplier raises: neither changes
\* anything.
RollOpens(front) ==
    /\ Idle
    /\ book.pos[front].qty # 0
    /\ ~Unpriced(book, front, -book.pos[front].qty)

RollPosition(front, back, frontFill, backFill) ==
    LET qty == book.pos[front].qty
        closed == FrontClosed(front, frontFill)
    IN  /\ RollOpens(front)
        /\ ~Unpriced(closed, back, qty)
        /\ ~Refused(closed, back, qty, backFill)
        /\ Exact(closed, back, qty, backFill)
        /\ book' = Carry(ApplyLeg(closed, back, qty, backFill, TRUE), front, back)
        /\ UNCHANGED <<orders, cancelled, filled, events, bar, cursor>>

\* The back leg raises after the front leg was applied.
RollRaises(front, back, frontFill, backFill) ==
    LET qty == book.pos[front].qty
        closed == FrontClosed(front, frontFill)
    IN  /\ RollOpens(front)
        /\ Unpriced(closed, back, qty) \/ Refused(closed, back, qty, backFill)
        /\ book' = Aborted(closed, back, qty, backFill, TRUE)
        /\ UNCHANGED <<orders, cancelled, filled, events, bar, cursor>>

Reset ==
    /\ Idle
    /\ orders' = <<>>
    /\ cancelled' = {}
    /\ filled' = <<>>
    /\ events' = <<>>
    /\ book' = EmptyBook
    /\ UNCHANGED <<bar, cursor>>

Ids == DOMAIN orders

Next ==
    \/ \E o \in Orders : PlaceOrder(o)
    \/ \E id \in Ids : CancelOrder(id)
    \/ \E id \in Ids, qty \in Quantities :
          \E price \in PricesFor(orders[id].type) : ModifyOrder(id, qty, price)
    \/ \E id \in Ids, price \in Prices :
          \E qty \in 1 .. orders[id].qty : FillOrder(id, qty, price)
    \/ \E b \in Bars : AdvanceStart(b)
    \/ AdvanceSkip
    \/ AdvanceFill
    \/ AdvanceRaises
    \/ \E pair \in RollPairs, ff, bf \in RollFills :
          RollPosition(pair[1], pair[2], ff, bf) \/ RollRaises(pair[1], pair[2], ff, bf)
    \/ Reset

Spec == Init /\ [][Next]_vars

-----------------------------------------------------------------------------
(* Properties                                                                *)

Positions == [qty : Int, avg : Int, realized : Int]
EventTypes == {"submitted", "ack", "partial_fill", "filled", "cancelled", "modified"}

\* Every variable keeps the shape the class gives it; the ids of orders, fills,
\* cancellations, events and the cursor of advance() all name placed orders.
TypeOK ==
    /\ orders \in Seq(Orders)
    /\ filled \in Seq(Nat) /\ Len(filled) = Len(orders)
    /\ cancelled \subseteq Ids
    /\ events \in Seq([id : Nat \ {0}, type : EventTypes, cum : Nat, rem : Nat])
    /\ \A k \in DOMAIN events : events[k].id \in Ids
    /\ book \in [pos : [Contracts -> Positions], realized : Int,
                 trades : Seq(Int), tally : [Contracts -> Int]]
    /\ bar \in Bars
    /\ cursor \in 0 .. Len(orders)

\* An open position has a positive average entry price and a flat slot has
\* none: no sequence of fills, flips, closes, re-opens and rolls reaches a
\* Position that Position.__post_init__ would refuse, nor one that a re-open
\* would average against the price of an earlier bet.
PositionPriced ==
    \A c \in Contracts :
        IF book.pos[c].qty = 0 THEN book.pos[c].avg = 0 ELSE book.pos[c].avg > 0

\* The event stream is the sole source of truth for order state: the last event
\* of every order carries its cumulative fill and its remaining quantity,
\* whatever mixture of partial fills, advances, modifications and cancellations
\* came before.
EventsTellBook ==
    /\ \A id \in Ids : \E k \in DOMAIN events : events[k].id = id
    /\ \A k \in DOMAIN events :
          (\A j \in DOMAIN events : j > k => events[j].id # events[k].id)
          => /\ events[k].cum = filled[events[k].id]
             /\ events[k].rem = NonNeg(orders[events[k].id].qty - filled[events[k].id])

\* After "cancelled" an order is never heard of again: neither advance(), nor
\* an injected fill, a modification or a second cancellation touches it.
CancelledIsLast ==
    \A j, k \in DOMAIN events :
        j < k /\ events[j].type = "cancelled" => events[k].id # events[j].id

\* The net quantity held over all contracts is the net of what the orders
\* filled: no fill is lost or applied twice, and a roll moves exposure between
\* contracts without creating or losing any.
NetIsFills ==
    SumFunction([c \in Contracts |-> book.pos[c].qty])
        = SumFunction([id \in Ids |-> Signed(orders[id].side, filled[id])])

\* The per-trade ledger explains the realized PnL of the account: what the
\* closed bets booked plus what the open bets have realized so far, through
\* partial closes, flips, rolls and legs that raised half way.
BetLedger ==
    SumFunction(book.trades) + SumFunction(book.tally) = book.realized

\* The positions explain it too: each slot keeps the PnL of every bet it held,
\* also when it is closed and re-opened.
PositionTotals ==
    SumFunction([c \in Contracts |-> book.pos[c].realized]) = book.realized

\* The prices a leg can be filled at.
LegPrices ==
    Prices
    \cup {p + s : p \in Prices \cup {b.open : b \in Bars}, s \in {Slippage, -Slippage}}

\* Marked at any price, weighted-average positions plus realized PnL are worth
\* what the cash paid and received for the legs says: multipliers, flips,
\* partial closes and rolls included.
Account == INSTANCE CashAccount WITH
    LegPrices <- LegPrices,
    RollFills <- RollFills,
    net <- [c \in Contracts |-> book.pos[c].qty],
    cash <- [c \in Contracts |->
                book.pos[c].realized - book.pos[c].qty * book.pos[c].avg * Mult[c]]

CashAccounting == Account!Spec
=============================================================================
