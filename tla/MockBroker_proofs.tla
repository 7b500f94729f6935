------------------------- MODULE MockBroker_proofs -------------------------
(***************************************************************************)
(* Theorems about MockBroker, for every set of contracts, prices, bars and *)
(* every bound.                                                            *)
(***************************************************************************)
EXTENDS MockBroker, SumTheorems, TLAPS

Books == [pos : [Contracts -> Positions], realized : Int,
          trades : Seq(Int), tally : [Contracts -> Int]]

\* The parts of a leg are integers.
LEMMA LegTypes ==
    ASSUME NEW p \in Positions, NEW c \in Contracts,
           NEW delta \in Int, NEW price \in Int
    PROVE  /\ RealizedDelta(c, p, delta, price) \in Int
           /\ AverageAfter(p, delta, price) \in Int
<1>1. /\ p.qty \in Int /\ p.avg \in Int /\ p.realized \in Int
      /\ Mult[c] \in Int
  BY ConstantsAssumption DEF Positions
<1>2. ClosingQty(p, delta) \in Int
  BY <1>1 DEF ClosingQty, Abs
<1>3. RealizedDelta(c, p, delta, price) \in Int
  <2>1. (IF p.qty > 0 THEN price - p.avg ELSE p.avg - price) \in Int
    BY <1>1
  <2>2. (IF p.qty > 0 THEN price - p.avg ELSE p.avg - price) * ClosingQty(p, delta) \in Int
    BY <1>2, <2>1
  <2>3. ((IF p.qty > 0 THEN price - p.avg ELSE p.avg - price) * ClosingQty(p, delta))
            * Mult[c] \in Int
    BY <1>1, <2>2
  <2> QED
    BY <2>3 DEF RealizedDelta
<1>4. SameSign(p.qty, delta) => NewAverage(p, delta, price) \in Int
  <2> SUFFICES ASSUME SameSign(p.qty, delta) PROVE NewAverage(p, delta, price) \in Int
    OBVIOUS
  <2>1. Abs(p.qty + delta) \in Nat \ {0}
    BY <1>1 DEF SameSign, Abs
  <2>2. Notional(p, delta, price) \in Int
    BY <1>1 DEF Notional, Abs
  <2> QED
    BY <2>1, <2>2 DEF NewAverage
<1>5. AverageAfter(p, delta, price) \in Int
  BY <1>1, <1>4 DEF AverageAfter
<1> QED
  BY <1>3, <1>5

\* The book keeps its shape through a leg, a leg that raises, and a roll's carry.
LEMMA BookTypes ==
    ASSUME NEW b \in Books, NEW c \in Contracts, NEW d \in Contracts,
           NEW delta \in Int, NEW price \in Int, NEW isRoll \in BOOLEAN
    PROVE  /\ Realize(b, c, delta, price, isRoll) \in Books
           /\ ApplyLeg(b, c, delta, price, isRoll) \in Books
           /\ Aborted(b, c, delta, price, isRoll) \in Books
           /\ Carry(b, c, d) \in Books
<1>1. b.pos[c] \in Positions /\ b.pos[c].realized \in Int /\ b.pos[c].qty \in Int
  BY DEF Books, Positions
<1> DEFINE gain == RealizedDelta(c, b.pos[c], delta, price)
           avg == AverageAfter(b.pos[c], delta, price)
<1>2. gain \in Int /\ avg \in Int
  BY <1>1, LegTypes
<1> HIDE DEF gain, avg
<1>3. Realize(b, c, delta, price, isRoll) \in Books
  <2> DEFINE ends == BetEnds(b.pos[c], delta, isRoll)
             r == [pos |-> b.pos,
                   realized |-> b.realized + gain,
                   trades |-> IF ends THEN Append(b.trades, b.tally[c] + gain) ELSE b.trades,
                   tally |-> [b.tally EXCEPT ![c] = IF ends THEN 0 ELSE @ + gain]]
  <2>1. r = Realize(b, c, delta, price, isRoll)
    BY DEF Realize, gain
  <2> HIDE DEF ends
  <2>2. b.tally[c] + gain \in Int
    BY <1>2 DEF Books
  <2>3. r \in Books
    BY <1>2, <2>2 DEF Books
  <2> QED
    BY <2>1, <2>3
<1>4. PositionAfter(b, c, delta, price) \in Positions
  <2>1. PositionAfter(b, c, delta, price)
          = [qty |-> b.pos[c].qty + delta, avg |-> avg, realized |-> b.pos[c].realized + gain]
    BY DEF PositionAfter, gain, avg
  <2> QED
    BY <1>1, <1>2, <2>1 DEF Positions
<1>5. ApplyLeg(b, c, delta, price, isRoll) \in Books
  BY <1>3, <1>4 DEF ApplyLeg, Books
<1>6. Aborted(b, c, delta, price, isRoll) \in Books
  BY <1>3 DEF Aborted
<1>7. Carry(b, c, d) \in Books
  BY DEF Carry, Books
<1> QED
  BY <1>3, <1>5, <1>6, <1>7

\* What Emit appends, in the two shapes the operations use.
LEMMA EmitOne ==
    ASSUME NEW S, events \in Seq(S), NEW e \in S, Emit(<<e>>)
    PROVE  /\ events' \in Seq(S)
           /\ Len(events') = Len(events) + 1
           /\ \A k \in DOMAIN events : events'[k] = events[k]
           /\ events'[Len(events) + 1] = e
           /\ DOMAIN events = 1 .. Len(events)
           /\ DOMAIN events' = 1 .. Len(events) + 1
BY DEF Emit

LEMMA EmitTwo ==
    ASSUME NEW S, events \in Seq(S), NEW e \in S, NEW f \in S, Emit(<<e, f>>)
    PROVE  /\ events' \in Seq(S)
           /\ Len(events') = Len(events) + 2
           /\ \A k \in DOMAIN events : events'[k] = events[k]
           /\ events'[Len(events) + 1] = e
           /\ events'[Len(events) + 2] = f
           /\ DOMAIN events = 1 .. Len(events)
           /\ DOMAIN events' = 1 .. Len(events) + 2
BY DEF Emit

\* Updating one place of a sequence.
LEMMA SeqUpdate ==
    ASSUME NEW S, NEW s \in Seq(S), NEW i \in DOMAIN s, NEW v \in S
    PROVE  /\ [s EXCEPT ![i] = v] \in Seq(S)
           /\ Len([s EXCEPT ![i] = v]) = Len(s)
OBVIOUS

Events == [id : Nat \ {0}, type : EventTypes, cum : Nat, rem : Nat]

\* The part of TypeOK that concerns orders and their events.
OrdersTyped ==
    /\ orders \in Seq(Orders)
    /\ filled \in Seq(Nat) /\ Len(filled) = Len(orders)
    /\ cancelled \subseteq Ids
    /\ events \in Seq(Events)
    /\ \A k \in DOMAIN events : events[k].id \in Ids

\* Facts about one order that follow from OrdersTyped.
LEMMA OneOrder ==
    ASSUME OrdersTyped, NEW id \in Ids
    PROVE  /\ Ids = 1 .. Len(orders) /\ Len(orders) \in Nat
           /\ DOMAIN filled = Ids
           /\ id \in Nat \ {0}
           /\ orders[id] \in Orders
           /\ orders[id].contract \in Contracts
           /\ orders[id].side \in Sides
           /\ orders[id].qty \in Nat \ {0}
           /\ orders[id].type \in OrderTypes
           /\ orders[id].price \in Int
           /\ filled[id] \in Nat
<1>1. orders \in Seq(Orders) /\ filled \in Seq(Nat) /\ Len(filled) = Len(orders)
  BY DEF OrdersTyped
<1>2. /\ Ids = 1 .. Len(orders) /\ Len(orders) \in Nat
      /\ DOMAIN filled = Ids
      /\ id \in Nat \ {0}
  BY <1>1 DEF Ids
<1>3. orders[id] \in Orders /\ filled[id] \in Nat
  BY <1>1, <1>2
<1>4. /\ orders[id].contract \in Contracts
      /\ orders[id].side \in Sides
      /\ orders[id].qty \in Quantities
      /\ orders[id].type \in OrderTypes
      /\ orders[id].price \in Prices \cup {0}
  BY <1>3 DEF Orders
<1>5. Quantities \subseteq Nat \ {0} /\ Prices \subseteq Int
  BY ConstantsAssumption
<1>6. orders[id].qty \in Nat \ {0}
  BY <1>4, <1>5
<1>7. orders[id].price \in Int
  <2>1. orders[id].price \in Prices \/ orders[id].price = 0
    BY <1>4
  <2>2. CASE orders[id].price \in Prices
    BY <1>5, <2>2
  <2>3. CASE orders[id].price = 0
    BY <2>3
  <2> QED
    BY <2>1, <2>2, <2>3
<1> QED
  BY <1>2, <1>3, <1>4, <1>6, <1>7

\* A single event about a known order keeps the stream well typed.
LEMMA EmitKeepsTyped ==
    ASSUME OrdersTyped, NEW id \in Ids, NEW type \in EventTypes, NEW cum \in Nat,
           NEW rem \in Nat, Emit(<<Event(id, type, cum, rem)>>), Ids' = Ids
    PROVE  /\ events' \in Seq(Events)
           /\ \A k \in DOMAIN events' : events'[k].id \in Ids'
<1> DEFINE e == Event(id, type, cum, rem)
<1>1. e \in Events /\ e.id = id
  BY OneOrder DEF Events, Event
<1>2. events \in Seq(Events)
  BY DEF OrdersTyped
<1> HIDE DEF e
<1>3. Emit(<<e>>)
  BY DEF e
<1>4. /\ events' \in Seq(Events)
      /\ \A k \in DOMAIN events : events'[k] = events[k]
      /\ events'[Len(events) + 1] = e
      /\ DOMAIN events = 1 .. Len(events)
      /\ DOMAIN events' = 1 .. Len(events) + 1
  BY <1>1, <1>2, <1>3, EmitOne
<1>5. Len(events) \in Nat
  BY <1>2
<1>6. ASSUME NEW k \in DOMAIN events' PROVE events'[k].id \in Ids'
  <2>1. CASE k \in DOMAIN events
    BY <2>1, <1>4 DEF OrdersTyped
  <2>2. CASE k = Len(events) + 1
    BY <2>2, <1>1, <1>4
  <2> QED
    BY <1>4, <1>5, <2>1, <2>2
<1> QED
  BY <1>4, <1>6

LEMMA FillTyped ==
    ASSUME OrdersTyped, book \in Books, NEW id \in Ids, NEW qty \in Int, NEW price \in Int,
           Fill(id, qty, price)
    PROVE  OrdersTyped' /\ book' \in Books /\ Len(orders') = Len(orders)
<1>1. /\ orders[id].contract \in Contracts /\ orders[id].qty \in Nat \ {0}
      /\ filled[id] \in Nat /\ DOMAIN filled = Ids /\ filled \in Seq(Nat)
  BY OneOrder DEF OrdersTyped
<1>2. /\ qty \in Nat \ {0} /\ filled[id] + qty \in Nat
      /\ orders[id].qty - (filled[id] + qty) \in Nat
  <2>1. qty \in 1 .. (orders[id].qty - filled[id])
    BY DEF Fill, CanFill
  <2> QED
    BY <1>1, <2>1
<1>3. Signed(orders[id].side, qty) \in Int
  BY DEF Signed
<1>4. book' \in Books
  BY <1>1, <1>3, BookTypes DEF Fill
<1>5. orders' = orders /\ cancelled' = cancelled /\ Ids' = Ids
  BY DEF Fill, Ids
<1>6. filled' \in Seq(Nat) /\ Len(filled') = Len(filled)
  BY <1>1, <1>2, SeqUpdate DEF Fill
<1>7. /\ events' \in Seq(Events)
      /\ \A k \in DOMAIN events' : events'[k].id \in Ids'
  <2> DEFINE cum == filled[id] + qty
             rem == orders[id].qty - cum
             type == IF rem = 0 THEN "filled" ELSE "partial_fill"
  <2>1. Emit(<<Event(id, type, cum, rem)>>)
    BY DEF Fill
  <2>2. cum \in Nat /\ rem \in Nat /\ type \in EventTypes
    BY <1>2 DEF EventTypes
  <2> QED
    BY <2>1, <2>2, <1>5, EmitKeepsTyped
<1> QED
  BY <1>4, <1>5, <1>6, <1>7 DEF OrdersTyped

LEMMA FillRaisesTyped ==
    ASSUME OrdersTyped, NEW id \in Ids, NEW qty \in Int, FillRaises(id, qty)
    PROVE  OrdersTyped' /\ Len(orders') = Len(orders)
<1>1. /\ qty \in Nat /\ filled[id] + qty \in Nat
      /\ filled \in Seq(Nat) /\ id \in DOMAIN filled
  BY OneOrder DEF FillRaises, CanFill, OrdersTyped
<1>2. filled' \in Seq(Nat) /\ Len(filled') = Len(filled)
  BY <1>1, SeqUpdate DEF FillRaises
<1> QED
  BY <1>2 DEF OrdersTyped, FillRaises, Ids

\* TypeOK, in the two halves the lemmas above speak of.
LEMMA TypeOKSplit ==
    TypeOK <=> /\ OrdersTyped
               /\ book \in Books
               /\ bar \in Bars
               /\ cursor \in 0 .. Len(orders)
BY DEF TypeOK, OrdersTyped, Books, Events

LEMMA TypeOKInit == Init => TypeOK
<1> SUFFICES ASSUME Init PROVE TypeOK
  OBVIOUS
<1>1. OrdersTyped
  BY DEF Init, OrdersTyped, Ids
<1>2. book \in Books
  <2>1. FlatPosition \in Positions
    BY DEF FlatPosition, Positions
  <2> QED
    BY <2>1 DEF Init, EmptyBook, Books
<1>3. bar \in Bars /\ cursor \in 0 .. Len(orders)
  BY DEF Init
<1> QED
  BY <1>1, <1>2, <1>3, TypeOKSplit

\* The prices at which legs are filled are integers.
LEMMA PriceTypes ==
    ASSUME OrdersTyped, bar \in Bars, NEW id \in Ids
    PROVE  ExecutedPrice(orders[id], bar) \in Int
<1>1. bar.open \in Int /\ Slippage \in Int
  BY ConstantsAssumption
<1>2. orders[id].price \in Int
  BY OneOrder
<1>3. Signed(orders[id].side, Slippage) \in Int
  BY <1>1 DEF Signed
<1> QED
  BY <1>1, <1>2, <1>3 DEF ExecutedPrice, IntendedPrice

LEMMA PlaceOrderTyped ==
    ASSUME OrdersTyped, cursor \in 0 .. Len(orders), NEW o \in Orders, PlaceOrder(o)
    PROVE  OrdersTyped' /\ cursor' \in 0 .. Len(orders')
<1> DEFINE id == Len(orders) + 1
           e == Event(id, "submitted", 0, o.qty)
           f == Event(id, "ack", 0, o.qty)
<1>1. o.qty \in Nat
  BY ConstantsAssumption DEF Orders
<1>2. /\ orders \in Seq(Orders) /\ filled \in Seq(Nat) /\ events \in Seq(Events)
      /\ Len(filled) = Len(orders) /\ Len(orders) \in Nat
  BY DEF OrdersTyped
<1>3. /\ orders' \in Seq(Orders) /\ filled' \in Seq(Nat)
      /\ Len(filled') = Len(orders') /\ Len(orders') = id
      /\ Ids' = 1 .. id /\ Ids = 1 .. Len(orders)
  BY <1>2 DEF PlaceOrder, Ids
<1>4. e \in Events /\ f \in Events /\ e.id = id /\ f.id = id
  BY <1>1, <1>2 DEF Events, Event, EventTypes
<1>5. Emit(<<e, f>>)
  BY DEF PlaceOrder
<1> HIDE DEF e, f
<1>6. /\ events' \in Seq(Events)
      /\ \A k \in DOMAIN events : events'[k] = events[k]
      /\ events'[Len(events) + 1] = e
      /\ events'[Len(events) + 2] = f
      /\ DOMAIN events = 1 .. Len(events)
      /\ DOMAIN events' = 1 .. Len(events) + 2
  BY <1>2, <1>4, <1>5, EmitTwo
<1>7. ASSUME NEW k \in DOMAIN events' PROVE events'[k].id \in Ids'
  <2>1. CASE k \in DOMAIN events
    <3>1. events[k].id \in Ids
      BY <2>1 DEF OrdersTyped
    <3> QED
      BY <2>1, <3>1, <1>2, <1>3, <1>6
  <2>2. id \in Ids'
    BY <1>2, <1>3
  <2>3. CASE k = Len(events) + 1
    BY <2>2, <2>3, <1>4, <1>6
  <2>4. CASE k = Len(events) + 2
    BY <2>2, <2>4, <1>4, <1>6
  <2>5. Len(events) \in Nat
    BY <1>2
  <2> QED
    BY <1>6, <2>1, <2>3, <2>4, <2>5
<1>8. cancelled' \subseteq Ids' /\ cursor' \in 0 .. Len(orders')
  BY <1>2, <1>3 DEF PlaceOrder, OrdersTyped
<1> QED
  BY <1>3, <1>6, <1>7, <1>8 DEF OrdersTyped

LEMMA CancelOrderTyped ==
    ASSUME OrdersTyped, NEW id \in Ids, CancelOrder(id)
    PROVE  OrdersTyped'
<1>1. orders[id].qty \in Nat /\ filled[id] \in Nat
  BY OneOrder
<1>2. orders' = orders /\ filled' = filled /\ Ids' = Ids /\ cancelled' \subseteq Ids'
  BY DEF CancelOrder, Ids, OrdersTyped
<1>3. NonNeg(orders[id].qty - filled[id]) \in Nat
  BY <1>1 DEF NonNeg
<1>4. Emit(<<Event(id, "cancelled", filled[id], NonNeg(orders[id].qty - filled[id]))>>)
  BY DEF CancelOrder
<1>5. /\ events' \in Seq(Events)
      /\ \A k \in DOMAIN events' : events'[k].id \in Ids'
  BY <1>1, <1>2, <1>3, <1>4, EmitKeepsTyped DEF EventTypes
<1> QED
  BY <1>2, <1>5 DEF OrdersTyped

LEMMA ModifyOrderTyped ==
    ASSUME OrdersTyped, NEW id \in Ids, NEW qty \in Quantities,
           NEW price \in PricesFor(orders[id].type), ModifyOrder(id, qty, price)
    PROVE  OrdersTyped' /\ Len(orders') = Len(orders)
<1>1. /\ filled[id] \in Nat /\ qty \in Nat /\ orders \in Seq(Orders)
      /\ orders[id] \in Orders
  BY ConstantsAssumption, OneOrder DEF OrdersTyped
<1>2. Modified(orders[id], qty, price) \in Orders
  BY <1>1 DEF Modified, Orders, PricesFor
<1>3. orders' \in Seq(Orders) /\ Len(orders') = Len(orders) /\ Ids' = Ids
  BY <1>1, <1>2, SeqUpdate DEF ModifyOrder, Ids
<1>4. NonNeg(qty - filled[id]) \in Nat
  BY <1>1 DEF NonNeg
<1>5. Emit(<<Event(id, "modified", filled[id], NonNeg(qty - filled[id]))>>)
  BY DEF ModifyOrder
<1>6. /\ events' \in Seq(Events)
      /\ \A k \in DOMAIN events' : events'[k].id \in Ids'
  BY <1>1, <1>3, <1>4, <1>5, EmitKeepsTyped DEF EventTypes
<1> QED
  BY <1>3, <1>6 DEF OrdersTyped, ModifyOrder

\* A roll, complete or broken off, only moves the book.
LEMMA RollTyped ==
    ASSUME book \in Books, NEW pair \in RollPairs, NEW ff \in RollFills, NEW bf \in RollFills,
           \/ RollPosition(pair[1], pair[2], ff, bf)
           \/ RollRaises(pair[1], pair[2], ff, bf)
    PROVE  book' \in Books /\ UNCHANGED <<orders, cancelled, filled, events, bar, cursor>>
<1> DEFINE front == pair[1]
           back == pair[2]
           qty == book.pos[front].qty
           closed == FrontClosed(front, ff)
<1>1. /\ front \in Contracts /\ back \in Contracts
      /\ ff \in Int /\ bf \in Int
  BY ConstantsAssumption
<1>2. qty \in Int /\ -qty \in Int
  BY <1>1 DEF Books, Positions
<1>3. closed \in Books
  BY <1>1, <1>2, BookTypes DEF FrontClosed
<1>4. /\ ApplyLeg(closed, back, qty, bf, TRUE) \in Books
      /\ Aborted(closed, back, qty, bf, TRUE) \in Books
  BY <1>1, <1>2, <1>3, BookTypes
<1>5. Carry(ApplyLeg(closed, back, qty, bf, TRUE), front, back) \in Books
  BY <1>1, <1>2, <1>4, BookTypes
<1> QED
  BY <1>4, <1>5 DEF RollPosition, RollRaises

LEMMA TypeOKStep ==
    TypeOK /\ [Next]_vars => TypeOK'
<1> SUFFICES ASSUME TypeOK, [Next]_vars PROVE TypeOK'
  OBVIOUS
<1>0. /\ OrdersTyped /\ book \in Books /\ bar \in Bars
      /\ cursor \in 0 .. Len(orders) /\ Len(orders) \in Nat
  BY TypeOKSplit DEF OrdersTyped
<1> SUFFICES /\ OrdersTyped' /\ book' \in Books /\ bar' \in Bars
             /\ cursor' \in 0 .. Len(orders')
  BY TypeOKSplit DEF TypeOK, OrdersTyped, Books, Events, Ids
<1>1. ASSUME NEW o \in Orders, PlaceOrder(o)
      PROVE  /\ OrdersTyped' /\ book' \in Books /\ bar' \in Bars
             /\ cursor' \in 0 .. Len(orders')
  <2>1. book' = book /\ bar' = bar
    BY <1>1 DEF PlaceOrder
  <2> QED
    BY <1>0, <1>1, <2>1, PlaceOrderTyped
<1>2. ASSUME NEW id \in Ids, CancelOrder(id)
      PROVE  /\ OrdersTyped' /\ book' \in Books /\ bar' \in Bars
             /\ cursor' \in 0 .. Len(orders')
  <2>1. UNCHANGED <<orders, book, bar, cursor>>
    BY <1>2 DEF CancelOrder
  <2> QED
    BY <1>0, <1>2, <2>1, CancelOrderTyped
<1>3. ASSUME NEW id \in Ids, NEW qty \in Quantities,
             NEW price \in PricesFor(orders[id].type), ModifyOrder(id, qty, price)
      PROVE  /\ OrdersTyped' /\ book' \in Books /\ bar' \in Bars
             /\ cursor' \in 0 .. Len(orders')
  <2>1. UNCHANGED <<book, bar, cursor>>
    BY <1>3 DEF ModifyOrder
  <2> QED
    BY <1>0, <1>3, <2>1, ModifyOrderTyped
<1>4. ASSUME NEW id \in Ids, NEW price \in Prices, NEW qty \in 1 .. orders[id].qty,
             FillOrder(id, qty, price)
      PROVE  /\ OrdersTyped' /\ book' \in Books /\ bar' \in Bars
             /\ cursor' \in 0 .. Len(orders')
  <2>1. qty \in Int /\ price \in Int /\ UNCHANGED <<bar, cursor>>
    BY <1>4, ConstantsAssumption DEF FillOrder
  <2>2. CASE Fill(id, qty, price)
    BY <1>0, <2>1, <2>2, FillTyped
  <2>3. CASE FillRaises(id, qty)
    <3>1. book' = book
      BY <2>3 DEF FillRaises
    <3> QED
      BY <1>0, <2>1, <2>3, <3>1, FillRaisesTyped
  <2> QED
    BY <1>4, <2>2, <2>3 DEF FillOrder
<1>5. ASSUME NEW b \in Bars, AdvanceStart(b)
      PROVE  /\ OrdersTyped' /\ book' \in Books /\ bar' \in Bars
             /\ cursor' \in 0 .. Len(orders')
  <2>1. /\ UNCHANGED <<orders, cancelled, filled, events, book>>
        /\ bar' \in Bars /\ cursor' = 1 /\ orders # <<>>
    BY <1>5 DEF AdvanceStart
  <2>2. OrdersTyped' /\ Len(orders) # 0
    BY <1>0, <2>1 DEF OrdersTyped, Ids
  <2> QED
    BY <1>0, <2>1, <2>2
<1>6. ~Idle => /\ NextCursor \in 0 .. Len(orders)
               /\ cursor \in Ids
  BY <1>0 DEF Idle, NextCursor, Ids, OrdersTyped
<1>7. ASSUME AdvanceSkip
      PROVE  /\ OrdersTyped' /\ book' \in Books /\ bar' \in Bars
             /\ cursor' \in 0 .. Len(orders')
  BY <1>0, <1>6, <1>7 DEF AdvanceSkip, OrdersTyped, Ids
<1>8. ASSUME AdvanceFill
      PROVE  /\ OrdersTyped' /\ book' \in Books /\ bar' \in Bars
             /\ cursor' \in 0 .. Len(orders')
  <2> DEFINE rest == orders[cursor].qty - filled[cursor]
             price == ExecutedPrice(orders[cursor], bar)
  <2>1. /\ cursor \in Ids /\ NextCursor \in 0 .. Len(orders)
        /\ Fill(cursor, rest, price) /\ cursor' = NextCursor /\ bar' = bar
    BY <1>6, <1>8 DEF AdvanceFill
  <2>2. rest \in Int /\ price \in Int
    BY <1>0, <2>1, OneOrder, PriceTypes
  <2> HIDE DEF rest, price
  <2>3. OrdersTyped' /\ book' \in Books /\ Len(orders') = Len(orders)
    BY <1>0, <2>1, <2>2, FillTyped
  <2> QED
    BY <1>0, <2>1, <2>3
<1>9. ASSUME AdvanceRaises
      PROVE  /\ OrdersTyped' /\ book' \in Books /\ bar' \in Bars
             /\ cursor' \in 0 .. Len(orders')
  <2> DEFINE rest == orders[cursor].qty - filled[cursor]
  <2>1. cursor \in Ids /\ cursor' = 0 /\ bar' = bar
    BY <1>6, <1>9 DEF AdvanceRaises
  <2>2. rest \in Int
    BY <1>0, <2>1, OneOrder
  <2>3. CASE UNCHANGED <<orders, cancelled, filled, events, book>>
    BY <1>0, <2>1, <2>3 DEF OrdersTyped, Ids
  <2>4. CASE FillRaises(cursor, rest)
    <3>1. OrdersTyped' /\ Len(orders') = Len(orders)
      BY <1>0, <2>1, <2>2, <2>4, FillRaisesTyped
    <3> QED
      BY <1>0, <2>1, <2>4, <3>1 DEF FillRaises
  <2> QED
    BY <1>9, <2>3, <2>4 DEF AdvanceRaises
<1>10. ASSUME NEW pair \in RollPairs, NEW ff \in RollFills, NEW bf \in RollFills,
              \/ RollPosition(pair[1], pair[2], ff, bf)
              \/ RollRaises(pair[1], pair[2], ff, bf)
       PROVE  /\ OrdersTyped' /\ book' \in Books /\ bar' \in Bars
              /\ cursor' \in 0 .. Len(orders')
  <2>1. book' \in Books /\ UNCHANGED <<orders, cancelled, filled, events, bar, cursor>>
    BY <1>0, <1>10, RollTyped
  <2> QED
    BY <1>0, <2>1 DEF OrdersTyped, Ids
<1>11. ASSUME Reset
       PROVE  /\ OrdersTyped' /\ book' \in Books /\ bar' \in Bars
              /\ cursor' \in 0 .. Len(orders')
  <2>1. FlatPosition \in Positions
    BY DEF FlatPosition, Positions
  <2>2. book' \in Books
    BY <1>11, <2>1 DEF Reset, EmptyBook, Books
  <2>3. OrdersTyped'
    BY <1>11 DEF Reset, OrdersTyped, Ids
  <2> QED
    BY <1>0, <1>11, <2>2, <2>3 DEF Reset, Idle
<1>12. ASSUME UNCHANGED vars
       PROVE  /\ OrdersTyped' /\ book' \in Books /\ bar' \in Bars
              /\ cursor' \in 0 .. Len(orders')
  BY <1>0, <1>12 DEF vars, OrdersTyped, Ids
<1> QED
  BY <1>1, <1>2, <1>3, <1>4, <1>5, <1>7, <1>8, <1>9, <1>10, <1>11, <1>12 DEF Next

\* No sequence of broker operations leaves the declared shapes: ids always name
\* placed orders, the per-id maps stay aligned, and every figure of the book is
\* a number (mock_broker.py, every method).
THEOREM TypeCorrect == Spec => []TypeOK
<1> QED
  BY TypeOKInit, TypeOKStep, PTL DEF Spec

-----------------------------------------------------------------------------
(* PositionPriced                                                            *)

Priced(p) == IF p.qty = 0 THEN p.avg = 0 ELSE p.avg > 0

\* The weighted average of two positive prices is positive.
LEMMA AveragePositive ==
    ASSUME NEW p \in Positions, NEW delta \in Int, NEW price \in Int,
           SameSign(p.qty, delta), p.avg > 0, price > 0
    PROVE  NewAverage(p, delta, price) > 0
<1> DEFINE q == Abs(p.qty)
           d == Abs(delta)
           n == Abs(p.qty + delta)
<1>1. p.qty \in Int /\ p.avg \in Int
  BY DEF Positions
<1>2. q \in Nat \ {0} /\ d \in Nat \ {0} /\ n = q + d
  BY <1>1 DEF SameSign, Abs
<1>3. \A x, y \in Int : x > 0 /\ y > 0 => x * y >= y
  OBVIOUS
<1> HIDE DEF q, d, n
<1>4. p.avg * q >= q /\ price * d >= d
  BY <1>1, <1>2, <1>3
<1>5. p.avg * q \in Int /\ price * d \in Int
  BY <1>1, <1>2
<1>6. Notional(p, delta, price) \in Int /\ Notional(p, delta, price) >= n /\ n > 0
  BY <1>2, <1>4, <1>5 DEF Notional, q, d
<1>7. \A x, y \in Int : y > 0 /\ x >= y => x \div y > 0
  OBVIOUS
<1> QED
  BY <1>2, <1>6, <1>7 DEF NewAverage, n

\* A leg at a positive price leaves a priced position priced; a leg that closes
\* it needs no positive price.
LEMMA PricedLeg ==
    ASSUME NEW p \in Positions, Priced(p), NEW delta \in Int, delta # 0, NEW price \in Int
    PROVE  /\ p.qty + delta = 0 => AverageAfter(p, delta, price) = 0
           /\ p.qty + delta # 0 /\ price > 0 => AverageAfter(p, delta, price) > 0
<1>1. p.qty \in Int /\ p.avg \in Int
  BY DEF Positions
<1>2. p.qty + delta = 0 => AverageAfter(p, delta, price) = 0
  BY <1>1 DEF AverageAfter, SameSign
<1>3. SameSign(p.qty, delta) /\ price > 0 => NewAverage(p, delta, price) > 0
  BY <1>1, AveragePositive DEF Priced, SameSign
<1>4. p.qty + delta # 0 /\ price > 0 => AverageAfter(p, delta, price) > 0
  BY <1>1, <1>3 DEF AverageAfter, Priced
<1> QED
  BY <1>2, <1>4

\* Applying a leg to the book, at a positive price or with a position that
\* __post_init__ accepts.
LEMMA PricedBook ==
    ASSUME NEW b \in Books, \A x \in Contracts : Priced(b.pos[x]),
           NEW c \in Contracts, NEW delta \in Int, delta # 0, NEW price \in Int,
           NEW isRoll \in BOOLEAN,
           price > 0 \/ ~Refused(b, c, delta, price)
    PROVE  \A x \in Contracts : Priced(ApplyLeg(b, c, delta, price, isRoll).pos[x])
<1> DEFINE p == b.pos[c]
           n == PositionAfter(b, c, delta, price)
<1>1. p \in Positions /\ Priced(p) /\ b.pos \in [Contracts -> Positions]
  BY DEF Books
<1>2. n.qty = p.qty + delta /\ n.avg = AverageAfter(p, delta, price)
  BY DEF PositionAfter
<1>3. n.avg \in Int
  BY <1>1, <1>2, LegTypes
<1>4. Priced(n)
  <2>1. n.qty = 0 => n.avg = 0
    BY <1>1, <1>2, PricedLeg
  <2>2. n.qty # 0 /\ price > 0 => n.avg > 0
    BY <1>1, <1>2, PricedLeg
  <2>3. n.qty # 0 /\ ~Refused(b, c, delta, price) => n.avg > 0
    BY <1>3 DEF Refused
  <2> QED
    BY <2>1, <2>2, <2>3 DEF Priced
<1>5. ApplyLeg(b, c, delta, price, isRoll).pos = [b.pos EXCEPT ![c] = n]
  BY DEF ApplyLeg
<1> HIDE DEF n
<1>6. ASSUME NEW x \in Contracts PROVE Priced([b.pos EXCEPT ![c] = n][x])
  BY <1>1, <1>4
<1> QED
  BY <1>5, <1>6

LEMMA PricedStep ==
    TypeOK /\ PositionPriced /\ [Next]_vars => PositionPriced'
<1> SUFFICES ASSUME TypeOK, PositionPriced, [Next]_vars
             PROVE  \A x \in Contracts : Priced(book'.pos[x])
  BY DEF PositionPriced, Priced
<1>0. /\ OrdersTyped /\ book \in Books /\ bar \in Bars
      /\ cursor \in 0 .. Len(orders) /\ Len(orders) \in Nat
      /\ \A x \in Contracts : Priced(book.pos[x])
  BY TypeOKSplit DEF OrdersTyped, PositionPriced, Priced
<1>1. ASSUME UNCHANGED book
      PROVE  \A x \in Contracts : Priced(book'.pos[x])
  BY <1>0, <1>1
<1>2. ASSUME NEW id \in Ids, NEW qty \in Int, NEW price \in Int, price > 0,
             Fill(id, qty, price)
      PROVE  \A x \in Contracts : Priced(book'.pos[x])
  <2>1. /\ orders[id].contract \in Contracts /\ orders[id].qty \in Nat
        /\ filled[id] \in Nat
    BY <1>0, OneOrder
  <2>2. qty \in 1 .. (orders[id].qty - filled[id])
    BY <1>2 DEF Fill, CanFill
  <2>3. Signed(orders[id].side, qty) \in Int /\ Signed(orders[id].side, qty) # 0
    BY <2>1, <2>2 DEF Signed
  <2>4. book' = ApplyLeg(book, orders[id].contract, Signed(orders[id].side, qty), price, FALSE)
    BY <1>2 DEF Fill
  <2> QED
    BY <1>0, <1>2, <2>1, <2>3, <2>4, PricedBook
<1>3. ASSUME NEW id \in Ids, NEW price \in Prices, NEW qty \in 1 .. orders[id].qty,
             FillOrder(id, qty, price)
      PROVE  \A x \in Contracts : Priced(book'.pos[x])
  <2>1. qty \in Int /\ price \in Int /\ price > 0
    BY <1>3, ConstantsAssumption DEF FillOrder
  <2> QED
    BY <1>1, <1>2, <1>3, <2>1 DEF FillOrder, FillRaises
<1>4. ASSUME AdvanceFill
      PROVE  \A x \in Contracts : Priced(book'.pos[x])
  <2>1. cursor \in Ids
    BY <1>0, <1>4 DEF AdvanceFill, Idle, Ids, OrdersTyped
  <2>2. /\ orders[cursor].qty - filled[cursor] \in Int
        /\ ExecutedPrice(orders[cursor], bar) \in Int
    BY <1>0, <2>1, OneOrder, PriceTypes
  <2>3. ExecutedPrice(orders[cursor], bar) > 0
    BY <1>4, <2>2 DEF AdvanceFill, BadPrice
  <2> QED
    BY <1>2, <1>4, <2>1, <2>2, <2>3 DEF AdvanceFill
<1>5. ASSUME NEW pair \in RollPairs, NEW ff \in RollFills, NEW bf \in RollFills,
             \/ RollPosition(pair[1], pair[2], ff, bf)
             \/ RollRaises(pair[1], pair[2], ff, bf)
      PROVE  \A x \in Contracts : Priced(book'.pos[x])
  <2> DEFINE front == pair[1]
             back == pair[2]
             qty == book.pos[front].qty
             closed == FrontClosed(front, ff)
  <2>1. /\ front \in Contracts /\ back \in Contracts /\ front # back
        /\ ff \in Int /\ bf \in Int
    BY ConstantsAssumption
  <2>2. qty \in Int /\ -qty \in Int /\ qty # 0 /\ -qty # 0
    <3>1. qty \in Int
      BY <1>0, <2>1 DEF Books, Positions
    <3>2. qty # 0
      BY <1>5 DEF RollPosition, RollRaises, RollOpens
    <3> QED
      BY <3>1, <3>2
  <2>3. ~Refused(book, front, -qty, ff)
    BY <2>2 DEF Refused, PositionAfter
  <2>4. closed \in Books
    BY <1>0, <2>1, <2>2, BookTypes DEF FrontClosed
  <2>5. \A x \in Contracts : Priced(closed.pos[x])
    BY <1>0, <2>1, <2>2, <2>3, PricedBook DEF FrontClosed
  <2> HIDE DEF closed
  <2>6. CASE RollPosition(front, back, ff, bf)
    <3>1. ~Refused(closed, back, qty, bf)
      BY <2>6 DEF RollPosition, closed
    <3>2. \A x \in Contracts : Priced(ApplyLeg(closed, back, qty, bf, TRUE).pos[x])
      BY <2>1, <2>2, <2>4, <2>5, <3>1, PricedBook
    <3>3. book'.pos = ApplyLeg(closed, back, qty, bf, TRUE).pos
      BY <2>6 DEF RollPosition, Carry, closed
    <3> QED
      BY <3>2, <3>3
  <2>7. CASE RollRaises(front, back, ff, bf)
    <3>1. book'.pos = closed.pos
      BY <2>7 DEF RollRaises, Aborted, Realize, closed
    <3> QED
      BY <2>5, <3>1
  <2> QED
    BY <1>5, <2>6, <2>7
<1>6. ASSUME Reset
      PROVE  \A x \in Contracts : Priced(book'.pos[x])
  BY <1>6 DEF Reset, EmptyBook, FlatPosition, Priced
<1> QED
  BY <1>1, <1>3, <1>4, <1>5, <1>6
     DEF Next, vars, PlaceOrder, CancelOrder, ModifyOrder, AdvanceStart, AdvanceSkip,
         AdvanceRaises, FillRaises

\* No fill, flip, close, re-open or roll, at any prices, zero and negative
\* settles included, ever stores a position that Position.__post_init__ refuses
\* (mock_broker.py, _apply_fill_to_position and roll_position).
THEOREM PositionsArePriced == Spec => []PositionPriced
<1>1. Init => PositionPriced
  BY DEF Init, EmptyBook, FlatPosition, PositionPriced
<1> QED
  BY <1>1, TypeCorrect, PricedStep, PTL DEF Spec

-----------------------------------------------------------------------------
(* The event stream: EventsTellBook and CancelledIsLast                      *)

\* A cancellation the stream reports is in _cancelled: with it CancelledIsLast
\* is inductive, since every later operation on the order asks _cancelled.
CancelledKnown ==
    \A k \in DOMAIN events : events[k].type = "cancelled" => events[k].id \in cancelled

\* One event about an order that is not cancelled keeps cancellations last.
LEMMA OneKeepsLast ==
    ASSUME OrdersTyped, CancelledKnown, CancelledIsLast,
           NEW id \in Ids, id \notin cancelled, NEW type \in EventTypes,
           NEW cum \in Nat, NEW rem \in Nat, Emit(<<Event(id, type, cum, rem)>>),
           cancelled \subseteq cancelled',
           type = "cancelled" => id \in cancelled'
    PROVE  CancelledKnown' /\ CancelledIsLast'
<1> DEFINE e == Event(id, type, cum, rem)
<1>1. e \in Events /\ e.id = id /\ e.type = type
  BY OneOrder DEF Events, Event
<1>2. events \in Seq(Events) /\ Len(events) \in Nat
  BY DEF OrdersTyped
<1>3. Emit(<<e>>)
  OBVIOUS
<1> HIDE DEF e
<1>4. /\ \A k \in DOMAIN events : events'[k] = events[k]
      /\ events'[Len(events) + 1] = e
      /\ DOMAIN events = 1 .. Len(events)
      /\ DOMAIN events' = 1 .. Len(events) + 1
  BY <1>1, <1>2, <1>3, EmitOne
<1>5. CancelledKnown'
  BY <1>1, <1>2, <1>4 DEF CancelledKnown
<1>6. CancelledIsLast'
  <2> SUFFICES ASSUME NEW j \in DOMAIN events', NEW k \in DOMAIN events', j < k,
                      events'[j].type = "cancelled"
               PROVE  events'[k].id # events'[j].id
    BY DEF CancelledIsLast
  <2>1. j \in DOMAIN events /\ events'[j] = events[j]
    BY <1>2, <1>4
  <2>2. CASE k \in DOMAIN events
    BY <1>4, <2>1, <2>2 DEF CancelledIsLast
  <2>3. CASE k = Len(events) + 1
    BY <1>1, <1>4, <2>1, <2>3 DEF CancelledKnown
  <2> QED
    BY <1>2, <1>4, <2>2, <2>3
<1> QED
  BY <1>5, <1>6

\* One event that carries the order's new quantities keeps the stream truthful.
LEMMA OneTells ==
    ASSUME OrdersTyped, EventsTellBook, NEW id \in Ids, NEW type \in EventTypes,
           NEW cum \in Nat, NEW rem \in Nat, Emit(<<Event(id, type, cum, rem)>>),
           Ids' = Ids,
           \A x \in Ids \ {id} : filled'[x] = filled[x] /\ orders'[x] = orders[x],
           cum = filled'[id], rem = NonNeg(orders'[id].qty - filled'[id])
    PROVE  EventsTellBook'
<1> DEFINE e == Event(id, type, cum, rem)
<1>1. e \in Events /\ e.id = id /\ e.cum = cum /\ e.rem = rem
  BY OneOrder DEF Events, Event
<1>2. events \in Seq(Events) /\ Len(events) \in Nat
  BY DEF OrdersTyped
<1>3. Emit(<<e>>)
  OBVIOUS
<1> HIDE DEF e
<1>4. /\ \A k \in DOMAIN events : events'[k] = events[k]
      /\ events'[Len(events) + 1] = e
      /\ DOMAIN events = 1 .. Len(events)
      /\ DOMAIN events' = 1 .. Len(events) + 1
  BY <1>1, <1>2, <1>3, EmitOne
<1>5. ASSUME NEW x \in Ids' PROVE \E k \in DOMAIN events' : events'[k].id = x
  <2>1. PICK k \in DOMAIN events : events[k].id = x
    BY DEF EventsTellBook
  <2>2. k \in DOMAIN events' /\ events'[k].id = x
    BY <1>2, <1>4, <2>1
  <2> QED
    BY <2>2
<1>6. ASSUME NEW k \in DOMAIN events',
             \A j \in DOMAIN events' : j > k => events'[j].id # events'[k].id
      PROVE  /\ events'[k].cum = filled'[events'[k].id]
             /\ events'[k].rem = NonNeg(orders'[events'[k].id].qty - filled'[events'[k].id])
  <2>1. CASE k = Len(events) + 1
    BY <1>1, <1>4, <2>1
  <2>2. CASE k \in DOMAIN events
    <3>1. events'[k] = events[k] /\ events[k].id # id
      BY <1>1, <1>2, <1>4, <1>6, <2>2
    <3>2. \A j \in DOMAIN events : j > k => events[j].id # events[k].id
      BY <1>2, <1>4, <1>6, <2>2
    <3>3. events[k].id \in Ids \ {id}
      BY <2>2, <3>1 DEF OrdersTyped
    <3>4. /\ events[k].cum = filled[events[k].id]
          /\ events[k].rem = NonNeg(orders[events[k].id].qty - filled[events[k].id])
      BY <2>2, <3>2 DEF EventsTellBook
    <3> QED
      BY <3>1, <3>3, <3>4
  <2> QED
    BY <1>2, <1>4, <2>1, <2>2
<1> QED
  BY <1>5, <1>6 DEF EventsTellBook

\* A placed order: two events about an id the stream has not seen.
LEMMA PlaceTells ==
    ASSUME OrdersTyped, NEW o \in Orders, PlaceOrder(o)
    PROVE  /\ EventsTellBook => EventsTellBook'
           /\ CancelledKnown /\ CancelledIsLast => CancelledKnown' /\ CancelledIsLast'
<1> DEFINE id == Len(orders) + 1
           e == Event(id, "submitted", 0, o.qty)
           f == Event(id, "ack", 0, o.qty)
<1>1. o.qty \in Nat
  BY ConstantsAssumption DEF Orders
<1>2. /\ orders \in Seq(Orders) /\ filled \in Seq(Nat) /\ events \in Seq(Events)
      /\ Len(filled) = Len(orders) /\ Len(orders) \in Nat /\ Len(events) \in Nat
  BY DEF OrdersTyped
<1>3. /\ Ids = 1 .. Len(orders) /\ Ids' = 1 .. id
      /\ filled'[id] = 0 /\ orders'[id] = o
      /\ \A x \in Ids : filled'[x] = filled[x] /\ orders'[x] = orders[x]
      /\ cancelled' = cancelled
  BY <1>2 DEF PlaceOrder, Ids
<1>4. /\ e \in Events /\ f \in Events /\ e.id = id /\ f.id = id
      /\ f.cum = 0 /\ f.rem = o.qty
      /\ e.type # "cancelled" /\ f.type # "cancelled"
  BY <1>1, <1>2 DEF Events, Event, EventTypes
<1>5. Emit(<<e, f>>)
  BY DEF PlaceOrder
<1>6. \A k \in DOMAIN events : events[k].id \in Ids /\ events[k].id # id
  BY <1>2, <1>3 DEF OrdersTyped
<1>7. NonNeg(o.qty - 0) = o.qty
  BY <1>1 DEF NonNeg
<1> HIDE DEF e, f
<1>8. /\ \A k \in DOMAIN events : events'[k] = events[k]
      /\ events'[Len(events) + 1] = e
      /\ events'[Len(events) + 2] = f
      /\ DOMAIN events = 1 .. Len(events)
      /\ DOMAIN events' = 1 .. Len(events) + 2
  BY <1>2, <1>4, <1>5, EmitTwo
<1> HIDE DEF id
<1>9. ASSUME EventsTellBook, NEW x \in Ids' PROVE \E k \in DOMAIN events' : events'[k].id = x
  <2>1. CASE x \in Ids
    <3>1. PICK k \in DOMAIN events : events[k].id = x
      BY <1>9, <2>1 DEF EventsTellBook
    <3> QED
      BY <1>2, <1>8, <3>1
  <2>2. CASE x = id
    BY <1>2, <1>4, <1>8, <2>2
  <2> QED
    BY <1>2, <1>3, <2>1, <2>2 DEF id
<1>10. ASSUME EventsTellBook, NEW k \in DOMAIN events',
              \A j \in DOMAIN events' : j > k => events'[j].id # events'[k].id
       PROVE  /\ events'[k].cum = filled'[events'[k].id]
              /\ events'[k].rem = NonNeg(orders'[events'[k].id].qty - filled'[events'[k].id])
  <2>1. k # Len(events) + 1
    <3>1. Len(events) + 2 \in DOMAIN events' /\ Len(events) + 2 > Len(events) + 1
      BY <1>2, <1>8
    <3>2. events'[Len(events) + 2].id = events'[Len(events) + 1].id
      BY <1>4, <1>8
    <3> QED
      BY <1>10, <3>1, <3>2
  <2>2. CASE k = Len(events) + 2
    BY <1>3, <1>4, <1>7, <1>8, <2>2
  <2>3. CASE k \in DOMAIN events
    <3>1. \A j \in DOMAIN events : j > k => events[j].id # events[k].id
      BY <1>2, <1>8, <1>10, <2>3
    <3>2. /\ events[k].cum = filled[events[k].id]
          /\ events[k].rem = NonNeg(orders[events[k].id].qty - filled[events[k].id])
      BY <1>10, <2>3, <3>1 DEF EventsTellBook
    <3> QED
      BY <1>3, <1>6, <1>8, <2>3, <3>2
  <2> QED
    BY <1>2, <1>8, <2>1, <2>2, <2>3
<1>11. ASSUME CancelledKnown, CancelledIsLast PROVE CancelledKnown' /\ CancelledIsLast'
  <2>1. CancelledKnown'
    BY <1>2, <1>3, <1>4, <1>8, <1>11 DEF CancelledKnown
  <2>2. ASSUME NEW j \in DOMAIN events', NEW k \in DOMAIN events', j < k,
               events'[j].type = "cancelled"
        PROVE  events'[k].id # events'[j].id
    <3>1. j \in DOMAIN events /\ events'[j] = events[j]
      BY <1>2, <1>4, <1>8, <2>2
    <3>2. CASE k \in DOMAIN events
      BY <1>8, <1>11, <2>2, <3>1, <3>2 DEF CancelledIsLast
    <3>3. CASE k \notin DOMAIN events
      BY <1>2, <1>4, <1>6, <1>8, <3>1, <3>3
    <3> QED
      BY <3>2, <3>3
  <2> QED
    BY <2>1, <2>2 DEF CancelledIsLast
<1> QED
  BY <1>9, <1>10, <1>11 DEF EventsTellBook

\* What Fill does to the quantities its event carries.
LEMMA FillQuantities ==
    ASSUME OrdersTyped, NEW id \in Ids, NEW qty \in Int, NEW price \in Int,
           Fill(id, qty, price)
    PROVE  LET cum == filled[id] + qty
               rem == orders[id].qty - cum
           IN  /\ cum \in Nat /\ rem \in Nat
               /\ cum = filled'[id] /\ rem = NonNeg(orders'[id].qty - filled'[id])
               /\ \A x \in Ids \ {id} : filled'[x] = filled[x] /\ orders'[x] = orders[x]
               /\ Ids' = Ids /\ cancelled' = cancelled /\ id \notin cancelled
<1>1. /\ orders[id].qty \in Nat /\ filled[id] \in Nat /\ DOMAIN filled = Ids
      /\ filled \in Seq(Nat)
  BY OneOrder DEF OrdersTyped
<1>2. qty \in 1 .. (orders[id].qty - filled[id]) /\ id \notin cancelled
  BY DEF Fill, CanFill
<1>3. /\ filled' = [filled EXCEPT ![id] = filled[id] + qty]
      /\ orders' = orders /\ cancelled' = cancelled /\ Ids' = Ids
  BY DEF Fill, Ids
<1>4. /\ filled[id] + qty \in Nat
      /\ orders[id].qty - (filled[id] + qty) \in Nat
  <2>1. \A m, n \in Nat : qty \in 1 .. (m - n) => n + qty \in Nat /\ m - (n + qty) \in Nat
    OBVIOUS
  <2> QED
    BY <1>1, <1>2, <2>1
<1>5. /\ filled'[id] = filled[id] + qty
      /\ \A x \in Ids \ {id} : filled'[x] = filled[x]
  BY <1>1, <1>3
<1> QED
  BY <1>2, <1>3, <1>4, <1>5 DEF NonNeg

LEMMA CancelledStep ==
    TypeOK /\ CancelledKnown /\ CancelledIsLast /\ [Next]_vars
        => CancelledKnown' /\ CancelledIsLast'
<1> SUFFICES ASSUME TypeOK, CancelledKnown, CancelledIsLast, [Next]_vars
             PROVE  CancelledKnown' /\ CancelledIsLast'
  OBVIOUS
<1>0. /\ OrdersTyped /\ bar \in Bars /\ cursor \in 0 .. Len(orders) /\ Len(orders) \in Nat
  BY TypeOKSplit DEF OrdersTyped
<1>1. ASSUME UNCHANGED <<events, cancelled>>
      PROVE  CancelledKnown' /\ CancelledIsLast'
  BY <1>1 DEF CancelledKnown, CancelledIsLast
<1>2. ASSUME NEW id \in Ids, NEW qty \in Int, NEW price \in Int, Fill(id, qty, price)
      PROVE  CancelledKnown' /\ CancelledIsLast'
  <2> DEFINE cum == filled[id] + qty
             rem == orders[id].qty - cum
             type == IF rem = 0 THEN "filled" ELSE "partial_fill"
  <2>1. Emit(<<Event(id, type, cum, rem)>>)
    BY <1>2 DEF Fill
  <2>2. type \in EventTypes /\ type # "cancelled"
    BY DEF EventTypes
  <2>3. cum \in Nat /\ rem \in Nat /\ cancelled' = cancelled /\ id \notin cancelled
    BY <1>0, <1>2, FillQuantities
  <2> HIDE DEF cum, rem, type
  <2> QED
    BY <1>0, <2>1, <2>2, <2>3, OneKeepsLast
<1>3. ASSUME NEW o \in Orders, PlaceOrder(o)
      PROVE  CancelledKnown' /\ CancelledIsLast'
  BY <1>0, <1>3, PlaceTells
<1>4. ASSUME NEW id \in Ids, CancelOrder(id)
      PROVE  CancelledKnown' /\ CancelledIsLast'
  <2> DEFINE rem == NonNeg(orders[id].qty - filled[id])
  <2>1. filled[id] \in Nat /\ rem \in Nat
    BY <1>0, OneOrder DEF NonNeg
  <2>2. /\ Emit(<<Event(id, "cancelled", filled[id], rem)>>)
        /\ id \notin cancelled /\ cancelled \subseteq cancelled' /\ id \in cancelled'
    BY <1>4 DEF CancelOrder
  <2> HIDE DEF rem
  <2> QED
    BY <1>0, <2>1, <2>2, OneKeepsLast DEF EventTypes
<1>5. ASSUME NEW id \in Ids, NEW qty \in Quantities, NEW price, ModifyOrder(id, qty, price)
      PROVE  CancelledKnown' /\ CancelledIsLast'
  <2> DEFINE rem == NonNeg(qty - filled[id])
  <2>1. filled[id] \in Nat /\ rem \in Nat
    BY <1>0, OneOrder, ConstantsAssumption DEF NonNeg
  <2>2. /\ Emit(<<Event(id, "modified", filled[id], rem)>>)
        /\ id \notin cancelled /\ cancelled' = cancelled
    BY <1>5 DEF ModifyOrder
  <2> HIDE DEF rem
  <2> QED
    BY <1>0, <2>1, <2>2, OneKeepsLast DEF EventTypes
<1>6. ASSUME NEW id \in Ids, NEW price \in Prices, NEW qty \in 1 .. orders[id].qty,
             FillOrder(id, qty, price)
      PROVE  CancelledKnown' /\ CancelledIsLast'
  <2>1. qty \in Int /\ price \in Int
    BY ConstantsAssumption
  <2> QED
    BY <1>1, <1>2, <1>6, <2>1 DEF FillOrder, FillRaises
<1>7. ASSUME AdvanceFill
      PROVE  CancelledKnown' /\ CancelledIsLast'
  <2>1. cursor \in Ids
    BY <1>0, <1>7 DEF AdvanceFill, Idle, Ids, OrdersTyped
  <2>2. /\ orders[cursor].qty - filled[cursor] \in Int
        /\ ExecutedPrice(orders[cursor], bar) \in Int
    BY <1>0, <2>1, OneOrder, PriceTypes
  <2> QED
    BY <1>2, <1>7, <2>1, <2>2 DEF AdvanceFill
<1>8. ASSUME Reset
      PROVE  CancelledKnown' /\ CancelledIsLast'
  BY <1>8 DEF Reset, CancelledKnown, CancelledIsLast
<1> QED
  BY <1>1, <1>3, <1>4, <1>5, <1>6, <1>7, <1>8
     DEF Next, vars, AdvanceStart, AdvanceSkip, AdvanceRaises, FillRaises,
         RollPosition, RollRaises

\* Once the stream has reported an order cancelled it reports nothing more of
\* it, whatever interleaving of bars, injected fills, modifications and
\* exceptions follows (mock_broker.py, the _cancelled checks of cancel_order,
\* modify_order, fill_order and advance).
THEOREM CancelledStaysLast == Spec => []CancelledIsLast
<1>1. Init => CancelledKnown /\ CancelledIsLast
  BY DEF Init, CancelledKnown, CancelledIsLast
<1> QED
  BY <1>1, TypeCorrect, CancelledStep, PTL DEF Spec

LEMMA TellsStep ==
    ASSUME Configured = Contracts
    PROVE  TypeOK /\ EventsTellBook /\ [Next]_vars => EventsTellBook'
<1> SUFFICES ASSUME TypeOK, EventsTellBook, [Next]_vars PROVE EventsTellBook'
  OBVIOUS
<1>0. /\ OrdersTyped /\ bar \in Bars /\ cursor \in 0 .. Len(orders) /\ Len(orders) \in Nat
  BY TypeOKSplit DEF OrdersTyped
<1>1. ASSUME UNCHANGED <<orders, filled, events>> PROVE EventsTellBook'
  BY <1>1 DEF EventsTellBook, Ids
<1>2. ASSUME NEW id \in Ids, NEW qty \in Int, NEW price \in Int, Fill(id, qty, price)
      PROVE  EventsTellBook'
  <2> DEFINE cum == filled[id] + qty
             rem == orders[id].qty - cum
             type == IF rem = 0 THEN "filled" ELSE "partial_fill"
  <2>1. Emit(<<Event(id, type, cum, rem)>>)
    BY <1>2 DEF Fill
  <2>2. type \in EventTypes
    BY DEF EventTypes
  <2>3. /\ cum \in Nat /\ rem \in Nat
        /\ cum = filled'[id] /\ rem = NonNeg(orders'[id].qty - filled'[id])
        /\ \A x \in Ids \ {id} : filled'[x] = filled[x] /\ orders'[x] = orders[x]
        /\ Ids' = Ids
    BY <1>0, <1>2, FillQuantities
  <2> HIDE DEF cum, rem, type
  <2> QED
    BY <1>0, <2>1, <2>2, <2>3, OneTells
<1>3. ASSUME NEW o \in Orders, PlaceOrder(o) PROVE EventsTellBook'
  BY <1>0, <1>3, PlaceTells
<1>4. ASSUME NEW id \in Ids, CancelOrder(id) PROVE EventsTellBook'
  <2> DEFINE rem == NonNeg(orders[id].qty - filled[id])
  <2>1. filled[id] \in Nat /\ rem \in Nat
    BY <1>0, OneOrder DEF NonNeg
  <2>2. /\ Emit(<<Event(id, "cancelled", filled[id], rem)>>)
        /\ orders' = orders /\ filled' = filled /\ Ids' = Ids
    BY <1>4 DEF CancelOrder, Ids
  <2>3. rem = NonNeg(orders'[id].qty - filled'[id]) /\ filled[id] = filled'[id]
    BY <2>2
  <2> HIDE DEF rem
  <2> QED
    BY <1>0, <2>1, <2>2, <2>3, OneTells DEF EventTypes
<1>5. ASSUME NEW id \in Ids, NEW qty \in Quantities,
             NEW price \in PricesFor(orders[id].type), ModifyOrder(id, qty, price)
      PROVE  EventsTellBook'
  <2> DEFINE rem == NonNeg(qty - filled[id])
  <2>1. filled[id] \in Nat /\ rem \in Nat /\ orders \in Seq(Orders) /\ Ids = DOMAIN orders
    BY <1>0, OneOrder, ConstantsAssumption DEF NonNeg, OrdersTyped, Ids
  <2>2. /\ Emit(<<Event(id, "modified", filled[id], rem)>>)
        /\ orders' = [orders EXCEPT ![id] = Modified(orders[id], qty, price)]
        /\ filled' = filled
    BY <1>5 DEF ModifyOrder
  <2>3. Ids' = Ids
    BY <2>2 DEF Ids
  <2>4. /\ orders'[id] = Modified(orders[id], qty, price)
        /\ \A x \in Ids \ {id} : orders'[x] = orders[x]
    BY <2>1, <2>2
  <2>5. orders'[id].qty = qty
    BY <2>4 DEF Modified
  <2>6. rem = NonNeg(orders'[id].qty - filled'[id]) /\ filled[id] = filled'[id]
    BY <2>2, <2>5
  <2> HIDE DEF rem
  <2> QED
    BY <1>0, <2>1, <2>2, <2>3, <2>4, <2>6, OneTells DEF EventTypes
<1>6. ASSUME NEW id \in Ids, NEW qty \in Int PROVE ~FillRaises(id, qty)
  <2>1. orders[id].contract \in Contracts
    BY <1>0, OneOrder
  <2> QED
    BY <2>1 DEF FillRaises, Unpriced
<1>7. ASSUME NEW id \in Ids, NEW price \in Prices, NEW qty \in 1 .. orders[id].qty,
             FillOrder(id, qty, price)
      PROVE  EventsTellBook'
  <2>1. qty \in Int /\ price \in Int
    BY ConstantsAssumption
  <2> QED
    BY <1>2, <1>6, <1>7, <2>1 DEF FillOrder
<1>8. ASSUME AdvanceFill \/ AdvanceRaises PROVE EventsTellBook'
  <2>1. cursor \in Ids
    BY <1>0, <1>8 DEF AdvanceFill, AdvanceRaises, Idle, Ids, OrdersTyped
  <2>2. /\ orders[cursor].qty - filled[cursor] \in Int
        /\ ExecutedPrice(orders[cursor], bar) \in Int
    BY <1>0, <2>1, OneOrder, PriceTypes
  <2> QED
    BY <1>1, <1>2, <1>6, <1>8, <2>1, <2>2 DEF AdvanceFill, AdvanceRaises
<1>9. ASSUME Reset PROVE EventsTellBook'
  BY <1>9 DEF Reset, EventsTellBook, Ids
<1> QED
  BY <1>1, <1>3, <1>4, <1>5, <1>7, <1>8, <1>9
     DEF Next, vars, AdvanceStart, AdvanceSkip, RollPosition, RollRaises

\* With a multiplier for every contract's root, the last event of every order
\* is its true state at all times, also between two fills of one advance()
\* (mock_broker.py, _emit_event in every method; broker.py, stream_order_events).
THEOREM EventsAreTheTruth ==
    ASSUME Configured = Contracts
    PROVE  Spec => []EventsTellBook
<1>1. Init => EventsTellBook
  BY DEF Init, EventsTellBook, Ids
<1>2. TypeOK /\ EventsTellBook /\ [Next]_vars => EventsTellBook'
  BY TellsStep
<1> QED
  BY <1>1, <1>2, TypeCorrect, PTL DEF Spec

-----------------------------------------------------------------------------
(* The totals of the book: BetLedger                                         *)

\* BetLedger, of any book.
Ledgered(b) == SumFunction(b.trades) + SumFunction(b.tally) = b.realized

\* A leg, whole or broken off, moves the account and the ledger by the same gain.
LEMMA LedgeredLeg ==
    ASSUME NEW b \in Books, Ledgered(b), NEW c \in Contracts,
           NEW delta \in Int, NEW price \in Int, NEW isRoll \in BOOLEAN
    PROVE  /\ Ledgered(Realize(b, c, delta, price, isRoll))
           /\ Ledgered(ApplyLeg(b, c, delta, price, isRoll))
           /\ Ledgered(Aborted(b, c, delta, price, isRoll))
<1> DEFINE gain == RealizedDelta(c, b.pos[c], delta, price)
           ends == BetEnds(b.pos[c], delta, isRoll)
           r == Realize(b, c, delta, price, isRoll)
<1>1. /\ IsFiniteSet(Contracts) /\ b.trades \in Seq(Int) /\ b.tally \in [Contracts -> Int]
      /\ b.realized \in Int /\ b.pos[c] \in Positions
  BY ConstantsAssumption DEF Books
<1>2. gain \in Int /\ b.tally[c] \in Int
  BY <1>1, LegTypes
<1>3. /\ r.realized = b.realized + gain
      /\ ends => /\ r.trades = Append(b.trades, b.tally[c] + gain)
                 /\ r.tally = [b.tally EXCEPT ![c] = 0]
      /\ ~ends => /\ r.trades = b.trades
                  /\ r.tally = [b.tally EXCEPT ![c] = b.tally[c] + gain]
  BY DEF Realize
<1>4. /\ ApplyLeg(b, c, delta, price, isRoll).realized = r.realized
      /\ ApplyLeg(b, c, delta, price, isRoll).trades = r.trades
      /\ ApplyLeg(b, c, delta, price, isRoll).tally = r.tally
  BY DEF ApplyLeg
<1> HIDE DEF gain, ends, r
<1>5. SumFunction(b.trades) \in Int /\ SumFunction(b.tally) \in Int
  BY <1>1, TotalIsInt, TotalOfSeqIsInt
<1>6. Ledgered(r)
  <2>1. CASE ends
    <3>1. SumFunction(r.trades) = SumFunction(b.trades) + (b.tally[c] + gain)
      <4>1. b.tally[c] + gain \in Int
        BY <1>2
      <4> QED BY <1>1, <1>3, <2>1, <4>1, TotalAppended
    <3>2. SumFunction([b.tally EXCEPT ![c] = 0]) = SumFunction(b.tally) + (0 - b.tally[c])
      BY <1>1, TotalUpdated
    <3>3. SumFunction(r.tally) = SumFunction(b.tally) + (0 - b.tally[c])
      BY <1>3, <2>1, <3>2
    <3> QED BY <1>1, <1>2, <1>3, <1>5, <3>1, <3>3 DEF Ledgered
  <2>2. CASE ~ends
    <3>1. SumFunction(r.tally) = SumFunction(b.tally) + ((b.tally[c] + gain) - b.tally[c])
      <4>1. b.tally[c] + gain \in Int
        BY <1>2
      <4> QED BY <1>1, <1>3, <2>2, <4>1, TotalUpdated
    <3> QED BY <1>1, <1>2, <1>3, <1>5, <2>2, <3>1 DEF Ledgered
  <2> QED BY <2>1, <2>2
<1>7. Ledgered(ApplyLeg(b, c, delta, price, isRoll))
  BY <1>4, <1>6 DEF Ledgered
<1>8. Ledgered(Aborted(b, c, delta, price, isRoll))
  BY <1>6 DEF Aborted, r
<1> QED
  BY <1>6, <1>7, <1>8 DEF r

\* What the roll carries over leaves the front contract.
LEMMA LedgeredCarry ==
    ASSUME NEW b \in Books, Ledgered(b), NEW c \in Contracts, NEW d \in Contracts
    PROVE  Ledgered(Carry(b, c, d))
<1> DEFINE emptied == [b.tally EXCEPT ![c] = 0]
           carried == [emptied EXCEPT ![d] = emptied[d] + b.tally[c]]
<1>1. IsFiniteSet(Contracts) /\ b.tally \in [Contracts -> Int] /\ b.tally[c] \in Int
  BY ConstantsAssumption DEF Books
<1>2. /\ Carry(b, c, d).tally = carried /\ Carry(b, c, d).realized = b.realized
      /\ Carry(b, c, d).trades = b.trades
  BY DEF Carry
<1>3. emptied \in [Contracts -> Int] /\ emptied[d] \in Int
  BY <1>1
<1>4. SumFunction(emptied) = SumFunction(b.tally) + (0 - b.tally[c])
  BY <1>1, TotalUpdated
<1> HIDE DEF emptied
<1>5. SumFunction(carried) = SumFunction(emptied) + ((emptied[d] + b.tally[c]) - emptied[d])
  <2>1. emptied[d] + b.tally[c] \in Int
    BY <1>1, <1>3
  <2> QED BY <1>1, <1>3, <2>1, TotalUpdated
<1>6. SumFunction(b.tally) \in Int /\ SumFunction(emptied) \in Int
  BY <1>1, <1>3, TotalIsInt
<1> HIDE DEF carried
<1>7. SumFunction(carried) = SumFunction(b.tally)
  BY <1>1, <1>3, <1>4, <1>5, <1>6
<1> QED
  BY <1>2, <1>7 DEF Ledgered

\* Both legs of a roll, or the first and half of the second.
LEMMA LedgeredRoll ==
    ASSUME book \in Books, Ledgered(book), NEW front \in Contracts, NEW back \in Contracts,
           NEW ff \in Int, NEW bf \in Int,
           \/ RollPosition(front, back, ff, bf)
           \/ RollRaises(front, back, ff, bf)
    PROVE  Ledgered(book')
<1> DEFINE qty == book.pos[front].qty
           closed == FrontClosed(front, ff)
<1>1. qty \in Int /\ -qty \in Int
  BY DEF Books, Positions
<1>2. closed \in Books /\ Ledgered(closed)
  BY <1>1, BookTypes, LedgeredLeg DEF FrontClosed
<1>3. /\ RollPosition(front, back, ff, bf)
            => book' = Carry(ApplyLeg(closed, back, qty, bf, TRUE), front, back)
      /\ RollRaises(front, back, ff, bf)
            => book' = Aborted(closed, back, qty, bf, TRUE)
  BY DEF RollPosition, RollRaises
<1> HIDE DEF closed, qty
<1>4. /\ ApplyLeg(closed, back, qty, bf, TRUE) \in Books
      /\ Ledgered(ApplyLeg(closed, back, qty, bf, TRUE))
      /\ Ledgered(Aborted(closed, back, qty, bf, TRUE))
  BY <1>1, <1>2, BookTypes, LedgeredLeg
<1>5. Ledgered(Carry(ApplyLeg(closed, back, qty, bf, TRUE), front, back))
  BY <1>4, LedgeredCarry
<1> QED
  BY <1>3, <1>4, <1>5

LEMMA LedgeredEmpty == Ledgered(EmptyBook)
<1>1. IsFiniteSet(Contracts)
  BY ConstantsAssumption
<1>2. /\ EmptyBook.tally \in [Contracts -> Int] /\ \A c \in Contracts : EmptyBook.tally[c] = 0
      /\ EmptyBook.realized = 0 /\ EmptyBook.trades = <<>>
  BY DEF EmptyBook
<1>3. SumFunction(EmptyBook.tally) = 0
  BY <1>1, <1>2, TotalOfZeros
<1>4. SumFunction(<<>>) = 0
  <2>1. DOMAIN <<>> = {}
    OBVIOUS
  <2> QED BY <2>1, SumOfNone DEF SumFunction
<1> QED
  BY <1>2, <1>3, <1>4 DEF Ledgered

LEMMA LedgerStep ==
    TypeOK /\ BetLedger /\ [Next]_vars => BetLedger'
<1> SUFFICES ASSUME TypeOK, BetLedger, [Next]_vars
             PROVE  Ledgered(book')
  BY DEF BetLedger, Ledgered
<1>0. /\ OrdersTyped /\ book \in Books /\ bar \in Bars
      /\ cursor \in 0 .. Len(orders) /\ Len(orders) \in Nat
      /\ Ledgered(book)
  BY TypeOKSplit DEF OrdersTyped, BetLedger, Ledgered
<1>1. ASSUME UNCHANGED book PROVE Ledgered(book')
  BY <1>0, <1>1
<1>2. ASSUME NEW id \in Ids, NEW qty \in Int, NEW price \in Int, Fill(id, qty, price)
      PROVE  Ledgered(book')
  <2>1. orders[id].contract \in Contracts
    BY <1>0, OneOrder
  <2>2. Signed(orders[id].side, qty) \in Int
    BY DEF Signed
  <2>3. book' = ApplyLeg(book, orders[id].contract, Signed(orders[id].side, qty), price, FALSE)
    BY <1>2 DEF Fill
  <2> QED
    BY <1>0, <2>1, <2>2, <2>3, LedgeredLeg
<1>3. ASSUME NEW id \in Ids, NEW price \in Prices, NEW qty \in 1 .. orders[id].qty,
             FillOrder(id, qty, price)
      PROVE  Ledgered(book')
  <2>1. qty \in Int /\ price \in Int
    BY ConstantsAssumption
  <2> QED
    BY <1>1, <1>2, <1>3, <2>1 DEF FillOrder, FillRaises
<1>4. ASSUME AdvanceFill PROVE Ledgered(book')
  <2>1. cursor \in Ids
    BY <1>0, <1>4 DEF AdvanceFill, Idle, Ids, OrdersTyped
  <2>2. /\ orders[cursor].qty - filled[cursor] \in Int
        /\ ExecutedPrice(orders[cursor], bar) \in Int
    BY <1>0, <2>1, OneOrder, PriceTypes
  <2> QED
    BY <1>2, <1>4, <2>1, <2>2 DEF AdvanceFill
<1>5. ASSUME NEW pair \in RollPairs, NEW ff \in RollFills, NEW bf \in RollFills,
             \/ RollPosition(pair[1], pair[2], ff, bf)
             \/ RollRaises(pair[1], pair[2], ff, bf)
      PROVE  Ledgered(book')
  <2>1. pair[1] \in Contracts /\ pair[2] \in Contracts /\ ff \in Int /\ bf \in Int
    BY ConstantsAssumption
  <2> QED
    BY <1>0, <1>5, <2>1, LedgeredRoll
<1>6. ASSUME Reset PROVE Ledgered(book')
  BY <1>6, LedgeredEmpty DEF Reset
<1> QED
  BY <1>1, <1>3, <1>4, <1>5, <1>6
     DEF Next, vars, PlaceOrder, CancelOrder, ModifyOrder, AdvanceStart, AdvanceSkip,
         AdvanceRaises, FillRaises

\* The trade ledger explains the realized PnL at every moment, for any contracts,
\* prices and multipliers and whatever raised half way: the closed bets plus the
\* open tallies are the account's total (mock_broker.py, _apply_fill_to_position,
\* _trade_pnls and _open_trade_pnl; roll_position's carry).
THEOREM LedgerExplainsPnl == Spec => []BetLedger
<1>1. Init => BetLedger
  BY LedgeredEmpty DEF Init, BetLedger, Ledgered
<1> QED
  BY <1>1, TypeCorrect, LedgerStep, PTL DEF Spec

-----------------------------------------------------------------------------
(* MockBroker implements CashAccount: weighted-average positions plus        *)
(* realized PnL are the cash ledger of the legs, for every set of            *)
(* contracts, multipliers, prices and bars.                                  *)

\* Every root has a multiplier and rolls settle at positive prices: nothing
\* raises between the two legs of a roll.
NoFaults == Configured = Contracts /\ RollFills \subseteq Nat \ {0}

Points(p, delta, price) ==
    IF p.qty = 0 \/ SameSign(p.qty, delta) THEN 0
    ELSE (IF p.qty > 0 THEN price - p.avg ELSE p.avg - price) * ClosingQty(p, delta)

\* What a leg realizes, in points: the change of quantity times average price,
\* less what the leg itself is worth.
LEMMA PointsOfLeg ==
    ASSUME NEW p \in Positions, NEW delta \in Int, delta # 0, NEW price \in Int,
           p.qty # 0 /\ SameSign(p.qty, delta) =>
               NewAverage(p, delta, price) * Abs(p.qty + delta) = Notional(p, delta, price)
    PROVE  Points(p, delta, price)
             = (p.qty + delta) * AverageAfter(p, delta, price) - p.qty * p.avg - delta * price
<1> DEFINE q == p.qty
           a == p.avg
<1>1. q \in Int /\ a \in Int
  BY DEF Positions
<1>0. \A x, y \in Int : x * (-y) = -(x * y)
  OBVIOUS
<1>2. CASE q = 0
  BY <1>1, <1>2 DEF Points, AverageAfter
<1>3. CASE q # 0 /\ SameSign(q, delta)
  <2> DEFINE n == NewAverage(p, delta, price)
  <2>1. n \in Int
    <3>1. Abs(q + delta) \in Nat \ {0} /\ Notional(p, delta, price) \in Int
      BY <1>1, <1>3 DEF SameSign, Abs, Notional
    <3> QED
      BY <3>1 DEF NewAverage
  <2>2. n * Abs(q + delta) = a * Abs(q) + price * Abs(delta)
    BY <1>3 DEF Notional
  <2> HIDE DEF n
  <2>3. CASE q > 0
    BY <1>1, <1>3, <2>1, <2>2, <2>3 DEF SameSign, Abs, Points, AverageAfter, n
  <2>4. CASE q < 0
    <3>1. Abs(q + delta) = -(q + delta) /\ Abs(q) = -q /\ Abs(delta) = -delta
      BY <1>1, <1>3, <2>4 DEF SameSign, Abs
    <3>2. n * (q + delta) = a * q + price * delta
      <4>1. n * (-(q + delta)) = -(n * (q + delta)) /\ a * (-q) = -(a * q)
            /\ price * (-delta) = -(price * delta)
        BY <1>0, <1>1, <2>1
      <4>2. n * (q + delta) \in Int /\ a * q \in Int /\ price * delta \in Int
        BY <1>1, <2>1
      <4> QED
        BY <2>2, <3>1, <4>1, <4>2
    <3> QED
      BY <1>1, <1>3, <2>1, <3>2 DEF Points, AverageAfter, n
  <2> QED
    BY <1>1, <1>3, <2>3, <2>4
<1>4. CASE q # 0 /\ ~SameSign(q, delta) /\ q + delta = 0
  <2>1. delta = -q /\ ClosingQty(p, delta) = Abs(q) /\ AverageAfter(p, delta, price) = 0
    BY <1>1, <1>4 DEF AverageAfter, ClosingQty, Abs
  <2>2. Points(p, delta, price) = q * (price - a)
    BY <1>0, <1>1, <1>4, <2>1 DEF Points, Abs
  <2>3. q * (price - a) = (q + delta) * 0 - q * a - delta * price
    <3>1. \A x, y, z \in Int : x * (z - y) = (x + (-x)) * 0 - x * y - (-x) * z
      OBVIOUS
    <3> QED
      BY <1>1, <2>1, <3>1
  <2> QED
    BY <2>1, <2>2, <2>3
<1>5. CASE q # 0 /\ ~SameSign(q, delta) /\ q + delta # 0 /\ (q > 0) = (q + delta > 0)
  <2>1. ClosingQty(p, delta) = Abs(delta) /\ AverageAfter(p, delta, price) = a
    BY <1>1, <1>5 DEF AverageAfter, ClosingQty, Abs, SameSign
  <2> QED
    BY <1>1, <1>5, <2>1 DEF Points, Abs, SameSign
<1>6. CASE q # 0 /\ ~SameSign(q, delta) /\ q + delta # 0 /\ (q > 0) # (q + delta > 0)
  <2>1. ClosingQty(p, delta) = Abs(q) /\ AverageAfter(p, delta, price) = price
    BY <1>1, <1>6 DEF AverageAfter, ClosingQty, Abs, SameSign
  <2> QED
    <3>0. Points(p, delta, price) = (IF q > 0 THEN price - a ELSE a - price) * Abs(q)
      BY <1>6, <2>1 DEF Points
    <3>1. Points(p, delta, price) = q * (price - a)
      BY <1>0, <1>1, <3>0 DEF Abs
    <3>2. q * (price - a) = (q + delta) * price - q * a - delta * price
      BY <1>1
    <3> QED
      BY <2>1, <3>1, <3>2
<1> QED
  BY <1>2, <1>3, <1>4, <1>5, <1>6

Cash(c, p) == p.realized - p.qty * p.avg * Mult[c]

\* A leg pays for itself in cash, whatever it does to the average price.
LEMMA CashOfLeg ==
    ASSUME NEW b \in Books, NEW c \in Contracts, NEW delta \in Int, delta # 0,
           NEW price \in Int, Exact(b, c, delta, price)
    PROVE  Cash(c, PositionAfter(b, c, delta, price))
             = Cash(c, b.pos[c]) - delta * price * Mult[c]
<1> DEFINE p == b.pos[c]
           n == PositionAfter(b, c, delta, price)
           g == Points(p, delta, price)
           A == AverageAfter(p, delta, price)
           m == Mult[c]
<1>1. p \in Positions /\ p.qty \in Int /\ p.avg \in Int /\ p.realized \in Int /\ m \in Int
  BY ConstantsAssumption DEF Books, Positions
<1>2. A \in Int
  BY <1>1, LegTypes
<1>3. g = (p.qty + delta) * A - p.qty * p.avg - delta * price
  BY <1>1, PointsOfLeg DEF Exact
<1>4. RealizedDelta(c, p, delta, price) = g * m
  BY <1>1 DEF RealizedDelta, Points
<1>5. n.qty = p.qty + delta /\ n.avg = A /\ n.realized = p.realized + g * m
  BY <1>4 DEF PositionAfter
<1>6. ASSUME NEW q \in Int, NEW a \in Int, NEW d \in Int, NEW x \in Int, NEW y \in Int,
             NEW r \in Int, NEW k \in Int
      PROVE  (r + ((q + d) * y - q * a - d * x) * k) - (q + d) * y * k
               = (r - q * a * k) - d * x * k
  OBVIOUS
<1> HIDE DEF p, n, g, A, m
<1>7. (p.realized + g * m) - (p.qty + delta) * A * m
        = (p.realized - p.qty * p.avg * m) - delta * price * m
  BY <1>1, <1>2, <1>3, <1>6
<1> QED
  BY <1>5, <1>7 DEF Cash, p, n, m

\* The refinement mapping, slot by slot.
Net(b) == [c \in Contracts |-> b.pos[c].qty]
CashOf(b) == [c \in Contracts |-> Cash(c, b.pos[c])]

LEMMA Mapping ==
    /\ Account!Init <=> Net(book) = [c \in Contracts |-> 0]
                        /\ CashOf(book) = [c \in Contracts |-> 0]
    /\ \A c \in Contracts, price \in LegPrices :
          Account!Trade(c, price) <=>
            /\ Net(book') = [Net(book) EXCEPT ![c] = Net(book')[c]]
            /\ CashOf(book') = [CashOf(book) EXCEPT
                   ![c] = @ - (Net(book')[c] - Net(book)[c]) * price * Mult[c]]
BY DEF Account!Init, Account!Trade, Net, CashOf, Cash

\* One leg of the broker is one trade of the account.
LEMMA LegIsTrade ==
    ASSUME book \in Books, NEW c \in Contracts, NEW delta \in Int, delta # 0,
           NEW price \in LegPrices, price \in Int, NEW isRoll \in BOOLEAN,
           Exact(book, c, delta, price),
           book' = ApplyLeg(book, c, delta, price, isRoll)
    PROVE  Account!Trade(c, price)
<1> DEFINE n == PositionAfter(book, c, delta, price)
<1>1. book'.pos = [book.pos EXCEPT ![c] = n]
  BY DEF ApplyLeg
<1>2. book.pos \in [Contracts -> Positions] /\ book.pos[c].qty \in Int
  BY DEF Books, Positions
<1>3. n.qty = book.pos[c].qty + delta
  BY DEF PositionAfter
<1>4. Cash(c, n) = Cash(c, book.pos[c]) - delta * price * Mult[c]
  BY CashOfLeg
<1> HIDE DEF n
<1>5. \A x \in Contracts : book'.pos[x] = IF x = c THEN n ELSE book.pos[x]
  BY <1>1, <1>2
<1>6. Net(book')[c] - Net(book)[c] = delta
  BY <1>2, <1>3, <1>5 DEF Net
<1>7. Net(book') = [Net(book) EXCEPT ![c] = Net(book')[c]]
  BY <1>5 DEF Net
<1>8. CashOf(book') = [CashOf(book) EXCEPT ![c] = @ - delta * price * Mult[c]]
  BY <1>4, <1>5 DEF CashOf
<1> QED
  BY <1>6, <1>7, <1>8, Mapping

\* A completed roll of the broker is a roll of the account.
LEMMA RollIsRoll ==
    ASSUME book \in Books, NEW front \in Contracts, NEW back \in Contracts, front # back,
           NEW ff \in Int, NEW bf \in Int, RollPosition(front, back, ff, bf)
    PROVE  Account!Roll(front, back, ff, bf)
<1> DEFINE qty == book.pos[front].qty
           closed == FrontClosed(front, ff)
           nf == PositionAfter(book, front, -qty, ff)
           nb == PositionAfter(closed, back, qty, bf)
<1>1. book.pos \in [Contracts -> Positions] /\ qty \in Int
  BY DEF Books, Positions
<1>2. qty # 0 /\ -qty \in Int /\ -qty # 0
  BY <1>1 DEF RollPosition, RollOpens
<1>3. closed \in Books
  BY <1>1, <1>2, BookTypes DEF FrontClosed
<1>4. closed.pos = [book.pos EXCEPT ![front] = nf]
  BY DEF FrontClosed, ApplyLeg
<1>5. Exact(book, front, -qty, ff)
  BY <1>1 DEF Exact, SameSign
<1>6. Exact(closed, back, qty, bf)
  BY DEF RollPosition
<1>7. nf.qty = 0 /\ nb.qty = closed.pos[back].qty + qty
  BY <1>1 DEF PositionAfter
<1>8. Cash(front, nf) = Cash(front, book.pos[front]) - (-qty) * ff * Mult[front]
  BY <1>2, <1>5, CashOfLeg
<1>9. Cash(back, nb) = Cash(back, closed.pos[back]) - qty * bf * Mult[back]
  BY <1>1, <1>2, <1>3, <1>6, CashOfLeg
<1>10. book'.pos = [closed.pos EXCEPT ![back] = nb]
  BY DEF RollPosition, Carry, ApplyLeg
<1> HIDE DEF nf, nb, closed
<1>11. \A x \in Contracts :
          book'.pos[x] = IF x = front THEN nf ELSE IF x = back THEN nb ELSE book.pos[x]
  BY <1>1, <1>4, <1>10
<1>12. closed.pos[back] = book.pos[back]
  BY <1>1, <1>4
<1>13. Cash(front, nf) = Cash(front, book.pos[front]) + qty * ff * Mult[front]
  <2>1. Mult[front] \in Int
    BY ConstantsAssumption
  <2>2. Cash(front, book.pos[front]) \in Int
    BY <1>1, <2>1 DEF Cash, Positions
  <2>3. \A r, q, x, m \in Int : r - (-q) * x * m = r + q * x * m
    OBVIOUS
  <2> QED
    BY <1>1, <1>8, <2>1, <2>2, <2>3
<1>14. Net(book') = [Net(book) EXCEPT ![front] = 0, ![back] = @ + Net(book)[front]]
  BY <1>7, <1>11, <1>12 DEF Net
<1>15. CashOf(book') = [CashOf(book) EXCEPT
                          ![front] = @ + Net(book)[front] * ff * Mult[front],
                          ![back] = @ - Net(book)[front] * bf * Mult[back]]
  BY <1>9, <1>11, <1>12, <1>13 DEF Net, CashOf
<1> QED
  BY <1>14, <1>15 DEF Account!Roll, Net, CashOf, Cash

\* The price advance() fills at is one a leg may trade at.
LEMMA HitPrice ==
    ASSUME OrdersTyped, bar \in Bars, NEW id \in Ids, Hit(id)
    PROVE  ExecutedPrice(orders[id], bar) \in LegPrices
<1> DEFINE o == orders[id]
<1>1. o \in Orders /\ o.side \in Sides
  BY OneOrder
<1>2. o.type \in {"MKT", "LMT", "STP"}
  BY DEF Hit, Crosses
<1>3. o.type \in {"LMT", "STP"} => o.price \in Prices
  BY <1>1 DEF Orders, PricesFor
<1> DEFINE s == Signed(o.side, Slippage)
<1>4. s \in {Slippage, -Slippage}
  BY DEF Signed
<1>5. CASE o.type = "LMT"
  BY <1>3, <1>5 DEF ExecutedPrice, LegPrices
<1>6. CASE o.type = "STP"
  <2>1. o.price \in Prices \cup {b.open : b \in Bars}
    BY <1>3, <1>6
  <2>2. ExecutedPrice(o, bar) = o.price + s
    BY <1>6 DEF ExecutedPrice, IntendedPrice
  <2> HIDE DEF s
  <2> QED
    BY <1>4, <2>1, <2>2 DEF LegPrices
<1>7. CASE o.type = "MKT"
  <2>1. bar.open \in Prices \cup {b.open : b \in Bars}
    OBVIOUS
  <2>2. ExecutedPrice(o, bar) = bar.open + s
    BY <1>7 DEF ExecutedPrice, IntendedPrice
  <2> HIDE DEF s
  <2> QED
    BY <1>4, <2>1, <2>2 DEF LegPrices
<1> QED
  BY <1>2, <1>5, <1>6, <1>7

LEMMA AccountStep ==
    ASSUME NoFaults
    PROVE  TypeOK /\ PositionPriced /\ [Next]_vars => [Account!Next]_(Account!vars)
<1> SUFFICES ASSUME TypeOK, PositionPriced, [Next]_vars
             PROVE  [Account!Next]_(Account!vars)
  OBVIOUS
<1>0. /\ OrdersTyped /\ book \in Books /\ bar \in Bars
      /\ cursor \in 0 .. Len(orders) /\ Len(orders) \in Nat
      /\ \A x \in Contracts : Priced(book.pos[x])
  BY TypeOKSplit DEF OrdersTyped, PositionPriced, Priced
<1>1. ASSUME UNCHANGED book PROVE [Account!Next]_(Account!vars)
  BY <1>1 DEF Account!vars
<1>2. ASSUME NEW id \in Ids, NEW qty \in Int, NEW price \in LegPrices, price \in Int,
             Fill(id, qty, price)
      PROVE  [Account!Next]_(Account!vars)
  <2> DEFINE c == orders[id].contract
             delta == Signed(orders[id].side, qty)
  <2>1. c \in Contracts /\ orders[id].qty \in Nat /\ filled[id] \in Nat
    BY <1>0, OneOrder
  <2>2. qty \in 1 .. (orders[id].qty - filled[id])
    BY <1>2 DEF Fill, CanFill
  <2>3. delta \in Int /\ delta # 0
    BY <2>1, <2>2 DEF Signed
  <2>4. Exact(book, c, delta, price) /\ book' = ApplyLeg(book, c, delta, price, FALSE)
    BY <1>2 DEF Fill
  <2> HIDE DEF c, delta
  <2>5. Account!Trade(c, price)
    BY <1>0, <1>2, <2>1, <2>3, <2>4, LegIsTrade
  <2> QED
    BY <2>1, <2>5 DEF Account!Next
<1>3. ASSUME NEW id \in Ids, NEW price \in Prices, NEW qty \in 1 .. orders[id].qty,
             FillOrder(id, qty, price)
      PROVE  [Account!Next]_(Account!vars)
  <2>1. qty \in Int /\ price \in Int /\ price \in LegPrices
    BY ConstantsAssumption DEF LegPrices
  <2> QED
    BY <1>1, <1>2, <1>3, <2>1 DEF FillOrder, FillRaises
<1>4. ASSUME AdvanceFill PROVE [Account!Next]_(Account!vars)
  <2>1. cursor \in Ids /\ Hit(cursor)
    BY <1>0, <1>4 DEF AdvanceFill, Idle, Ids, OrdersTyped
  <2>2. /\ orders[cursor].qty - filled[cursor] \in Int
        /\ ExecutedPrice(orders[cursor], bar) \in Int
        /\ ExecutedPrice(orders[cursor], bar) \in LegPrices
    BY <1>0, <2>1, OneOrder, PriceTypes, HitPrice
  <2> QED
    BY <1>2, <1>4, <2>1, <2>2 DEF AdvanceFill
<1>5. ASSUME NEW pair \in RollPairs, NEW ff \in RollFills, NEW bf \in RollFills,
             RollPosition(pair[1], pair[2], ff, bf)
      PROVE  [Account!Next]_(Account!vars)
  <2>1. /\ pair[1] \in Contracts /\ pair[2] \in Contracts /\ pair[1] # pair[2]
        /\ ff \in Int /\ bf \in Int
    BY ConstantsAssumption
  <2>2. Account!Roll(pair[1], pair[2], ff, bf)
    BY <1>0, <1>5, <2>1, RollIsRoll
  <2> QED
    BY <2>1, <2>2 DEF Account!Next
<1>6. ASSUME NEW pair \in RollPairs, NEW ff \in RollFills, NEW bf \in RollFills
      PROVE  ~RollRaises(pair[1], pair[2], ff, bf)
  <2> DEFINE front == pair[1]
             back == pair[2]
             qty == book.pos[front].qty
             closed == FrontClosed(front, ff)
  <2> SUFFICES ASSUME RollOpens(front)
               PROVE  ~Unpriced(closed, back, qty) /\ ~Refused(closed, back, qty, bf)
    BY DEF RollRaises
  <2>1. /\ front \in Contracts /\ back \in Contracts /\ ff \in Int
        /\ bf \in Int /\ bf > 0
    BY ConstantsAssumption DEF NoFaults
  <2>2. qty \in Int /\ qty # 0 /\ -qty \in Int /\ -qty # 0
    <3>1. qty \in Int
      BY <1>0, <2>1 DEF Books, Positions
    <3>2. qty # 0
      BY DEF RollOpens
    <3> QED
      BY <3>1, <3>2
  <2>3. ~Refused(book, front, -qty, ff)
    BY <2>2 DEF Refused, PositionAfter
  <2>4. closed \in Books
    BY <1>0, <2>1, <2>2, BookTypes DEF FrontClosed
  <2>5. closed.pos[back] \in Positions /\ Priced(closed.pos[back])
    BY <1>0, <2>1, <2>2, <2>3, <2>4, PricedBook DEF FrontClosed, Books
  <2> HIDE DEF closed
  <2>6. AverageAfter(closed.pos[back], qty, bf) \in Int
    BY <2>1, <2>2, <2>5, LegTypes
  <2>7. ~Refused(closed, back, qty, bf)
    BY <2>1, <2>2, <2>5, <2>6, PricedLeg DEF Refused, PositionAfter
  <2>8. ~Unpriced(closed, back, qty)
    BY <2>1 DEF Unpriced, NoFaults
  <2> QED
    BY <2>7, <2>8
<1>7. ASSUME Reset PROVE [Account!Next]_(Account!vars)
  <2>1. \A c \in Contracts : 0 - 0 * 0 * Mult[c] = 0
    BY ConstantsAssumption
  <2>2. Account!Reset
    BY <1>7, <2>1 DEF Reset, EmptyBook, FlatPosition, Account!Reset
  <2> QED
    BY <2>2 DEF Account!Next
<1> QED
  BY <1>1, <1>3, <1>4, <1>5, <1>6, <1>7
     DEF Next, vars, PlaceOrder, CancelOrder, ModifyOrder, AdvanceStart, AdvanceSkip,
         AdvanceRaises, FillRaises

\* Where no leg raises, the broker's books are the cash ledger of its legs:
\* averaging, partial closes, flips, re-opens, multipliers and rolls lose and
\* invent nothing (mock_broker.py, _apply_fill_to_position and roll_position).
THEOREM BooksAreCash ==
    ASSUME NoFaults
    PROVE  Spec => CashAccounting
<1>1. Init => Account!Init
  <2>1. \A c \in Contracts : 0 - 0 * 0 * Mult[c] = 0
    BY ConstantsAssumption
  <2> QED
    BY <2>1 DEF Init, EmptyBook, FlatPosition, Account!Init
<1>2. TypeOK /\ PositionPriced /\ [Next]_vars => [Account!Next]_(Account!vars)
  BY AccountStep
<1> QED
  BY <1>1, <1>2, TypeCorrect, PositionsArePriced, PTL
     DEF Spec, CashAccounting, Account!Spec
-----------------------------------------------------------------------------
(* What the operations do to a book, for the engines that drive the broker.  *)

\* An order may ask for any positive quantity.
AnyQuantity == Quantities = Nat \ {0}

\* A roll between any two contracts only moves the book.
LEMMA RollMovesBook ==
    ASSUME book \in Books, NEW front \in Contracts, NEW back \in Contracts,
           NEW ff \in Int, NEW bf \in Int,
           \/ RollPosition(front, back, ff, bf)
           \/ RollRaises(front, back, ff, bf)
    PROVE  book' \in Books /\ UNCHANGED <<orders, cancelled, filled, events, bar, cursor>>
<1> DEFINE qty == book.pos[front].qty
           closed == FrontClosed(front, ff)
<1>1. qty \in Int /\ -qty \in Int
  BY DEF Books, Positions
<1>2. closed \in Books
  BY <1>1, BookTypes DEF FrontClosed
<1>3. /\ ApplyLeg(closed, back, qty, bf, TRUE) \in Books
      /\ Aborted(closed, back, qty, bf, TRUE) \in Books
  BY <1>1, <1>2, BookTypes
<1>4. Carry(ApplyLeg(closed, back, qty, bf, TRUE), front, back) \in Books
  BY <1>1, <1>3, BookTypes
<1> QED BY <1>3, <1>4 DEF RollPosition, RollRaises

\* advance() fills the order at the cursor whole, or raises and fills nothing.
LEMMA AdvanceTyped ==
    ASSUME TypeOK, AdvanceFill
    PROVE  /\ cursor \in Ids /\ OrdersTyped' /\ book' \in Books
           /\ Len(orders') = Len(orders) /\ cursor' \in 0 .. Len(orders')
           /\ orders' = orders /\ cancelled' = cancelled /\ bar' = bar
<1>1. OrdersTyped /\ book \in Books /\ bar \in Bars /\ cursor \in 0 .. Len(orders) /\ Len(orders) \in Nat
  BY TypeOKSplit DEF OrdersTyped
<1>2. cursor \in Ids
  BY <1>1 DEF AdvanceFill, Idle, Ids, OrdersTyped
<1>3. /\ orders[cursor].qty - filled[cursor] \in Int
      /\ ExecutedPrice(orders[cursor], bar) \in Int
  BY <1>1, <1>2, OneOrder, PriceTypes
<1>4. Fill(cursor, orders[cursor].qty - filled[cursor], ExecutedPrice(orders[cursor], bar))
  BY DEF AdvanceFill
<1>5. OrdersTyped' /\ book' \in Books /\ Len(orders') = Len(orders)
  BY <1>1, <1>2, <1>3, <1>4, FillTyped
<1>6. cursor' \in 0 .. Len(orders')
  BY <1>1, <1>5 DEF AdvanceFill, Idle, NextCursor
<1>7. orders' = orders /\ cancelled' = cancelled /\ bar' = bar
  BY <1>4 DEF Fill, AdvanceFill
<1> QED BY <1>2, <1>5, <1>6, <1>7

\* From book b to book a the position of c moved by delta and realized gain.
Moved(a, b, c, delta, gain) ==
    /\ a.pos[c].qty = b.pos[c].qty + delta
    /\ a.pos[c].realized = b.pos[c].realized + gain
    /\ a.realized = b.realized + gain
    /\ gain \in Int
    /\ \A d \in Contracts \ {c} : a.pos[d] = b.pos[d]

LEMMA LegMoves ==
    ASSUME NEW b \in Books, NEW c \in Contracts, NEW delta \in Int, NEW price \in Int,
           NEW isRoll \in BOOLEAN
    PROVE  Moved(ApplyLeg(b, c, delta, price, isRoll), b, c, delta,
                 RealizedDelta(c, b.pos[c], delta, price))
<1> DEFINE a == ApplyLeg(b, c, delta, price, isRoll)
           gain == RealizedDelta(c, b.pos[c], delta, price)
           n == PositionAfter(b, c, delta, price)
<1>1. b.pos \in [Contracts -> Positions] /\ b.pos[c] \in Positions
  BY DEF Books
<1>2. gain \in Int
  BY <1>1, LegTypes
<1>3. n.qty = b.pos[c].qty + delta /\ n.realized = b.pos[c].realized + gain
  BY DEF PositionAfter
<1>4. a.pos = [b.pos EXCEPT ![c] = n] /\ a.realized = b.realized + gain
  BY DEF ApplyLeg, Realize
<1> HIDE DEF n, a, gain
<1>5. a.pos[c] = n /\ \A d \in Contracts \ {c} : a.pos[d] = b.pos[d]
  BY <1>1, <1>4
<1>6. Moved(a, b, c, delta, gain)
  BY <1>2, <1>3, <1>4, <1>5 DEF Moved
<1> QED BY <1>6 DEF a, gain

\* A roll flattens the old contract; what it had is in the new one, unless the
\* second leg raised.
LEMMA RollMoves ==
    ASSUME book \in Books, NEW front \in Contracts, NEW back \in Contracts,
           NEW ff \in Int, NEW bf \in Int,
           \/ RollPosition(front, back, ff, bf)
           \/ RollRaises(front, back, ff, bf)
    PROVE  \E m, g :
             /\ m \in Books
             /\ Moved(m, book, front, -book.pos[front].qty, g)
             /\ RollPosition(front, back, ff, bf) =>
                   \E a, k : Moved(a, m, back, book.pos[front].qty, k)
                             /\ book'.pos = a.pos /\ book'.realized = a.realized
             /\ RollRaises(front, back, ff, bf) => book'.pos = m.pos
<1> DEFINE qty == book.pos[front].qty
           m == FrontClosed(front, ff)
           g == RealizedDelta(front, book.pos[front], -qty, ff)
           a == ApplyLeg(m, back, qty, bf, TRUE)
           k == RealizedDelta(back, m.pos[back], qty, bf)
<1>1. qty \in Int /\ -qty \in Int
  BY DEF Books, Positions
<1>2. m = ApplyLeg(book, front, -qty, ff, TRUE)
  BY DEF FrontClosed
<1>3. RollPosition(front, back, ff, bf) => book' = Carry(a, front, back)
  BY DEF RollPosition
<1>4. RollRaises(front, back, ff, bf) => book' = Aborted(m, back, qty, bf, TRUE)
  BY DEF RollRaises
<1> HIDE DEF m, qty
<1>5. m \in Books
  BY <1>1, <1>2, BookTypes
<1>6. Moved(m, book, front, -qty, g)
  BY <1>1, <1>2, LegMoves
<1>7. Moved(a, m, back, qty, k)
  BY <1>1, <1>5, LegMoves
<1>8. Carry(a, front, back).pos = a.pos /\ Carry(a, front, back).realized = a.realized
  BY DEF Carry
<1>9. Aborted(m, back, qty, bf, TRUE).pos = m.pos
  BY DEF Aborted, Realize
<1> HIDE DEF a, k, g
<1> QED BY <1>3, <1>4, <1>5, <1>6, <1>7, <1>8, <1>9 DEF qty

\* The positions of book b explain its realized PnL.
Totalled(b) == SumFunction([c \in Contracts |-> b.pos[c].realized]) = b.realized

LEMMA MovedTotalled ==
    ASSUME NEW b \in Books, NEW a, NEW c \in Contracts, NEW delta, NEW gain,
           Moved(a, b, c, delta, gain), Totalled(b)
    PROVE  Totalled(a)
<1> DEFINE f == [x \in Contracts |-> b.pos[x].realized]
           h == [x \in Contracts |-> a.pos[x].realized]
<1>1. /\ \A x \in Contracts : b.pos[x].realized \in Int
      /\ b.realized \in Int /\ IsFiniteSet(Contracts)
  BY ConstantsAssumption DEF Books, Positions
<1>2. /\ gain \in Int /\ a.pos[c].realized = b.pos[c].realized + gain
      /\ a.realized = b.realized + gain
      /\ \A x \in Contracts \ {c} : a.pos[x].realized = b.pos[x].realized
  BY DEF Moved
<1>3. \A x \in Contracts : a.pos[x].realized \in Int
  BY <1>1, <1>2
<1>4. /\ f \in [Contracts -> Int] /\ h \in [Contracts -> Int]
      /\ f[c] \in Int /\ h[c] = f[c] + gain /\ \A x \in Contracts \ {c} : h[x] = f[x]
  BY <1>1, <1>2, <1>3
<1>5. SumFunction(f) = b.realized
  BY DEF Totalled
<1> HIDE DEF f, h
<1>6. SumFunction(h) = SumFunction(f) + (h[c] - f[c])
  BY <1>1, <1>4, TotalChanges
<1>7. SumFunction(h) = a.realized
  BY <1>1, <1>2, <1>4, <1>5, <1>6
<1> QED BY <1>7 DEF Totalled, h


\* One order fills whole: what the bar does to the order at the cursor.
LEMMA FillMovesBook ==
    ASSUME TypeOK, AdvanceFill
    PROVE  LET o == orders[cursor]
               more == o.qty - filled[cursor]
           IN  /\ cursor \in Ids /\ o.contract = bar.contract /\ bar.contract \in Contracts
               /\ more \in Nat \ {0} /\ Signed(o.side, more) \in Int
               /\ filled' = [filled EXCEPT ![cursor] = o.qty]
               /\ \E gain : Moved(book', book, bar.contract, Signed(o.side, more), gain)
<1> DEFINE o == orders[cursor]
           more == o.qty - filled[cursor]
           delta == Signed(o.side, more)
           price == ExecutedPrice(o, bar)
<1>1. OrdersTyped /\ book \in Books /\ bar \in Bars /\ cursor \in Ids
  BY TypeOKSplit, AdvanceTyped
<1>2. /\ o.qty \in Nat \ {0} /\ filled[cursor] \in Nat /\ o.contract \in Contracts
      /\ price \in Int
  BY <1>1, OneOrder, PriceTypes
<1>3. Hit(cursor) /\ Fill(cursor, more, price)
  BY DEF AdvanceFill
<1>4. o.contract = bar.contract /\ filled[cursor] < o.qty
  BY <1>3 DEF Hit
<1>5. more \in Nat \ {0} /\ filled[cursor] + more = o.qty
  BY <1>2, <1>4
<1>6. delta \in Int
  BY <1>5 DEF Signed
<1>7. /\ filled' = [filled EXCEPT ![cursor] = filled[cursor] + more]
      /\ book' = ApplyLeg(book, o.contract, delta, price, FALSE)
  BY <1>3 DEF Fill
<1>8. Moved(ApplyLeg(book, o.contract, delta, price, FALSE), book, o.contract, delta,
            RealizedDelta(o.contract, book.pos[o.contract], delta, price))
  BY <1>1, <1>2, <1>6, LegMoves
<1>9. \E gain : Moved(book', book, bar.contract, delta, gain)
  BY <1>4, <1>7, <1>8
<1> HIDE DEF o, more, delta, price
<1>10. filled' = [filled EXCEPT ![cursor] = o.qty]
  BY <1>5, <1>7
<1> QED BY <1>1, <1>2, <1>4, <1>5, <1>6, <1>9, <1>10 DEF o, more, delta

\* The net quantity of book b over all contracts.
NetOf(b) == SumFunction([c \in Contracts |-> b.pos[c].qty])

LEMMA MovedNet ==
    ASSUME NEW b \in Books, NEW a, NEW c \in Contracts, NEW delta \in Int, NEW gain,
           Moved(a, b, c, delta, gain)
    PROVE  NetOf(a) = NetOf(b) + delta /\ NetOf(b) \in Int
<1> DEFINE f == [x \in Contracts |-> b.pos[x].qty]
           h == [x \in Contracts |-> a.pos[x].qty]
<1>1. (\A x \in Contracts : b.pos[x].qty \in Int) /\ IsFiniteSet(Contracts)
  BY ConstantsAssumption DEF Books, Positions
<1>2. /\ a.pos[c].qty = b.pos[c].qty + delta
      /\ \A x \in Contracts \ {c} : a.pos[x].qty = b.pos[x].qty
  BY DEF Moved
<1>3. \A x \in Contracts : a.pos[x].qty \in Int
  BY <1>1, <1>2
<1>4. /\ f \in [Contracts -> Int] /\ h \in [Contracts -> Int]
      /\ f[c] \in Int /\ h[c] = f[c] + delta /\ \A x \in Contracts \ {c} : h[x] = f[x]
  BY <1>1, <1>2, <1>3
<1> HIDE DEF f, h
<1>5. SumFunction(h) = SumFunction(f) + (h[c] - f[c]) /\ SumFunction(f) \in Int
  BY <1>1, <1>4, TotalChanges, TotalIsInt
<1>6. SumFunction(h) = SumFunction(f) + delta
  BY <1>4, <1>5
<1> QED BY <1>5, <1>6 DEF NetOf, f, h

\* The net of what the orders of a list o filled.
FillsOf(o, f) == SumFunction([id \in DOMAIN o |-> Signed(o[id].side, f[id])])

LEMMA NetSplit == NetIsFills <=> NetOf(book) = FillsOf(orders, filled)
BY DEF NetIsFills, NetOf, FillsOf, Ids

LEMMA FillKeepsNet ==
    ASSUME TypeOK, NetIsFills, AdvanceFill
    PROVE  NetIsFills'
<1> DEFINE o == orders[cursor]
           more == o.qty - filled[cursor]
           delta == Signed(o.side, more)
           f == [id \in DOMAIN orders |-> Signed(orders[id].side, filled[id])]
           h == [id \in DOMAIN orders |-> Signed(orders[id].side, filled'[id])]
<1>1. OrdersTyped /\ book \in Books /\ orders' = orders
  BY TypeOKSplit, AdvanceTyped
<1>2. /\ cursor \in Ids /\ bar.contract \in Contracts /\ delta \in Int
      /\ more \in Nat \ {0}
      /\ filled' = [filled EXCEPT ![cursor] = o.qty]
  BY FillMovesBook
<1>3. PICK gain : Moved(book', book, bar.contract, delta, gain)
  BY FillMovesBook
<1>4. /\ DOMAIN orders = 1 .. Len(orders) /\ Len(orders) \in Nat /\ DOMAIN filled = DOMAIN orders
      /\ \A id \in DOMAIN orders : filled[id] \in Nat /\ orders[id].qty \in Nat
  BY <1>1, <1>2, OneOrder DEF Ids
<1>5. /\ \A id \in DOMAIN orders : filled'[id] \in Nat
      /\ filled'[cursor] = o.qty /\ \A id \in DOMAIN orders \ {cursor} : filled'[id] = filled[id]
  BY <1>2, <1>4 DEF Ids
<1>6. f \in [DOMAIN orders -> Int] /\ h \in [DOMAIN orders -> Int]
  BY <1>4, <1>5 DEF Signed
<1>7. \A id \in DOMAIN orders \ {cursor} : h[id] = f[id]
  BY <1>5
<1>8. h[cursor] = f[cursor] + delta /\ f[cursor] \in Int
  <2>1. h[cursor] = Signed(o.side, o.qty) /\ f[cursor] = Signed(o.side, filled[cursor])
    BY <1>2, <1>5 DEF Ids
  <2>2. o.qty \in Nat /\ filled[cursor] \in Nat
    BY <1>2, <1>4 DEF Ids
  <2> QED BY <2>1, <2>2 DEF Signed
<1>9. IsFiniteSet(DOMAIN orders) /\ cursor \in DOMAIN orders
  BY <1>2, <1>4, FS_Interval DEF Ids
<1>10. FillsOf(orders, filled) = SumFunction(f) /\ FillsOf(orders, filled') = SumFunction(h)
  BY DEF FillsOf
<1>11. NetOf(book') = NetOf(book) + delta /\ NetOf(book) \in Int
  BY <1>1, <1>2, <1>3, MovedNet
<1> HIDE DEF f, h, delta, more, o
<1>12. SumFunction(h) = SumFunction(f) + (h[cursor] - f[cursor])
  BY <1>6, <1>7, <1>9, TotalChanges
<1>13. NetOf(book) = SumFunction(f)
  BY <1>10, NetSplit
<1>14. NetOf(book') = SumFunction(h)
  BY <1>2, <1>8, <1>11, <1>12, <1>13
<1> QED BY <1>1, <1>10, <1>14 DEF NetIsFills, NetOf, FillsOf, Ids

LEMMA SignedZero ==
    ASSUME NEW side
    PROVE  Signed(side, 0) = 0
<1>1. \A y, z \in Int : y + z = y => y + (-z) = y
  OBVIOUS
<1>2. CASE side = "BUY"
  BY <1>2 DEF Signed
<1>3. CASE side # "BUY"
  <2>1. Signed(side, 0) = -0
    BY <1>3, Zenon DEF Signed
  <2>2. 0 + (-0) = 0
    BY <1>1
  <2> QED BY <2>1, <2>2
<1> QED BY <1>2, <1>3

LEMMA PlaceKeepsNet ==
    ASSUME TypeOK, NetIsFills, NEW o \in Orders, PlaceOrder(o)
    PROVE  NetIsFills'
<1> DEFINE f == [id \in DOMAIN orders |-> Signed(orders[id].side, filled[id])]
           h == [id \in DOMAIN orders' |-> Signed(orders'[id].side, filled'[id])]
           n == Len(orders)
<1>1. OrdersTyped
  BY TypeOKSplit
<1>2. orders' = Append(orders, o) /\ filled' = Append(filled, 0) /\ book' = book
  BY DEF PlaceOrder
<1>3. /\ n \in Nat /\ DOMAIN orders = 1 .. n /\ filled \in Seq(Nat) /\ Len(filled) = n
      /\ orders \in Seq(Orders)
  BY <1>1 DEF OrdersTyped
<1>4. /\ DOMAIN orders' = 1 .. n + 1 /\ orders'[n + 1] = o /\ filled'[n + 1] = 0
      /\ \A id \in 1 .. n : orders'[id] = orders[id] /\ filled'[id] = filled[id]
  BY <1>2, <1>3
<1>5. \A id \in 1 .. n : Signed(orders[id].side, filled[id]) \in Int
  BY <1>3 DEF Signed
<1>6. Signed(o.side, 0) = 0
  BY SignedZero
<1>7. f \in Seq(Int) /\ Len(f) = n /\ \A id \in 1 .. n : f[id] \in Int
  BY <1>3, <1>5
<1>8. h = Append(f, 0)
  <2>1. DOMAIN h = 1 .. n + 1 /\ h[n + 1] = 0 /\ \A id \in 1 .. n : h[id] = f[id]
    BY <1>3, <1>4, <1>6
  <2>2. h \in Seq(Int) /\ Len(h) = n + 1
    <3>2. h = [id \in 1 .. n + 1 |-> h[id]]
      BY <2>1
    <3> HIDE DEF h, f, n
    <3>1. \A id \in 1 .. n + 1 : h[id] \in Int
      <4>1. \A id \in 1 .. n + 1 : id = n + 1 \/ id \in 1 .. n
        BY <1>3
      <4> QED BY <1>7, <2>1, <4>1
    <3> DEFINE m == n + 1
    <3>3. m \in Nat /\ (\A id \in 1 .. m : h[id] \in Int) /\ h = [id \in 1 .. m |-> h[id]]
      BY <1>3, <3>1, <3>2
    <3> HIDE DEF m
    <3>4. h \in Seq(Int) /\ Len(h) = m
      BY <3>3
    <3> QED BY <3>4 DEF m
  <2> HIDE DEF h, f, n
  <2> QED BY <1>3, <1>7, <2>1, <2>2
<1>9. FillsOf(orders, filled) = SumFunction(f) /\ FillsOf(orders', filled') = SumFunction(h)
  BY DEF FillsOf
<1> HIDE DEF f, h, n
<1>10. SumFunction(h) = SumFunction(f) + 0 /\ SumFunction(f) \in Int
  BY <1>7, <1>8, TotalAppended, TotalOfSeqIsInt
<1>11. NetOf(book) = SumFunction(f)
  BY <1>9, NetSplit
<1>12. NetOf(book') = FillsOf(orders', filled')
  BY <1>2, <1>9, <1>10, <1>11
<1> QED BY <1>12 DEF NetIsFills, NetOf, FillsOf, Ids

LEMMA RollKeepsNet ==
    ASSUME TypeOK, NetIsFills, NEW front \in Contracts, NEW back \in Contracts,
           NEW ff \in Int, NEW bf \in Int, RollPosition(front, back, ff, bf)
    PROVE  NetIsFills'
<1> DEFINE q == book.pos[front].qty
<1>0. book \in Books
  BY TypeOKSplit
<1>1. book \in Books /\ q \in Int
  BY <1>0 DEF Books, Positions
<1>2. PICK m, g :
        /\ m \in Books
        /\ Moved(m, book, front, -q, g)
        /\ RollPosition(front, back, ff, bf) =>
              \E a, k : Moved(a, m, back, q, k)
                        /\ book'.pos = a.pos /\ book'.realized = a.realized
  BY <1>0, RollMoves
<1>3. PICK a, k : Moved(a, m, back, q, k) /\ book'.pos = a.pos
  BY <1>2
<1>4. NetOf(m) = NetOf(book) + (-q) /\ NetOf(book) \in Int
  BY <1>1, <1>2, MovedNet
<1>5. NetOf(a) = NetOf(m) + q
  BY <1>1, <1>2, <1>3, MovedNet
<1>6. NetOf(book') = NetOf(a)
  BY <1>3 DEF NetOf
<1> HIDE DEF q
<1>7. NetOf(book') = NetOf(book)
  BY <1>1, <1>4, <1>5, <1>6
<1>8. orders' = orders /\ filled' = filled
  BY DEF RollPosition
<1>9. NetOf(book') = FillsOf(orders', filled')
  BY <1>7, <1>8, NetSplit
<1> QED BY <1>9 DEF NetIsFills, NetOf, FillsOf, Ids

\* A roll and a fill keep the positions explaining the account.
LEMMA RollKeepsTotals ==
    ASSUME book \in Books, Totalled(book), NEW front \in Contracts, NEW back \in Contracts,
           NEW ff \in Int, NEW bf \in Int, RollPosition(front, back, ff, bf)
    PROVE  Totalled(book')
<1> DEFINE q == book.pos[front].qty
<1>2. PICK m, g :
        /\ m \in Books
        /\ Moved(m, book, front, -q, g)
        /\ RollPosition(front, back, ff, bf) =>
              \E a, k : Moved(a, m, back, q, k)
                        /\ book'.pos = a.pos /\ book'.realized = a.realized
  BY RollMoves
<1>3. PICK a, k : Moved(a, m, back, q, k) /\ book'.pos = a.pos /\ book'.realized = a.realized
  BY <1>2
<1> HIDE DEF q
<1>4. Totalled(m)
  BY <1>2, MovedTotalled
<1>5. Totalled(a)
  BY <1>2, <1>3, <1>4, MovedTotalled
<1> QED BY <1>3, <1>5 DEF Totalled
=============================================================================
