------------------------ MODULE BacktestEngine_proofs ------------------------
(***************************************************************************)
(* Theorems about the loop of BacktestEngine over MockBroker and over      *)
(* PropAwareMockBroker, for every stream of bars, every prices and every   *)
(* answer of the strategy.                                                 *)
(***************************************************************************)
EXTENDS BacktestEngine, MockBroker_proofs

-----------------------------------------------------------------------------
(* The inductive invariant                                                   *)

\* A continuous series, as ContinuousSeriesBuilder.build cuts it: the contract
\* changes only on the day of a roll into the new one, and never comes back.
Continuous ==
    \A s \in Streams :
        /\ \A i \in DOMAIN s, e \in RollEvents :
              e.day = s[i].day => e.new = s[i].contract /\ e.old # e.new
        /\ \A i \in DOMAIN s :
              i > 1 /\ s[i].contract # s[i - 1].contract =>
                  \E e \in RollEvents : e.day = s[i].day /\ e.old = s[i - 1].contract
        /\ \A i, j, k \in DOMAIN s :
              i <= j /\ j <= k /\ s[i].contract = s[k].contract => s[j].contract = s[k].contract

\* Where the loop stands: the curve trails the bars by the one being worked on.
LoopInv ==
    /\ stream \in Streams
    /\ phase # "fill" => Idle
    /\ phase \in {"bar", "decide", "done"} => Len(curve) = t
    /\ phase \in {"advance", "fill", "roll", "mark"} => Len(curve) + 1 = t
    /\ phase = "decide" => t > 0 /\ Equity > 0
    /\ t > 0 => bar.contract = stream[t].contract

\* Every order is a market order in the contract of the bar it was decided on,
\* filled whole or not at all, and decided on an earlier bar than it is filled.
OrderInv ==
    /\ cancelled = {}
    /\ \A id \in Ids :
          /\ orders[id].type = "MKT"
          /\ orders[id].contract = stream[placed[id]].contract
          /\ filled[id] \in {0, orders[id].qty}
          /\ filled[id] > 0 => placed[id] < t
    /\ phase \in {"advance", "fill", "roll", "mark", "decide"} => \A id \in Ids : placed[id] < t

\* The bar fills the orders in its contract; at most one is outstanding in each.
FillInv ==
    /\ \A id \in Ids :
          /\ orders[id].contract = bar.contract
          /\ \/ phase \in {"roll", "mark", "decide"}
             \/ phase = "fill" /\ (Idle \/ id < cursor)
          => filled[id] = orders[id].qty
    /\ \A i, j \in Ids :
          filled[i] = 0 /\ filled[j] = 0 /\ orders[i].contract = orders[j].contract => i = j

\* The contract a position can be in: until the roll of the bar's day it is the
\* one of the bar before.
Carrier ==
    IF phase \in {"advance", "fill", "roll"} /\ t > 1 THEN stream[t - 1].contract ELSE bar.contract

HeldInv ==
    /\ phase # "raised" => \A c \in Contracts : Held(c) # 0 => c = Carrier
    /\ \E c \in Contracts : \A d \in Contracts : Held(d) # 0 => d = c
    /\ t = 0 => \A c \in Contracts : Held(c) = 0
    /\ phase # "raised" =>
          \A i \in 1 .. t : i < t \/ phase \notin {"advance", "fill"} => stream[i].contract \in seen

\* No position is larger than a decision allowed, nor will be when what is
\* outstanding fills.
CapInv ==
    TargetPosition =>
        /\ \A c \in Contracts : Abs(Held(c)) <= largest
        /\ \A id \in Ids :
              filled[id] = 0 /\ orders[id].contract = bar.contract =>
                  Abs(Held(bar.contract) + Signed(orders[id].side, orders[id].qty)) <= largest

\* The positions explain the account while no roll has broken off.
TotalsInv == phase # "raised" => PositionTotals

-----------------------------------------------------------------------------
(* What the operations of the broker do to the variables of the engine       *)

\* Every contract of the engine is configured: no fill raises half way.
LEMMA AdvanceRaisesTyped ==
    ASSUME TypeOK, AdvanceRaises
    PROVE  UNCHANGED <<orders, cancelled, filled, events, book, bar>> /\ cursor' = 0
<1>1. OrdersTyped /\ cursor \in 0 .. Len(orders) /\ Len(orders) \in Nat
  BY TypeOKSplit DEF OrdersTyped
<1>2. cursor \in Ids
  BY <1>1 DEF AdvanceRaises, Idle, Ids, OrdersTyped
<1>3. orders[cursor].contract \in Configured
  BY <1>1, <1>2, OneOrder, EngineAssumption
<1>4. ~FillRaises(cursor, orders[cursor].qty - filled[cursor])
  BY <1>3 DEF FillRaises, Unpriced
<1> QED BY <1>4 DEF AdvanceRaises

Results == [signals : Nat, orders : Nat, fills : Nat, capped : Nat, rolls : Nat, cost : Int]

\* What size_position answers is a natural: the account is worth something when
\* a decision is taken.
LEMMA SizesAreNat ==
    ASSUME EngineTypeOK, LoopInv, phase = "decide", close > 0, NEW f \in Kellys, NEW size \in Sizes(f)
    PROVE  size \in Nat /\ Base(f) \in Nat
<1>1. f \in Nat
  BY EngineAssumption
<1>2. /\ t \in Nat /\ t > 0 /\ Equity \in Nat /\ close \in Nat /\ close > 0
      /\ bar.contract \in Contracts
  <2>1. bar \in Bars /\ Len(curve) = t /\ t > 0 /\ curve \in Seq(Int) /\ close \in Int /\ Equity > 0
    BY DEF EngineTypeOK, TypeOK, LoopInv
  <2>2. bar.contract \in Contracts
    BY <2>1, ConstantsAssumption
  <2>3. Equity \in Int /\ t \in Nat
    BY <2>1 DEF Equity
  <2> QED BY <2>1, <2>2, <2>3
<1>3. Mult[bar.contract] \in Nat /\ Mult[bar.contract] > 0
      /\ Margin[bar.contract] \in Nat /\ Margin[bar.contract] > 0
  <2>1. Mult[bar.contract] \in Nat \ {0} /\ Margin[bar.contract] \in Nat \ {0}
    BY <1>2, ConstantsAssumption, EngineAssumption
  <2> QED BY <2>1
<1>4. KellyPct \in Nat /\ MarginBudgetPct \in Nat /\ LeverageCap \in Nat
  BY SizingAssumption
<1> DEFINE notional == close * Mult[bar.contract]
<1>5. notional \in Nat /\ notional > 0
  <2>1. \A x, y \in Nat : x > 0 /\ y > 0 => x * y \in Nat /\ x * y > 0
    OBVIOUS
  <2> QED BY <1>2, <1>3, <2>1
<1> HIDE DEF notional
<1>6. \A x, y \in Nat : y > 0 => x \div y \in Nat
  OBVIOUS
<1>7. KellyContracts(f, Equity, notional) \in Nat
  <2>1. f * KellyPct * Equity \in Nat /\ 10000 * notional \in Nat /\ 10000 * notional > 0
    <3>1. f * KellyPct \in Nat
      BY <1>1, <1>4
    <3> QED BY <1>2, <1>5, <3>1
  <2> QED BY <1>6, <2>1 DEF KellyContracts
<1>8. MarginContracts(Equity, Margin[bar.contract]) \in Nat
  <2>1. /\ Equity * MarginBudgetPct \in Nat
        /\ 100 * Margin[bar.contract] \in Nat /\ 100 * Margin[bar.contract] > 0
    BY <1>2, <1>3, <1>4
  <2> QED BY <1>6, <2>1 DEF MarginContracts
<1>9. LeverageContracts(Equity, notional) \in Nat
  <2>1. Equity * LeverageCap \in Nat
    BY <1>2, <1>4
  <2> QED BY <1>5, <1>6, <2>1 DEF LeverageContracts
<1>10. Base(f) \in Nat
  BY <1>7, <1>8, <1>9 DEF Base, BaseContracts, Least, notional
<1> QED BY <1>10 DEF Sizes

\* A step of the strategy.
Decision ==
    \/ StopLoss
    \/ NoSignal
    \/ FlatSignal
    \/ \E dir \in {1, -1}, f \in Kellys : Act(dir, f)

\* Only the counters of signals and caps moved.
Counted(n) == n \in Results /\ n.orders = result.orders /\ n.fills = result.fills

\* A decision trades nothing, or one market order in the contract of the bar
\* that leads, in target-position mode, to no more than a size allowed.
LEMMA DecisionTrades ==
    ASSUME EngineTypeOK, LoopInv, Decision
    PROVE  /\ Decided /\ largest' \in Nat /\ largest <= largest'
           /\ \E counted :
                 /\ Counted(counted)
                 /\ \/ NoTrade(counted)
                    \/ \E delta \in Int \ {0} :
                          /\ Trade(bar.contract, delta, counted)
                          /\ TargetPosition => Abs(Held(bar.contract) + delta) <= largest'
<1> DEFINE c == bar.contract
<1>1. /\ c \in Contracts /\ Held(c) \in Int /\ largest \in Nat /\ result \in Results
  <2>1. bar \in Bars /\ book \in Books /\ largest \in Nat /\ result \in Results
    BY TypeOKSplit DEF EngineTypeOK, Results
  <2>2. c \in Contracts
    BY <2>1, ConstantsAssumption
  <2> QED BY <2>1, <2>2 DEF Held, Books, Positions
<1>2. Counted(result) /\ Counted(Count("signals", 1))
  BY <1>1 DEF Counted, Count, Results
<1>3. CASE StopLoss
  <2>1. Held(c) # 0 /\ Trade(c, -Held(c), result) /\ Decided /\ largest' = largest
    BY <1>3 DEF StopLoss, StopFires, StopHit, Held
  <2>2. -Held(c) \in Int \ {0} /\ Abs(Held(c) + (-Held(c))) <= largest'
    BY <1>1, <2>1 DEF Abs
  <2> QED BY <1>1, <1>2, <2>1, <2>2
<1>4. CASE NoSignal
  BY <1>1, <1>2, <1>4 DEF NoSignal
<1>5. CASE FlatSignal
  <2>1. Decided /\ largest' = largest
    BY <1>5 DEF FlatSignal
  <2>2. CASE TargetPosition /\ Held(c) # 0
    <3>1. Trade(c, -Held(c), Count("signals", 1))
      BY <1>5, <2>2 DEF FlatSignal
    <3>2. -Held(c) \in Int \ {0} /\ Abs(Held(c) + (-Held(c))) <= largest'
      BY <1>1, <2>1, <2>2 DEF Abs
    <3> QED BY <1>1, <1>2, <2>1, <3>1, <3>2
  <2>3. CASE ~(TargetPosition /\ Held(c) # 0)
    <3>1. NoTrade(Count("signals", 1))
      BY <1>5, <2>3 DEF FlatSignal
    <3> QED BY <1>1, <1>2, <2>1, <3>1
  <2> QED BY <2>2, <2>3
<1>6. CASE \E dir \in {1, -1}, f \in Kellys : Act(dir, f)
  <2>1. PICK dir \in {1, -1}, f \in Kellys : Act(dir, f)
    BY <1>6
  <2>2. PICK size \in Sizes(f) : Place(dir, f, size) /\ largest' = Larger(largest, size)
    BY <2>1 DEF Act
  <2>3. Decided /\ phase = "decide" /\ close > 0
    BY <2>1 DEF Act, Decided
  <2>4. size \in Nat
    BY <2>3, SizesAreNat
  <2>5. largest' \in Nat /\ largest <= largest' /\ size <= largest'
    BY <1>1, <2>2, <2>4 DEF Larger
  <2> DEFINE delta == ResolveOrder(dir, size)
             counted == [result EXCEPT !.signals = @ + 1,
                                       !.capped = IF size < Base(f) THEN @ + 1 ELSE @]
  <2>6. Counted(counted)
    <3> DEFINE n == result.signals + 1
               k == IF size < Base(f) THEN result.capped + 1 ELSE result.capped
    <3>1. n \in Nat /\ k \in Nat
      BY <1>1 DEF Results
    <3>2. counted = [result EXCEPT !.signals = n, !.capped = k]
      OBVIOUS
    <3> HIDE DEF n, k, counted
    <3> QED BY <1>1, <3>1, <3>2 DEF Counted, Results
  <2>7. IF size = 0 \/ delta = 0 THEN NoTrade(counted) ELSE Trade(c, delta, counted)
    BY <2>2 DEF Place
  <2>8. delta \in Int /\ (TargetPosition => Abs(Held(c) + delta) <= largest')
    BY <1>1, <2>4, <2>5 DEF ResolveOrder, Abs
  <2> HIDE DEF delta, counted
  <2> QED BY <2>3, <2>5, <2>6, <2>7, <2>8
<1> QED BY <1>3, <1>4, <1>5, <1>6 DEF Decision

-----------------------------------------------------------------------------
(* Types and the loop                                                        *)

\* EngineTypeOK past the broker.
LoopTyped ==
    /\ peak \in Int /\ halted \in {"no", "dll", "mll"}
    /\ t \in 0 .. Len(stream)
    /\ phase \in Phases
    /\ close \in Int
    /\ lastClose \in [Contracts -> Int] /\ seen \subseteq Contracts
    /\ closes \in [Contracts -> Nat]
    /\ curve \in Seq(Int)
    /\ phase = "bar" => Len(curve) = t
    /\ result \in Results
    /\ placed \in Seq(1 .. t) /\ Len(placed) = Len(orders)
    /\ largest \in Nat

BrokerTyped == OrdersTyped /\ book \in Books /\ bar \in Bars /\ cursor \in 0 .. Len(orders)

LEMMA EngineTypeSplit == EngineTypeOK <=> BrokerTyped /\ LoopTyped
BY TypeOKSplit DEF EngineTypeOK, LoopTyped, BrokerTyped, Results

\* Facts every action uses.
LEMMA Facts ==
    ASSUME EngineTypeOK, LoopInv
    PROVE  /\ TypeOK /\ bar.contract \in Contracts
           /\ stream \in Seq([contract : Contracts, day : Nat]) /\ Len(stream) \in Nat
           /\ t \in Nat /\ Len(curve) \in Nat /\ Len(orders) \in Nat
           /\ \A c \in Contracts : Held(c) \in Int
<1>1. stream \in Streams /\ BrokerTyped /\ LoopTyped /\ TypeOK
  BY EngineTypeSplit DEF LoopInv, EngineTypeOK
<1>2. stream \in Seq([contract : Contracts, day : Nat])
  BY <1>1, EngineAssumption
<1>3. bar.contract \in Contracts
  BY <1>1, ConstantsAssumption DEF BrokerTyped
<1>4. Len(stream) \in Nat /\ t \in Nat /\ Len(curve) \in Nat /\ Len(orders) \in Nat
  BY <1>1, <1>2 DEF BrokerTyped, LoopTyped, OrdersTyped
<1>5. \A c \in Contracts : Held(c) \in Int
  BY <1>1 DEF BrokerTyped, Books, Positions, Held
<1> QED BY <1>1, <1>2, <1>3, <1>4, <1>5

LEMMA MarkIsInt ==
    ASSUME EngineTypeOK
    PROVE  /\ MarkToMarket \in Int /\ CurrentEquity \in Int
           /\ \A c \in Contracts : Unrealized(c) \in Int
<1>1. book \in Books /\ lastClose \in [Contracts -> Int]
  BY EngineTypeSplit DEF BrokerTyped, LoopTyped
<1>2. ASSUME NEW c \in Contracts PROVE Unrealized(c) \in Int
  <2>1. /\ lastClose[c] \in Int /\ book.pos[c].avg \in Int /\ Held(c) \in Int /\ Mult[c] \in Int
    BY <1>1, ConstantsAssumption DEF Books, Positions, Held
  <2>2. (lastClose[c] - book.pos[c].avg) * Held(c) \in Int
    BY <2>1
  <2> QED BY <2>1, <2>2 DEF Unrealized
<1> DEFINE I == {d \in Contracts : Held(d) # 0 /\ d \in seen}
           u == [c \in I |-> Unrealized(c)]
<1>3. u \in [I -> Int]
  BY <1>2
<1>4. IsFiniteSet(I)
  BY ConstantsAssumption, FS_Subset
<1>5. SumFunction(u) \in Int
  BY <1>3, <1>4, TotalIsInt
<1>6. CurrentEquity \in Int
  BY <1>1, PropAssumption DEF Books, CurrentEquity
<1>7. MarkToMarket = CurrentEquity + SumFunction(u)
  BY DEF MarkToMarket
<1> HIDE DEF u
<1> QED BY <1>2, <1>5, <1>6, <1>7

\* The counters of the result, one at a time.
LEMMA CountTyped ==
    ASSUME result \in Results
    PROVE  /\ Count("signals", 1) \in Results /\ Count("fills", 1) \in Results
           /\ Count("signals", 1).fills = result.fills
           /\ Count("signals", 1).orders = result.orders
           /\ Count("fills", 1).fills = result.fills + 1
           /\ Count("fills", 1).orders = result.orders
BY DEF Count, Results

\* A placed order keeps the broker's types.
LEMMA TradeTyped ==
    ASSUME AnyQuantity, EngineTypeOK, LoopInv, t > 0, NEW delta \in Int \ {0}, NEW counted,
           Counted(counted), Trade(bar.contract, delta, counted)
    PROVE  /\ BrokerTyped' /\ result' \in Results /\ placed' \in Seq(1 .. t)
           /\ Len(placed') = Len(orders')
           /\ peak' \in Int /\ halted' \in {"no", "dll", "mll"}
           /\ UNCHANGED <<book, bar, cursor, cancelled>>
<1> DEFINE o == MarketOrder(bar.contract, delta)
<1>1. /\ BrokerTyped /\ LoopTyped /\ bar.contract \in Contracts /\ t \in Nat
  BY EngineTypeSplit, Facts
<1>2. o \in Orders
  <2>1. Abs(delta) \in Nat \ {0}
    BY DEF Abs
  <2>2. /\ o.contract = bar.contract /\ o.side \in Sides /\ o.qty = Abs(delta)
        /\ o.type = "MKT" /\ o.price = 0
        /\ o \in [contract : Contracts, side : Sides, qty : Nat \ {0}, type : OrderTypes,
                  price : Prices \cup {0}]
    BY <1>1, <2>1 DEF MarketOrder, Sides, OrderTypes
  <2> HIDE DEF o
  <2> QED BY <2>2 DEF Orders, PricesFor, AnyQuantity
<1>3. Asked(bar.contract, o.side, o.qty)
  BY DEF Trade
<1>4. peak' \in Int /\ halted' \in {"no", "dll", "mll"}
  <2>1. Observed \in Int
    BY <1>1, MarkIsInt DEF LoopTyped, Observed, Larger
  <2> QED BY <1>1, <1>3, <2>1 DEF Asked, Breach, propVars, LoopTyped
<1>5. CASE IsTradeAllowed(bar.contract, o.side, o.qty)
  <2>1. PlaceOrder(o) /\ placed' = Append(placed, t) /\ result' = [counted EXCEPT !.orders = @ + 1]
    BY <1>5 DEF Trade
  <2> HIDE DEF o
  <2>2. OrdersTyped' /\ cursor' \in 0 .. Len(orders') /\ book' = book /\ bar' = bar
        /\ UNCHANGED <<cursor, cancelled>>
    BY <1>1, <1>2, <2>1, PlaceOrderTyped DEF BrokerTyped, PlaceOrder
  <2>3. result' \in Results
    BY <2>1 DEF Counted, Results
  <2>4. Len(orders') = Len(orders) + 1
    BY <1>1, <2>1 DEF PlaceOrder, BrokerTyped, OrdersTyped
  <2>5. placed' \in Seq(1 .. t) /\ Len(placed') = Len(placed) + 1
    BY <1>1, <2>1 DEF LoopTyped
  <2> QED BY <1>1, <1>4, <2>2, <2>3, <2>4, <2>5 DEF BrokerTyped, LoopTyped
<1>6. CASE ~IsTradeAllowed(bar.contract, o.side, o.qty)
  <2>1. UNCHANGED <<vars, placed>> /\ result' = counted
    BY <1>6 DEF Trade
  <2> QED BY <1>1, <1>4, <2>1 DEF BrokerTyped, LoopTyped, OrdersTyped, vars, Counted, Ids
<1> QED BY <1>5, <1>6

LEMMA LoopInit == EngineInit => EngineTypeOK /\ LoopInv
<1> SUFFICES ASSUME EngineInit PROVE EngineTypeOK /\ LoopInv
  OBVIOUS
<1>1. TypeOK /\ orders = <<>> /\ cursor = 0
  BY TypeOKInit DEF EngineInit, PropInit, Init
<1>2. BrokerTyped
  BY <1>1, TypeOKSplit DEF BrokerTyped
<1>3. stream \in Streams /\ Len(stream) \in Nat
  BY EngineAssumption DEF EngineInit
<1>4. result \in Results
  BY DEF EngineInit, Results
<1>5. InitialEquityPeak \in Int
  BY PropAssumption
<1>6. LoopTyped
  BY <1>1, <1>3, <1>4, <1>5 DEF EngineInit, PropInit, LoopTyped, Phases
<1>7. LoopInv
  BY <1>1, <1>3 DEF EngineInit, LoopInv, Idle
<1> QED BY <1>2, <1>6, <1>7, EngineTypeSplit

LEMMA LoopStep ==
    ASSUME AnyQuantity
    PROVE  EngineTypeOK /\ LoopInv /\ [EngineNext]_allVars => EngineTypeOK' /\ LoopInv'
<1> SUFFICES ASSUME EngineTypeOK, LoopInv, [EngineNext]_allVars
             PROVE  BrokerTyped' /\ LoopTyped' /\ LoopInv'
  <2>1. BrokerTyped' /\ LoopTyped' => EngineTypeOK'
    BY EngineTypeSplit, PTL
  <2> QED BY <2>1
<1>0. /\ TypeOK /\ BrokerTyped /\ LoopTyped /\ bar.contract \in Contracts
      /\ Len(stream) \in Nat /\ t \in Nat /\ Len(curve) \in Nat /\ Len(orders) \in Nat
  BY EngineTypeSplit, Facts
<1>1. ASSUME NEW b \in Bars, NEW px \in Closes, NextBar(b, px)
      PROVE  BrokerTyped' /\ LoopTyped' /\ LoopInv'
  <2>1. px \in Int
    BY EngineAssumption
  <2>2. phase = "bar" /\ phase' = "advance" /\ t' = t + 1 /\ t < Len(stream)
    BY <1>1 DEF NextBar, After
  <2>3. BrokerTyped'
    BY <1>0, <1>1 DEF NextBar, BrokerTyped, OrdersTyped, Ids
  <2>4. t' \in 0 .. Len(stream') /\ placed' \in Seq(1 .. t')
    BY <1>0, <1>1, <2>2 DEF NextBar, LoopTyped
  <2>5. LoopTyped'
    BY <1>0, <1>1, <2>1, <2>2, <2>4 DEF NextBar, LoopTyped, Phases, propVars
  <2>6. LoopInv'
    BY <1>0, <1>1, <2>2 DEF NextBar, LoopInv, Idle
  <2> QED BY <2>3, <2>5, <2>6
<1>2. ASSUME StartAdvance
      PROVE  BrokerTyped' /\ LoopTyped' /\ LoopInv'
  <2>1. orders' = orders /\ UNCHANGED <<cancelled, filled, events, book, bar>>
    BY <1>2 DEF StartAdvance, AdvanceStart, vars
  <2>2. cursor' \in 0 .. Len(orders')
    <3>1. CASE orders = <<>>
      BY <1>0, <1>2, <3>1 DEF StartAdvance, vars, BrokerTyped
    <3>2. CASE orders # <<>>
      BY <1>0, <1>2, <2>1, <3>2 DEF StartAdvance, AdvanceStart, BrokerTyped, OrdersTyped
    <3> QED BY <3>1, <3>2
  <2>3. BrokerTyped'
    BY <1>0, <2>1, <2>2 DEF BrokerTyped, OrdersTyped, Ids
  <2>4. LoopTyped' /\ LoopInv'
    BY <1>0, <1>2, <2>1 DEF StartAdvance, LoopTyped, LoopInv, Phases, propVars
  <2> QED BY <2>3, <2>4
<1>3. ASSUME Advance
      PROVE  BrokerTyped' /\ LoopTyped' /\ LoopInv'
  <2>0. phase = "fill" /\ UNCHANGED propVars
        /\ UNCHANGED <<stream, t, close, lastClose, seen, closes, curve, placed, largest>>
    BY <1>3 DEF Advance
  <2>1. CASE AdvanceSkip /\ UNCHANGED <<result, phase>>
    <3>1. BrokerTyped'
      BY <1>0, <2>1 DEF AdvanceSkip, BrokerTyped, OrdersTyped, Ids, NextCursor, Idle
    <3>2. LoopTyped' /\ LoopInv'
      BY <1>0, <2>0, <2>1 DEF AdvanceSkip, LoopTyped, LoopInv, propVars
    <3> QED BY <3>1, <3>2
  <2>2. CASE AdvanceFill /\ result' = Count("fills", 1) /\ UNCHANGED phase
    <3>1. BrokerTyped' /\ orders' = orders /\ bar' = bar
      BY <1>0, <2>2, AdvanceTyped DEF BrokerTyped
    <3>2. result' \in Results
      BY <1>0, <2>2, CountTyped DEF LoopTyped
    <3>3. LoopTyped' /\ LoopInv'
      BY <1>0, <2>0, <2>2, <3>1, <3>2 DEF LoopTyped, LoopInv, propVars
    <3> QED BY <3>1, <3>3
  <2>3. CASE AdvanceRaises /\ phase' = "raised" /\ UNCHANGED result
    <3>1. UNCHANGED <<orders, cancelled, filled, events, book, bar>> /\ cursor' = 0
      BY <1>0, <2>3, AdvanceRaisesTyped
    <3>2. BrokerTyped'
      BY <1>0, <3>1 DEF BrokerTyped, OrdersTyped, Ids
    <3>3. LoopTyped' /\ LoopInv'
      BY <1>0, <2>0, <2>3, <3>1 DEF LoopTyped, LoopInv, propVars, Phases, Idle
    <3> QED BY <3>2, <3>3
  <2> QED BY <1>3, <2>1, <2>2, <2>3 DEF Advance
<1>4. ASSUME SeeClose
      PROVE  BrokerTyped' /\ LoopTyped' /\ LoopInv'
  <2>1. UNCHANGED brokerVars /\ phase = "fill" /\ phase' = "roll" /\ Idle
    BY <1>4 DEF SeeClose, After
  <2>2. BrokerTyped'
    BY <1>0, <2>1 DEF BrokerTyped, OrdersTyped, Ids, brokerVars, vars
  <2>3. LoopTyped' /\ LoopInv'
    BY <1>0, <1>4, <2>1 DEF SeeClose, LoopTyped, LoopInv, Phases, brokerVars, vars, propVars, Idle
  <2> QED BY <2>2, <2>3
<1>5. ASSUME NEW e \in RollEvents, NEW ff \in RollFills, NEW bf \in RollFills,
             ExecuteRoll(e, ff, bf)
      PROVE  BrokerTyped' /\ LoopTyped' /\ LoopInv'
  <2>1. e.old \in Contracts /\ e.new \in Contracts /\ ff \in Int /\ bf \in Int
    BY EngineAssumption, ConstantsAssumption
  <2>2. RollPosition(e.old, e.new, ff, bf) \/ RollRaises(e.old, e.new, ff, bf)
    BY <1>5 DEF ExecuteRoll
  <2>3. book' \in Books /\ UNCHANGED <<orders, cancelled, filled, events, bar, cursor>>
    BY <1>0, <2>1, <2>2, RollMovesBook DEF BrokerTyped
  <2>4. BrokerTyped'
    BY <1>0, <2>3 DEF BrokerTyped, OrdersTyped, Ids
  <2>5. phase = "roll" /\ phase' \in {"mark", "raised"} /\ UNCHANGED propVars
        /\ UNCHANGED <<stream, t, close, lastClose, seen, closes, curve, placed, largest>>
    BY <1>5 DEF ExecuteRoll, After
  <2>6. result' \in Results
    <3> DEFINE cost == (bf - ff) * Held(e.old) * Mult[e.new]
    <3>1. cost \in Int
      <4>1. Held(e.old) \in Int /\ Mult[e.new] \in Int
        BY <2>1, Facts, ConstantsAssumption
      <4>2. (bf - ff) * Held(e.old) \in Int
        BY <2>1, <4>1
      <4> QED BY <4>1, <4>2
    <3> DEFINE n == result.rolls + 1
               total == result.cost + cost
    <3>2. result \in Results /\ n \in Nat /\ total \in Int
      BY <1>0, <3>1 DEF LoopTyped, Results
    <3>3. \/ result' = [result EXCEPT !.rolls = n, !.cost = total]
          \/ result' = result
      BY <1>5 DEF ExecuteRoll
    <3> HIDE DEF n, total
    <3> QED BY <3>2, <3>3 DEF Results
  <2>7. LoopTyped' /\ LoopInv'
    BY <1>0, <2>3, <2>5, <2>6 DEF LoopTyped, LoopInv, Phases, propVars, Idle
  <2> QED BY <2>4, <2>7
<1>6. ASSUME NoRoll
      PROVE  BrokerTyped' /\ LoopTyped' /\ LoopInv'
  <2>1. UNCHANGED brokerVars /\ phase = "roll" /\ phase' = "mark"
    BY <1>6 DEF NoRoll, After
  <2>2. BrokerTyped'
    BY <1>0, <2>1 DEF BrokerTyped, OrdersTyped, Ids, brokerVars, vars
  <2>3. LoopTyped' /\ LoopInv'
    BY <1>0, <1>6, <2>1 DEF NoRoll, LoopTyped, LoopInv, Phases, brokerVars, vars, propVars, Idle
  <2> QED BY <2>2, <2>3
<1>7. ASSUME Mark
      PROVE  BrokerTyped' /\ LoopTyped' /\ LoopInv'
  <2>1. /\ UNCHANGED vars /\ phase = "mark" /\ curve' = Append(curve, MarkToMarket)
        /\ phase' = (IF MarkToMarket <= 0 THEN "bar" ELSE "decide")
        /\ UNCHANGED <<stream, t, close, lastClose, seen, result, placed, largest>>
    BY <1>7 DEF Mark, After
  <2>2. BrokerTyped'
    BY <1>0, <2>1 DEF BrokerTyped, OrdersTyped, Ids, vars
  <2>3. MarkToMarket \in Int /\ CurrentEquity \in Int
    BY MarkIsInt
  <2>4. peak' \in Int /\ halted' = halted
    BY <1>0, <1>7, <2>3 DEF Mark, ObserveEquity, Observed, Larger, LoopTyped
  <2>5. closes' \in [Contracts -> Nat]
    <3>1. closes \in [Contracts -> Nat]
      BY <1>0 DEF LoopTyped
    <3>2. [closes EXCEPT ![bar.contract] = @ + 1] \in [Contracts -> Nat]
      BY <1>0, <3>1
    <3> QED BY <1>7, <3>1, <3>2 DEF Mark
  <2> HIDE DEF MarkToMarket
  <2>6. /\ curve' \in Seq(Int) /\ Len(curve') = Len(curve) + 1
        /\ curve'[Len(curve')] = MarkToMarket
    BY <1>0, <2>1, <2>3 DEF LoopTyped
  <2>7. Len(curve') = t' /\ t' > 0
    BY <1>0, <2>1, <2>6 DEF LoopInv
  <2>8. LoopTyped'
    BY <1>0, <2>1, <2>4, <2>5, <2>6, <2>7 DEF LoopTyped, Phases, vars
  <2>9. LoopInv'
    BY <1>0, <2>1, <2>3, <2>6, <2>7 DEF LoopInv, vars, Idle, Equity
  <2> QED BY <2>2, <2>8, <2>9
<1>8. ASSUME Decision
      PROVE  BrokerTyped' /\ LoopTyped' /\ LoopInv'
  <2>1. /\ phase = "decide" /\ phase' = "bar" /\ largest' \in Nat
        /\ UNCHANGED <<stream, t, close, lastClose, seen, closes, curve>>
    BY <1>8, DecisionTrades DEF Decided, After
  <2>2. t > 0 /\ Len(curve) = t
    BY <2>1 DEF LoopInv
  <2>3. PICK counted :
              /\ Counted(counted)
              /\ \/ NoTrade(counted)
                 \/ \E delta \in Int \ {0} : Trade(bar.contract, delta, counted)
    BY <1>8, DecisionTrades
  <2>4. /\ BrokerTyped' /\ result' \in Results /\ placed' \in Seq(1 .. t)
        /\ Len(placed') = Len(orders')
        /\ peak' \in Int /\ halted' \in {"no", "dll", "mll"}
        /\ UNCHANGED <<book, bar, cursor, cancelled>>
    <3>1. CASE NoTrade(counted)
      BY <1>0, <2>3, <3>1 DEF NoTrade, brokerVars, vars, propVars, BrokerTyped, OrdersTyped, Ids,
                              LoopTyped, Counted
    <3>2. CASE \E delta \in Int \ {0} : Trade(bar.contract, delta, counted)
      BY <2>2, <2>3, <3>2, TradeTyped
    <3> QED BY <2>3, <3>1, <3>2
  <2>5. LoopTyped' /\ LoopInv'
    BY <1>0, <2>1, <2>2, <2>4 DEF LoopTyped, LoopInv, Phases, Idle
  <2> QED BY <2>4, <2>5
<1>9. ASSUME SizingRaises
      PROVE  BrokerTyped' /\ LoopTyped' /\ LoopInv'
  <2>1. /\ UNCHANGED brokerVars /\ phase = "decide" /\ phase' = "raised"
        /\ UNCHANGED <<stream, t, close, lastClose, seen, closes, curve, placed, largest>>
        /\ result' = Count("signals", 1)
    BY <1>9 DEF SizingRaises
  <2>2. result' \in Results
    BY <1>0, <2>1, CountTyped DEF LoopTyped
  <2>3. BrokerTyped'
    BY <1>0, <2>1 DEF BrokerTyped, OrdersTyped, Ids, brokerVars, vars
  <2>4. LoopTyped' /\ LoopInv'
    BY <1>0, <2>1, <2>2 DEF LoopTyped, LoopInv, Phases, brokerVars, vars, propVars, Idle
  <2> QED BY <2>3, <2>4
<1>10. ASSUME Finish
       PROVE  BrokerTyped' /\ LoopTyped' /\ LoopInv'
  <2>1. /\ UNCHANGED vars /\ phase = "bar" /\ phase' = "done"
        /\ UNCHANGED <<stream, t, close, lastClose, seen, closes, curve, result, placed, largest>>
    BY <1>10 DEF Finish
  <2>2. peak' \in Int /\ halted' = halted
    BY <1>0, <1>10, MarkIsInt DEF Finish, ObserveEquity, Observed, Larger, LoopTyped
  <2>3. BrokerTyped'
    BY <1>0, <2>1 DEF BrokerTyped, OrdersTyped, Ids, vars
  <2>4. LoopTyped' /\ LoopInv'
    BY <1>0, <2>1, <2>2 DEF LoopTyped, LoopInv, Phases, vars, Idle
  <2> QED BY <2>3, <2>4
<1>11. ASSUME UNCHANGED allVars
       PROVE  BrokerTyped' /\ LoopTyped' /\ LoopInv'
  <2>1. BrokerTyped' /\ LoopTyped'
    BY <1>0, <1>11 DEF allVars, vars, propVars, engineVars, BrokerTyped, OrdersTyped, Ids, LoopTyped
  <2>2. LoopInv'
    BY <1>11 DEF allVars, vars, propVars, engineVars, LoopInv, Idle, Equity
  <2> QED BY <2>1, <2>2
<1> QED
  BY <1>1, <1>2, <1>3, <1>4, <1>5, <1>6, <1>7, <1>8, <1>9, <1>10, <1>11
     DEF EngineNext, Decision, Over

-----------------------------------------------------------------------------
(* Orders: NoLookAhead, the fills of a bar, and the counters                  *)

\* The fill of a bar: the whole order at the cursor, in the bar's contract.
LEMMA FillEffect ==
    ASSUME EngineTypeOK, OrderInv, AdvanceFill
    PROVE  /\ cursor \in Ids /\ orders[cursor].contract = bar.contract
           /\ filled[cursor] = 0 /\ orders[cursor].qty \in Nat \ {0}
           /\ filled'[cursor] = orders[cursor].qty
           /\ \A x \in Ids \ {cursor} : filled'[x] = filled[x]
           /\ Ids' = Ids /\ UNCHANGED <<orders, cancelled, bar>> /\ cursor' = NextCursor
           /\ ExecutedPrice(orders[cursor], bar) \in Int
           /\ book' = ApplyLeg(book, bar.contract, Signed(orders[cursor].side, orders[cursor].qty),
                               ExecutedPrice(orders[cursor], bar), FALSE)
<1>1. TypeOK /\ OrdersTyped /\ bar \in Bars /\ cursor \in Ids
  BY EngineTypeSplit, AdvanceTyped DEF BrokerTyped, EngineTypeOK
<1>2. /\ orders[cursor].qty \in Nat \ {0} /\ filled[cursor] \in Nat /\ DOMAIN filled = Ids
      /\ filled \in Seq(Nat)
  BY <1>1, OneOrder DEF OrdersTyped
<1>3. Hit(cursor) /\ cursor' = NextCursor /\ bar' = bar
  BY DEF AdvanceFill
<1>4. orders[cursor].contract = bar.contract /\ filled[cursor] < orders[cursor].qty
  BY <1>3 DEF Hit
<1>5. filled[cursor] = 0
  BY <1>1, <1>2, <1>4 DEF OrderInv
<1> DEFINE qty == orders[cursor].qty - filled[cursor]
<1>6. qty = orders[cursor].qty
  BY <1>2, <1>5
<1>7. Fill(cursor, qty, ExecutedPrice(orders[cursor], bar))
  BY DEF AdvanceFill
<1> HIDE DEF qty
<1>8. /\ filled' = [filled EXCEPT ![cursor] = filled[cursor] + qty]
      /\ UNCHANGED <<orders, cancelled>>
      /\ book' = ApplyLeg(book, orders[cursor].contract, Signed(orders[cursor].side, qty),
                          ExecutedPrice(orders[cursor], bar), FALSE)
  BY <1>7 DEF Fill
<1>9. filled'[cursor] = orders[cursor].qty /\ \A x \in Ids \ {cursor} : filled'[x] = filled[x]
  BY <1>1, <1>2, <1>5, <1>6, <1>8
<1>10. ExecutedPrice(orders[cursor], bar) \in Int
  BY <1>1, PriceTypes
<1>11. Ids' = Ids
  BY <1>8 DEF Ids
<1> QED BY <1>1, <1>2, <1>3, <1>4, <1>5, <1>6, <1>8, <1>9, <1>10, <1>11

\* What a decision leaves behind: the orders as they were, or one more.
NewOrder(delta) ==
    LET n == Len(orders) + 1
    IN  /\ Ids' = Ids \cup {n} /\ n \notin Ids /\ n \in Nat
        /\ orders'[n] = MarketOrder(bar.contract, delta) /\ filled'[n] = 0 /\ placed'[n] = t
        /\ \A x \in Ids : /\ orders'[x] = orders[x] /\ filled'[x] = filled[x]
                          /\ placed'[x] = placed[x]
        /\ Len(orders') = n
        /\ result'.orders = result.orders + 1 /\ result'.fills = result.fills
        /\ Asked(bar.contract, MarketOrder(bar.contract, delta).side, Abs(delta))
        /\ IsTradeAllowed(bar.contract, MarketOrder(bar.contract, delta).side, Abs(delta))
        /\ TargetPosition => Abs(Held(bar.contract) + delta) <= largest'

\* The account is asked nothing, or asked and refuses.
NoOrder ==
    /\ UNCHANGED <<orders, filled, placed>>
    /\ result'.orders = result.orders /\ result'.fills = result.fills
    /\ \/ UNCHANGED propVars
       \/ \E side \in Sides, qty \in Nat :
             Asked(bar.contract, side, qty) /\ ~IsTradeAllowed(bar.contract, side, qty)

LEMMA DecisionEffect ==
    ASSUME EngineTypeOK, LoopInv, Decision
    PROVE  /\ phase = "decide" /\ phase' = "bar" /\ largest <= largest' /\ largest' \in Nat
           /\ UNCHANGED <<stream, t, close, lastClose, seen, closes, curve>>
           /\ UNCHANGED <<book, bar, cursor, cancelled>>
           /\ NoOrder \/ \E delta \in Int \ {0} : NewOrder(delta)
<1>0. BrokerTyped /\ LoopTyped /\ largest \in Nat
  BY EngineTypeSplit DEF LoopTyped
<1>1. /\ phase = "decide" /\ phase' = "bar" /\ largest' \in Nat /\ largest <= largest'
      /\ UNCHANGED <<stream, t, close, lastClose, seen, closes, curve>>
  BY DecisionTrades DEF Decided, After
<1>2. PICK counted :
            /\ Counted(counted)
            /\ \/ NoTrade(counted)
               \/ \E delta \in Int \ {0} :
                     /\ Trade(bar.contract, delta, counted)
                     /\ TargetPosition => Abs(Held(bar.contract) + delta) <= largest'
  BY DecisionTrades
<1>3. CASE NoTrade(counted)
  BY <1>1, <1>2, <1>3 DEF NoTrade, brokerVars, vars, NoOrder, Counted
<1>4. ASSUME NEW delta \in Int \ {0}, Trade(bar.contract, delta, counted),
             TargetPosition => Abs(Held(bar.contract) + delta) <= largest'
      PROVE  /\ UNCHANGED <<book, bar, cursor, cancelled>>
             /\ NoOrder \/ NewOrder(delta)
  <2> DEFINE o == MarketOrder(bar.contract, delta)
  <2>1. o.side \in Sides /\ o.qty = Abs(delta) /\ Abs(delta) \in Nat
    BY DEF MarketOrder, Sides, Abs
  <2>2. Asked(bar.contract, o.side, Abs(delta))
    BY <1>4, <2>1 DEF Trade
  <2>3. CASE ~IsTradeAllowed(bar.contract, o.side, o.qty)
    <3>1. UNCHANGED <<vars, placed>> /\ result' = counted
      BY <1>4, <2>3 DEF Trade
    <3> HIDE DEF o
    <3> QED BY <1>2, <2>1, <2>2, <2>3, <3>1 DEF vars, NoOrder, Counted
  <2>4. CASE IsTradeAllowed(bar.contract, o.side, o.qty)
    <3>1. /\ PlaceOrder(o) /\ placed' = Append(placed, t)
          /\ result' = [counted EXCEPT !.orders = @ + 1]
      BY <1>4, <2>4 DEF Trade
    <3> DEFINE n == Len(orders) + 1
    <3>2. /\ orders \in Seq(Orders) /\ filled \in Seq(Nat) /\ placed \in Seq(1 .. t)
          /\ Len(filled) = Len(orders) /\ Len(placed) = Len(orders) /\ Len(orders) \in Nat
          /\ Ids = 1 .. Len(orders)
      BY <1>0 DEF BrokerTyped, LoopTyped, OrdersTyped, Ids
    <3> HIDE DEF o
    <3>3. /\ orders' = Append(orders, o) /\ filled' = Append(filled, 0)
          /\ UNCHANGED <<book, bar, cursor, cancelled>>
      BY <3>1 DEF PlaceOrder
    <3>4. /\ orders'[n] = o /\ \A x \in Ids : orders'[x] = orders[x]
          /\ Len(orders') = n /\ DOMAIN orders' = 1 .. n
      BY <3>2, <3>3
    <3>5. filled'[n] = 0 /\ \A x \in Ids : filled'[x] = filled[x]
      BY <3>2, <3>3
    <3>6. placed'[n] = t /\ \A x \in Ids : placed'[x] = placed[x]
      BY <3>1, <3>2
    <3>7. Ids' = Ids \cup {n} /\ n \notin Ids /\ n \in Nat
      BY <3>2, <3>4 DEF Ids
    <3>8. result'.orders = result.orders + 1 /\ result'.fills = result.fills
      BY <1>2, <3>1 DEF Counted, Results
    <3> HIDE DEF n
    <3>9. NewOrder(delta)
      BY <1>4, <2>1, <2>2, <2>4, <3>4, <3>5, <3>6, <3>7, <3>8 DEF NewOrder, n, o
    <3> QED BY <3>3, <3>9
  <2> QED BY <2>3, <2>4
<1> QED BY <1>1, <1>2, <1>3, <1>4

LEMMA OrderInit == EngineInit => OrderInv /\ FillInv /\ ReportAddsUp
<1> SUFFICES ASSUME EngineInit PROVE OrderInv /\ FillInv /\ ReportAddsUp
  OBVIOUS
<1>1. orders = <<>> /\ cancelled = {} /\ Ids = {}
  BY DEF EngineInit, PropInit, Init, Ids
<1>2. OrderInv /\ FillInv
  BY <1>1 DEF OrderInv, FillInv
<1>3. {id \in Ids : filled[id] > 0} = {} /\ Cardinality({}) = 0
  BY <1>1, FS_EmptySet
<1> QED BY <1>1, <1>2, <1>3 DEF ReportAddsUp, EngineInit

\* Steps that leave the orders alone.
LEMMA OrdersKept ==
    ASSUME EngineTypeOK, LoopInv, OrderInv, FillInv,
           UNCHANGED <<orders, filled, placed, cancelled, stream>>,
           \/ t' = t /\ bar' = bar /\ (phase' \in {"advance", "fill", "roll", "mark", "decide"}
                                      => phase \in {"advance", "fill", "roll", "mark", "decide"})
           \/ t' = t + 1 /\ phase' = "advance",
           \/ phase' \notin {"fill", "roll", "mark", "decide"}
           \/ phase \in {"roll", "mark"} /\ phase' \in {"mark", "decide"}
           \/ phase = "fill" /\ phase' = "roll" /\ Idle
           \/ phase' = "fill" /\ (cursor' = 1 \/ Ids = {})
    PROVE  OrderInv' /\ FillInv'
<1>1. /\ Ids' = Ids /\ t \in Nat /\ \A id \in Ids : placed[id] \in 1 .. t /\ id \in Nat \ {0}
  <2>1. /\ placed \in Seq(1 .. t) /\ Len(placed) = Len(orders) /\ orders \in Seq(Orders) /\ t \in Nat
    BY EngineTypeSplit, Facts DEF LoopTyped, BrokerTyped, OrdersTyped
  <2> QED BY <2>1 DEF Ids
<1>2. phase' \in {"advance", "fill", "roll", "mark", "decide"} => \A id \in Ids : placed[id] < t'
  BY <1>1 DEF OrderInv
<1>3. ASSUME NEW id \in Ids
      PROVE  /\ orders'[id].type = "MKT"
             /\ orders'[id].contract = stream'[placed'[id]].contract
             /\ filled'[id] \in {0, orders'[id].qty}
             /\ filled'[id] > 0 => placed'[id] < t'
  <2>1. filled[id] > 0 => placed[id] < t'
    BY <1>1 DEF OrderInv
  <2> QED BY <2>1 DEF OrderInv
<1>4. OrderInv'
  BY <1>1, <1>2, <1>3 DEF OrderInv
<1>5. ASSUME NEW id \in Ids, orders'[id].contract = bar'.contract,
             \/ phase' \in {"roll", "mark", "decide"}
             \/ phase' = "fill" /\ (Idle' \/ id < cursor')
      PROVE  filled'[id] = orders'[id].qty
  <2>1. CASE phase' \in {"roll", "mark", "decide"}
    BY <1>5, <2>1 DEF FillInv
  <2>2. CASE phase' = "fill"
    <3>1. cursor' = 1
      BY <1>5, <2>2
    <3>2. id < 1
      BY <1>5, <2>2, <3>1 DEF Idle
    <3> QED BY <1>1, <3>2
  <2> QED BY <1>5, <2>1, <2>2
<1>6. FillInv'
  BY <1>1, <1>5 DEF FillInv
<1> QED BY <1>4, <1>6

LEMMA OrderStep ==
    EngineTypeOK /\ LoopInv /\ OrderInv /\ FillInv /\ [EngineNext]_allVars
        => OrderInv' /\ FillInv'
<1> SUFFICES ASSUME EngineTypeOK, LoopInv, OrderInv, FillInv, [EngineNext]_allVars
             PROVE  OrderInv' /\ FillInv'
  OBVIOUS
<1>0. /\ TypeOK /\ BrokerTyped /\ LoopTyped /\ t \in Nat /\ Len(orders) \in Nat
      /\ OrdersTyped /\ Ids = 1 .. Len(orders) /\ cursor \in 0 .. Len(orders)
      /\ \A id \in Ids : orders[id].qty \in Nat \ {0} /\ filled[id] \in Nat
  <2>1. TypeOK /\ BrokerTyped /\ LoopTyped /\ t \in Nat /\ Len(orders) \in Nat
    BY EngineTypeSplit, Facts
  <2>2. OrdersTyped /\ Ids = 1 .. Len(orders) /\ cursor \in 0 .. Len(orders)
    BY <2>1 DEF BrokerTyped, OrdersTyped, Ids
  <2>3. \A id \in Ids : orders[id].qty \in Nat \ {0} /\ filled[id] \in Nat
    BY <2>2, OneOrder
  <2> QED BY <2>1, <2>2, <2>3
<1>1. ASSUME NEW b \in Bars, NEW px \in Closes, NextBar(b, px)
      PROVE  OrderInv' /\ FillInv'
  <2>1. /\ t' = t + 1 /\ phase' = "advance"
        /\ UNCHANGED <<orders, filled, placed, cancelled, stream>>
    BY <1>1 DEF NextBar, After
  <2> QED BY <2>1, OrdersKept
<1>2. ASSUME StartAdvance
      PROVE  OrderInv' /\ FillInv'
  <2>1. /\ t' = t /\ bar' = bar /\ phase = "advance" /\ phase' = "fill"
        /\ UNCHANGED <<orders, filled, placed, cancelled, stream>>
    BY <1>2 DEF StartAdvance, AdvanceStart, vars
  <2>2. cursor' = 1 \/ Ids = {}
    BY <1>2 DEF StartAdvance, AdvanceStart, Ids
  <2> QED BY <2>1, <2>2, OrdersKept
<1>3. ASSUME Advance
      PROVE  OrderInv' /\ FillInv'
  <2>0. phase = "fill" /\ UNCHANGED <<stream, t, placed>>
    BY <1>3 DEF Advance
  <2>1. CASE AdvanceSkip /\ UNCHANGED <<result, phase>>
    <3>1. UNCHANGED <<orders, cancelled, filled, bar>> /\ ~Hit(cursor) /\ ~Idle /\ cursor' = NextCursor
      BY <2>1 DEF AdvanceSkip
    <3>2. cursor \in Ids /\ Ids' = Ids
      BY <1>0, <3>1 DEF Idle, Ids
    <3>3. orders[cursor].contract = bar.contract => filled[cursor] = orders[cursor].qty
      <4>1. filled[cursor] \in {0, orders[cursor].qty} /\ orders[cursor].type = "MKT" /\ cancelled = {}
        BY <3>2 DEF OrderInv
      <4>2. filled[cursor] < orders[cursor].qty \/ filled[cursor] = orders[cursor].qty
        BY <1>0, <3>2, <4>1
      <4> QED BY <3>1, <4>1, <4>2 DEF Hit, Crosses
    <3>4. ASSUME NEW id \in Ids, orders[id].contract = bar.contract, Idle' \/ id < cursor'
          PROVE  filled[id] = orders[id].qty
      <4>1. id <= cursor
        BY <1>0, <3>1, <3>2, <3>4 DEF NextCursor, Idle
      <4>2. CASE id = cursor
        BY <3>3, <3>4, <4>2
      <4>3. CASE id < cursor
        BY <2>0, <3>4, <4>3 DEF FillInv
      <4> QED BY <1>0, <3>2, <4>1, <4>2, <4>3
    <3>5. OrderInv'
      BY <2>0, <2>1, <3>1, <3>2 DEF OrderInv
    <3>6. FillInv'
      BY <2>0, <2>1, <3>1, <3>2, <3>4 DEF FillInv
    <3> QED BY <3>5, <3>6
  <2>2. CASE AdvanceFill /\ result' = Count("fills", 1) /\ UNCHANGED phase
    <3>1. /\ cursor \in Ids /\ filled[cursor] = 0 /\ orders[cursor].qty \in Nat \ {0}
          /\ filled'[cursor] = orders[cursor].qty
          /\ \A x \in Ids \ {cursor} : filled'[x] = filled[x]
          /\ Ids' = Ids /\ UNCHANGED <<orders, cancelled, bar>> /\ cursor' = NextCursor
      BY <2>2, FillEffect
    <3>2. placed[cursor] < t
      BY <2>0, <3>1 DEF OrderInv
    <3>3. OrderInv'
      <4>1. ASSUME NEW id \in Ids
            PROVE  filled'[id] \in {0, orders[id].qty} /\ (filled'[id] > 0 => placed[id] < t)
        BY <3>1, <3>2 DEF OrderInv
      <4> QED BY <2>0, <2>2, <3>1, <4>1 DEF OrderInv
    <3>4. ASSUME NEW id \in Ids, orders[id].contract = bar.contract, Idle' \/ id < cursor'
          PROVE  filled'[id] = orders[id].qty
      <4>1. id <= cursor
        BY <1>0, <3>1, <3>4 DEF NextCursor, Idle
      <4>2. CASE id = cursor
        BY <3>1, <4>2
      <4>3. CASE id < cursor
        <5>1. filled[id] = orders[id].qty
          BY <2>0, <3>4, <4>3 DEF FillInv
        <5> QED BY <1>0, <3>1, <4>3, <5>1
      <4> QED BY <1>0, <3>1, <4>1, <4>2, <4>3
    <3>5. \A i \in Ids : filled'[i] = 0 => filled[i] = 0
      BY <3>1
    <3>6. FillInv'
      BY <2>0, <2>2, <3>1, <3>4, <3>5 DEF FillInv
    <3> QED BY <3>3, <3>6
  <2>3. CASE AdvanceRaises /\ phase' = "raised" /\ UNCHANGED result
    <3>1. UNCHANGED <<orders, cancelled, filled, events, book, bar>> /\ cursor' = 0
      BY <1>0, <2>3, AdvanceRaisesTyped
    <3> QED BY <2>0, <2>3, <3>1, OrdersKept
  <2> QED BY <1>3, <2>1, <2>2, <2>3 DEF Advance
<1>4. ASSUME SeeClose
      PROVE  OrderInv' /\ FillInv'
  <2>1. /\ UNCHANGED <<orders, filled, placed, cancelled, stream>> /\ t' = t /\ bar' = bar
        /\ phase = "fill" /\ phase' = "roll" /\ Idle
    BY <1>4 DEF SeeClose, After, brokerVars, vars
  <2> QED BY <2>1, OrdersKept
<1>5. ASSUME NEW e \in RollEvents, NEW ff \in RollFills, NEW bf \in RollFills,
             ExecuteRoll(e, ff, bf)
      PROVE  OrderInv' /\ FillInv'
  <2>1. /\ UNCHANGED <<orders, filled, placed, cancelled, stream>> /\ t' = t /\ bar' = bar
        /\ phase = "roll" /\ phase' \in {"mark", "raised"}
    BY <1>5 DEF ExecuteRoll, After, RollPosition, RollRaises
  <2> QED BY <2>1, OrdersKept
<1>6. ASSUME NoRoll \/ Mark
      PROVE  OrderInv' /\ FillInv'
  <2>1. /\ UNCHANGED <<orders, filled, placed, cancelled, stream>> /\ t' = t /\ bar' = bar
        /\ phase \in {"roll", "mark"} /\ phase' \in {"mark", "decide", "bar"}
    BY <1>6 DEF NoRoll, Mark, After, brokerVars, vars
  <2> QED BY <2>1, OrdersKept
<1>7. ASSUME Decision
      PROVE  OrderInv' /\ FillInv'
  <2>1. /\ phase = "decide" /\ phase' = "bar"
        /\ UNCHANGED <<stream, t, bar, cancelled>>
        /\ NoOrder \/ \E delta \in Int \ {0} : NewOrder(delta)
    BY <1>7, DecisionEffect
  <2>2. CASE NoOrder
    <3>1. UNCHANGED <<orders, filled, placed>>
      BY <2>2 DEF NoOrder
    <3> QED BY <2>1, <3>1, OrdersKept
  <2>3. ASSUME NEW delta \in Int \ {0}, NewOrder(delta)
        PROVE  OrderInv' /\ FillInv'
    <3> DEFINE n == Len(orders) + 1
    <3>1. /\ Ids' = Ids \cup {n} /\ n \notin Ids
          /\ orders'[n] = MarketOrder(bar.contract, delta) /\ filled'[n] = 0 /\ placed'[n] = t
          /\ \A x \in Ids : /\ orders'[x] = orders[x] /\ filled'[x] = filled[x]
                            /\ placed'[x] = placed[x]
      BY <2>3 DEF NewOrder
    <3> HIDE DEF n
    <3>2. orders'[n].type = "MKT" /\ orders'[n].contract = bar.contract
      BY <3>1 DEF MarketOrder
    <3>3. stream[t].contract = bar.contract
      BY <2>1 DEF LoopInv
    <3>4. OrderInv'
      <4>1. ASSUME NEW id \in Ids'
            PROVE  /\ orders'[id].type = "MKT"
                   /\ orders'[id].contract = stream'[placed'[id]].contract
                   /\ filled'[id] \in {0, orders'[id].qty}
                   /\ filled'[id] > 0 => placed'[id] < t'
        <5>1. CASE id = n
          BY <2>1, <3>1, <3>2, <3>3, <5>1
        <5>2. CASE id \in Ids
          BY <2>1, <3>1, <5>2 DEF OrderInv
        <5> QED BY <3>1, <5>1, <5>2
      <4> QED BY <2>1, <4>1 DEF OrderInv
    <3>5. \A x \in Ids : orders[x].contract = bar.contract => filled[x] # 0
      BY <1>0, <2>1 DEF FillInv
    <3>6. ASSUME NEW i \in Ids', NEW j \in Ids', filled'[i] = 0, filled'[j] = 0,
                 orders'[i].contract = orders'[j].contract
          PROVE  i = j
      <4>1. CASE i = n /\ j \in Ids
        BY <3>1, <3>2, <3>5, <3>6, <4>1
      <4>2. CASE i \in Ids /\ j = n
        BY <3>1, <3>2, <3>5, <3>6, <4>2
      <4>3. CASE i \in Ids /\ j \in Ids
        BY <3>1, <3>6, <4>3 DEF FillInv
      <4> QED BY <3>1, <4>1, <4>2, <4>3
    <3>7. FillInv'
      BY <2>1, <3>6 DEF FillInv
    <3> QED BY <3>4, <3>7
  <2> QED BY <2>1, <2>2, <2>3
<1>8. ASSUME SizingRaises \/ Finish
      PROVE  OrderInv' /\ FillInv'
  <2>1. /\ UNCHANGED <<orders, filled, placed, cancelled, stream>> /\ t' = t /\ bar' = bar
        /\ phase' \in {"raised", "done"}
    BY <1>8 DEF SizingRaises, Finish, brokerVars, vars
  <2> QED BY <2>1, OrdersKept
<1>9. ASSUME UNCHANGED allVars
      PROVE  OrderInv' /\ FillInv'
  BY <1>9 DEF allVars, vars, engineVars, OrderInv, FillInv, Ids, Idle
<1> QED
  BY <1>1, <1>2, <1>3, <1>4, <1>5, <1>6, <1>7, <1>8, <1>9
     DEF EngineNext, Decision, Over

\* The counters of the result are those of the broker.
LEMMA ReportStep ==
    EngineTypeOK /\ LoopInv /\ OrderInv /\ ReportAddsUp /\ [EngineNext]_allVars => ReportAddsUp'
<1> SUFFICES ASSUME EngineTypeOK, LoopInv, OrderInv, ReportAddsUp, [EngineNext]_allVars
             PROVE  ReportAddsUp'
  OBVIOUS
<1> DEFINE Done == {id \in Ids : filled[id] > 0}
<1>0. TypeOK /\ result \in Results /\ Ids = 1 .. Len(orders) /\ Len(orders) \in Nat
  BY EngineTypeSplit, Facts DEF LoopTyped, BrokerTyped, OrdersTyped, Ids
<1>1. IsFiniteSet(Done)
  <2>1. IsFiniteSet(Ids)
    BY <1>0, FS_Interval
  <2> QED BY <2>1, FS_Subset
<1>2. ASSUME UNCHANGED <<orders, filled>>, result'.orders = result.orders,
             result'.fills = result.fills
      PROVE  ReportAddsUp'
  <2>1. Ids' = Ids
    BY <1>2 DEF Ids
  <2> QED BY <1>2, <2>1 DEF ReportAddsUp
<1>3. ASSUME Advance
      PROVE  ReportAddsUp'
  <2>1. CASE AdvanceSkip /\ UNCHANGED <<result, phase>>
    BY <1>2, <2>1 DEF AdvanceSkip
  <2>2. CASE AdvanceFill /\ result' = Count("fills", 1) /\ UNCHANGED phase
    <3>1. /\ cursor \in Ids /\ filled[cursor] = 0 /\ orders[cursor].qty \in Nat \ {0}
          /\ filled'[cursor] = orders[cursor].qty
          /\ \A x \in Ids \ {cursor} : filled'[x] = filled[x]
          /\ Ids' = Ids /\ orders' = orders
      BY <2>2, FillEffect
    <3>2. {id \in Ids' : filled'[id] > 0} = Done \cup {cursor} /\ cursor \notin Done
      BY <3>1
    <3>3. Cardinality(Done \cup {cursor}) = Cardinality(Done) + 1
      BY <1>1, <3>2, FS_AddElement
    <3>4. result'.fills = result.fills + 1 /\ result'.orders = result.orders
      BY <1>0, <2>2, CountTyped
    <3>5. result.fills = Cardinality(Done) /\ result.orders = Len(orders)
      BY DEF ReportAddsUp
    <3> HIDE DEF Done
    <3> QED BY <3>1, <3>2, <3>3, <3>4, <3>5 DEF ReportAddsUp
  <2>3. CASE AdvanceRaises /\ phase' = "raised" /\ UNCHANGED result
    BY <1>0, <1>2, <2>3, AdvanceRaisesTyped
  <2> QED BY <1>3, <2>1, <2>2, <2>3 DEF Advance
<1>4. ASSUME Decision
      PROVE  ReportAddsUp'
  <2>1. NoOrder \/ \E delta \in Int \ {0} : NewOrder(delta)
    BY <1>4, DecisionEffect
  <2>2. CASE NoOrder
    BY <1>2, <2>2 DEF NoOrder
  <2>3. ASSUME NEW delta \in Int \ {0}, NewOrder(delta)
        PROVE  ReportAddsUp'
    <3> DEFINE n == Len(orders) + 1
    <3>1. /\ Ids' = Ids \cup {n} /\ filled'[n] = 0 /\ n \notin Ids
          /\ \A x \in Ids : filled'[x] = filled[x]
          /\ Len(orders') = n
          /\ result'.orders = result.orders + 1 /\ result'.fills = result.fills
      BY <2>3 DEF NewOrder
    <3>2. {id \in Ids' : filled'[id] > 0} = Done
      <4> HIDE DEF n
      <4> QED BY <3>1
    <3>3. result.fills = Cardinality(Done) /\ result.orders = Len(orders)
      BY DEF ReportAddsUp
    <3> HIDE DEF Done
    <3> QED BY <3>1, <3>2, <3>3 DEF ReportAddsUp
  <2> QED BY <2>1, <2>2, <2>3
<1>5. ASSUME NEW e \in RollEvents, NEW ff \in RollFills, NEW bf \in RollFills,
             ExecuteRoll(e, ff, bf)
      PROVE  ReportAddsUp'
  <2>1. UNCHANGED <<orders, filled>>
    BY <1>5 DEF ExecuteRoll, RollPosition, RollRaises
  <2>2. result'.orders = result.orders /\ result'.fills = result.fills
    <3> DEFINE n == result.rolls + 1
               total == result.cost + (bf - ff) * Held(e.old) * Mult[e.new]
    <3>1. result' = [result EXCEPT !.rolls = n, !.cost = total] \/ result' = result
      BY <1>5 DEF ExecuteRoll
    <3> HIDE DEF n, total
    <3> QED BY <1>0, <3>1 DEF Results
  <2> QED BY <1>2, <2>1, <2>2
<1>6. ASSUME SizingRaises
      PROVE  ReportAddsUp'
  <2>1. UNCHANGED <<orders, filled>> /\ result' = Count("signals", 1)
    BY <1>6 DEF SizingRaises, brokerVars, vars
  <2> QED BY <1>0, <1>2, <2>1, CountTyped
<1>7. ASSUME \/ \E b \in Bars, px \in Closes : NextBar(b, px)
             \/ StartAdvance \/ SeeClose \/ NoRoll \/ Mark \/ Finish \/ UNCHANGED allVars
      PROVE  ReportAddsUp'
  <2>1. UNCHANGED <<orders, filled>> /\ result' = result
    BY <1>7 DEF NextBar, StartAdvance, AdvanceStart, SeeClose, NoRoll, Mark, Finish, allVars,
                engineVars, brokerVars, vars
  <2> QED BY <1>2, <2>1
<1> QED
  BY <1>3, <1>4, <1>5, <1>6, <1>7 DEF EngineNext, Decision, Over

\* What holds of every run of the loop, whatever the stream and the rolls.
EngineInv == EngineTypeOK /\ LoopInv /\ OrderInv /\ FillInv /\ ReportAddsUp

LEMMA EngineInvariant ==
    ASSUME AnyQuantity
    PROVE  EngineSpec => []EngineInv
<1>1. EngineInit => EngineInv
  BY LoopInit, OrderInit DEF EngineInv
<1>2. EngineInv /\ [EngineNext]_allVars => EngineInv'
  BY LoopStep, OrderStep, ReportStep DEF EngineInv
<1> QED BY <1>1, <1>2, PTL DEF EngineSpec

\* For any stream, prices, rolls and strategy no order is filled against the bar
\* it was decided on, also when an exception ends the run (backtest.py, run: the
\* broker advances before the strategy is asked).
THEOREM LookAheadFree ==
    ASSUME AnyQuantity
    PROVE  EngineSpec => []NoLookAhead
<1>1. EngineInv => NoLookAhead
  BY DEF EngineInv, OrderInv, NoLookAhead
<1> QED BY <1>1, EngineInvariant, PTL

\* One contract throughout, so that there is nothing to roll into.
SingleContract == (\A c, d \in Contracts : c = d) /\ RollEvents = {}

\* On a stream of one contract an order outstanding at one bar is filled when the
\* next is marked, or the run has ended with an exception (backtest.py, run;
\* mock_broker.py, advance).
THEOREM FilledByNextBar ==
    ASSUME AnyQuantity, SingleContract
    PROVE  EngineSpec => []OrdersFillNextBar
<1>1. EngineInv => OrdersFillNextBar
  <2> SUFFICES ASSUME EngineInv, phase \in {"mark", "decide"}, NEW id \in Ids
               PROVE  filled[id] = orders[id].qty
    BY DEF OrdersFillNextBar
  <2>1. OrdersTyped /\ bar.contract \in Contracts
    BY EngineTypeSplit, Facts DEF EngineInv, BrokerTyped
  <2>2. orders[id].contract \in Contracts
    BY <2>1, OneOrder
  <2>3. orders[id].contract = bar.contract
    BY <2>1, <2>2 DEF SingleContract
  <2> QED BY <2>3 DEF EngineInv, FillInv
<1> QED BY <1>1, EngineInvariant, PTL

-----------------------------------------------------------------------------
(* Positions: where they are, and what legs and rolls do to them             *)

\* The order at the cursor moves the position of the bar's contract and no other.
LEMMA FillMoves ==
    ASSUME EngineTypeOK, OrderInv, AdvanceFill
    PROVE  /\ \E gain : Moved(book', book, bar.contract,
                              Signed(orders[cursor].side, orders[cursor].qty), gain)
           /\ Signed(orders[cursor].side, orders[cursor].qty) \in Int
           /\ book \in Books /\ bar.contract \in Contracts
<1> DEFINE c == bar.contract
           delta == Signed(orders[cursor].side, orders[cursor].qty)
           price == ExecutedPrice(orders[cursor], bar)
<1>1. book \in Books /\ c \in Contracts
  <2>1. book \in Books /\ bar \in Bars
    BY EngineTypeSplit DEF BrokerTyped
  <2> QED BY <2>1, ConstantsAssumption
<1>2. /\ orders[cursor].qty \in Nat \ {0} /\ price \in Int
      /\ book' = ApplyLeg(book, c, delta, price, FALSE)
  BY FillEffect
<1>3. delta \in Int
  BY <1>2 DEF Signed
<1> HIDE DEF c, delta, price
<1>4. Moved(ApplyLeg(book, c, delta, price, FALSE), book, c, delta,
            RealizedDelta(c, book.pos[c], delta, price))
  BY <1>1, <1>2, <1>3, LegMoves
<1>5. \E gain : Moved(book', book, c, delta, gain)
  BY <1>2, <1>4
<1> QED BY <1>1, <1>3, <1>5 DEF c, delta

LEMMA HeldInit == EngineInit => HeldInv
<1> SUFFICES ASSUME EngineInit PROVE HeldInv
  OBVIOUS
<1>1. \A c \in Contracts : Held(c) = 0
  BY DEF EngineInit, PropInit, Init, EmptyBook, FlatPosition, Held
<1>2. bar.contract \in Contracts
  BY ConstantsAssumption DEF EngineInit, PropInit, Init
<1>3. 1 .. t = {}
  BY DEF EngineInit
<1> QED BY <1>1, <1>2, <1>3 DEF HeldInv

LEMMA HeldStep ==
    ASSUME Continuous
    PROVE  EngineTypeOK /\ LoopInv /\ OrderInv /\ HeldInv /\ [EngineNext]_allVars => HeldInv'
<1> SUFFICES ASSUME EngineTypeOK, LoopInv, OrderInv, HeldInv, [EngineNext]_allVars
             PROVE  HeldInv'
  OBVIOUS
<1>0. /\ TypeOK /\ BrokerTyped /\ LoopTyped /\ bar.contract \in Contracts /\ book \in Books
      /\ Len(stream) \in Nat /\ t \in Nat /\ t <= Len(stream) /\ stream \in Streams
      /\ stream \in Seq([contract : Contracts, day : Nat])
      /\ t > 0 => bar.contract = stream[t].contract
      /\ DOMAIN stream = 1 .. Len(stream)
  <2>1. TypeOK /\ BrokerTyped /\ LoopTyped /\ bar.contract \in Contracts /\ book \in Books
    BY EngineTypeSplit, Facts DEF BrokerTyped
  <2>2. stream \in Seq([contract : Contracts, day : Nat]) /\ Len(stream) \in Nat /\ t \in Nat
    BY Facts
  <2> QED BY <2>1, <2>2 DEF LoopTyped, LoopInv
<1>1. PICK h \in Contracts : \A d \in Contracts : Held(d) # 0 => d = h
  BY DEF HeldInv
\* A step that leaves the book alone and stays within the bar.
<1>2. ASSUME UNCHANGED <<book, stream, t, bar>>, seen \subseteq seen',
             phase # "raised", phase' # "raised" => Carrier' = Carrier,
             phase' \notin {"advance", "fill", "raised"} =>
                 phase \notin {"advance", "fill"} \/ bar.contract \in seen'
      PROVE  HeldInv'
  <2>1. \A c \in Contracts : Held(c)' = Held(c)
    BY <1>2 DEF Held
  <2>2. ASSUME phase' # "raised", NEW i \in 1 .. t, i < t \/ phase' \notin {"advance", "fill"}
        PROVE  stream[i].contract \in seen'
    <3>1. CASE i < t \/ phase \notin {"advance", "fill"}
      BY <1>2, <3>1 DEF HeldInv
    <3>2. CASE ~(i < t) /\ bar.contract \in seen'
      BY <1>0, <3>2
    <3> QED BY <1>2, <2>2, <3>1, <3>2
  <2> QED BY <1>1, <1>2, <2>1, <2>2 DEF HeldInv
<1>3. ASSUME NEW b \in Bars, NEW px \in Closes, NextBar(b, px)
      PROVE  HeldInv'
  <2>1. /\ phase = "bar" /\ phase' = "advance" /\ t' = t + 1
        /\ UNCHANGED <<book, stream, seen>>
    BY <1>3 DEF NextBar, After
  <2>2. \A c \in Contracts : Held(c)' = Held(c)
    BY <2>1 DEF Held
  <2>3. t > 0 => Carrier' = bar.contract
    BY <1>0, <2>1 DEF Carrier
  <2>4. Carrier = bar.contract
    BY <2>1 DEF Carrier
  <2>5. ASSUME NEW c \in Contracts, Held(c) # 0 PROVE c = Carrier'
    BY <1>0, <2>1, <2>3, <2>4, <2>5 DEF HeldInv
  <2>6. ASSUME NEW i \in 1 .. t', i < t' PROVE stream[i].contract \in seen
    BY <1>0, <2>1, <2>6 DEF HeldInv
  <2> QED BY <1>0, <1>1, <2>1, <2>2, <2>5, <2>6 DEF HeldInv
<1>4. ASSUME StartAdvance
      PROVE  HeldInv'
  <2>1. /\ phase = "advance" /\ phase' = "fill" /\ UNCHANGED <<book, stream, t, bar, seen>>
    BY <1>4 DEF StartAdvance, AdvanceStart, vars
  <2>2. Carrier' = Carrier
    BY <2>1 DEF Carrier
  <2> QED BY <1>2, <2>1, <2>2
<1>5. ASSUME Advance
      PROVE  HeldInv'
  <2>0. phase = "fill" /\ UNCHANGED <<stream, t, seen>>
    BY <1>5 DEF Advance
  <2>1. CASE AdvanceSkip /\ UNCHANGED <<result, phase>>
    <3>1. UNCHANGED <<book, bar>>
      BY <2>1 DEF AdvanceSkip
    <3>2. Carrier' = Carrier
      BY <2>0, <2>1, <3>1 DEF Carrier
    <3> QED BY <1>2, <2>0, <2>1, <3>1, <3>2
  <2>2. CASE AdvanceFill /\ result' = Count("fills", 1) /\ UNCHANGED phase
    <3>1. cursor \in Ids /\ orders[cursor].contract = bar.contract /\ bar' = bar
      BY <2>2, FillEffect
    <3>2. \A d \in Contracts \ {bar.contract} : book'.pos[d] = book.pos[d]
      BY <2>2, FillMoves DEF Moved
    <3>3. /\ placed[cursor] \in 1 .. t /\ placed[cursor] < t
          /\ stream[placed[cursor]].contract = bar.contract
      <4>1. /\ placed \in Seq(1 .. t) /\ Len(placed) = Len(orders) /\ orders \in Seq(Orders)
            /\ t \in Nat
        BY <1>0 DEF LoopTyped, BrokerTyped, OrdersTyped
      <4>2. \A id \in Ids : placed[id] \in 1 .. t
        BY <4>1 DEF Ids
      <4>3. placed[cursor] \in 1 .. t
        BY <3>1, <4>2
      <4> QED BY <2>0, <3>1, <4>3 DEF OrderInv
    <3>4. t > 1 /\ t - 1 \in DOMAIN stream /\ t \in DOMAIN stream
          /\ placed[cursor] \in DOMAIN stream /\ placed[cursor] <= t - 1 /\ t - 1 <= t
      BY <1>0, <3>3
    <3>5. stream[t - 1].contract = stream[t].contract
      <4>1. \A i, j, k \in DOMAIN stream :
                i <= j /\ j <= k /\ stream[i].contract = stream[k].contract
                    => stream[j].contract = stream[k].contract
        BY <1>0 DEF Continuous
      <4>2. stream[placed[cursor]].contract = stream[t].contract
        BY <1>0, <3>3, <3>4
      <4> QED BY <3>4, <4>1, <4>2
    <3>6. Carrier = bar.contract /\ Carrier' = bar.contract
      BY <1>0, <2>0, <2>2, <3>1, <3>4, <3>5 DEF Carrier
    <3>7. \A c \in Contracts : Held(c)' # 0 => c = bar.contract
      BY <2>0, <3>2, <3>6 DEF HeldInv, Held
    <3> QED BY <1>0, <2>0, <2>2, <3>4, <3>6, <3>7 DEF HeldInv
  <2>3. CASE AdvanceRaises /\ phase' = "raised" /\ UNCHANGED result
    <3>1. UNCHANGED <<book, bar>>
      BY <1>0, <2>3, AdvanceRaisesTyped
    <3> QED BY <1>2, <2>0, <2>3, <3>1
  <2> QED BY <1>5, <2>1, <2>2, <2>3 DEF Advance
<1>6. ASSUME SeeClose
      PROVE  HeldInv'
  <2>1. /\ phase = "fill" /\ phase' = "roll" /\ UNCHANGED <<book, stream, t, bar>>
        /\ seen \subseteq seen' /\ bar.contract \in seen'
    BY <1>6 DEF SeeClose, After, brokerVars, vars
  <2>2. Carrier' = Carrier
    BY <2>1 DEF Carrier
  <2> QED BY <1>2, <2>1, <2>2
<1>7. ASSUME NEW e \in RollEvents, NEW ff \in RollFills, NEW bf \in RollFills,
             ExecuteRoll(e, ff, bf)
      PROVE  HeldInv'
  <2>1. e.old \in Contracts /\ e.new \in Contracts /\ ff \in Int /\ bf \in Int
    BY EngineAssumption, ConstantsAssumption
  <2>2. /\ phase = "roll" /\ Held(e.old) # 0 /\ e.day = stream[t].day
        /\ UNCHANGED <<stream, t, seen>>
        /\ \/ RollPosition(e.old, e.new, ff, bf) /\ phase' = "mark"
           \/ RollRaises(e.old, e.new, ff, bf) /\ phase' = "raised"
    BY <1>7 DEF ExecuteRoll, After, RollsToday
  <2>3. t > 0 /\ t \in DOMAIN stream
    BY <1>0, <2>2 DEF LoopInv, LoopTyped
  <2>4. e.new = bar.contract /\ e.old # e.new
    BY <1>0, <2>2, <2>3 DEF Continuous
  <2>5. e.old = Carrier /\ e.old = h
    BY <1>1, <2>1, <2>2 DEF HeldInv
  <2>6. /\ Held(e.old)' = 0 /\ bar' = bar
        /\ \A d \in Contracts \ {e.old, e.new} : Held(d)' = Held(d)
    <3>1. PICK m, g :
             /\ m \in Books
             /\ Moved(m, book, e.old, -Held(e.old), g)
             /\ RollPosition(e.old, e.new, ff, bf) =>
                   \E a, k : Moved(a, m, e.new, Held(e.old), k)
                             /\ book'.pos = a.pos /\ book'.realized = a.realized
             /\ RollRaises(e.old, e.new, ff, bf) => book'.pos = m.pos
      BY <1>0, <2>1, <2>2, <2>4, RollMoves DEF Held
    <3>2. bar' = bar
      BY <1>0, <2>1, <2>2, RollMovesBook
    <3>3. Held(e.old) \in Int
      BY <1>0, <2>1 DEF Books, Positions, Held
    <3>4. m.pos[e.old].qty = 0 /\ \A d \in Contracts \ {e.old} : m.pos[d] = book.pos[d]
      BY <3>1, <3>3 DEF Moved, Held
    <3>5. \A d \in Contracts \ {e.new} : book'.pos[d] = m.pos[d]
      BY <2>2, <3>1 DEF Moved
    <3> QED BY <2>1, <2>4, <3>2, <3>4, <3>5 DEF Held
  <2>7. \A d \in Contracts : Held(d)' # 0 => d = e.new
    BY <1>1, <2>5, <2>6
  <2>8. phase' = "mark" => Carrier' = e.new
    BY <2>4, <2>6 DEF Carrier
  <2>9. phase' = "mark" => \A i \in 1 .. t : stream[i].contract \in seen
    BY <2>2 DEF HeldInv
  <2> QED BY <2>1, <2>2, <2>3, <2>7, <2>8, <2>9 DEF HeldInv
<1>8. ASSUME NoRoll
      PROVE  HeldInv'
  <2>1. /\ phase = "roll" /\ phase' = "mark" /\ UNCHANGED <<book, stream, t, bar, seen>>
        /\ \A e \in RollEvents : e.day = stream[t].day => Held(e.old) = 0
    BY <1>8 DEF NoRoll, After, brokerVars, vars, RollsToday
  <2>2. t > 0 /\ t \in DOMAIN stream
    BY <1>0, <2>1 DEF LoopInv, LoopTyped
  <2>3. Carrier' = bar.contract
    BY <2>1 DEF Carrier
  <2>4. ASSUME NEW c \in Contracts, Held(c) # 0 PROVE c = bar.contract
    <3>1. c = Carrier
      BY <2>1, <2>4 DEF HeldInv
    <3>2. CASE t > 1 /\ stream[t].contract # stream[t - 1].contract
      <4>1. PICK e \in RollEvents : e.day = stream[t].day /\ e.old = stream[t - 1].contract
        BY <1>0, <2>2, <3>2 DEF Continuous
      <4>2. Held(stream[t - 1].contract) = 0
        BY <2>1, <4>1
      <4>3. c = stream[t - 1].contract
        BY <2>1, <3>1, <3>2 DEF Carrier
      <4> QED BY <2>4, <4>2, <4>3
    <3>3. CASE ~(t > 1 /\ stream[t].contract # stream[t - 1].contract)
      BY <1>0, <2>2, <3>1, <3>3 DEF Carrier
    <3> QED BY <3>2, <3>3
  <2>5. \A c \in Contracts : Held(c)' = Held(c)
    BY <2>1 DEF Held
  <2>6. \A i \in 1 .. t : stream[i].contract \in seen
    BY <2>1 DEF HeldInv
  <2> QED BY <1>1, <2>1, <2>2, <2>3, <2>4, <2>5, <2>6 DEF HeldInv
<1>9. ASSUME Mark \/ Decision \/ SizingRaises \/ Finish
      PROVE  HeldInv'
  <2>1. /\ phase \in {"mark", "decide", "bar"} /\ phase' \in {"decide", "bar", "raised", "done"}
        /\ UNCHANGED <<book, stream, t, bar, seen>>
    <3>1. CASE Decision
      BY <3>1, DecisionEffect
    <3> QED BY <1>9, <3>1 DEF Mark, SizingRaises, Finish, After, brokerVars, vars
  <2>2. Carrier' = Carrier
    BY <2>1 DEF Carrier
  <2> QED BY <1>2, <2>1, <2>2
<1>10. ASSUME UNCHANGED allVars
       PROVE  HeldInv'
  BY <1>10 DEF allVars, vars, engineVars, HeldInv, Held, Carrier
<1> QED
  BY <1>3, <1>4, <1>5, <1>6, <1>7, <1>8, <1>9, <1>10 DEF EngineNext, Decision, Over


\* Where the account stands, on a continuous stream.
PositionInv == EngineInv /\ HeldInv

LEMMA PositionInvariant ==
    ASSUME AnyQuantity, Continuous
    PROVE  EngineSpec => []PositionInv
<1>1. EngineInit => HeldInv
  BY HeldInit
<1>2. EngineInv /\ HeldInv /\ [EngineNext]_allVars => HeldInv'
  BY HeldStep DEF EngineInv
<1> QED BY <1>1, <1>2, EngineInvariant, PTL DEF EngineSpec, PositionInv

\* On any continuous stream the report is well-founded: the curve has a point per
\* bar, the counters are the broker's, and a position is only ever marked at a
\* close the run has seen (backtest.py, run, _execute_roll, _mark_to_market).
THEOREM ReportSound ==
    ASSUME AnyQuantity, Continuous
    PROVE  EngineSpec => []ReportIsSound
<1>1. PositionInv => HeldIsMarked
  <2> SUFFICES ASSUME PositionInv, phase \in {"decide", "bar"}, NEW c \in Contracts, Held(c) # 0
               PROVE  c \in seen
    BY DEF HeldIsMarked
  <2>1. t \in Nat /\ t # 0 /\ c = bar.contract
    BY Facts DEF PositionInv, EngineInv, HeldInv, Carrier
  <2>2. bar.contract = stream[t].contract
    BY <2>1 DEF PositionInv, EngineInv, LoopInv
  <2>3. t \in 1 .. t
    BY <2>1
  <2> QED BY <2>1, <2>2, <2>3 DEF PositionInv, HeldInv
<1>2. PositionInv => ReportIsSound
  BY <1>1 DEF PositionInv, EngineInv, ReportIsSound
<1> QED BY <1>2, PositionInvariant, PTL

-----------------------------------------------------------------------------
(* The cap on the exposure                                                    *)

\* What a decision moves the position by.
LEMMA SignedDelta ==
    ASSUME NEW c, NEW delta \in Int \ {0}
    PROVE  /\ MarketOrder(c, delta).contract = c /\ MarketOrder(c, delta).qty = Abs(delta)
           /\ MarketOrder(c, delta).side \in Sides /\ Abs(delta) \in Nat \ {0}
           /\ Signed(MarketOrder(c, delta).side, MarketOrder(c, delta).qty) = delta
           /\ Signed(MarketOrder(c, delta).side, Abs(delta)) = delta
BY DEF MarketOrder, Signed, Abs, Sides

LEMMA CapInit == EngineInit => CapInv
<1> SUFFICES ASSUME EngineInit PROVE CapInv
  OBVIOUS
<1>1. largest = 0 /\ Ids = {}
  BY DEF EngineInit, PropInit, Init, Ids
<1>2. \A c \in Contracts : Abs(Held(c)) = 0
  BY DEF EngineInit, PropInit, Init, EmptyBook, FlatPosition, Held, Abs
<1> QED BY <1>1, <1>2 DEF CapInv

\* Nothing is outstanding in the bar's contract once the bar was advanced.
LEMMA NothingOutstanding ==
    ASSUME EngineTypeOK, LoopInv, FillInv, phase \in {"roll", "mark", "decide"},
           NEW id \in Ids, orders[id].contract = bar.contract
    PROVE  filled[id] # 0
<1>1. orders[id].qty \in Nat \ {0}
  BY EngineTypeSplit, OneOrder DEF BrokerTyped
<1> QED BY <1>1 DEF FillInv

\* What a step leaves outstanding in the bar's contract: what was outstanding in
\* it, the book being what it was, or what was decided just now.
LEMMA OutstandingStep ==
    ASSUME Continuous, EngineTypeOK, LoopInv, OrderInv, FillInv, [EngineNext]_allVars,
           NEW id \in Ids', filled'[id] = 0, orders'[id].contract = bar'.contract
    PROVE  /\ book' = book /\ bar'.contract = bar.contract
           /\ \/ /\ id \in Ids /\ filled[id] = 0 /\ orders[id].contract = bar.contract
                 /\ orders'[id] = orders[id] /\ largest <= largest'
              \/ \E delta \in Int \ {0} :
                    /\ phase = "decide" /\ NewOrder(delta)
                    /\ Signed(orders'[id].side, orders'[id].qty) = delta
<1>0. /\ BrokerTyped /\ LoopTyped
      /\ Len(stream) \in Nat /\ t \in Nat /\ t <= Len(stream) /\ stream \in Streams
      /\ t > 0 => bar.contract = stream[t].contract
      /\ DOMAIN stream = 1 .. Len(stream) /\ largest \in Nat
      /\ \A x \in Ids : placed[x] \in 1 .. t
  <2>1. BrokerTyped /\ LoopTyped
    BY EngineTypeSplit, Facts DEF BrokerTyped
  <2>2. stream \in Seq([contract : Contracts, day : Nat]) /\ Len(stream) \in Nat /\ t \in Nat
    BY Facts
  <2>3. placed \in Seq(1 .. t) /\ Len(placed) = Len(orders) /\ orders \in Seq(Orders) /\ t \in Nat
    BY <2>1 DEF LoopTyped, BrokerTyped, OrdersTyped
  <2>4. \A x \in Ids : placed[x] \in 1 .. t
    BY <2>3 DEF Ids
  <2> QED BY <2>1, <2>2, <2>4 DEF LoopTyped, LoopInv
<1> DEFINE Still == /\ book' = book /\ bar'.contract = bar.contract
                    /\ id \in Ids /\ filled[id] = 0 /\ orders[id].contract = bar.contract
                    /\ orders'[id] = orders[id] /\ largest <= largest'
           New == /\ book' = book /\ bar'.contract = bar.contract
                  /\ \E delta \in Int \ {0} :
                        /\ phase = "decide" /\ NewOrder(delta)
                        /\ Signed(orders'[id].side, orders'[id].qty) = delta
<1> SUFFICES Still \/ New
  OBVIOUS
<1>1. ASSUME UNCHANGED <<book, bar, orders, filled, largest>> PROVE Still
  BY <1>0, <1>1 DEF Ids
<1>2. ASSUME NEW b \in Bars, NEW px \in Closes, NextBar(b, px) PROVE Still
  <2>1. /\ t < Len(stream) /\ b.contract = stream[t + 1].contract
        /\ bar' = b /\ UNCHANGED <<book, orders, filled, largest>>
    BY <1>2 DEF NextBar
  <2>2. id \in Ids /\ filled[id] = 0 /\ orders[id].contract = b.contract
    BY <2>1 DEF Ids
  <2>3. stream[placed[id]].contract = stream[t + 1].contract
    BY <2>1, <2>2 DEF OrderInv
  <2>4. /\ placed[id] \in DOMAIN stream /\ t \in DOMAIN stream /\ t + 1 \in DOMAIN stream
        /\ placed[id] <= t /\ t <= t + 1 /\ t > 0
    BY <1>0, <2>1, <2>2
  <2>5. \A i, j, k \in DOMAIN stream :
              i <= j /\ j <= k /\ stream[i].contract = stream[k].contract
                  => stream[j].contract = stream[k].contract
    BY <1>0 DEF Continuous
  <2>6. stream[t].contract = stream[t + 1].contract
    BY <2>3, <2>4, <2>5
  <2>7. b.contract = bar.contract
    BY <1>0, <2>1, <2>4, <2>6
  <2> QED BY <1>0, <2>1, <2>2, <2>7
<1>3. ASSUME StartAdvance PROVE Still
  <2>1. UNCHANGED <<book, bar, orders, filled, largest>>
    BY <1>3 DEF StartAdvance, AdvanceStart, vars
  <2> QED BY <1>1, <2>1
<1>4. ASSUME Advance PROVE Still
  <2>0. largest' = largest
    BY <1>4 DEF Advance
  <2>1. CASE AdvanceSkip
    <3>1. UNCHANGED <<book, bar, orders, filled>>
      BY <2>1 DEF AdvanceSkip
    <3> QED BY <1>1, <2>0, <3>1
  <2>2. CASE AdvanceFill
    <3>1. /\ cursor \in Ids /\ orders[cursor].contract = bar.contract
          /\ filled[cursor] = 0 /\ orders[cursor].qty \in Nat \ {0}
          /\ filled'[cursor] = orders[cursor].qty
          /\ \A x \in Ids \ {cursor} : filled'[x] = filled[x]
          /\ Ids' = Ids /\ UNCHANGED <<orders, bar>>
      BY <2>2, FillEffect
    <3>2. id \in Ids /\ id # cursor /\ filled[id] = 0 /\ orders[id].contract = bar.contract
      BY <3>1
    <3> QED BY <3>1, <3>2 DEF FillInv
  <2>3. CASE AdvanceRaises
    <3>1. UNCHANGED <<book, bar, orders, filled>>
      BY <2>3, AdvanceRaisesTyped DEF EngineTypeOK
    <3> QED BY <1>1, <2>0, <3>1
  <2> QED BY <1>4, <2>1, <2>2, <2>3 DEF Advance
<1>5. ASSUME NEW e \in RollEvents, NEW ff \in RollFills, NEW bf \in RollFills,
             ExecuteRoll(e, ff, bf)
      PROVE  Still
  <2>1. e.old \in Contracts /\ e.new \in Contracts /\ ff \in Int /\ bf \in Int
    BY EngineAssumption, ConstantsAssumption
  <2>2. /\ phase = "roll"
        /\ \/ RollPosition(e.old, e.new, ff, bf)
           \/ RollRaises(e.old, e.new, ff, bf)
    BY <1>5 DEF ExecuteRoll
  <2>3. bar' = bar /\ orders' = orders /\ filled' = filled /\ Ids' = Ids
    BY <1>0, <2>1, <2>2, RollMovesBook DEF Ids, BrokerTyped
  <2>4. id \in Ids /\ filled[id] = 0 /\ orders[id].contract = bar.contract
    BY <2>3
  <2> QED BY <2>2, <2>4, NothingOutstanding
<1>6. ASSUME SeeClose \/ NoRoll \/ Mark \/ SizingRaises \/ Finish PROVE Still
  <2>1. UNCHANGED <<book, bar, orders, filled, largest>>
    BY <1>6 DEF SeeClose, NoRoll, Mark, SizingRaises, Finish, brokerVars, vars
  <2> QED BY <1>1, <2>1
<1>7. ASSUME Decision PROVE Still \/ New
  <2>1. /\ phase = "decide" /\ largest <= largest' /\ UNCHANGED <<book, bar>>
        /\ NoOrder \/ \E delta \in Int \ {0} : NewOrder(delta)
    BY <1>7, DecisionEffect
  <2>2. CASE NoOrder
    BY <2>1, <2>2 DEF NoOrder, Ids
  <2>3. ASSUME NEW delta \in Int \ {0}, NewOrder(delta)
        PROVE  Still \/ New
    <3> DEFINE n == Len(orders) + 1
    <3>1. /\ Ids' = Ids \cup {n}
          /\ orders'[n] = MarketOrder(bar.contract, delta)
          /\ \A x \in Ids : orders'[x] = orders[x] /\ filled'[x] = filled[x]
      BY <2>3 DEF NewOrder
    <3> HIDE DEF n
    <3>2. CASE id \in Ids
      BY <2>1, <3>1, <3>2
    <3>3. CASE id = n
      <4>1. Signed(orders'[id].side, orders'[id].qty) = delta
        BY <3>1, <3>3, SignedDelta
      <4> QED BY <2>1, <2>3, <4>1
    <3> QED BY <3>1, <3>2, <3>3
  <2> QED BY <2>1, <2>2, <2>3
<1>8. ASSUME UNCHANGED allVars PROVE Still
  <2>1. UNCHANGED <<book, bar, orders, filled, largest>>
    BY <1>8 DEF allVars, vars, engineVars
  <2> QED BY <1>1, <2>1
<1> HIDE DEF Still, New
<1> QED
  BY <1>2, <1>3, <1>4, <1>5, <1>6, <1>7, <1>8 DEF EngineNext, Decision, Over

\* What a step does to the positions: nothing, the fill of an order outstanding
\* in the bar's contract, or a roll of all there is into a contract without any.
BookMoves ==
    \/ \A c \in Contracts : Held(c)' = Held(c)
    \/ /\ UNCHANGED <<largest, propVars>>
       /\ \E id \in Ids :
             /\ filled[id] = 0 /\ orders[id].contract = bar.contract
             /\ book'.pos[bar.contract].qty
                  = Held(bar.contract) + Signed(orders[id].side, orders[id].qty)
             /\ Signed(orders[id].side, orders[id].qty) \in Int
             /\ \A d \in Contracts \ {bar.contract} : Held(d)' = Held(d)
    \/ /\ UNCHANGED <<largest, propVars>>
       /\ \E old, new \in Contracts :
             /\ old # new /\ Held(new) = 0 /\ Held(old)' = 0
             /\ Held(new)' \in {0, Held(old)}
             /\ \A d \in Contracts \ {old, new} : Held(d)' = Held(d)

LEMMA BookStep ==
    ASSUME Continuous, EngineTypeOK, LoopInv, OrderInv, HeldInv, [EngineNext]_allVars
    PROVE  BookMoves
<1>0. /\ BrokerTyped /\ LoopTyped /\ bar.contract \in Contracts /\ book \in Books
      /\ Len(stream) \in Nat /\ t \in Nat /\ t <= Len(stream) /\ stream \in Streams
      /\ t > 0 => bar.contract = stream[t].contract
      /\ DOMAIN stream = 1 .. Len(stream)
      /\ \A c \in Contracts : Held(c) \in Int
  <2>1. BrokerTyped /\ LoopTyped /\ bar.contract \in Contracts /\ book \in Books
    BY EngineTypeSplit, Facts DEF BrokerTyped
  <2>2. /\ stream \in Seq([contract : Contracts, day : Nat]) /\ Len(stream) \in Nat /\ t \in Nat
        /\ \A c \in Contracts : Held(c) \in Int
    BY Facts
  <2> QED BY <2>1, <2>2 DEF LoopTyped, LoopInv
<1>1. ASSUME UNCHANGED book PROVE BookMoves
  BY <1>1 DEF BookMoves, Held
<1>2. ASSUME Advance PROVE BookMoves
  <2>0. UNCHANGED <<largest, propVars>>
    BY <1>2 DEF Advance
  <2>1. CASE AdvanceSkip
    BY <1>1, <2>1 DEF AdvanceSkip
  <2>2. CASE AdvanceFill
    <3> DEFINE c == bar.contract
               s == Signed(orders[cursor].side, orders[cursor].qty)
    <3>1. cursor \in Ids /\ orders[cursor].contract = bar.contract /\ filled[cursor] = 0
      BY <2>2, FillEffect
    <3>2. /\ book'.pos[c].qty = Held(c) + s
          /\ \A d \in Contracts \ {c} : book'.pos[d] = book.pos[d]
          /\ s \in Int
      BY <2>2, FillMoves DEF Moved, Held
    <3>3. \A d \in Contracts \ {c} : Held(d)' = Held(d)
      BY <3>2 DEF Held
    <3> QED BY <2>0, <3>1, <3>2, <3>3 DEF BookMoves
  <2>3. CASE AdvanceRaises
    BY <1>1, <2>3, AdvanceRaisesTyped DEF EngineTypeOK
  <2> QED BY <1>2, <2>1, <2>2, <2>3 DEF Advance
<1>3. ASSUME NEW e \in RollEvents, NEW ff \in RollFills, NEW bf \in RollFills,
             ExecuteRoll(e, ff, bf)
      PROVE  BookMoves
  <2>1. e.old \in Contracts /\ e.new \in Contracts /\ ff \in Int /\ bf \in Int
    BY EngineAssumption, ConstantsAssumption
  <2>2. /\ phase = "roll" /\ Held(e.old) # 0 /\ e.day = stream[t].day
        /\ UNCHANGED <<largest, propVars>>
        /\ \/ RollPosition(e.old, e.new, ff, bf)
           \/ RollRaises(e.old, e.new, ff, bf)
    BY <1>3 DEF ExecuteRoll, RollsToday
  <2>3. t > 0 /\ t \in DOMAIN stream
    BY <1>0, <2>2 DEF LoopInv, LoopTyped
  <2>4. e.new = bar.contract /\ e.old # e.new
    BY <1>0, <2>2, <2>3 DEF Continuous
  <2>5. Held(e.new) = 0
    BY <2>1, <2>2, <2>4 DEF HeldInv
  <2>6. PICK m, g :
             /\ m \in Books
             /\ Moved(m, book, e.old, -Held(e.old), g)
             /\ RollPosition(e.old, e.new, ff, bf) =>
                   \E a, k : Moved(a, m, e.new, Held(e.old), k)
                             /\ book'.pos = a.pos /\ book'.realized = a.realized
             /\ RollRaises(e.old, e.new, ff, bf) => book'.pos = m.pos
    BY <1>0, <2>1, <2>2, RollMoves DEF Held
  <2>7. m.pos[e.old].qty = 0 /\ \A d \in Contracts \ {e.old} : m.pos[d] = book.pos[d]
    BY <1>0, <2>1, <2>6 DEF Moved, Held
  <2>8. \A d \in Contracts \ {e.new} : book'.pos[d] = m.pos[d]
    BY <2>2, <2>6 DEF Moved
  <2>9. book'.pos[e.new].qty \in {0, Held(e.old)}
    <3>1. m.pos[e.new].qty = 0
      BY <2>1, <2>4, <2>5, <2>7 DEF Held
    <3>2. CASE RollPosition(e.old, e.new, ff, bf)
      <4>1. book'.pos[e.new].qty = m.pos[e.new].qty + Held(e.old)
        BY <2>6, <3>2 DEF Moved
      <4> QED BY <1>0, <2>1, <3>1, <4>1
    <3>3. CASE RollRaises(e.old, e.new, ff, bf)
      BY <2>6, <3>1, <3>3
    <3> QED BY <2>2, <3>2, <3>3
  <2>10. /\ Held(e.old)' = 0 /\ Held(e.new)' \in {0, Held(e.old)}
         /\ \A d \in Contracts \ {e.old, e.new} : Held(d)' = Held(d)
    BY <2>1, <2>4, <2>7, <2>8, <2>9 DEF Held
  <2> QED BY <2>1, <2>2, <2>4, <2>5, <2>10 DEF BookMoves
<1>4. ASSUME Decision PROVE BookMoves
  BY <1>1, <1>4, DecisionEffect
<1>5. Advance \/ Decision \/ UNCHANGED book
      \/ \E e \in RollEvents, ff, bf \in RollFills : ExecuteRoll(e, ff, bf)
  BY DEF EngineNext, Decision, Over, NextBar, StartAdvance, AdvanceStart, SeeClose,
         NoRoll, Mark, SizingRaises, Finish, brokerVars, allVars, vars
<1> QED BY <1>1, <1>2, <1>3, <1>4, <1>5

LEMMA LargestGrows ==
    ASSUME EngineTypeOK, LoopInv, [EngineNext]_allVars
    PROVE  largest <= largest' /\ largest \in Nat /\ largest' \in Nat
<1>1. largest \in Nat
  BY DEF EngineTypeOK
<1>2. ASSUME Decision PROVE largest <= largest' /\ largest' \in Nat
  BY <1>2, DecisionEffect
<1>3. Decision \/ largest' = largest
  BY DEF EngineNext, Decision, Over, NextBar, StartAdvance, Advance, SeeClose, ExecuteRoll,
         NoRoll, Mark, SizingRaises, Finish, allVars, engineVars
<1> QED BY <1>1, <1>2, <1>3

LEMMA CapStep ==
    ASSUME Continuous
    PROVE  EngineTypeOK /\ LoopInv /\ OrderInv /\ FillInv /\ HeldInv /\ CapInv
              /\ [EngineNext]_allVars => CapInv'
<1> SUFFICES ASSUME EngineTypeOK, LoopInv, OrderInv, FillInv, HeldInv, CapInv,
                    [EngineNext]_allVars, TargetPosition
             PROVE  CapInv'
  BY DEF CapInv
<1>1. largest <= largest' /\ largest \in Nat /\ largest' \in Nat
  BY LargestGrows
<1>2. \A c \in Contracts : Held(c) \in Int /\ Abs(Held(c)) \in Int /\ Abs(Held(c)) <= largest
  BY Facts DEF CapInv, Abs
<1>3. \A id \in Ids : filled[id] = 0 /\ orders[id].contract = bar.contract =>
          Abs(Held(bar.contract) + Signed(orders[id].side, orders[id].qty)) <= largest
  BY DEF CapInv
<1>4. ASSUME NEW c \in Contracts PROVE Abs(Held(c)') <= largest'
  <2>1. CASE \A d \in Contracts : Held(d)' = Held(d)
    BY <1>1, <1>2, <2>1
  <2>2. ASSUME NEW id \in Ids, filled[id] = 0, orders[id].contract = bar.contract,
               book'.pos[bar.contract].qty
                  = Held(bar.contract) + Signed(orders[id].side, orders[id].qty),
               \A d \in Contracts \ {bar.contract} : Held(d)' = Held(d), largest' = largest
        PROVE  Abs(Held(c)') <= largest'
    <3>1. CASE c = bar.contract
      <4>1. Held(c)' = book'.pos[c].qty
        BY DEF Held
      <4> QED BY <1>3, <2>2, <3>1, <4>1
    <3>2. CASE c # bar.contract
      BY <1>2, <2>2, <3>2
    <3> QED BY <3>1, <3>2
  <2>3. ASSUME NEW old \in Contracts, NEW new \in Contracts,
               Held(old)' = 0, Held(new)' \in {0, Held(old)},
               \A d \in Contracts \ {old, new} : Held(d)' = Held(d)
        PROVE  Abs(Held(c)') <= largest'
    <3>1. Held(c)' \in {0, Held(c), Held(old)}
      BY <2>3
    <3>2. Abs(0) <= largest'
      BY <1>1 DEF Abs
    <3> QED BY <1>1, <1>2, <3>1, <3>2
  <2> QED BY <2>1, <2>2, <2>3, BookStep DEF BookMoves
<1>5. ASSUME NEW id \in Ids', filled'[id] = 0, orders'[id].contract = bar'.contract
      PROVE  Abs(Held(bar.contract)' + Signed(orders'[id].side, orders'[id].qty)) <= largest'
  <2> DEFINE s == Signed(orders'[id].side, orders'[id].qty)
  <2>1. /\ book' = book /\ bar'.contract = bar.contract
        /\ \/ /\ id \in Ids /\ filled[id] = 0 /\ orders[id].contract = bar.contract
              /\ orders'[id] = orders[id] /\ largest <= largest'
           \/ \E delta \in Int \ {0} :
                 /\ phase = "decide" /\ NewOrder(delta) /\ s = delta
    BY <1>5, OutstandingStep
  <2>2. Held(bar.contract)' = Held(bar.contract)
    BY <2>1 DEF Held
  <2>3. CASE id \in Ids /\ filled[id] = 0 /\ orders[id].contract = bar.contract
             /\ orders'[id] = orders[id]
    <3>1. Abs(Held(bar.contract) + Signed(orders[id].side, orders[id].qty)) <= largest
      BY <1>3, <2>3
    <3>2. Abs(Held(bar.contract) + Signed(orders[id].side, orders[id].qty)) \in Int
      <4>1. bar.contract \in Contracts /\ orders[id].qty \in Nat \ {0}
        BY <2>3, EngineTypeSplit, Facts, OneOrder DEF BrokerTyped
      <4> QED BY <1>2, <4>1 DEF Abs, Signed
    <3> QED BY <1>1, <2>2, <2>3, <3>1, <3>2
  <2>4. ASSUME NEW delta \in Int \ {0}, NewOrder(delta), s = delta
        PROVE  Abs(Held(bar.contract)' + s) <= largest'
    BY <2>2, <2>4 DEF NewOrder
  <2> QED BY <2>1, <2>3, <2>4
<1>6. \A c \in Contracts : Abs(Held(c))' <= largest'
  BY <1>4
<1> QED BY <1>5, <1>6 DEF CapInv

\* All that is held is in one contract.
LEMMA ExposureOfOne ==
    ASSUME NEW b \in Books, NEW h \in Contracts, \A d \in Contracts : b.pos[d].qty # 0 => d = h
    PROVE  SumFunction([c \in Contracts |-> Abs(b.pos[c].qty)]) = Abs(b.pos[h].qty)
<1> DEFINE f == [c \in Contracts |-> Abs(b.pos[c].qty)]
           z == [c \in Contracts |-> 0]
<1>1. \A c \in Contracts : b.pos[c].qty \in Int /\ Abs(b.pos[c].qty) \in Int
  BY DEF Books, Positions, Abs
<1>2. f \in [Contracts -> Int] /\ z \in [Contracts -> Int] /\ IsFiniteSet(Contracts)
  BY <1>1, ConstantsAssumption
<1>3. \A c \in Contracts \ {h} : f[c] = z[c]
  BY <1>1 DEF Abs
<1>4. f[h] = Abs(b.pos[h].qty) /\ z[h] = 0 /\ \A c \in Contracts : z[c] = 0
  OBVIOUS
<1> HIDE DEF f, z
<1>5. SumFunction(f) = SumFunction(z) + (f[h] - z[h])
  BY <1>2, <1>3, TotalChanges
<1>6. SumFunction(z) = 0
  BY <1>2, <1>4, TotalOfZeros
<1>7. SumFunction(f) = Abs(b.pos[h].qty)
  BY <1>1, <1>4, <1>5, <1>6
<1> QED BY <1>7 DEF f

\* In target-position mode and on any continuous stream the whole exposure stays
\* within the largest size that a decision allowed, whatever the order of fills,
\* stops, flips and rolls (backtest.py, _resolve_order, _execute_roll).
THEOREM ExposureIsCapped ==
    ASSUME AnyQuantity, Continuous
    PROVE  EngineSpec => []ExposureCapped
<1>1. EngineInit => CapInv
  BY CapInit
<1>2. PositionInv /\ CapInv /\ [EngineNext]_allVars => CapInv'
  BY CapStep DEF PositionInv, EngineInv
<1>3. PositionInv /\ CapInv => ExposureCapped
  <2> SUFFICES ASSUME PositionInv, CapInv, TargetPosition PROVE Exposure <= largest
    BY DEF ExposureCapped
  <2>1. book \in Books
    BY EngineTypeSplit DEF PositionInv, EngineInv, BrokerTyped
  <2>2. PICK h \in Contracts : \A d \in Contracts : Held(d) # 0 => d = h
    BY DEF PositionInv, HeldInv
  <2>3. Exposure = Abs(Held(h))
    BY <2>1, <2>2, ExposureOfOne DEF Exposure, Held
  <2> QED BY <2>3 DEF CapInv
<1> QED BY <1>1, <1>2, <1>3, PositionInvariant, PTL DEF EngineSpec

-----------------------------------------------------------------------------
(* The curve                                                                  *)

LEMMA TotalsInit == EngineInit => Totalled(book)
<1> SUFFICES ASSUME EngineInit PROVE Totalled(book)
  OBVIOUS
<1> DEFINE f == [x \in Contracts |-> book.pos[x].realized]
<1>1. /\ \A x \in Contracts : book.pos[x].realized = 0
      /\ book.realized = 0
  BY DEF EngineInit, PropInit, Init, EmptyBook, FlatPosition
<1>2. f \in [Contracts -> Int] /\ (\A x \in Contracts : f[x] = 0) /\ IsFiniteSet(Contracts)
  BY <1>1, ConstantsAssumption
<1> HIDE DEF f
<1>3. SumFunction(f) = 0
  BY <1>2, TotalOfZeros
<1> QED BY <1>1, <1>3 DEF Totalled, f

LEMMA TotalsStep ==
    EngineTypeOK /\ LoopInv /\ OrderInv /\ TotalsInv /\ [EngineNext]_allVars => TotalsInv'
<1> SUFFICES ASSUME EngineTypeOK, LoopInv, OrderInv, TotalsInv, [EngineNext]_allVars,
                    phase' # "raised"
             PROVE  Totalled(book)'
  BY DEF TotalsInv, PositionTotals, Totalled
<1>0. book \in Books
  BY EngineTypeSplit DEF BrokerTyped
<1>1. ASSUME phase # "raised" PROVE Totalled(book)
  BY <1>1 DEF TotalsInv, PositionTotals, Totalled
<1>2. ASSUME phase # "raised", UNCHANGED book PROVE Totalled(book)'
  BY <1>1, <1>2 DEF Totalled
<1>3. ASSUME NEW b \in Bars, NEW px \in Closes, NextBar(b, px) PROVE Totalled(book)'
  BY <1>2, <1>3 DEF NextBar
<1>4. ASSUME StartAdvance PROVE Totalled(book)'
  BY <1>2, <1>4 DEF StartAdvance, AdvanceStart, vars
<1>5. ASSUME Advance PROVE Totalled(book)'
  <2>1. CASE AdvanceSkip
    BY <1>2, <1>5, <2>1 DEF Advance, AdvanceSkip
  <2>2. CASE AdvanceFill
    <3>1. /\ \E gain : Moved(book', book, bar.contract,
                              Signed(orders[cursor].side, orders[cursor].qty), gain)
          /\ bar.contract \in Contracts
      BY <2>2, FillMoves
    <3>2. Totalled(book)
      BY <1>1, <1>5 DEF Advance
    <3>3. Totalled(book')
      BY <1>0, <3>1, <3>2, MovedTotalled
    <3> QED BY <3>3 DEF Totalled
  <2> QED BY <1>5, <2>1, <2>2 DEF Advance
<1>6. ASSUME NEW e \in RollEvents, NEW ff \in RollFills, NEW bf \in RollFills,
             ExecuteRoll(e, ff, bf)
      PROVE  Totalled(book)'
  <2>1. e.old \in Contracts /\ e.new \in Contracts /\ ff \in Int /\ bf \in Int
    BY EngineAssumption, ConstantsAssumption
  <2>2. phase = "roll" /\ RollPosition(e.old, e.new, ff, bf)
    BY <1>6 DEF ExecuteRoll
  <2>3. PICK m, g :
             /\ m \in Books
             /\ Moved(m, book, e.old, -Held(e.old), g)
             /\ RollPosition(e.old, e.new, ff, bf) =>
                   \E a, k : Moved(a, m, e.new, Held(e.old), k)
                             /\ book'.pos = a.pos /\ book'.realized = a.realized
             /\ RollRaises(e.old, e.new, ff, bf) => book'.pos = m.pos
    BY <1>0, <2>1, <2>2, RollMoves DEF Held
  <2>4. PICK a, k : Moved(a, m, e.new, Held(e.old), k)
                    /\ book'.pos = a.pos /\ book'.realized = a.realized
    BY <2>2, <2>3
  <2>5. Totalled(m)
    BY <1>0, <1>1, <2>1, <2>2, <2>3, MovedTotalled
  <2>6. Totalled(a)
    BY <2>1, <2>3, <2>4, <2>5, MovedTotalled
  <2> QED BY <2>4, <2>6 DEF Totalled
<1>7. ASSUME SeeClose \/ NoRoll \/ Mark \/ SizingRaises \/ Finish PROVE Totalled(book)'
  BY <1>2, <1>7 DEF SeeClose, NoRoll, Mark, SizingRaises, Finish, brokerVars, vars
<1>8. ASSUME Decision PROVE Totalled(book)'
  BY <1>2, <1>8, DecisionEffect
<1>9. ASSUME UNCHANGED allVars PROVE Totalled(book)'
  BY <1>2, <1>9 DEF allVars, vars, engineVars
<1> QED
  BY <1>3, <1>4, <1>5, <1>6, <1>7, <1>8, <1>9 DEF EngineNext, Decision, Over

\* What a bar is marked at, when every position was seen at a close.
LEMMA MarkIsCash ==
    ASSUME EngineTypeOK, Totalled(book), \A c \in Contracts : Held(c) # 0 => c \in seen
    PROVE  MarkToMarket = StartingEquity
              + SumFunction([c \in Contracts |->
                    book.pos[c].realized + Held(c) * (lastClose[c] - book.pos[c].avg) * Mult[c]])
<1> DEFINE I == {d \in Contracts : Held(d) # 0 /\ d \in seen}
           u == [c \in I |-> Unrealized(c)]
           U == [c \in Contracts |-> Unrealized(c)]
           R == [c \in Contracts |-> book.pos[c].realized]
           K == [c \in Contracts |->
                   book.pos[c].realized + Held(c) * (lastClose[c] - book.pos[c].avg) * Mult[c]]
<1>1. /\ \A c \in Contracts : /\ book.pos[c].realized \in Int /\ book.pos[c].avg \in Int
                              /\ Held(c) \in Int /\ lastClose[c] \in Int /\ Mult[c] \in Int
      /\ book.realized \in Int /\ StartingEquity \in Int /\ IsFiniteSet(Contracts)
  <2>1. book \in Books /\ lastClose \in [Contracts -> Int]
    BY EngineTypeSplit DEF BrokerTyped, LoopTyped
  <2> QED BY <2>1, ConstantsAssumption, PropAssumption DEF Books, Positions, Held
<1>2. \A c \in Contracts : Unrealized(c) \in Int
  BY MarkIsInt
<1>3. ASSUME NEW c \in Contracts
      PROVE  /\ Held(c) * (lastClose[c] - book.pos[c].avg) * Mult[c] = Unrealized(c)
             /\ Held(c) = 0 => Unrealized(c) = 0
  <2> DEFINE gap == lastClose[c] - book.pos[c].avg
  <2>1. gap \in Int /\ Held(c) \in Int /\ Mult[c] \in Int
    BY <1>1
  <2>2. Unrealized(c) = gap * Held(c) * Mult[c]
    BY DEF Unrealized
  <2> HIDE DEF gap
  <2>3. Held(c) * gap = gap * Held(c)
    BY <2>1
  <2>4. Held(c) = 0 => gap * Held(c) = 0
    BY <2>1
  <2>5. 0 * Mult[c] = 0
    BY <2>1
  <2> QED BY <2>2, <2>3, <2>4, <2>5 DEF gap
<1>4. I \in SUBSET Contracts /\ IsFiniteSet(I) /\ \A c \in Contracts \ I : Held(c) = 0
  BY <1>1, FS_Subset
<1>5. MarkToMarket = StartingEquity + book.realized + SumFunction(u)
  BY DEF MarkToMarket, CurrentEquity
<1>6. SumFunction(u) = SumFunctionOnSet(u, I) /\ SumFunction(R) = SumFunctionOnSet(R, Contracts)
      /\ SumFunction(K) = SumFunctionOnSet(K, Contracts)
  BY DEF SumFunction, FoldFunction, SumFunctionOnSet
<1>7. /\ \A c \in I : u[c] = U[c]
      /\ \A c \in Contracts : U[c] \in Int /\ R[c] \in Int /\ K[c] = R[c] + U[c]
      /\ \A c \in Contracts \ I : U[c] = 0
  BY <1>1, <1>2, <1>3, <1>4
<1>8. SumFunction(R) = book.realized
  BY DEF Totalled
<1>9. SumFunction(K) = SumFunction([c \in Contracts |->
                    book.pos[c].realized + Held(c) * (lastClose[c] - book.pos[c].avg) * Mult[c]])
  OBVIOUS
<1> HIDE DEF u, U, R, K, I
<1>10. SumFunctionOnSet(u, I) = SumFunctionOnSet(U, I)
  BY <1>4, <1>7, SumSame
<1>11. SumFunctionOnSet(U, Contracts) = SumFunctionOnSet(U, I)
  BY <1>1, <1>4, <1>7, SumSkipsZeros
<1>12. SumFunctionOnSet(K, Contracts)
          = SumFunctionOnSet(R, Contracts) + SumFunctionOnSet(U, Contracts)
  BY <1>1, <1>7, SumAdds
<1>13. SumFunctionOnSet(U, Contracts) \in Int
  BY <1>1, <1>7, SumIsInt
<1>14. MarkToMarket = StartingEquity + SumFunction(K)
  <2> DEFINE w == SumFunctionOnSet(U, Contracts)
  <2>1. SumFunction(u) = w
    BY <1>6, <1>10, <1>11
  <2>2. SumFunction(K) = book.realized + w
    BY <1>6, <1>8, <1>12
  <2>3. w \in Int
    BY <1>13
  <2> HIDE DEF w
  <2> QED BY <1>1, <1>5, <2>1, <2>2, <2>3
<1> QED BY <1>9, <1>14

\* On any continuous stream every point of the equity curve is the starting
\* equity, what each contract realized, and the open contracts at their last
\* close (backtest.py, _mark_to_market, _execute_roll; mock_broker.py,
\* _apply_fill_to_position, roll_position).
THEOREM CurveExplained ==
    ASSUME AnyQuantity, Continuous
    PROVE  EngineSpec => []CurveIsCash
<1> DEFINE CurveInv == TotalsInv /\ CurveIsCash
<1>1. EngineInit => CurveInv
  <2> SUFFICES ASSUME EngineInit PROVE CurveInv
    OBVIOUS
  <2>1. Totalled(book) /\ phase = "bar"
    BY TotalsInit DEF EngineInit
  <2> QED BY <2>1 DEF Totalled, TotalsInv, PositionTotals, CurveIsCash
<1>2. PositionInv /\ CurveInv /\ [EngineNext]_allVars => CurveInv'
  <2> SUFFICES ASSUME PositionInv, CurveInv, [EngineNext]_allVars PROVE CurveInv'
    OBVIOUS
  <2>1. TotalsInv'
    BY TotalsStep DEF PositionInv, EngineInv
  <2>2. EngineTypeOK /\ LoopInv /\ HeldInv /\ t \in Nat /\ curve \in Seq(Int)
    BY Facts, EngineTypeSplit DEF PositionInv, EngineInv, LoopTyped
  <2>3. ASSUME Mark PROVE CurveIsCash'
    <3>1. /\ phase = "mark" /\ curve' = Append(curve, MarkToMarket)
          /\ UNCHANGED <<book, lastClose>>
      BY <2>3 DEF Mark, vars
    <3>2. Equity' = MarkToMarket
      <4>1. MarkToMarket \in Int
        BY <2>2, MarkIsInt
      <4> HIDE DEF CurveInv
      <4> QED BY <2>2, <3>1, <4>1 DEF Equity
    <3>3. Totalled(book)
      BY <3>1 DEF TotalsInv, PositionTotals, Totalled
    <3>4. ASSUME NEW c \in Contracts, Held(c) # 0 PROVE c \in seen
      <4>1. t # 0 /\ c = bar.contract
        BY <2>2, <3>1, <3>4 DEF HeldInv, Carrier
      <4>2. bar.contract = stream[t].contract /\ t \in 1 .. t
        BY <2>2, <4>1 DEF LoopInv
      <4> QED BY <2>2, <3>1, <4>1, <4>2 DEF HeldInv
    <3>5. MarkToMarket = StartingEquity
              + SumFunction([c \in Contracts |->
                    book.pos[c].realized + Held(c) * (lastClose[c] - book.pos[c].avg) * Mult[c]])
      BY <2>2, <3>3, <3>4, MarkIsCash
    <3> QED BY <3>1, <3>2, <3>5 DEF CurveIsCash, Held
  <2>4. ASSUME UNCHANGED allVars PROVE CurveIsCash'
    BY <2>4 DEF allVars, vars, engineVars, CurveIsCash, Held, Equity
  <2>5. ASSUME phase' # "decide" PROVE CurveIsCash'
    BY <2>5 DEF CurveIsCash
  <2>6. ASSUME Decision PROVE phase' # "decide"
    BY <2>2, <2>6, DecisionEffect
  <2>7. Mark \/ UNCHANGED allVars \/ Decision \/ phase' # "decide"
    BY DEF EngineNext, Decision, Over, NextBar, StartAdvance, Advance, SeeClose, ExecuteRoll,
           NoRoll, SizingRaises, Finish, After
  <2> QED BY <2>1, <2>3, <2>4, <2>5, <2>6, <2>7
<1>3. CurveInv => CurveIsCash
  OBVIOUS
<1> HIDE DEF CurveInv
<1> QED BY <1>1, <1>2, <1>3, PositionInvariant, PTL DEF EngineSpec

-----------------------------------------------------------------------------
(* The prop-account overlay                                                   *)

\* No position is larger than max_contracts, nor will be when what is outstanding
\* in the bar's contract fills.
PropCapInv ==
    PropGuard =>
        /\ \A c \in Contracts : Abs(Held(c)) <= MaxContracts
        /\ \A id \in Ids :
              filled[id] = 0 /\ orders[id].contract = bar.contract =>
                  Abs(Held(bar.contract) + Signed(orders[id].side, orders[id].qty)) <= MaxContracts

\* Only the overlay halts an account, and what is outstanding in the bar's
\* contract while it is halted does not make the position larger.
HaltInv ==
    halted # "no" =>
        /\ PropGuard
        /\ \A id \in Ids :
              filled[id] = 0 /\ orders[id].contract = bar.contract =>
                  Abs(Held(bar.contract) + Signed(orders[id].side, orders[id].qty))
                      <= Abs(Held(bar.contract))

\* The answers of the gate: an order it lets through while the overlay is on
\* shrinks the position, or the account is not halted and stays within the cap.
LEMMA GateAnswers ==
    ASSUME NEW c \in Contracts, NEW delta \in Int \ {0},
           IsTradeAllowed(c, MarketOrder(c, delta).side, Abs(delta)), PropGuard
    PROVE  \/ Abs(Held(c) + delta) < Abs(Held(c))
           \/ halted = "no" /\ ~(Abs(Held(c) + delta) > MaxContracts) /\ Breach = "no"
<1>1. Signed(MarketOrder(c, delta).side, Abs(delta)) = delta
  BY SignedDelta
<1> QED BY <1>1 DEF IsTradeAllowed, LimitsChecked, Reduces, CapExceeded, Resulting, Held

\* Asking trips the halt only for an order that is then refused, and never lifts it.
LEMMA AskedHalts ==
    ASSUME NEW c, NEW side, NEW qty, Asked(c, side, qty)
    PROVE  /\ halted # "no" => halted' = halted
           /\ halted' # halted => PropGuard /\ ~IsTradeAllowed(c, side, qty)
<1>1. CASE LimitsChecked(c, side, qty)
  <2>1. halted = "no" /\ halted' = Breach /\ PropGuard /\ ~Reduces(c, side, qty)
    BY <1>1 DEF Asked, LimitsChecked
  <2> QED BY <2>1 DEF IsTradeAllowed
<1>2. CASE ~LimitsChecked(c, side, qty)
  BY <1>2 DEF Asked, propVars
<1> QED BY <1>1, <1>2

\* A halt latches, and trips only in a decision that places no order.
LEMMA HaltStep ==
    ASSUME EngineTypeOK, LoopInv, [EngineNext]_allVars
    PROVE  /\ halted # "no" => halted' = halted
           /\ halted' # halted => /\ PropGuard /\ phase = "decide" /\ NoOrder
                                  /\ UNCHANGED <<book, bar>>
<1>1. ASSUME halted' = halted
      PROVE  /\ halted # "no" => halted' = halted
             /\ halted' # halted => /\ PropGuard /\ phase = "decide" /\ NoOrder
                                    /\ UNCHANGED <<book, bar>>
  BY <1>1
<1>2. CASE Decision
  <2>1. /\ phase = "decide" /\ UNCHANGED <<book, bar>>
        /\ NoOrder \/ \E delta \in Int \ {0} : NewOrder(delta)
    BY <1>2, DecisionEffect
  <2>2. CASE NoOrder
    <3>1. CASE UNCHANGED propVars
      BY <1>1, <3>1 DEF propVars
    <3>2. ASSUME NEW side \in Sides, NEW qty \in Nat, Asked(bar.contract, side, qty)
          PROVE  /\ halted # "no" => halted' = halted
                 /\ halted' # halted => PropGuard
      BY <3>2, AskedHalts
    <3> QED BY <2>1, <2>2, <3>1, <3>2 DEF NoOrder
  <2>3. ASSUME NEW delta \in Int \ {0}, NewOrder(delta) PROVE halted' = halted
    <3>1. /\ Asked(bar.contract, MarketOrder(bar.contract, delta).side, Abs(delta))
          /\ IsTradeAllowed(bar.contract, MarketOrder(bar.contract, delta).side, Abs(delta))
      BY <2>3 DEF NewOrder
    <3> QED BY <3>1, AskedHalts
  <2> QED BY <1>1, <2>1, <2>2, <2>3
<1>3. Decision \/ halted' = halted
  BY DEF EngineNext, Decision, Over, NextBar, StartAdvance, Advance, SeeClose, ExecuteRoll,
         NoRoll, Mark, SizingRaises, Finish, ObserveEquity, brokerVars, propVars, allVars
<1> QED BY <1>1, <1>2, <1>3

LEMMA PropInvInit == EngineInit => PropCapInv /\ HaltInv
<1> SUFFICES ASSUME EngineInit PROVE PropCapInv /\ HaltInv
  OBVIOUS
<1>1. Ids = {} /\ halted = "no"
  BY DEF EngineInit, PropInit, Init, Ids
<1>2. \A c \in Contracts : Abs(Held(c)) = 0
  BY DEF EngineInit, PropInit, Init, EmptyBook, FlatPosition, Held, Abs
<1> QED BY <1>1, <1>2, PropAssumption DEF PropCapInv, HaltInv

LEMMA PropCapStep ==
    ASSUME Continuous
    PROVE  EngineTypeOK /\ LoopInv /\ OrderInv /\ FillInv /\ HeldInv /\ PropCapInv
              /\ [EngineNext]_allVars => PropCapInv'
<1> SUFFICES ASSUME EngineTypeOK, LoopInv, OrderInv, FillInv, HeldInv, PropCapInv,
                    [EngineNext]_allVars, PropGuard
             PROVE  PropCapInv'
  BY DEF PropCapInv
<1>1. /\ \A c \in Contracts : Held(c) \in Int /\ Abs(Held(c)) <= MaxContracts
      /\ MaxContracts \in Nat /\ bar.contract \in Contracts
  BY Facts, PropAssumption DEF PropCapInv
<1>2. \A id \in Ids : filled[id] = 0 /\ orders[id].contract = bar.contract =>
          Abs(Held(bar.contract) + Signed(orders[id].side, orders[id].qty)) <= MaxContracts
  BY DEF PropCapInv
<1>3. ASSUME NEW c \in Contracts PROVE Abs(Held(c)') <= MaxContracts
  <2>1. CASE \A d \in Contracts : Held(d)' = Held(d)
    BY <1>1, <2>1
  <2>2. ASSUME NEW id \in Ids, filled[id] = 0, orders[id].contract = bar.contract,
               book'.pos[bar.contract].qty
                  = Held(bar.contract) + Signed(orders[id].side, orders[id].qty),
               \A d \in Contracts \ {bar.contract} : Held(d)' = Held(d)
        PROVE  Abs(Held(c)') <= MaxContracts
    <3>1. CASE c = bar.contract
      <4>1. Held(c)' = book'.pos[c].qty
        BY DEF Held
      <4> QED BY <1>2, <2>2, <3>1, <4>1
    <3>2. CASE c # bar.contract
      BY <1>1, <2>2, <3>2
    <3> QED BY <3>1, <3>2
  <2>3. ASSUME NEW old \in Contracts, NEW new \in Contracts,
               Held(old)' = 0, Held(new)' \in {0, Held(old)},
               \A d \in Contracts \ {old, new} : Held(d)' = Held(d)
        PROVE  Abs(Held(c)') <= MaxContracts
    <3>1. Held(c)' \in {0, Held(c), Held(old)}
      BY <2>3
    <3>2. Abs(0) <= MaxContracts
      BY <1>1 DEF Abs
    <3> QED BY <1>1, <3>1, <3>2
  <2> QED BY <2>1, <2>2, <2>3, BookStep DEF BookMoves
<1>4. ASSUME NEW id \in Ids', filled'[id] = 0, orders'[id].contract = bar'.contract
      PROVE  Abs(Held(bar.contract)' + Signed(orders'[id].side, orders'[id].qty)) <= MaxContracts
  <2> DEFINE s == Signed(orders'[id].side, orders'[id].qty)
  <2>1. /\ book' = book /\ bar'.contract = bar.contract
        /\ \/ /\ id \in Ids /\ filled[id] = 0 /\ orders[id].contract = bar.contract
              /\ orders'[id] = orders[id] /\ largest <= largest'
           \/ \E delta \in Int \ {0} :
                 /\ phase = "decide" /\ NewOrder(delta) /\ s = delta
    BY <1>4, OutstandingStep
  <2>2. Held(bar.contract)' = Held(bar.contract)
    BY <2>1 DEF Held
  <2>3. CASE id \in Ids /\ filled[id] = 0 /\ orders[id].contract = bar.contract
             /\ orders'[id] = orders[id]
    BY <1>2, <2>2, <2>3
  <2>4. ASSUME NEW delta \in Int \ {0}, NewOrder(delta), s = delta
        PROVE  Abs(Held(bar.contract)' + s) <= MaxContracts
    <3>1. \/ Abs(Held(bar.contract) + delta) < Abs(Held(bar.contract))
          \/ ~(Abs(Held(bar.contract) + delta) > MaxContracts)
      BY <1>1, <2>4, GateAnswers DEF NewOrder
    <3>2. /\ Abs(Held(bar.contract) + delta) \in Int /\ Abs(Held(bar.contract)) \in Int
          /\ Abs(Held(bar.contract)) <= MaxContracts
      BY <1>1 DEF Abs
    <3>3. Abs(Held(bar.contract) + delta) <= MaxContracts
      BY <1>1, <3>1, <3>2
    <3> QED BY <2>2, <2>4, <3>3
  <2> QED BY <2>1, <2>3, <2>4
<1>5. \A c \in Contracts : Abs(Held(c))' <= MaxContracts
  BY <1>3
<1> QED BY <1>4, <1>5 DEF PropCapInv

\* Under the overlay no position of a backtest exceeds max_contracts, although
\* the gate sees the position only when the order is placed and the order fills
\* a bar later (prop_aware_mock_broker.py, is_trade_allowed; backtest.py, run).
THEOREM PositionIsCapped ==
    ASSUME AnyQuantity, Continuous
    PROVE  EngineSpec => []PositionCap
<1>1. EngineInit => PropCapInv
  BY PropInvInit
<1>2. PositionInv /\ PropCapInv /\ [EngineNext]_allVars => PropCapInv'
  BY PropCapStep DEF PositionInv, EngineInv
<1>3. PropCapInv => PositionCap
  BY DEF PropCapInv, PositionCap, Held
<1> QED BY <1>1, <1>2, <1>3, PositionInvariant, PTL DEF EngineSpec

LEMMA HaltInvStep ==
    ASSUME Continuous
    PROVE  EngineTypeOK /\ LoopInv /\ OrderInv /\ FillInv /\ HeldInv /\ HaltInv
              /\ [EngineNext]_allVars => HaltInv'
<1> SUFFICES ASSUME EngineTypeOK, LoopInv, OrderInv, FillInv, HeldInv, HaltInv,
                    [EngineNext]_allVars, halted' # "no"
             PROVE  HaltInv'
  BY DEF HaltInv
<1>1. bar.contract \in Contracts /\ \A c \in Contracts : Held(c) \in Int
  BY Facts
<1>2. CASE halted' # halted
  <2>1. PropGuard /\ phase = "decide" /\ UNCHANGED <<orders, filled, book, bar>> /\ Ids' = Ids
    BY <1>2, HaltStep DEF NoOrder, Ids
  <2>2. ASSUME NEW id \in Ids', filled'[id] = 0, orders'[id].contract = bar'.contract
        PROVE  FALSE
    BY <2>1, <2>2, NothingOutstanding
  <2> QED BY <2>1, <2>2 DEF HaltInv
<1>3. CASE halted' = halted
  <2>0. /\ PropGuard
        /\ \A id \in Ids : filled[id] = 0 /\ orders[id].contract = bar.contract =>
               Abs(Held(bar.contract) + Signed(orders[id].side, orders[id].qty))
                   <= Abs(Held(bar.contract))
    BY <1>3 DEF HaltInv
  <2>1. ASSUME NEW id \in Ids', filled'[id] = 0, orders'[id].contract = bar'.contract
        PROVE  Abs(Held(bar.contract)' + Signed(orders'[id].side, orders'[id].qty))
                   <= Abs(Held(bar.contract))'
    <3> DEFINE s == Signed(orders'[id].side, orders'[id].qty)
    <3>1. /\ book' = book /\ bar'.contract = bar.contract
          /\ \/ /\ id \in Ids /\ filled[id] = 0 /\ orders[id].contract = bar.contract
                /\ orders'[id] = orders[id] /\ largest <= largest'
             \/ \E delta \in Int \ {0} :
                   /\ phase = "decide" /\ NewOrder(delta) /\ s = delta
      BY <2>1, OutstandingStep
    <3>2. Held(bar.contract)' = Held(bar.contract)
      BY <3>1 DEF Held
    <3>3. CASE id \in Ids /\ filled[id] = 0 /\ orders[id].contract = bar.contract
               /\ orders'[id] = orders[id]
      BY <2>0, <3>2, <3>3
    <3>4. ASSUME NEW delta \in Int \ {0}, NewOrder(delta), s = delta
          PROVE  Abs(Held(bar.contract)' + s) <= Abs(Held(bar.contract))'
      <4>1. Abs(Held(bar.contract) + delta) < Abs(Held(bar.contract))
        BY <1>1, <1>3, <2>0, <3>4, GateAnswers DEF NewOrder
      <4>2. Abs(Held(bar.contract) + delta) \in Int /\ Abs(Held(bar.contract)) \in Int
        BY <1>1 DEF Abs
      <4>3. Abs(Held(bar.contract) + delta) <= Abs(Held(bar.contract))
        BY <4>1, <4>2
      <4> QED BY <3>2, <3>4, <4>3
    <3> QED BY <3>1, <3>3, <3>4
  <2> QED BY <2>0, <2>1 DEF HaltInv
<1> QED BY <1>2, <1>3

\* While the account is halted no step of a backtest makes its exposure grow.
LEMMA HaltedShrinks ==
    ASSUME Continuous, EngineTypeOK, LoopInv, OrderInv, HeldInv, HaltInv,
           [EngineNext]_allVars, halted # "no", EngineTypeOK', HeldInv'
    PROVE  Exposure' <= Exposure
<1>1. /\ book \in Books /\ book' \in Books /\ bar.contract \in Contracts
      /\ \A c \in Contracts : Held(c) \in Int /\ Held(c)' \in Int
  <2>1. BrokerTyped /\ BrokerTyped'
    BY EngineTypeSplit, PTL
  <2>2. bar.contract \in Contracts
    BY Facts
  <2> QED BY <2>1, <2>2 DEF BrokerTyped, Books, Positions, Held
<1>2. PICK h \in Contracts : \A d \in Contracts : Held(d) # 0 => d = h
  BY DEF HeldInv
<1>3. PICK k \in Contracts : \A d \in Contracts : Held(d)' # 0 => d = k
  BY DEF HeldInv
<1>4. Exposure = Abs(Held(h))
  BY <1>1, <1>2, ExposureOfOne DEF Exposure, Held
<1>5. Exposure' = Abs(Held(k)')
  BY <1>1, <1>3, ExposureOfOne DEF Exposure, Held
<1>6. \A c \in Contracts : /\ Abs(Held(c)) \in Int /\ Abs(Held(c)) <= Abs(Held(h))
                           /\ 0 <= Abs(Held(h)) /\ Abs(0) = 0
  BY <1>1, <1>2 DEF Abs
<1>7. CASE \A d \in Contracts : Held(d)' = Held(d)
  BY <1>4, <1>5, <1>6, <1>7
<1>8. ASSUME NEW id \in Ids, filled[id] = 0, orders[id].contract = bar.contract,
             book'.pos[bar.contract].qty
                = Held(bar.contract) + Signed(orders[id].side, orders[id].qty),
             \A d \in Contracts \ {bar.contract} : Held(d)' = Held(d)
      PROVE  Abs(Held(k)') <= Abs(Held(h))
  <2>1. CASE k = bar.contract
    <3>1. Held(k)' = Held(k) + Signed(orders[id].side, orders[id].qty)
      BY <1>8, <2>1 DEF Held
    <3>2. Abs(Held(k)') <= Abs(Held(k))
      BY <1>8, <2>1, <3>1 DEF HaltInv
    <3>3. Abs(Held(k)') \in Int
      BY <1>1 DEF Abs
    <3> QED BY <1>6, <3>2, <3>3
  <2>2. CASE k # bar.contract
    BY <1>6, <1>8, <2>2
  <2> QED BY <2>1, <2>2
<1>9. ASSUME NEW old \in Contracts, NEW new \in Contracts,
             Held(old)' = 0, Held(new)' \in {0, Held(old)},
             \A d \in Contracts \ {old, new} : Held(d)' = Held(d)
      PROVE  Abs(Held(k)') <= Abs(Held(h))
  <2>1. Held(k)' \in {0, Held(k), Held(old)}
    BY <1>9
  <2> QED BY <1>6, <2>1
<1> QED BY <1>4, <1>5, <1>7, <1>8, <1>9, BookStep DEF BookMoves

\* On any continuous stream a halt latches for the rest of the backtest, and from
\* then on no fill of an order placed before it and no roll lets the exposure
\* grow (prop_aware_mock_broker.py, _increasing_block_reason, is_trade_allowed).
THEOREM HaltLatches ==
    ASSUME AnyQuantity, Continuous
    PROVE  EngineSpec => HaltedEngineShrinks
<1> DEFINE Inv == PositionInv /\ HaltInv
<1>1. EngineInit => HaltInv
  BY PropInvInit
<1>2. PositionInv /\ HaltInv /\ [EngineNext]_allVars => HaltInv'
  BY HaltInvStep DEF PositionInv, EngineInv
<1>3. PositionInv /\ HaltInv /\ PositionInv' /\ [EngineNext]_allVars
         => [halted # "no" => halted' = halted /\ Exposure' <= Exposure]_allVars
  <2> SUFFICES ASSUME PositionInv, HaltInv, PositionInv', [EngineNext]_allVars, halted # "no"
               PROVE  halted' = halted /\ Exposure' <= Exposure
    OBVIOUS
  <2>1. /\ EngineTypeOK /\ LoopInv /\ OrderInv /\ HeldInv /\ EngineTypeOK' /\ HeldInv'
    BY DEF PositionInv, EngineInv
  <2>2. halted' = halted
    BY <2>1, HaltStep
  <2>3. Exposure' <= Exposure
    BY <2>1, HaltedShrinks
  <2> QED BY <2>2, <2>3
<1> QED BY <1>1, <1>2, <1>3, PositionInvariant, PTL DEF EngineSpec, HaltedEngineShrinks
=============================================================================
