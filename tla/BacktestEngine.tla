--------------------------- MODULE BacktestEngine ---------------------------
(***************************************************************************)
(* The per-bar loop of futur3/engine/backtest.py over a MockBroker (or a   *)
(* PropAwareMockBroker): fill what is outstanding, roll, mark to market,   *)
(* stop out, ask the strategy, size, ask the gate, place a market order.   *)
(*                                                                         *)
(* The stream says on which day which contract trades; the prices of each  *)
(* bar are free, and so is what the strategy answers about the latest bar. *)
(* Sizing is RiskManager's; where the survival gate runs, its cap is any   *)
(* size up to the other caps.  An exception leaves run() for good.         *)
(***************************************************************************)
EXTENDS PropAwareMockBroker, Sizing

CONSTANTS
    Streams,            \* bar streams: sequences of [contract, day]
    Closes,             \* closing prices
    RollEvents,         \* set of [day, old, new]: roll_events
    Kellys,             \* full_kelly_fraction of a signal, in percent
    Margin,             \* Margin[c]: initial margin
    TargetPosition,     \* target_position
    StopLossPct,        \* stop_loss_pct, in percent; 0: off
    SurvivalGate,       \* survival_gate
    MinCloses           \* _MIN_CLOSES_FOR_SURVIVAL

\* size_position raises for a root that is not configured, so that no order of
\* such a contract is ever placed.
ASSUME EngineAssumption ==
    /\ Configured = Contracts
    /\ "MKT" \in Supported
    /\ Streams \subseteq Seq([contract : Contracts, day : Nat])
    /\ Closes \subseteq Int
    /\ RollEvents \subseteq [day : Nat, old : Contracts, new : Contracts]
    /\ \A e1, e2 \in RollEvents : e1.day = e2.day => e1 = e2
    /\ Kellys \subseteq Nat
    /\ Margin \in [Contracts -> Nat \ {0}]
    /\ TargetPosition \in BOOLEAN /\ SurvivalGate \in BOOLEAN
    /\ StopLossPct \in Nat /\ MinCloses \in Nat
    /\ SurvivalGate => 0 \notin Closes      \* the returns divide by the closes

VARIABLES
    stream,         \* the bars run() was given
    t,              \* bars taken from it
    phase,          \* where the loop body stands
    close,          \* close of the current bar
    lastClose,      \* last_close; only the contracts in `seen` have one
    seen,
    closes,         \* number of closes in closes_by_contract
    curve,          \* equity_curve
    result,         \* the counters of RunResult
    placed,         \* history: the bar each order was placed on
    largest         \* history: the largest size a decision allowed

engineVars == <<stream, t, phase, close, lastClose, seen, closes, curve, result, placed, largest>>
allVars == <<vars, propVars, engineVars>>
brokerVars == <<vars, propVars>>

Phases == {"bar", "advance", "fill", "roll", "mark", "decide", "done", "raised"}

\* Mutant: the orders of a bar are filled against that bar.
AfterAdvancesLast(p) ==
    CASE p = "bar" -> "roll" [] p = "roll" -> "mark" [] p = "mark" -> "decide"
      [] p = "decide" -> "advance" [] p = "fill" -> "bar"

\* The order of the loop body.
After(p) ==
    CASE p = "bar" -> "advance" [] p = "fill" -> "roll" [] p = "roll" -> "mark"
      [] p = "mark" -> "decide" [] p = "decide" -> "bar"

EngineInit ==
    /\ PropInit
    /\ stream \in Streams
    /\ t = 0
    /\ phase = "bar"
    /\ close = 0
    /\ lastClose = [c \in Contracts |-> 0]
    /\ seen = {}
    /\ closes = [c \in Contracts |-> 0]
    /\ curve = <<>>
    /\ result = [signals |-> 0, orders |-> 0, fills |-> 0, capped |-> 0, rolls |-> 0, cost |-> 0]
    /\ placed = <<>>
    /\ largest = 0

-----------------------------------------------------------------------------
(* Fill, roll, mark                                                          *)

\* The next bar of the stream.
NextBar(b, px) ==
    /\ phase = "bar"
    /\ t < Len(stream)
    /\ b.contract = stream[t + 1].contract
    /\ b.low <= px /\ px <= b.high
    /\ t' = t + 1
    /\ bar' = b
    /\ close' = px
    /\ phase' = After("bar")
    /\ UNCHANGED <<orders, cancelled, filled, events, book, cursor, propVars>>
    /\ UNCHANGED <<stream, lastClose, seen, closes, curve, result, placed, largest>>

\* broker.advance(bar, slippage).
StartAdvance ==
    /\ phase = "advance"
    /\ phase' = "fill"
    /\ orders # <<>> => AdvanceStart(bar)
    /\ orders = <<>> => UNCHANGED vars
    /\ UNCHANGED propVars
    /\ UNCHANGED <<stream, t, close, lastClose, seen, closes, curve, result, placed, largest>>

Count(field, n) == [result EXCEPT ![field] = @ + n]

Advance ==
    /\ phase = "fill"
    /\ \/ AdvanceSkip /\ UNCHANGED <<result, phase>>
       \/ AdvanceFill /\ result' = Count("fills", 1) /\ UNCHANGED phase
       \/ AdvanceRaises /\ phase' = "raised" /\ UNCHANGED result
    /\ UNCHANGED propVars
    /\ UNCHANGED <<stream, t, close, lastClose, seen, closes, curve, placed, largest>>

\* advance returned: the close of the bar is known from here on.
SeeClose ==
    /\ phase = "fill"
    /\ Idle
    /\ lastClose' = [lastClose EXCEPT ![bar.contract] = close]
    /\ seen' = seen \cup {bar.contract}
    /\ phase' = After("fill")
    /\ UNCHANGED brokerVars
    /\ UNCHANGED <<stream, t, close, closes, curve, result, placed, largest>>

\* Mutant: the roll is taken on the bar before its date.
RollsTodayEarly == {e \in RollEvents : e.day = stream[t].day + 1}

\* The roll event of the bar's date.
RollsToday == {e \in RollEvents : e.day = stream[t].day}

Held(c) == book.pos[c].qty

\* _execute_roll with something to roll, and settle prices ff and bf.
ExecuteRoll(e, ff, bf) ==
    /\ phase = "roll"
    /\ e \in RollsToday
    /\ Held(e.old) # 0
    /\ \/ /\ RollPosition(e.old, e.new, ff, bf)
          /\ result' = [result EXCEPT !.rolls = @ + 1,
                                      !.cost = @ + (bf - ff) * Held(e.old) * Mult[e.new]]
          /\ phase' = After("roll")
       \/ /\ RollRaises(e.old, e.new, ff, bf)
          /\ phase' = "raised"
          /\ UNCHANGED result
    /\ UNCHANGED propVars
    /\ UNCHANGED <<stream, t, close, lastClose, seen, closes, curve, placed, largest>>

NoRoll ==
    /\ phase = "roll"
    /\ \A e \in RollsToday : Held(e.old) = 0
    /\ phase' = After("roll")
    /\ UNCHANGED brokerVars
    /\ UNCHANGED <<stream, t, close, lastClose, seen, closes, curve, result, placed, largest>>

\* Mutant: open positions are marked in points.
UnrealizedInPoints(c) == (lastClose[c] - book.pos[c].avg) * Held(c)

\* _mark_to_market: a held contract that never closed is left out.
Unrealized(c) == (lastClose[c] - book.pos[c].avg) * Held(c) * Mult[c]
MarkToMarket ==
    CurrentEquity
        + SumFunction([c \in {d \in Contracts : Held(d) # 0 /\ d \in seen} |-> Unrealized(c)])

\* The mark, and the end of the bar for a ruined account.
Mark ==
    /\ phase = "mark"
    /\ ObserveEquity
    /\ closes' = IF SurvivalGate THEN [closes EXCEPT ![bar.contract] = @ + 1] ELSE closes
    /\ curve' = Append(curve, MarkToMarket)
    /\ phase' = IF MarkToMarket <= 0 THEN After("decide") ELSE After("mark")
    /\ UNCHANGED vars
    /\ UNCHANGED <<stream, t, close, lastClose, seen, result, placed, largest>>

-----------------------------------------------------------------------------
(* Decide                                                                    *)

\* The account value that this bar's decisions are sized on.
Equity == curve[Len(curve)]

MarketOrder(c, delta) ==
    [contract |-> c, side |-> IF delta > 0 THEN "BUY" ELSE "SELL", qty |-> Abs(delta),
     type |-> "MKT", price |-> 0]

\* Ask the gate about moving c by delta; place the order if it agrees.
Trade(c, delta, counted) ==
    LET o == MarketOrder(c, delta)
    IN  /\ Asked(c, o.side, o.qty)
        /\ IF IsTradeAllowed(c, o.side, o.qty)
           THEN /\ PlaceOrder(o)
                /\ placed' = Append(placed, t)
                /\ result' = [counted EXCEPT !.orders = @ + 1]
           ELSE /\ UNCHANGED <<vars, placed>>
                /\ result' = counted

NoTrade(counted) == UNCHANGED <<brokerVars, placed>> /\ result' = counted

\* What ends a decision: the loop goes on with the next bar.
Decided ==
    /\ phase = "decide"
    /\ phase' = After("decide")
    /\ UNCHANGED <<stream, t, close, lastClose, seen, closes, curve>>

\* _apply_stop_loss: the open position of the bar's contract is adverse by more
\* than the stop.
StopHit ==
    LET p == book.pos[bar.contract]
        adverse == IF p.qty > 0 THEN p.avg - close ELSE close - p.avg
    IN  StopLossPct > 0 /\ p.qty # 0 /\ 100 * adverse >= StopLossPct * p.avg

StopFires ==
    /\ StopHit
    /\ LET o == MarketOrder(bar.contract, -Held(bar.contract))
       IN  IsTradeAllowed(o.contract, o.side, o.qty)

StopLoss ==
    /\ Decided
    /\ StopFires
    /\ Trade(bar.contract, -Held(bar.contract), result)
    /\ UNCHANGED largest

\* The strategy has no opinion.
NoSignal ==
    /\ Decided
    /\ ~StopFires
    /\ NoTrade(result)
    /\ UNCHANGED largest

\* A flat signal closes the position in target-position mode.
FlatSignal ==
    /\ Decided
    /\ ~StopFires
    /\ IF TargetPosition /\ Held(bar.contract) # 0
       THEN Trade(bar.contract, -Held(bar.contract), Count("signals", 1))
       ELSE NoTrade(Count("signals", 1))
    /\ UNCHANGED largest

\* The caps on a signal of strength f, before the survival gate.
Base(f) == IF f <= 0 THEN 0
           ELSE BaseContracts(f, Equity, close * Mult[bar.contract], Margin[bar.contract])

\* _survival_inputs: the gate needs three closes of the contract.
SurvivalRuns == SurvivalGate /\ closes[bar.contract] >= MinCloses

\* size_position's answers: the survival cap may take any size off.
Sizes(f) == IF SurvivalRuns THEN 0 .. Base(f) ELSE {Base(f)}

\* Mutant: a full clip on top of what is held, also in target-position mode.
ResolveClip(dir, size) == dir * size

\* _resolve_order: the delta to the target, or the whole clip.
ResolveOrder(dir, size) ==
    IF TargetPosition THEN dir * size - Held(bar.contract) ELSE dir * size

\* A signal of direction dir (1 or -1), sized to `size`, through the gate.
Place(dir, f, size) ==
    LET delta == ResolveOrder(dir, size)
        counted == [result EXCEPT !.signals = @ + 1, !.capped = IF size < Base(f) THEN @ + 1 ELSE @]
    IN  IF size = 0 \/ delta = 0 THEN NoTrade(counted) ELSE Trade(bar.contract, delta, counted)

Act(dir, f) ==
    /\ Decided
    /\ ~StopFires
    /\ close > 0
    /\ \E size \in Sizes(f) :
          /\ Place(dir, f, size)
          /\ largest' = Larger(largest, size)

\* size_position refuses a price that is not positive.
SizingRaises ==
    /\ phase = "decide"
    /\ ~StopFires
    /\ close <= 0
    /\ phase' = "raised"
    /\ result' = Count("signals", 1)
    /\ UNCHANGED brokerVars
    /\ UNCHANGED <<stream, t, close, lastClose, seen, closes, curve, placed, largest>>

\* After the last bar: the final metrics are read.
Finish ==
    /\ phase = "bar"
    /\ t = Len(stream)
    /\ ObserveEquity
    /\ phase' = "done"
    /\ UNCHANGED vars
    /\ UNCHANGED <<stream, t, close, lastClose, seen, closes, curve, result, placed, largest>>

\* run() is over.
Over == phase \in {"done", "raised"} /\ UNCHANGED allVars

EngineNext ==
    \/ \E b \in Bars, px \in Closes : NextBar(b, px)
    \/ StartAdvance
    \/ Advance
    \/ SeeClose
    \/ \E e \in RollEvents, ff, bf \in RollFills : ExecuteRoll(e, ff, bf)
    \/ NoRoll
    \/ Mark
    \/ StopLoss
    \/ NoSignal
    \/ FlatSignal
    \/ \E dir \in {1, -1}, f \in Kellys : Act(dir, f)
    \/ SizingRaises
    \/ Finish
    \/ Over

EngineSpec == EngineInit /\ [][EngineNext]_allVars

-----------------------------------------------------------------------------
(* Properties                                                                *)

\* Every engine variable keeps its shape; the curve has one point per bar.
EngineTypeOK ==
    /\ TypeOK
    /\ peak \in Int /\ halted \in {"no", "dll", "mll"}
    /\ t \in 0 .. Len(stream)
    /\ phase \in Phases
    /\ close \in Int
    /\ lastClose \in [Contracts -> Int] /\ seen \subseteq Contracts
    /\ closes \in [Contracts -> Nat]
    /\ curve \in Seq(Int)
    /\ phase = "bar" => Len(curve) = t
    /\ result \in [signals : Nat, orders : Nat, fills : Nat, capped : Nat, rolls : Nat, cost : Int]
    /\ placed \in Seq(1 .. t) /\ Len(placed) = Len(orders)
    /\ largest \in Nat

\* Look-ahead-free: no order is filled against the bar on which it was decided.
NoLookAhead == \A id \in Ids : filled[id] > 0 => placed[id] < t

\* An order decided on one bar is filled by the next: when a bar is marked
\* nothing older is still outstanding.
OrdersFillNextBar ==
    phase \in {"mark", "decide"} =>
        \A id \in Ids : placed[id] < t => filled[id] = orders[id].qty

\* In target-position mode the caps govern the whole exposure: over all
\* contracts it never exceeds the largest size that any decision allowed.
ExposureCapped == TargetPosition => Exposure <= largest

\* A position that is marked has a close: no roll and no fill puts the account
\* into a contract whose price the engine has not seen.
HeldIsMarked ==
    phase \in {"decide", "bar"} => \A c \in Contracts : Held(c) # 0 => c \in seen

\* The last point of the curve is the cash paid and received so far plus the
\* open contracts at their last close: no fill or roll makes it jump by more
\* than prices moved.
CurveIsCash ==
    phase = "decide" =>
        Equity = StartingEquity
            + SumFunction([c \in Contracts |->
                  book.pos[c].realized + Held(c) * (lastClose[c] - book.pos[c].avg) * Mult[c]])

\* The report adds up: orders_placed counts the orders the broker has, fills
\* those it filled.
ReportAddsUp ==
    /\ result.orders = Len(orders)
    /\ result.fills = Cardinality({id \in Ids : filled[id] > 0})

\* A halt latches: from the order that trips it on the account stays halted and
\* no fill and no roll makes its exposure grow again.
HaltedEngineShrinks ==
    [][halted # "no" => halted' = halted /\ Exposure' <= Exposure]_allVars

\* What run() reports is well-founded, also when an exception ends it: the curve
\* has a point per bar, whatever is held was seen at a close, and the counters
\* are those of the broker.
ReportIsSound == EngineTypeOK /\ HeldIsMarked /\ ReportAddsUp

=============================================================================
