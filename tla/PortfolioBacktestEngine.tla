----------------------- MODULE PortfolioBacktestEngine -----------------------
(***************************************************************************)
(* The date loop of PortfolioBacktestEngine over one MockBroker: all bars  *)
(* of a date, then the rolls of that date, one mark, and then one order    *)
(* per signalled leg, every leg sized on that mark.                        *)
(*                                                                         *)
(* The streams are the continuous series of the roots.  A close is chosen  *)
(* when it is first looked at (by the bar itself or by the roll that       *)
(* settles at it) and stays what it is.  Prices are positive.              *)
(***************************************************************************)
EXTENDS MockBroker, Sizing, ContinuousSeries

CONSTANTS
    Roots,              \* the streams, in the order of their ids
    Haves,              \* the data sets: which contract has a bar on which day
    Days,               \* days of the data
    Opens, Closes,      \* Opens[r], Closes[r]: prices of the bars of root r
    Directions,         \* Directions[r]: what the strategy may say of root r
    Kelly,              \* full_kelly_fraction of a signal, in percent
    Weights,            \* inverse-vol weights of the legs, in percent
    MinBars,            \* bars before a leg's volatility is measurable
    Margin,             \* initial margin of a contract
    StartingEquity,
    TargetPosition,     \* target_position
    BlockAllTrades      \* block_all_trades

ASSUME PortfolioAssumption ==
    /\ Configured = Contracts /\ Contracts = Expiries
    /\ "MKT" \in Supported
    /\ Days \subseteq Nat \ {0} /\ IsFiniteSet(Days)
    /\ Haves \subseteq [Contracts -> SUBSET Days]
    /\ Roots \in Seq(Range(Roots)) /\ IsInjective(Roots)
    /\ \A r \in Range(Roots) :
          /\ Opens[r] \subseteq Nat \ {0} /\ Closes[r] \subseteq Nat \ {0}
          /\ Directions[r] \subseteq {-1, 0, 1}
    /\ Kelly \in Nat /\ Weights \subseteq [Range(Roots) -> Nat] /\ MinBars \in Nat
    /\ Margin \in Nat \ {0} /\ StartingEquity \in Nat
    /\ TargetPosition \in BOOLEAN /\ BlockAllTrades \in BOOLEAN

VARIABLES
    have,           \* the data set of this run
    indexed,        \* its bars by date, then stream
    rollEvents,     \* _rolls_by_date
    t,              \* bars taken
    phase,          \* where the body of the date loop stands
    tape,           \* closes looked at so far; 0: not yet
    lastClose,      \* last_close; 0: none
    rolls,          \* rolls of the date still to execute
    legs,           \* signals of the date still to place
    curve,          \* equity_curve
    count,          \* signals, orders, fills, rolls and roll cost of the result
    placed,         \* history: the day each order was placed on
    largest         \* history: the largest size a decision allowed, per root

loopVars == <<have, indexed, rollEvents, t, phase, tape, lastClose, rolls, legs, curve, count, placed, largest>>
allVars == <<vars, loopVars>>

Place(r) == CHOOSE i \in DOMAIN Roots : Roots[i] = r

\* sorted by (date, stream id)
Index(h) ==
    SortedBy(UNION {Range(Splice(h, r)) : r \in Range(Roots)},
             LAMBDA a, b : \/ a.day < b.day
                           \/ a.day = b.day /\ Place(Root[a.contract]) < Place(Root[b.contract]))

PortfolioInit ==
    /\ Init
    /\ have \in {h \in Haves : \A r \in Range(Roots) : Builds(h, r)}
    /\ indexed = Index(have)
    /\ rollEvents = UNION {RollEventsOf(have, r) : r \in Range(Roots)}
    /\ t = 0
    /\ phase = "bar"
    /\ tape = [x \in Contracts \X Days |-> 0]
    /\ lastClose = [c \in Contracts |-> 0]
    /\ rolls = <<>>
    /\ legs = <<>>
    /\ curve = <<>>
    /\ count = [signals |-> 0, orders |-> 0, fills |-> 0, rolls |-> 0, cost |-> 0]
    /\ placed = <<>>
    /\ largest = [r \in Range(Roots) |-> 0]

Today == indexed[t].day
Held(c) == book.pos[c].qty
DateIsOver == t = Len(indexed) \/ indexed[t + 1].day # Today

-----------------------------------------------------------------------------
(* The bars of a date *)

CloseOf(c, d) == IF tape[<<c, d>>] # 0 THEN {tape[<<c, d>>]} ELSE Closes[Root[c]]

\* The next bar of the date reaches advance().
NextBar(b, px) ==
    /\ phase = "bar"
    /\ t < Len(indexed)
    /\ b.contract = indexed[t + 1].contract
    /\ b.open \in Opens[Root[b.contract]]
    /\ px \in CloseOf(b.contract, indexed[t + 1].day)
    /\ t' = t + 1
    /\ tape' = [tape EXCEPT ![<<b.contract, indexed[t + 1].day>>] = px]
    /\ IF orders # <<>> THEN AdvanceStart(b)
                        ELSE bar' = b /\ UNCHANGED <<orders, cancelled, filled, events, book, cursor>>
    /\ phase' = "fill"
    /\ UNCHANGED <<have, indexed, rollEvents, lastClose, rolls, legs, curve, count, placed, largest>>

Advance ==
    /\ phase = "fill"
    /\ \/ AdvanceSkip /\ UNCHANGED count
       \/ AdvanceFill /\ count' = [count EXCEPT !.fills = @ + 1]
    /\ UNCHANGED <<have, indexed, rollEvents, t, phase, tape, lastClose, rolls, legs, curve, placed, largest>>

\* Mutant: of the rolls of a date only one is executed.
RollsOnFirst(d) ==
    LET due == {e \in rollEvents : e.day = d}
    IN  IF due = {} THEN <<>> ELSE <<CHOOSE e \in due : TRUE>>

\* _rolls_by_date.get(d)
RollsOn(d) == SetToSeq({e \in rollEvents : e.day = d})

\* advance() returned; after the last bar of the date come its rolls.
SeeClose ==
    /\ phase = "fill"
    /\ Idle
    /\ lastClose' = [lastClose EXCEPT ![bar.contract] = tape[<<bar.contract, Today>>]]
    /\ IF DateIsOver THEN phase' = "roll" /\ rolls' = RollsOn(Today)
                     ELSE phase' = "bar" /\ UNCHANGED rolls
    /\ UNCHANGED vars
    /\ UNCHANGED <<have, indexed, rollEvents, t, tape, legs, curve, count, placed, largest>>

-----------------------------------------------------------------------------
(* Rolls and the mark *)

\* The next roll of the date: its settles are closes of the data.
ExecuteRoll(ff, bf) ==
    LET e == Head(rolls)
        q == Held(e.old)
    IN  /\ phase = "roll"
        /\ rolls # <<>>
        /\ ff \in CloseOf(e.old, e.frontDay) /\ bf \in CloseOf(e.new, e.backDay)
        /\ tape' = [tape EXCEPT ![<<e.old, e.frontDay>>] = ff, ![<<e.new, e.backDay>>] = bf]
        /\ IF q = 0
           THEN UNCHANGED <<vars, count>>
           ELSE /\ RollPosition(e.old, e.new, ff, bf)
                /\ count' = [count EXCEPT !.rolls = @ + 1,
                                          !.cost = @ + (bf - ff) * q * Mult[e.new]]
        /\ rolls' = Tail(rolls)
        /\ UNCHANGED <<have, indexed, rollEvents, t, phase, lastClose, legs, curve, placed, largest>>

\* Mutant: open positions are marked in points.
UnrealizedInPoints(c) == (lastClose[c] - book.pos[c].avg) * Held(c)

Unrealized(c) == (lastClose[c] - book.pos[c].avg) * Held(c) * Mult[c]

\* _mark_to_market: a held contract without a close is left out.
MarkToMarket ==
    StartingEquity + book.realized
        + SumFunction([c \in {d \in Contracts : Held(d) # 0 /\ lastClose[d] # 0} |-> Unrealized(c)])

\* One point per date; a ruined account goes on to the next date.
Mark ==
    /\ phase = "roll"
    /\ rolls = <<>>
    /\ curve' = Append(curve, MarkToMarket)
    /\ phase' = IF MarkToMarket <= 0 THEN "bar" ELSE "signals"
    /\ UNCHANGED vars
    /\ UNCHANGED <<have, indexed, rollEvents, t, tape, lastClose, rolls, legs, count, placed, largest>>

-----------------------------------------------------------------------------
(* Signals and orders *)

\* The contract and the number of the bars a root has shown so far.
Shown(r) == {i \in 1 .. t : Root[indexed[i].contract] = r}
LatestContract(r) == indexed[Max(Shown(r))].contract

\* _stdev of the trailing returns: none from fewer than two returns.
Measurable(r) == Cardinality(Shown(r)) >= MinBars

\* inverse_vol_weights: mean 1 over the legs, and 1 for a leg without volatility.
InverseVolWeights(signalled) ==
    {w \in Weights : /\ SumFunctionOnSet(w, signalled) = 100 * Cardinality(signalled)
                     /\ \A r \in signalled : Measurable(r) \/ w[r] = 100}

\* Without risk_parity every weight is 1.
LegWeights(signalled) ==
    InverseVolWeights(signalled) \cup {w \in Weights : \A r \in signalled : w[r] = 100}

\* generate_signals: a leg for some of the roots that have a history.
GenerateSignals ==
    /\ phase = "signals"
    /\ \E S \in SUBSET {r \in Range(Roots) : Shown(r) # {}} :
          \E dir \in [S -> {-1, 0, 1}], w \in LegWeights(S) :
             /\ \A r \in S : dir[r] \in Directions[r]
             /\ legs' = [i \in 1 .. Cardinality(S) |->
                            LET r == SortedBy(S, LAMBDA a, b : Place(a) < Place(b))[i]
                            IN  [contract |-> LatestContract(r), dir |-> dir[r], weight |-> w[r]]]
             /\ count' = [count EXCEPT !.signals = @ + Cardinality(S)]
    /\ phase' = "place"
    /\ UNCHANGED vars
    /\ UNCHANGED <<have, indexed, rollEvents, t, tape, lastClose, rolls, curve, placed, largest>>

Equity == curve[Len(curve)]

\* Mutant: the full clip on top of what is held.
ResolveOrderClip(leg, size) == leg.dir * size

\* _resolve_order and _flatten: the delta to the target, or the whole clip.
ResolveOrder(leg, size) ==
    IF TargetPosition THEN leg.dir * size - Held(leg.contract) ELSE leg.dir * size

SizeOf(leg) ==
    IF leg.dir = 0 THEN 0
    ELSE BaseContracts((Kelly * leg.weight) \div 100, Equity,
                       lastClose[leg.contract] * Mult[leg.contract], Margin)

\* The next leg, by contract: no order for a capped size of zero or no delta.
PlaceLeg ==
    LET leg == Head(legs)
        size == SizeOf(leg)
        delta == ResolveOrder(leg, size)
    IN  /\ phase = "place"
        /\ legs # <<>>
        /\ IF (leg.dir # 0 /\ size = 0) \/ delta = 0 \/ BlockAllTrades
           THEN UNCHANGED <<vars, count, placed>>
           ELSE /\ PlaceOrder([contract |-> leg.contract, qty |-> Abs(delta), type |-> "MKT",
                               side |-> IF delta > 0 THEN "BUY" ELSE "SELL", price |-> 0])
                /\ count' = [count EXCEPT !.orders = @ + 1]
                /\ placed' = Append(placed, Today)
        /\ legs' = Tail(legs)
        /\ largest' = [largest EXCEPT ![Root[leg.contract]] = Max({@, size})]
        /\ UNCHANGED <<have, indexed, rollEvents, t, phase, tape, lastClose, rolls, curve>>

NextDate ==
    /\ phase = "place"
    /\ legs = <<>>
    /\ phase' = "bar"
    /\ UNCHANGED vars
    /\ UNCHANGED <<have, indexed, rollEvents, t, tape, lastClose, rolls, legs, curve, count, placed, largest>>

\* run() has returned.
Over == phase = "bar" /\ t = Len(indexed) /\ UNCHANGED allVars

PortfolioNext ==
    \/ \E b \in Bars : \E px \in Closes[Root[b.contract]] : NextBar(b, px)
    \/ Advance
    \/ SeeClose
    \/ \E ff, bf \in RollFills : ExecuteRoll(ff, bf)
    \/ Mark
    \/ GenerateSignals
    \/ PlaceLeg
    \/ NextDate
    \/ Over

PortfolioSpec == PortfolioInit /\ [][PortfolioNext]_allVars

-----------------------------------------------------------------------------
(* Properties *)

Dates == {indexed[i].day : i \in 1 .. t}

\* Every variable keeps its shape; between two dates the curve has one point
\* per date, however many bars the date had.
PortfolioTypeOK ==
    /\ TypeOK
    /\ t \in 0 .. Len(indexed)
    /\ phase \in {"bar", "fill", "roll", "signals", "place"}
    /\ tape \in [Contracts \X Days -> Nat] /\ lastClose \in [Contracts -> Nat]
    /\ curve \in Seq(Int)
    /\ (phase = "bar" /\ (t = 0 \/ DateIsOver)) => Len(curve) = Cardinality(Dates)
    /\ count \in [signals : Nat, orders : Nat, fills : Nat, rolls : Nat, cost : Int]
    /\ placed \in Seq(Days) /\ Len(placed) = Len(orders)

\* The continuous series the engine runs on follow the roll calendar.
SeriesFollowCalendar ==
    t = 0 => \A r \in Range(Roots) : FollowsCalendar(have, r)

\* What a carry strategy is shown agrees with the series and looks at no close
\* of a later day.
CarryAgreesWithSeries ==
    t = 0 => \A r \in Range(Roots) : CarryAgrees(have, r)

\* No return is taken across a roll, and none within a contract is lost.
ReturnsAreClean ==
    t = 0 => \A r \in Range(Roots) : ReturnsWithinContract(have, r)

\* Every root has a bar on every date, and every roll falls on a date.
Aligned ==
    /\ \A i \in DOMAIN indexed, r \in Range(Roots) :
          \E j \in DOMAIN indexed : indexed[j].day = indexed[i].day
                                    /\ Root[indexed[j].contract] = r
    /\ \A e \in rollEvents : \E i \in DOMAIN indexed : indexed[i].day = e.day

\* Look-ahead-free over several streams: no order is filled by a bar of the
\* date on which it was decided, whatever the order of the bars of a date.
FilledLater == \A id \in DOMAIN orders : filled[id] > 0 => placed[id] < Today

\* The caps govern the exposure of a leg, over its contracts and through rolls,
\* while the streams are aligned: it never exceeds the largest size decided.
LegCapped ==
    \A r \in Range(Roots) :
        \/ SumFunction([c \in {d \in Contracts : Root[d] = r} |-> Abs(Held(c))]) <= largest[r]
        \/ ~(Aligned /\ TargetPosition)

\* Nothing is left behind: once the date of a roll has been run no position in
\* the old contract is left, and none appears later (an order for it that is
\* still pending cannot fill any more).
NothingLeftBehind ==
    phase \in {"signals", "place"} =>
        \A e \in rollEvents : e.day \in Dates => Held(e.old) = 0

\* A roll on a date on which the new contract traded is a paired trade: it
\* changes the mark by nothing but the old contract's move to its last close
\* on or before that date.
RollIsPaired ==
    [][phase = "roll" /\ rolls # <<>> /\ Today \in have[Head(rolls).new] =>
          LET c == Head(rolls).old
          IN  MarkToMarket' - MarkToMarket =
                 Held(c) * (tape'[<<c, OnOrBefore(have[c], Today)>>] - lastClose[c]) * Mult[c]]_allVars

\* The blended curve is the one account's cash: at every date its point is the
\* start, what the legs of all contracts paid and received, and what is held at
\* its close.
BlendedCurveIsCash ==
    phase = "signals" /\ (\A c \in Contracts : Held(c) # 0 => lastClose[c] # 0) =>
        Equity = StartingEquity
            + SumFunction([c \in Contracts |->
                  book.pos[c].realized + Held(c) * (lastClose[c] - book.pos[c].avg) * Mult[c]])

\* The series under the engine are what the calendar, the carry inputs and the
\* returns say they are.
SeriesAreSound == SeriesFollowCalendar /\ CarryAgreesWithSeries /\ ReturnsAreClean

\* One broker under several legs: no look-ahead between streams, no position
\* left behind by a roll, and exposure and PnL are those of the fills.
PortfolioIsSound ==
    PortfolioTypeOK /\ FilledLater /\ NothingLeftBehind /\ NetIsFills /\ PositionTotals

=============================================================================
