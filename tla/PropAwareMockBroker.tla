------------------------- MODULE PropAwareMockBroker -------------------------
(***************************************************************************)
(* The prop-account overlay of                                             *)
(* futur3/execution/adapters/prop_aware_mock_broker.py: MockBroker with a  *)
(* pre-trade gate that caps the position and halts the account on a daily  *)
(* loss or on a trailing drawdown.  With PropGuard = FALSE the gate is the *)
(* one of MockBroker itself.                                               *)
(*                                                                         *)
(* The caller asks is_trade_allowed and, if allowed, places the order; it  *)
(* may do so again before the first order has filled.                      *)
(***************************************************************************)
EXTENDS MockBroker

CONSTANTS
    PropGuard,              \* FALSE: the plain MockBroker
    BlockAllTrades,         \* block_all_trades
    StartingEquity,
    DailyLossLimit,
    TrailingMaxLossLimit,
    MaxContracts,
    InitialEquityPeak

ASSUME PropAssumption ==
    /\ PropGuard \in BOOLEAN /\ BlockAllTrades \in BOOLEAN
    /\ StartingEquity \in Nat \ {0}
    /\ DailyLossLimit \in Nat \ {0}
    /\ TrailingMaxLossLimit \in Nat \ {0}
    /\ MaxContracts \in Nat \ {0}
    /\ InitialEquityPeak \in Nat /\ InitialEquityPeak >= StartingEquity

VARIABLES
    peak,           \* _equity_peak
    halted          \* _halted: "no", "dll" or "mll"

propVars == <<peak, halted>>

\* _current_equity: the unrealized PnL of every Position of MockBroker is 0.
CurrentEquity == StartingEquity + book.realized

Larger(m, n) == IF m < n THEN n ELSE m
Observed == Larger(peak, CurrentEquity)

Resulting(c, side, qty) == book.pos[c].qty + Signed(side, qty)

\* A risk-reducing order strictly shrinks the position.
Reduces(c, side, qty) == Abs(Resulting(c, side, qty)) < Abs(book.pos[c].qty)

\* Mutant: the size of the order is held against the cap, not the size of the
\* position it leads to.
CapExceededByOrder(c, side, qty) == qty > MaxContracts

CapExceeded(c, side, qty) == Abs(Resulting(c, side, qty)) > MaxContracts

\* The gate reaches the account limits only past these checks.
LimitsChecked(c, side, qty) ==
    /\ PropGuard /\ ~BlockAllTrades
    /\ ~Reduces(c, side, qty)
    /\ halted = "no"
    /\ ~CapExceeded(c, side, qty)

\* _increasing_block_reason: the limit the account has reached, if any.
Breach ==
    IF book.realized <= -DailyLossLimit THEN "dll"
    ELSE IF Observed - CurrentEquity >= TrailingMaxLossLimit THEN "mll"
    ELSE "no"

\* Mutant: the order that trips a halt still goes through.
IsTradeAllowedTripping(c, side, qty) ==
    /\ ~BlockAllTrades
    /\ ~PropGuard \/ Reduces(c, side, qty) \/ LimitsChecked(c, side, qty)

\* is_trade_allowed: its answer, and what asking does to the account.
IsTradeAllowed(c, side, qty) ==
    /\ ~BlockAllTrades
    /\ \/ ~PropGuard
       \/ Reduces(c, side, qty)
       \/ LimitsChecked(c, side, qty) /\ Breach = "no"

Asked(c, side, qty) ==
    IF LimitsChecked(c, side, qty)
    THEN peak' = Observed /\ halted' = Breach
    ELSE UNCHANGED propVars

\* get_account_metrics observes the equity; reset() forgets the peak and the halt.
ObserveEquity == peak' = (IF PropGuard THEN Observed ELSE peak) /\ UNCHANGED halted
ForgetLimits == peak' = InitialEquityPeak /\ halted' = "no"

PropInit ==
    /\ Init
    /\ peak = InitialEquityPeak
    /\ halted = "no"

\* One caller: ask, and place the order if the gate lets it through.
AskAndPlace(o) ==
    /\ Idle
    /\ Asked(o.contract, o.side, o.qty)
    /\ IF IsTradeAllowed(o.contract, o.side, o.qty)
       THEN PlaceOrder(o) ELSE UNCHANGED vars

PropNext ==
    \/ \E o \in Orders : AskAndPlace(o)
    \/ (\E b \in Bars : AdvanceStart(b)) /\ UNCHANGED propVars
    \/ (AdvanceSkip \/ AdvanceFill \/ AdvanceRaises) /\ UNCHANGED propVars
    \/ Idle /\ ObserveEquity /\ UNCHANGED vars
    \/ Reset /\ ForgetLimits

PropSpec == PropInit /\ [][PropNext]_<<vars, propVars>>

-----------------------------------------------------------------------------
(* Properties                                                                *)

\* The position cap: no position is ever larger than max_contracts, although
\* the gate sees the position only as it was when the order was placed.
PositionCap == PropGuard => \A c \in Contracts : Abs(book.pos[c].qty) <= MaxContracts

\* Contracts held, long or short.
Exposure == SumFunction([c \in Contracts |-> Abs(book.pos[c].qty)])
=============================================================================
