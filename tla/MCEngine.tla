------------------------------ MODULE MCEngine ------------------------------
(***************************************************************************)
(* Instances of BacktestEngine for TLC.  F and B are the front and the     *)
(* back contract of one root.  Prices are multiples of 2520, so that every *)
(* weighted average is an integer: deadlock checking would report an order *)
(* that cannot be filled.                                                  *)
(***************************************************************************)
EXTENDS BacktestEngine

CONSTANTS F, B

MCMult == [c \in Contracts |-> 2]
MCMargin == [c \in Contracts |-> 5040]

Range3(c, p) == [contract |-> c, open |-> p, high |-> 7560, low |-> 2520]

\* Bars that open at either price and may close at both.
WideBars == {Range3(F, 2520), Range3(F, 7560)}

\* The same for both contracts, and a bar whose prices may be below zero.
AllBars == WideBars \cup {Range3(B, 2520), Range3(B, 7560)}
    \cup {[contract |-> c, open |-> -2520, high |-> 2520, low |-> -2520] : c \in {F, B}}

On(c, d) == [contract |-> c, day |-> d]

\* One contract throughout.
FiveBars == {<<On(F, 1), On(F, 2), On(F, 3), On(F, 4), On(F, 5)>>}

\* Either no roll in the stream or one on the day on which the active contract
\* switches, as ContinuousSeriesBuilder.build cuts its windows.
RollsOnBar == {<<On(F, 1), On(F, 2), On(B, 3), On(B, 4)>>,
               <<On(F, 1), On(F, 2), On(F, 4), On(F, 5)>>}

\* The roll event of that day.
RollOnDay3 == {[day |-> 3, old |-> F, new |-> B]}

MCQuantities == 1 .. 60

NoRolls == {}
NoFills == {}

\* A settle and a close that are not positive among them.
AllFills == {-2520, 2520, 7560}
AllCloses == {-2520, 2520, 7560}
=============================================================================
