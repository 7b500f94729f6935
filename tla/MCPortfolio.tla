----------------------------- MODULE MCPortfolio -----------------------------
(* An instance of PortfolioBacktestEngine for TLC: two roots that roll on the *)
(* same day.  Prices are multiples of 2520, as in MCEngine.                   *)
EXTENDS PortfolioBacktestEngine

CONSTANTS X, Y, XF, XB, YF, YB

MCRoot == [c \in {XF, XB, YF, YB} |-> IF c \in {XF, XB} THEN X ELSE Y]
MCTarget == [c \in {XF, XB, YF, YB} |-> IF c \in {XF, YF} THEN 3 ELSE 9]
MCLtd == [c \in {XF, XB, YF, YB} |-> IF c \in {XF, YF} THEN 4 ELSE 10]
MCBackOf == [c \in {XF, XB, YF, YB} |->
                CASE c = XF -> XB [] c = YF -> YB [] OTHER -> "untracked"]
MCQuantities == 1 .. 60
MCRoots == <<X, Y>>
MCMult == [c \in Contracts |-> 2]
MCWeights == {[r \in {X, Y} |-> 100], [r \in {X, Y} |-> IF r = X THEN 60 ELSE 140]}

Flat(c, p) == [contract |-> c, open |-> p, high |-> p, low |-> p]
MCBars == {Flat(c, p) : c \in {XF, XB}, p \in {2520, 5040}} \cup {Flat(c, 5040) : c \in {YF, YB}}
MCOpens == [r \in {X, Y} |-> IF r = X THEN {2520, 5040} ELSE {5040}]
MCCloses == MCOpens
MCDirections == [r \in {X, Y} |-> IF r = X THEN {-1, 0, 1} ELSE {1}]

\* Complete data, with the back contracts quoted from day 2 on.
Complete == [c \in Contracts |-> CASE c = XF -> 1..3 [] c = XB -> 2..4
                                   [] c = YF -> 1..2 [] c = YB -> 2..4]
\* X has no bar on the day of the roll, or on a day between two of one contract.
MCHaves == {Complete,
            [Complete EXCEPT ![XF] = {1, 2}, ![XB] = {2, 4}],
            [Complete EXCEPT ![XF] = {}, ![XB] = {1, 3, 4}]}
==============================================================================
