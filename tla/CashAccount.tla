---------------------------- MODULE CashAccount ----------------------------
(***************************************************************************)
(* What a futures account promises, with no average entry price in it:     *)
(* every leg traded in a contract moves the net quantity by delta and the  *)
(* contract's cash by -delta * price * multiplier, and nothing else moves  *)
(* either.  The equity of a contract marked at price m is then             *)
(* cash + net * m * multiplier, whatever order the legs came in.           *)
(*                                                                         *)
(* MockBroker keeps weighted-average positions and a realized PnL instead; *)
(* it is shown to implement this module.  The module models no code of its *)
(* own: it is the reference the accounting of mock_broker.py is held to.   *)
(***************************************************************************)
EXTENDS Integers

CONSTANTS
    Contracts,      \* the contracts traded
    Mult,           \* Mult[c]: account currency per point of contract c
    LegPrices,      \* prices a single leg may trade at
    RollFills       \* prices the two legs of a roll may trade at

VARIABLES
    net,            \* net[c]: signed quantity held
    cash            \* cash[c]: what the legs in c paid in or out so far

vars == <<net, cash>>

Init ==
    /\ net = [c \in Contracts |-> 0]
    /\ cash = [c \in Contracts |-> 0]

\* One leg: what was bought (or sold, if negative) in c is paid for at price.
Trade(c, price) ==
    /\ net' = [net EXCEPT ![c] = net'[c]]
    /\ cash' = [cash EXCEPT ![c] = @ - (net'[c] - net[c]) * price * Mult[c]]

\* A roll is atomic: the whole net of front moves to back, both legs priced.
Roll(front, back, frontPrice, backPrice) ==
    /\ front # back
    /\ net' = [net EXCEPT ![front] = 0, ![back] = @ + net[front]]
    /\ cash' = [cash EXCEPT ![front] = @ + net[front] * frontPrice * Mult[front],
                            ![back] = @ - net[front] * backPrice * Mult[back]]

\* The account is wiped.
Reset ==
    /\ net' = [c \in Contracts |-> 0]
    /\ cash' = [c \in Contracts |-> 0]

Next ==
    \/ \E c \in Contracts, price \in LegPrices : Trade(c, price)
    \/ \E f, b \in Contracts, pf, pb \in RollFills : Roll(f, b, pf, pb)
    \/ Reset

Spec == Init /\ [][Next]_vars
=============================================================================
