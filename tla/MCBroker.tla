------------------------------ MODULE MCBroker ------------------------------
(***************************************************************************)
(* Instances of MockBroker for TLC.  F and B are the front and the back    *)
(* contract of one root, U one of a root without a multiplier.  Prices are *)
(* multiples of 720 so that every weighted average reachable within the    *)
(* bounds is an integer: the guard                                         *)
(* Exact never cuts a behaviour short (deadlock checking would report an   *)
(* advance() that cannot go on).                                           *)
(***************************************************************************)
EXTENDS MockBroker

CONSTANTS F, B, U

MCMult == [c \in Contracts |-> 2]

\* Two bars of F, both crossing some but not all limits and stops.
FrontBars == {[contract |-> F, open |-> 1440, high |-> 1440, low |-> 720],
              [contract |-> F, open |-> 2160, high |-> 2160, low |-> 1440]}

\* A bar at a price below zero next to an ordinary one.
NegativeBars == {[contract |-> F, open |-> -720, high |-> 720, low |-> -720],
                 [contract |-> U, open |-> 720, high |-> 720, low |-> 720]}

Rolls == {<<F, B>>, <<B, U>>}

\* A settle below zero next to an ordinary one.
NegativeFills == {-720, 720}
=============================================================================
