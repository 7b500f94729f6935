--------------------------- MODULE ContinuousSeries ---------------------------
(***************************************************************************)
(* One root's contracts spliced into a continuous series of raw bars       *)
(* (ContinuousSeriesBuilder), the rolls between them, the returns that may *)
(* be taken across the splice (RollExcludedSeries) and the front and next  *)
(* contract a carry strategy compares (StaticTermStructure).               *)
(*                                                                         *)
(* have[c] is the set of days on which contract c has a bar; which close   *)
(* it has is for the user of the module.                                   *)
(***************************************************************************)
EXTENDS Integers, Sequences, FiniteSets, FiniteSetsExt, SequencesExt

CONSTANTS
    Expiries,       \* the contracts of all roots
    Root,           \* Root[c]: the root of contract c
    Target,         \* Target[c]: its roll_target in the roll calendar
    Ltd,            \* Ltd[c]: its last trading day
    BackOf          \* BackOf[c]: its successor, which may be untracked

\* A contract and its successor are of one root, and the contracts of a root
\* are rolled in the order in which they stop trading.
ASSUME SeriesAssumption ==
    /\ Target \in [Expiries -> Nat] /\ Ltd \in [Expiries -> Nat]
    /\ \A c \in Expiries : BackOf[c] \in Expiries => Root[BackOf[c]] = Root[c]
    /\ \A c, d \in Expiries : Root[c] = Root[d] =>
          /\ Target[c] = Target[d] => c = d
          /\ Ltd[c] < Ltd[d] => Target[c] < Target[d]

Bar(c, d) == [contract |-> c, day |-> d]

\* The contracts of a root that have a bar, and the roll targets before one's own.
Present(have, root) == {c \in Expiries : Root[c] = root /\ have[c] # {}}
EarlierTargets(have, c) ==
    {Target[b] : b \in {b \in Present(have, Root[c]) : Target[b] < Target[c]}}

\* Mutant: the window is open at its start.
InWindowOpen(have, c, d) ==
    /\ EarlierTargets(have, c) # {} => d > Max(EarlierTargets(have, c))
    /\ d < Target[c]

\* _in_window: [the previous contract's roll_target, its own).
InWindow(have, c, d) ==
    /\ EarlierTargets(have, c) # {} => d >= Max(EarlierTargets(have, c))
    /\ d < Target[c]

\* The elements of S by a strict order: each at the rank the order gives it.
SortedBy(S, Before(_, _)) ==
    [i \in 1 .. Cardinality(S) |->
        CHOOSE b \in S : Cardinality({a \in S : Before(a, b)}) = i - 1]

\* build: the windows one after the other, each by time.
Splice(have, root) ==
    SortedBy({b \in [contract : Present(have, root), day : UNION {have[c] : c \in Expiries}] :
                 b.day \in have[b.contract] /\ InWindow(have, b.contract, b.day)},
             LAMBDA a, b : \/ Target[a.contract] < Target[b.contract]
                           \/ a.contract = b.contract /\ a.day < b.day)

RollFlags(bars) == {i \in 2 .. Len(bars) : bars[i].contract # bars[i - 1].contract}

\* _close_on_or_before, _close_on_or_after: the day of the close; 0 if none.
OnOrBefore(days, d) == Max({x \in days : x <= d} \cup {0})
OnOrAfter(days, d) == LET later == {x \in days : x >= d} IN IF later = {} THEN 0 ELSE Min(later)

\* Mutant: the back contract is priced before the roll.
RollEventStale(have, front, back) ==
    [day |-> Target[front], old |-> front, new |-> back,
     frontDay |-> OnOrBefore(have[front], Target[front]),
     backDay |-> OnOrBefore(have[back], Target[front] - 1)]

\* _make_roll_event: the day of the roll, and the days its two prices are from.
RollEvent(have, front, back) ==
    [day |-> Target[front], old |-> front, new |-> back,
     frontDay |-> OnOrBefore(have[front], Target[front]),
     backDay |-> OnOrAfter(have[back], Target[front])]

RollEventsOf(have, root) ==
    LET bars == Splice(have, root)
    IN  {RollEvent(have, bars[i - 1].contract, bars[i].contract) : i \in RollFlags(bars)}

\* build raises where a roll has no price, and for a series that is empty or
\* not strictly increasing.
Builds(have, root) ==
    LET bars == Splice(have, root)
    IN  /\ bars # <<>>
        /\ \A i \in 2 .. Len(bars) : bars[i - 1].day < bars[i].day
        /\ \A e \in RollEventsOf(have, root) : e.frontDay # 0 /\ e.backDay # 0

\* current_contract(asof)
CurrentContract(bars, d) ==
    bars[Max({i \in DOMAIN bars : bars[i].day <= d})].contract

\* roll_clean_returns: the pairs of bars between which a return is taken.
CleanReturns(bars) ==
    {<<bars[i - 1], bars[i]>> : i \in (2 .. Len(bars)) \ RollFlags(bars)}

\* The day of the back contract's close: known on day d; 0 if there is none.
CarryBackDay(have, back, d) == OnOrBefore(have[back], d)

\* _precompute: the carry observations, without the closes.
CarryInputs(have, root) ==
    {[asOf |-> x[2], front |-> x[1], back |-> BackOf[x[1]],
      backDay |-> CarryBackDay(have, BackOf[x[1]], x[2])] :
        x \in {y \in {c \in Present(have, root) : BackOf[c] \in Expiries}
                     \X UNION {have[c] : c \in Expiries} :
                 /\ y[2] \in have[y[1]]
                 /\ InWindow(have, y[1], y[2])
                 /\ CarryBackDay(have, BackOf[y[1]], y[2]) # 0
                 /\ y[2] < Ltd[y[1]] /\ Ltd[y[1]] < Ltd[BackOf[y[1]]]}}

------------------------------------------------------------------------------
(* Properties of what is built *)

\* The series follows the calendar: on every day it is in the contract that
\* rolls next among those present, and every bar of such a contract is in it.
FollowsCalendar(have, root) ==
    LET bars == Splice(have, root)
        Active(d) == {c \in Present(have, root) :
                        /\ d < Target[c]
                        /\ \A b \in Present(have, root) : d < Target[b] => Target[c] <= Target[b]}
    IN  \A d \in UNION {have[c] : c \in Expiries} :
           {b \in Range(bars) : b.day = d} = {Bar(c, d) : c \in {x \in Active(d) : d \in have[x]}}

\* A carry observation pairs the contract the series is in with a later one,
\* at a close that was known on its day.
CarryAgrees(have, root) ==
    \A o \in CarryInputs(have, root) :
        /\ CurrentContract(Splice(have, root), o.asOf) = o.front
        /\ Target[o.front] < Target[o.back]
        /\ o.backDay \in have[o.back] /\ o.backDay <= o.asOf

\* No return mixes two contracts, and none within one contract is lost.
ReturnsWithinContract(have, root) ==
    LET bars == Splice(have, root)
    IN  /\ \A p \in CleanReturns(bars) : p[1].contract = p[2].contract
        /\ Cardinality(CleanReturns(bars)) + Cardinality(RollEventsOf(have, root)) + 1 = Len(bars)
==============================================================================
