----------------------------- MODULE RiskManager -----------------------------
(***************************************************************************)
(* One call of size_position, of RiskManager (execution/risk_manager.py)   *)
(* or, with Pin > 0, of FixedSizeRiskManager (fixed_size_risk_manager.py). *)
(* The three static caps come from Sizing; the survival cap is a binary    *)
(* search over survives(n), whose answers come from a Monte-Carlo          *)
(* simulation.  The model takes the answers as an arbitrary set of sizes:  *)
(* `survivors` is what the simulation says about each size for the returns *)
(* and the seed of this call (a fixed seed makes it a function of n).      *)
(***************************************************************************)
EXTENDS Sizing

CONSTANTS
    Kellys,             \* full Kelly fractions, in percent
    Equities, Notionals, Margins,
    Pin,                \* FixedSizeRiskManager's contracts; 0: RiskManager
    MaxSize             \* bound: sizes the simulation is asked about

ASSUME RiskAssumption ==
    /\ Kellys \subseteq Int
    /\ Equities \subseteq Nat \ {0}
    /\ Notionals \subseteq Nat \ {0}
    /\ Margins \subseteq Nat \ {0}
    /\ Pin \in Nat
    /\ MaxSize \in Nat

VARIABLES
    pc,             \* "start", "search", "done"
    call,           \* the arguments: f, equity, notional, margin, history
    survivors,      \* the sizes that pass the simulation
    lo, hi,         \* the search interval
    survival,       \* survival_contracts, -1 for None
    contracts,      \* the size decided
    binding         \* binding_constraint

riskVars == <<pc, call, survivors, lo, hi, survival, contracts, binding>>

\* The history handed in: none, too short for the bootstrap, or long enough.
Histories == {"none", "short", "long"}
Calls == [f : Kellys, equity : Equities, notional : Notionals, margin : Margins,
          history : Histories]

\* The two caps that do not depend on the edge, and the one that does.
Kelly == IF call.f <= 0 THEN 0 ELSE KellyContracts(call.f, call.equity, call.notional)
Margin == MarginContracts(call.equity, call.margin)
Leverage == LeverageContracts(call.equity, call.notional)
Base == BaseContracts(call.f, call.equity, call.notional, call.margin)

Survives(n) == n <= 0 \/ n \in survivors

RiskInit ==
    /\ pc = "start"
    /\ call \in Calls
    /\ survivors \in SUBSET (1 .. MaxSize)
    /\ lo = 0 /\ hi = 0
    /\ survival = -1
    /\ contracts = 0
    /\ binding = "none"

\* FixedSizeRiskManager: the pinned size, within what the caps can afford.
Pinned(cap) ==
    LET affordable == Least(Margin, Leverage)
    IN  Least(Pin, IF cap < 0 THEN affordable ELSE Least(affordable, cap))

\* _binding: the smallest candidate, ties to the earlier one.
Binding(cap) ==
    LET smallest == Least(Base, IF cap < 0 THEN Base ELSE cap)
    IN  IF Kelly = smallest THEN "kelly"
        ELSE IF Margin = smallest THEN "margin"
        ELSE IF Leverage = smallest THEN "leverage"
        ELSE "survival"

\* Mutant: the survival cap is reported and not applied.
DecideUncapped(cap) ==
    /\ survival' = cap
    /\ contracts' = IF Pin > 0 THEN Pinned(cap) ELSE Base
    /\ binding' = Binding(cap)
    /\ pc' = "done"

\* The decision, with survival cap `cap` (-1: None).
Decide(cap) ==
    /\ survival' = cap
    /\ contracts' = IF Pin > 0 THEN Pinned(cap) ELSE Least(Base, IF cap < 0 THEN Base ELSE cap)
    /\ binding' = Binding(cap)
    /\ pc' = "done"

\* No edge: zero contracts, whatever is pinned.
NoEdge ==
    /\ pc = "start"
    /\ call.f <= 0
    /\ survival' = -1 /\ contracts' = 0 /\ binding' = "no_edge" /\ pc' = "done"
    /\ UNCHANGED <<call, survivors, lo, hi>>

\* No returns, or nothing to cap: the survival cap is not evaluated.
NoSurvivalCap ==
    /\ pc = "start"
    /\ call.f > 0
    /\ call.history = "none" \/ Base = 0
    /\ Decide(-1)
    /\ UNCHANGED <<call, survivors, lo, hi>>

\* _survival_cap without a search: too little history, or all of base survives.
BaseSurvives ==
    /\ pc = "start"
    /\ call.f > 0 /\ call.history # "none" /\ Base > 0
    /\ call.history = "short" \/ Survives(Base)
    /\ Decide(Base)
    /\ UNCHANGED <<call, survivors, lo, hi>>

\* The search proper, between a size that survives and one that does not.
SearchStart ==
    /\ pc = "start"
    /\ call.f > 0 /\ call.history = "long" /\ Base > 0
    /\ ~Survives(Base)
    /\ lo' = 0 /\ hi' = Base
    /\ pc' = "search"
    /\ UNCHANGED <<call, survivors, survival, contracts, binding>>

Middle == (lo + hi) \div 2

\* Mutant: a middle that fails is left out of the interval.
SearchStepSkips ==
    /\ pc = "search"
    /\ hi - lo > 1
    /\ IF Survives(Middle) THEN lo' = Middle /\ hi' = hi ELSE lo' = lo /\ hi' = Middle - 1
    /\ UNCHANGED <<pc, call, survivors, survival, contracts, binding>>

\* Mutant: the middle is rounded up, and an interval of two never shrinks.
SearchStepStalls ==
    /\ pc = "search"
    /\ hi - lo > 1
    /\ IF Survives(Middle) THEN lo' = Middle /\ hi' = hi ELSE lo' = lo /\ hi' = Middle + 1
    /\ UNCHANGED <<pc, call, survivors, survival, contracts, binding>>

SearchStep ==
    /\ pc = "search"
    /\ hi - lo > 1
    /\ IF Survives(Middle) THEN lo' = Middle /\ hi' = hi ELSE lo' = lo /\ hi' = Middle
    /\ UNCHANGED <<pc, call, survivors, survival, contracts, binding>>

SearchEnd ==
    /\ pc = "search"
    /\ hi - lo <= 1
    /\ Decide(lo)
    /\ UNCHANGED <<call, survivors, lo, hi>>

RiskNext == NoEdge \/ NoSurvivalCap \/ BaseSurvives \/ SearchStart \/ SearchStep \/ SearchEnd

\* size_position is a plain function call.
RiskSpec == RiskInit /\ [][RiskNext]_riskVars /\ WF_riskVars(RiskNext)

-----------------------------------------------------------------------------
(* Properties                                                                *)

\* Every variable keeps its shape.
RiskTypeOK ==
    /\ pc \in {"start", "search", "done"}
    /\ call \in Calls
    /\ survivors \subseteq 1 .. MaxSize
    /\ lo \in Nat /\ hi \in Nat
    /\ survival \in Nat \cup {-1}
    /\ contracts \in Nat
    /\ binding \in {"none", "no_edge", "kelly", "margin", "leverage", "survival"}

\* Whatever the simulation answers, monotone or not, a size decided with enough
\* history is zero or one that the simulation was asked about and passed.
SizeSurvives ==
    pc = "done" /\ call.history = "long" => Survives(contracts)

\* What _survival_cap assumes of the simulation: a size that survives does so
\* with fewer contracts too.
Monotone == \A n \in survivors : 1 .. n \subseteq survivors

\* If survival is monotone, the search gives away nothing: the size is the
\* largest one within the three caps that survives.
SizeIsLargest ==
    Monotone /\ pc = "done" /\ call.history = "long" /\ call.f > 0 =>
        \A n \in 1 .. Base : Survives(n) => n <= contracts

\* Tighten-only: no signal, history or pin gets more than the account can fund.
SizeIsFunded ==
    pc = "done" => /\ contracts * call.notional <= LeverageCap * call.equity
                   /\ 100 * contracts * call.margin <= MarginBudgetPct * call.equity

\* The cap that the decision blames is the one that bound it.
BindingTells ==
    pc = "done" /\ call.f > 0 =>
        contracts = (IF binding = "kelly" THEN Kelly
                     ELSE IF binding = "margin" THEN Margin
                     ELSE IF binding = "leverage" THEN Leverage
                     ELSE survival)

\* The search ends: every call returns a size.
Decides == <>(pc = "done")

\* A decision stands up to its explanation: it is well-formed, never more than
\* the account can fund, and the cap it blames is the one that bound it.
DecisionIsSound == RiskTypeOK /\ SizeIsFunded /\ BindingTells

=============================================================================
