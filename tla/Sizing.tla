------------------------------- MODULE Sizing -------------------------------
(***************************************************************************)
(* The caps of RiskManager.size_position (futur3/execution/risk_manager.py)*)
(* as operators.  Fractions are whole percents and floors are integer      *)
(* division: all operands are non-negative.                                *)
(***************************************************************************)
EXTENDS Integers

CONSTANTS
    KellyPct,           \* kelly_multiplier
    MarginBudgetPct,    \* margin_budget_pct
    LeverageCap         \* leverage_cap

ASSUME SizingAssumption ==
    /\ KellyPct \in 1 .. 100
    /\ MarginBudgetPct \in 1 .. 100
    /\ LeverageCap \in Nat \ {0}

Least(m, n) == IF m < n THEN m ELSE n

\* What a fraction of the equity pays for: f is the full Kelly fraction.
KellyContracts(f, equity, notional) == (f * KellyPct * equity) \div (10000 * notional)
MarginContracts(equity, margin) == (equity * MarginBudgetPct) \div (100 * margin)
LeverageContracts(equity, notional) == (equity * LeverageCap) \div notional

\* Mutant: the largest of the caps.
BaseContractsLoosest(f, equity, notional, margin) ==
    LET k == KellyContracts(f, equity, notional)
        m == MarginContracts(equity, margin)
    IN  IF k < m THEN m ELSE k

\* The tighten-only minimum of the three, before the survival cap.
BaseContracts(f, equity, notional, margin) ==
    Least(KellyContracts(f, equity, notional),
          Least(MarginContracts(equity, margin), LeverageContracts(equity, notional)))
=============================================================================
