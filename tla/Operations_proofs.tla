-------------------------- MODULE Operations_proofs --------------------------
(***************************************************************************)
(* Theorems about what a desk does and keeps around its trading.  Sizing,  *)
(* for every account, signal, caps and outcome of the simulation: the caps *)
(* of funding for any RiskManager, the survival cap for the plain one      *)
(* (Pin = 0).  The Parquet stores and the paper ledger, for every set of   *)
(* contracts, times and sessions, every batch and partition size and any   *)
(* number of calls, failures and crashes.  The rolls, for every calendar   *)
(* whose windows fit the desk's absences.                                  *)
(***************************************************************************)
EXTENDS RiskManager, Persistence, RollExecutor, SumTheorems, TLAPS

------------------------------------------------------------------------------
(* size_position *)

\* The interval of the search: the simulation passes its lower end and fails
\* its upper one, which the static caps still allow.
SearchBrackets ==
    pc = "search" =>
        /\ call.history = "long" /\ call.f > 0
        /\ lo \in Nat /\ hi \in Nat /\ lo < hi /\ hi <= Base
        /\ Survives(lo) /\ ~Survives(hi)

CallIsFixed ==
    /\ pc \in {"start", "search", "done"}
    /\ call \in Calls
    /\ survivors \subseteq 1 .. MaxSize

\* What the theorems below rest on.
Bracketed == CallIsFixed /\ SearchBrackets

\* A ratio of naturals, rounded down, is a natural.
LEMMA RatioIsNat ==
    ASSUME NEW a \in Nat, NEW b \in Nat, b > 0
    PROVE  a \div b \in Nat
  OBVIOUS

\* So is the Kelly size of a signal with an edge.
LEMMA KellyIsNat ==
    ASSUME CallIsFixed, call.f > 0
    PROVE  KellyContracts(call.f, call.equity, call.notional) \in Nat
  <1>1. call.f \in Kellys /\ call.equity \in Equities /\ call.notional \in Notionals
    BY DEF CallIsFixed, Calls
  <1>2. call.f \in Nat /\ call.equity \in Nat /\ call.notional \in Nat /\ call.notional > 0
    <2>1. call.f \in Int
      BY <1>1, RiskAssumption
    <2>2. call.equity \in Nat \ {0} /\ call.notional \in Nat \ {0}
      BY <1>1, RiskAssumption
    <2> QED BY <2>1, <2>2
  <1>3. KellyPct \in Nat
    BY SizingAssumption
  <1>4. call.f * KellyPct \in Nat
    BY <1>2, <1>3
  <1>5. call.f * KellyPct * call.equity \in Nat
    BY <1>2, <1>4
  <1>6. 10000 * call.notional \in Nat /\ 10000 * call.notional > 0
    BY <1>2
  <1> QED BY <1>5, <1>6, RatioIsNat DEF KellyContracts

\* The caps of margin and leverage are naturals, with or without an edge.
LEMMA CapsAreNat ==
    ASSUME CallIsFixed
    PROVE  /\ Margin \in Nat /\ Leverage \in Nat
           /\ call.f \in Int /\ call.equity \in Nat
           /\ call.notional \in Nat /\ call.notional > 0
           /\ call.margin \in Nat /\ call.margin > 0
  <1>1. /\ call.f \in Kellys /\ call.equity \in Equities
        /\ call.notional \in Notionals /\ call.margin \in Margins
    BY DEF CallIsFixed, Calls
  <1>2. /\ call.f \in Int /\ call.equity \in Nat
        /\ call.notional \in Nat /\ call.notional > 0
        /\ call.margin \in Nat /\ call.margin > 0
    <2>1. call.f \in Int
      BY <1>1, RiskAssumption
    <2>2. call.equity \in Nat \ {0} /\ call.notional \in Nat \ {0} /\ call.margin \in Nat \ {0}
      BY <1>1, RiskAssumption
    <2> QED BY <2>1, <2>2
  <1>3. MarginBudgetPct \in Nat /\ LeverageCap \in Nat
    BY SizingAssumption
  <1>4. /\ call.equity * MarginBudgetPct \in Nat /\ call.equity * LeverageCap \in Nat
        /\ 100 * call.margin \in Nat /\ 100 * call.margin > 0
    BY <1>2, <1>3
  <1> QED BY <1>2, <1>4, RatioIsNat DEF Margin, Leverage, MarginContracts, LeverageContracts

\* The static caps never ask for a negative size.
LEMMA BaseIsNat ==
    ASSUME CallIsFixed, call.f > 0
    PROVE  Base \in Nat
  <1>1. /\ KellyContracts(call.f, call.equity, call.notional) \in Nat
        /\ MarginContracts(call.equity, call.margin) \in Nat
        /\ LeverageContracts(call.equity, call.notional) \in Nat
    BY KellyIsNat, CapsAreNat DEF Margin, Leverage
  <1> QED BY <1>1 DEF Base, BaseContracts, Least

LEMMA BracketedInductive == RiskSpec => []Bracketed
  <1>1. RiskInit => Bracketed
    BY DEF RiskInit, Bracketed, CallIsFixed, SearchBrackets
  <1>2. Bracketed /\ [RiskNext]_riskVars => Bracketed'
    <2> SUFFICES ASSUME Bracketed, [RiskNext]_riskVars PROVE Bracketed'
      OBVIOUS
    <2> USE DEF Bracketed
    <2>1. CASE NoEdge
      BY <2>1 DEF NoEdge, CallIsFixed, SearchBrackets
    <2>2. CASE NoSurvivalCap
      BY <2>2 DEF NoSurvivalCap, Decide, CallIsFixed, SearchBrackets
    <2>3. CASE BaseSurvives
      BY <2>3 DEF BaseSurvives, Decide, CallIsFixed, SearchBrackets
    <2>4. CASE SearchStart
      <3>1. Base \in Nat /\ Base' = Base
        BY <2>4, BaseIsNat DEF SearchStart, Base, BaseContracts
      <3> QED BY <2>4, <3>1 DEF SearchStart, CallIsFixed, SearchBrackets, Survives
    <2>5. CASE SearchStep
      <3>1. Base \in Nat /\ Base' = Base
        BY <2>5, BaseIsNat DEF SearchStep, SearchBrackets, Base, BaseContracts
      <3>2. Middle \in Nat /\ lo < Middle /\ Middle < hi
        BY <2>5 DEF SearchStep, SearchBrackets, Middle
      <3> QED BY <2>5, <3>1, <3>2 DEF SearchStep, CallIsFixed, SearchBrackets, Survives
    <2>6. CASE SearchEnd
      BY <2>6 DEF SearchEnd, Decide, CallIsFixed, SearchBrackets
    <2>7. CASE UNCHANGED riskVars
      BY <2>7 DEF riskVars, CallIsFixed, SearchBrackets, Survives, Base, BaseContracts
    <2> QED BY <2>1, <2>2, <2>3, <2>4, <2>5, <2>6, <2>7 DEF RiskNext
  <1> QED BY <1>1, <1>2, PTL DEF RiskSpec

\* The size that _survival_cap lets through passes the simulation, whether or
\* not survival is monotone in the size.
THEOREM DecidedSizeSurvives ==
    ASSUME Pin = 0
    PROVE  RiskSpec => []SizeSurvives
  <1>1. RiskInit => SizeSurvives
    BY DEF RiskInit, SizeSurvives
  <1>2. Bracketed /\ SizeSurvives /\ [RiskNext]_riskVars => SizeSurvives'
    <2> SUFFICES ASSUME Bracketed, SizeSurvives, [RiskNext]_riskVars PROVE SizeSurvives'
      OBVIOUS
    <2> USE DEF Bracketed
    <2>1. CASE NoEdge
      BY <2>1 DEF NoEdge, SizeSurvives, Survives
    <2>2. CASE NoSurvivalCap
      <3>1. call.history = "long" => contracts' = 0
        <4>1. call.history = "long" => Base = 0
          BY <2>2 DEF NoSurvivalCap
        <4> QED BY <2>2, <4>1 DEF NoSurvivalCap, Decide, Least
      <3> QED BY <2>2, <3>1 DEF NoSurvivalCap, SizeSurvives, Survives
    <2>3. CASE BaseSurvives
      <3>1. contracts' = Base
        BY <2>3 DEF BaseSurvives, Decide, Least
      <3> QED BY <2>3, <3>1 DEF BaseSurvives, SizeSurvives, Survives
    <2>4. CASE SearchStart
      BY <2>4 DEF SearchStart, SizeSurvives
    <2>5. CASE SearchStep
      BY <2>5 DEF SearchStep, SizeSurvives
    <2>6. CASE SearchEnd
      <3>1. Base \in Nat
        BY <2>6, BaseIsNat DEF SearchEnd, SearchBrackets
      <3>2. contracts' = lo
        BY <2>6, <3>1 DEF SearchEnd, SearchBrackets, Decide, Least
      <3> QED BY <2>6, <3>2 DEF SearchEnd, SearchBrackets, SizeSurvives, Survives
    <2>7. CASE UNCHANGED riskVars
      BY <2>7 DEF riskVars, SizeSurvives, Survives
    <2> QED BY <2>1, <2>2, <2>3, <2>4, <2>5, <2>6, <2>7 DEF RiskNext
  <1> QED BY <1>1, <1>2, BracketedInductive, PTL DEF RiskSpec

\* And it is the largest such size: where survival is monotone, as the search
\* assumes, halving the interval gives no contract away.
THEOREM DecidedSizeIsLargest ==
    ASSUME Pin = 0
    PROVE  RiskSpec => []SizeIsLargest
  <1>1. RiskInit => SizeIsLargest
    BY DEF RiskInit, SizeIsLargest
  <1>2. Bracketed /\ SizeIsLargest /\ [RiskNext]_riskVars => SizeIsLargest'
    <2> SUFFICES ASSUME Bracketed, SizeIsLargest, [RiskNext]_riskVars PROVE SizeIsLargest'
      OBVIOUS
    <2> USE DEF Bracketed
    <2>1. UNCHANGED <<call, survivors>>
      BY DEF RiskNext, NoEdge, NoSurvivalCap, BaseSurvives, SearchStart, SearchStep,
             SearchEnd, riskVars
    <2>2. Monotone' = Monotone
      BY <2>1 DEF Monotone
    <2>3. Base' = Base
      BY <2>1 DEF Base, BaseContracts
    <2>4. \A n : Survives(n)' = Survives(n)
      BY <2>1 DEF Survives
    <2>5. CASE NoEdge
      <3>1. call.f \in Int
        BY RiskAssumption DEF CallIsFixed, Calls
      <3> QED BY <2>1, <2>5, <3>1 DEF NoEdge, SizeIsLargest
    <2>6. CASE NoSurvivalCap
      <3>1. call.history = "long" => Base = 0
        BY <2>6 DEF NoSurvivalCap
      <3>2. call.history = "long" => 1 .. Base' = {}
        BY <2>3, <3>1
      <3> QED BY <2>1, <3>2 DEF SizeIsLargest
    <2>7. CASE BaseSurvives
      <3>1. Base \in Nat
        BY <2>7, BaseIsNat DEF BaseSurvives
      <3>2. contracts' = Base
        BY <2>7 DEF BaseSurvives, Decide, Least
      <3> QED BY <2>3, <3>1, <3>2 DEF SizeIsLargest
    <2>8. CASE SearchStart
      BY <2>8 DEF SearchStart, SizeIsLargest
    <2>9. CASE SearchStep
      BY <2>9 DEF SearchStep, SizeIsLargest
    <2>10. CASE SearchEnd
      <3>1. Base \in Nat
        BY <2>10, BaseIsNat DEF SearchEnd, SearchBrackets
      <3>2. contracts' = lo /\ lo \in Nat /\ hi = lo + 1
        BY <2>10, <3>1 DEF SearchEnd, SearchBrackets, Decide, Least
      <3>3. Monotone => \A n \in 1 .. Base : Survives(n) => n <= lo
        <4> SUFFICES ASSUME Monotone, NEW n \in 1 .. Base, Survives(n), n > lo
                     PROVE  FALSE
          BY <3>1, <3>2
        <4>1. n \in survivors /\ hi \in 1 .. n
          BY <3>1, <3>2 DEF Survives
        <4>2. hi \in survivors
          BY <4>1 DEF Monotone
        <4> QED BY <4>2, <2>10 DEF SearchEnd, SearchBrackets, Survives
      <3> QED BY <2>2, <2>3, <2>4, <3>2, <3>3 DEF SizeIsLargest
    <2>11. CASE UNCHANGED riskVars
      BY <2>11, <2>2, <2>3, <2>4 DEF riskVars, SizeIsLargest
    <2> QED BY <2>5, <2>6, <2>7, <2>8, <2>9, <2>10, <2>11 DEF RiskNext
  <1> QED BY <1>1, <1>2, BracketedInductive, PTL DEF RiskSpec

\* Rounding down never pays for more than there is.
LEMMA FloorIsFunded ==
    ASSUME NEW a \in Nat, NEW b \in Nat, b > 0, NEW n \in Nat, n <= a \div b
    PROVE  n * b <= a
  <1> DEFINE q == a \div b
  <1>1. q \in Nat /\ q * b <= a
    OBVIOUS
  <1>2. n * b <= q * b
    <2> HIDE DEF q
    <2>1. PICK d \in Nat : q = n + d
      <3>1. q - n \in Nat /\ q = n + (q - n)
        BY <1>1 DEF q
      <3> QED BY <3>1
    <2>2. (n + d) * b = n * b + d * b
      OBVIOUS
    <2>3. d * b \in Nat /\ n * b \in Nat
      OBVIOUS
    <2> QED BY <2>1, <2>2, <2>3
  <1>3. n * b \in Nat /\ q * b \in Nat
    BY <1>1
  <1> QED BY <1>1, <1>2, <1>3

\* A decision is a natural within both caps of the account; before it, nothing
\* is decided.
Affordable ==
    /\ lo \in Nat /\ hi \in Nat /\ survival \in Nat \cup {-1} /\ contracts \in Nat
    /\ binding \in {"none", "no_edge", "kelly", "margin", "leverage", "survival"}
    /\ contracts <= Margin /\ contracts <= Leverage

\* Whatever the survival cap says, and whatever is pinned.
LEMMA DecideIsAffordable ==
    ASSUME Bracketed, Affordable, NEW cap \in Nat \cup {-1}, call.f > 0, Decide(cap),
           UNCHANGED <<call, lo, hi>>
    PROVE  Affordable'
  <1>1. Base \in Nat /\ Margin \in Nat /\ Leverage \in Nat
    BY BaseIsNat, CapsAreNat DEF Bracketed
  <1>2. Base <= Margin /\ Base <= Leverage
    <2>1. KellyContracts(call.f, call.equity, call.notional) \in Nat
      BY KellyIsNat DEF Bracketed
    <2> QED BY <1>1, <2>1 DEF Base, BaseContracts, Margin, Leverage, Least
  <1>3. Pin \in Nat
    BY RiskAssumption
  <1>4. contracts' \in Nat /\ contracts' <= Margin /\ contracts' <= Leverage
    <2>1. CASE Pin > 0
      <3>1. contracts' = Pinned(cap)
        BY <2>1 DEF Decide
      <3> HIDE DEF Margin, Leverage
      <3> QED BY <1>1, <1>3, <3>1 DEF Pinned, Least
    <2>2. CASE ~(Pin > 0)
      <3>1. contracts' = Least(Base, IF cap < 0 THEN Base ELSE cap)
        BY <2>2 DEF Decide
      <3> HIDE DEF Base, Margin, Leverage
      <3> QED BY <1>1, <1>2, <3>1 DEF Least
    <2> QED BY <2>1, <2>2
  <1>5. Margin' = Margin /\ Leverage' = Leverage
    BY DEF Margin, Leverage
  <1>6. survival' \in Nat \cup {-1}
    BY DEF Decide
  <1>7. binding' \in {"none", "no_edge", "kelly", "margin", "leverage", "survival"}
    BY DEF Decide, Binding
  <1> QED BY <1>4, <1>5, <1>6, <1>7 DEF Affordable

LEMMA AffordableInductive == RiskSpec => []Affordable
  <1>1. RiskInit => Affordable
    <2> SUFFICES ASSUME RiskInit PROVE Affordable
      OBVIOUS
    <2>1. Margin \in Nat /\ Leverage \in Nat
      BY CapsAreNat DEF RiskInit, CallIsFixed
    <2> HIDE DEF Margin, Leverage
    <2> QED BY <2>1 DEF RiskInit, Affordable
  <1>2. Bracketed /\ Affordable /\ [RiskNext]_riskVars => Affordable'
    <2> SUFFICES ASSUME Bracketed, Affordable, [RiskNext]_riskVars PROVE Affordable'
      OBVIOUS
    <2>1. Margin' = Margin /\ Leverage' = Leverage
      BY DEF RiskNext, NoEdge, NoSurvivalCap, BaseSurvives, SearchStart, SearchStep, SearchEnd,
             riskVars, Margin, Leverage
    <2>2. CASE NoEdge
      <3>1. Margin \in Nat /\ Leverage \in Nat
        BY CapsAreNat DEF Bracketed
      <3> QED BY <2>1, <2>2, <3>1 DEF NoEdge, Affordable
    <2>3. CASE NoSurvivalCap
      BY <2>3, DecideIsAffordable DEF NoSurvivalCap
    <2>4. CASE BaseSurvives
      BY <2>4, DecideIsAffordable, BaseIsNat DEF BaseSurvives, Bracketed
    <2>5. CASE SearchStart
      <3>1. Base \in Nat
        BY <2>5, BaseIsNat DEF SearchStart, Bracketed
      <3> QED BY <2>1, <2>5, <3>1 DEF SearchStart, Affordable
    <2>6. CASE SearchStep
      <3>1. Middle \in Nat
        BY <2>6 DEF SearchStep, Affordable, Middle
      <3> QED BY <2>1, <2>6, <3>1 DEF SearchStep, Affordable
    <2>7. CASE SearchEnd
      <3>1. call.f > 0 /\ lo \in Nat
        BY <2>7 DEF SearchEnd, Bracketed, SearchBrackets
      <3> QED BY <2>7, <3>1, DecideIsAffordable DEF SearchEnd
    <2>8. CASE UNCHANGED riskVars
      BY <2>1, <2>8 DEF riskVars, Affordable
    <2> QED BY <2>2, <2>3, <2>4, <2>5, <2>6, <2>7, <2>8 DEF RiskNext
  <1> QED BY <1>1, <1>2, BracketedInductive, PTL DEF RiskSpec

\* Every decision is well-formed.
LEMMA DecisionTypes == Bracketed /\ Affordable => RiskTypeOK
  BY DEF Bracketed, CallIsFixed, Affordable, RiskTypeOK

\* A size within the caps is a size the account can fund.
LEMMA AffordableIsFunded ==
    ASSUME Bracketed, Affordable
    PROVE  SizeIsFunded
  <1>1. /\ call.equity \in Nat /\ call.notional \in Nat /\ call.notional > 0
        /\ call.margin \in Nat /\ call.margin > 0 /\ contracts \in Nat
    BY CapsAreNat DEF Bracketed, Affordable
  <1>2. MarginBudgetPct \in Nat /\ LeverageCap \in Nat
    BY SizingAssumption
  <1>3. contracts * call.notional <= call.equity * LeverageCap
    <2>1. call.equity * LeverageCap \in Nat
      BY <1>1, <1>2
    <2>2. contracts <= (call.equity * LeverageCap) \div call.notional
      BY DEF Affordable, Leverage, LeverageContracts
    <2> QED BY <1>1, <2>1, <2>2, FloorIsFunded
  <1>4. contracts * (100 * call.margin) <= call.equity * MarginBudgetPct
    <2>1. /\ call.equity * MarginBudgetPct \in Nat
          /\ 100 * call.margin \in Nat /\ 100 * call.margin > 0
      BY <1>1, <1>2
    <2>2. contracts <= (call.equity * MarginBudgetPct) \div (100 * call.margin)
      BY DEF Affordable, Margin, MarginContracts
    <2> QED BY <1>1, <2>1, <2>2, FloorIsFunded
  <1>5. /\ call.equity * LeverageCap = LeverageCap * call.equity
        /\ call.equity * MarginBudgetPct = MarginBudgetPct * call.equity
        /\ contracts * (100 * call.margin) = 100 * contracts * call.margin
    BY <1>1, <1>2
  <1> QED BY <1>3, <1>4, <1>5 DEF SizeIsFunded

\* Tighten-only, for RiskManager and FixedSizeRiskManager alike: whatever the
\* signal, the history, the simulation and the pin, size_position never returns
\* more contracts than the leverage cap and the margin budget pay for.
THEOREM DecidedSizeIsFunded == RiskSpec => [](RiskTypeOK /\ SizeIsFunded)
  <1>1. Bracketed /\ Affordable => RiskTypeOK /\ SizeIsFunded
    BY DecisionTypes, AffordableIsFunded
  <1> QED BY <1>1, BracketedInductive, AffordableInductive, PTL

\* The explanation, step by step: `binding` names the cap the size is equal to.
LEMMA DecideTells ==
    ASSUME Pin = 0, Bracketed, call.f > 0, NEW cap \in Nat \cup {-1}, Decide(cap),
           UNCHANGED call
    PROVE  BindingTells'
  <1> DEFINE smallest == Least(Base, IF cap < 0 THEN Base ELSE cap)
  <1>1. Base \in Nat /\ Margin \in Nat /\ Leverage \in Nat /\ Kelly \in Nat
    BY BaseIsNat, CapsAreNat, KellyIsNat DEF Bracketed, Kelly
  <1>2. Base = Kelly \/ Base = Margin \/ Base = Leverage
    <2>1. call.f \in Int
      BY CapsAreNat DEF Bracketed
    <2> QED BY <2>1 DEF Base, BaseContracts, Least, Kelly, Margin, Leverage
  <1>3. Kelly' = Kelly /\ Margin' = Margin /\ Leverage' = Leverage
    BY DEF Kelly, Margin, Leverage
  <1>4. survival' = cap /\ contracts' = smallest /\ binding' = Binding(cap)
    BY DEF Decide
  <1>5. smallest = Base \/ smallest = cap
    BY DEF Least
  <1> HIDE DEF smallest
  <1>6. binding' = IF Kelly = smallest THEN "kelly"
                   ELSE IF Margin = smallest THEN "margin"
                   ELSE IF Leverage = smallest THEN "leverage" ELSE "survival"
    BY <1>4 DEF Binding, smallest
  <1> QED BY <1>2, <1>3, <1>4, <1>5, <1>6 DEF BindingTells

\* A decision of RiskManager stands up to its explanation: it is well-formed and
\* funded, and binding_constraint names the cap that the size is equal to.
THEOREM DecisionSound ==
    ASSUME Pin = 0
    PROVE  RiskSpec => []DecisionIsSound
  <1>1. RiskInit => BindingTells
    BY DEF RiskInit, BindingTells
  <1>2. Bracketed /\ BindingTells /\ [RiskNext]_riskVars => BindingTells'
    <2> SUFFICES ASSUME Bracketed, BindingTells, [RiskNext]_riskVars PROVE BindingTells'
      OBVIOUS
    <2>1. CASE NoEdge
      <3>1. call.f \in Int
        BY CapsAreNat DEF Bracketed
      <3> QED BY <2>1, <3>1 DEF NoEdge, BindingTells
    <2>2. CASE NoSurvivalCap
      BY <2>2, DecideTells DEF NoSurvivalCap
    <2>3. CASE BaseSurvives
      BY <2>3, DecideTells, BaseIsNat DEF BaseSurvives, Bracketed
    <2>4. CASE SearchStart \/ SearchStep
      BY <2>4 DEF SearchStart, SearchStep, BindingTells
    <2>5. CASE SearchEnd
      <3>1. call.f > 0 /\ lo \in Nat
        BY <2>5 DEF SearchEnd, Bracketed, SearchBrackets
      <3> QED BY <2>5, <3>1, DecideTells DEF SearchEnd
    <2>6. CASE UNCHANGED riskVars
      BY <2>6 DEF riskVars, BindingTells, Kelly, Margin, Leverage
    <2> QED BY <2>1, <2>2, <2>3, <2>4, <2>5, <2>6 DEF RiskNext
  <1>3. RiskSpec => []BindingTells
    BY <1>1, <1>2, BracketedInductive, PTL DEF RiskSpec
  <1>4. RiskTypeOK /\ SizeIsFunded /\ BindingTells => DecisionIsSound
    BY DEF DecisionIsSound
  <1> QED BY <1>3, <1>4, DecidedSizeIsFunded, PTL

------------------------------------------------------------------------------
(* The store *)

\* The rows of a file: of its own partition, each key once.
Tidy(rows, p) ==
    /\ rows \subseteq Rows
    /\ \A r \in rows : Partition(r) = p
    /\ \A r, q \in rows : Key(r) = Key(q) => r = q

\* They hold what was acknowledged for the partition, as it was first stored.
Keeps(rows, p) == \A r \in first : Partition(r) = p => r \in rows

(* The inductive invariant: the content a call is about to write keeps what  *)
(* the file kept when it was read, and a torn file is empty and stays so.    *)
StoreInv ==
    /\ StoreTypeOK
    /\ \A p \in Partitions :
          /\ Tidy(files[p].rows, p)
          /\ files[p].torn => files[p].rows = {}
          /\ files[p].torn \/ Keeps(files[p].rows, p)
    /\ write.pc = "writing" => Tidy(write.final, write.part) /\ Keeps(write.final, write.part)

\* A row belongs to a partition, and its key decides to which.
LEMMA PartitionFacts ==
    /\ \A r \in Rows : Partition(r) \in Partitions
    /\ \A r, q \in Rows : Key(r) = Key(q) => Partition(r) = Partition(q)
<1>1. \A r \in Rows : Partition(r) \in Partitions
  BY DEF Rows, Partition, Partitions
<1>2. ASSUME NEW r \in Rows, NEW q \in Rows, Key(r) = Key(q)
      PROVE  Partition(r) = Partition(q)
  <2>1. r.at = q.at
    BY <1>2 DEF Key
  <2> QED BY <2>1 DEF Partition
<1> QED BY <1>1, <1>2

\* unique(keep="last") over the group of a file: each key once.
LEMMA SubmittedTidy ==
    ASSUME NEW batch \in Seq(Rows), NEW p \in Partitions
    PROVE  Tidy(Submitted(batch, p), p)
<1> DEFINE Kept(i) == /\ i \in PartOf(batch, p)
                      /\ \A j \in i + 1 .. Len(batch) : Key(batch[j]) # Key(batch[i])
<1>1. \A r \in Submitted(batch, p) : \E i \in 1 .. Len(batch) : r = batch[i] /\ Kept(i)
  BY DEF Submitted, PartOf
<1>2. \A i \in 1 .. Len(batch) : batch[i] \in Rows
  OBVIOUS
<1>3. Submitted(batch, p) \subseteq Rows
  BY <1>1, <1>2
<1>4. \A r \in Submitted(batch, p) : Partition(r) = p
  BY <1>1 DEF PartOf
<1>5. ASSUME NEW r \in Submitted(batch, p), NEW q \in Submitted(batch, p), Key(r) = Key(q)
      PROVE  r = q
  <2>1. PICK i \in 1 .. Len(batch) : r = batch[i] /\ Kept(i)
    BY <1>1
  <2>2. PICK j \in 1 .. Len(batch) : q = batch[j] /\ Kept(j)
    BY <1>1
  <2>3. ~(i < j)
    <3> SUFFICES ASSUME i < j PROVE FALSE
      OBVIOUS
    <3>1. j \in i + 1 .. Len(batch)
      BY <2>1, <2>2
    <3> QED BY <1>5, <2>1, <2>2, <3>1
  <2>4. ~(j < i)
    <3> SUFFICES ASSUME j < i PROVE FALSE
      OBVIOUS
    <3>1. i \in j + 1 .. Len(batch)
      BY <2>1, <2>2
    <3> QED BY <1>5, <2>1, <2>2, <3>1
  <2>5. i = j
    BY <2>3, <2>4
  <2> QED BY <2>1, <2>2, <2>5
<1> QED BY <1>3, <1>4, <1>5 DEF Tidy

\* The merged content: tidy again, and nothing that was stored is missing.
LEMMA MergeTidy ==
    ASSUME NEW p, NEW old, NEW new, Tidy(old, p), Tidy(new, p)
    PROVE  Tidy(Merge(old, new), p) /\ old \subseteq Merge(old, new)
BY DEF Tidy, Merge, NewOnly, KeysOf

LEMMA StoreInvInit == Init => StoreInv
<1> SUFFICES ASSUME Init PROVE StoreInv
  OBVIOUS
<1> USE DEF Init, StoreInit
<1>1. \A p \in Partitions : files[p] = NoFile
  OBVIOUS
<1>2. StoreTypeOK
  BY <1>1 DEF StoreTypeOK, NoFile, NoWrite
<1>3. \A p \in Partitions : Tidy(files[p].rows, p) /\ Keeps(files[p].rows, p) /\ ~files[p].torn
  BY <1>1 DEF Tidy, Keeps, NoFile
<1>4. write.pc # "writing"
  BY DEF NoWrite
<1> QED BY <1>2, <1>3, <1>4 DEF StoreInv

\* A call that begins or ends without touching a file or the acknowledged rows.
LEMMA NoFileTouched ==
    ASSUME StoreInv, files' = files, first' = first,
           write' \in [pc : {"idle", "open"}, batch : Seq(Rows), done : SUBSET Partitions,
                       part : Partitions \cup {0}, final : SUBSET Rows]
    PROVE  StoreInv'
<1>1. StoreTypeOK'
  BY DEF StoreInv, StoreTypeOK
<1>2. \A p \in Partitions : Keeps(files[p].rows, p)' <=> Keeps(files[p].rows, p)
  BY DEF Keeps
<1> QED BY <1>1, <1>2 DEF StoreInv, Tidy

LEMMA NoWriteType ==
    NoWrite \in [pc : {"idle", "open"}, batch : Seq(Rows), done : SUBSET Partitions,
                 part : Partitions \cup {0}, final : SUBSET Rows]
BY DEF NoWrite

LEMMA StoreInvBegin ==
    ASSUME StoreInv, BeginWrite
    PROVE  StoreInv'
<1>1. PICK i \in Groups(write.batch, write.done) :
          LET p == Partition(write.batch[i])
          IN  /\ ~files[p].torn
              /\ files' = [files EXCEPT ![p] = [exists |-> TRUE, torn |-> TRUE, rows |-> {}]]
              /\ write' = [write EXCEPT !.pc = "writing", !.part = p,
                                        !.final = Merge(files[p].rows, Submitted(write.batch, p))]
  BY DEF BeginWrite
<1> DEFINE p == Partition(write.batch[i])
           final == Merge(files[p].rows, Submitted(write.batch, p))
<1>2. write.batch \in Seq(Rows) /\ write.batch[i] \in Rows
  BY DEF StoreInv, StoreTypeOK, Groups
<1>3. p \in Partitions
  BY <1>2, PartitionFacts
<1>4. first' = first
  BY DEF BeginWrite
<1>5. Tidy(files[p].rows, p) /\ Keeps(files[p].rows, p)
  BY <1>1, <1>3 DEF StoreInv
<1>6. Tidy(final, p) /\ files[p].rows \subseteq final
  BY <1>2, <1>3, <1>5, SubmittedTidy, MergeTidy
<1>7. Keeps(final, p)
  BY <1>5, <1>6 DEF Keeps
<1>8. final \subseteq Rows
  BY <1>6 DEF Tidy
<1> HIDE DEF final, p
<1>9. /\ write'.pc = "writing" /\ write'.part = p /\ write'.final = final
      /\ write' \in [pc : {"idle", "open", "writing"}, batch : Seq(Rows), done : SUBSET Partitions,
                     part : Partitions \cup {0}, final : SUBSET Rows]
  BY <1>1, <1>3, <1>8 DEF StoreInv, StoreTypeOK, p, final
<1>10. /\ files' = [files EXCEPT ![p] = [exists |-> TRUE, torn |-> TRUE, rows |-> {}]]
       /\ files \in [Partitions -> [exists : BOOLEAN, torn : BOOLEAN, rows : SUBSET Rows]]
  BY <1>1 DEF StoreInv, StoreTypeOK, p
<1>11. /\ files' \in [Partitions -> [exists : BOOLEAN, torn : BOOLEAN, rows : SUBSET Rows]]
       /\ files'[p].torn /\ files'[p].rows = {}
       /\ \A q \in Partitions \ {p} : files'[q] = files[q]
  BY <1>3, <1>10
<1>12. \A q \in Partitions : Tidy(files'[q].rows, q)
  BY <1>11 DEF StoreInv, Tidy
<1>13. StoreTypeOK'
  BY <1>3, <1>4, <1>9, <1>11, <1>12 DEF StoreInv, StoreTypeOK, Tidy
<1>14. \A q \in Partitions : files'[q].torn \/ Keeps(files[q].rows, q)'
  BY <1>4, <1>11 DEF StoreInv, Keeps
<1>15. \A q \in Partitions : files'[q].torn => files'[q].rows = {}
  BY <1>11 DEF StoreInv
<1>16. Keeps(write.final, write.part)' /\ Tidy(write.final, write.part)'
  BY <1>4, <1>6, <1>7, <1>9 DEF Keeps, Tidy
<1> QED BY <1>12, <1>13, <1>14, <1>15, <1>16 DEF StoreInv, Tidy

LEMMA StoreInvEnd ==
    ASSUME StoreInv, EndWrite
    PROVE  StoreInv'
<1> DEFINE p == write.part
<1>1. /\ p \in Partitions /\ Tidy(write.final, p) /\ Keeps(write.final, p)
      /\ write.final \subseteq Rows
  BY DEF StoreInv, StoreTypeOK, EndWrite, Tidy
<1>2. /\ files' = [files EXCEPT ![p] = [exists |-> TRUE, torn |-> FALSE, rows |-> write.final]]
      /\ files \in [Partitions -> [exists : BOOLEAN, torn : BOOLEAN, rows : SUBSET Rows]]
  BY DEF EndWrite, StoreInv, StoreTypeOK
<1>3. /\ files' \in [Partitions -> [exists : BOOLEAN, torn : BOOLEAN, rows : SUBSET Rows]]
      /\ ~files'[p].torn /\ files'[p].rows = write.final
      /\ \A q \in Partitions \ {p} : files'[q] = files[q]
  BY <1>1, <1>2
<1>4. /\ write'.pc = "open" /\ first' = first
      /\ write' \in [pc : {"idle", "open", "writing"}, batch : Seq(Rows), done : SUBSET Partitions,
                     part : Partitions \cup {0}, final : SUBSET Rows]
  BY <1>1 DEF EndWrite, StoreInv, StoreTypeOK
<1> HIDE DEF p
<1>5. \A q \in Partitions : Tidy(files'[q].rows, q)
  BY <1>1, <1>3 DEF StoreInv
<1>6. StoreTypeOK'
  BY <1>3, <1>4, <1>5 DEF StoreInv, StoreTypeOK, Tidy
<1>7. \A q \in Partitions : files'[q].torn \/ Keeps(files[q].rows, q)'
  BY <1>1, <1>3, <1>4 DEF StoreInv, Keeps
<1>8. \A q \in Partitions : files'[q].torn => files'[q].rows = {}
  BY <1>3 DEF StoreInv
<1> QED BY <1>4, <1>5, <1>6, <1>7, <1>8 DEF StoreInv, Tidy

LEMMA StoreInvReturn ==
    ASSUME StoreInv, Return
    PROVE  StoreInv'
<1>1. /\ files' = files /\ write' = NoWrite
      /\ first \subseteq first' /\ first' \subseteq first \cup Stored
  BY DEF Return
<1>2. \A r \in Stored : r \in Rows /\ r \in files[Partition(r)].rows
  BY DEF Stored, StoreInv, Tidy
<1>3. first' \subseteq Rows
  BY <1>1, <1>2 DEF StoreInv, StoreTypeOK
<1>4. write'.pc = "idle" /\ StoreTypeOK'
  BY <1>1, <1>3, NoWriteType DEF StoreInv, StoreTypeOK, NoWrite
<1>5. \A p \in Partitions : files'[p].torn \/ Keeps(files[p].rows, p)'
  BY <1>1, <1>2 DEF StoreInv, Keeps
<1> QED BY <1>1, <1>4, <1>5 DEF StoreInv, Tidy

LEMMA StoreInvNext == StoreInv /\ [Next]_vars => StoreInv'
<1> SUFFICES ASSUME StoreInv, [Next]_vars PROVE StoreInv'
  OBVIOUS
<1>1. CASE UNCHANGED storeVars
  <2>1. files' = files /\ write' = write /\ first' = first
    BY <1>1 DEF storeVars
  <2> QED BY <2>1 DEF StoreInv, StoreTypeOK, Tidy, Keeps
<1>2. ASSUME NEW batch \in BoundedSeq(Rows, MaxBatch), Write(batch)
      PROVE  StoreInv'
  <2>1. batch \in Seq(Rows)
    BY <1>2, StoreAssumption DEF BoundedSeq, SeqOf
  <2>2. write' \in [pc : {"idle", "open"}, batch : Seq(Rows), done : SUBSET Partitions,
                    part : Partitions \cup {0}, final : SUBSET Rows]
    BY <1>2, <2>1 DEF Write, NoWrite
  <2> QED BY <1>2, <2>2, NoFileTouched DEF Write
<1>3. CASE BeginWrite
  BY <1>3, StoreInvBegin
<1>4. CASE EndWrite
  BY <1>4, StoreInvEnd
<1>5. CASE Return
  BY <1>5, StoreInvReturn
<1>6. CASE Raise
  BY <1>6, NoFileTouched, NoWriteType DEF Raise
<1>7. CASE Crash
  BY <1>7, NoFileTouched, NoWriteType DEF Crash
<1>8. StoreStep \/ UNCHANGED storeVars
  BY DEF Next, LedgerStep, vars
<1> QED BY <1>1, <1>2, <1>3, <1>4, <1>5, <1>6, <1>7, <1>8 DEF StoreStep, StoreNext

LEMMA StoreInvKeeps == StoreInv => StoreKeeps
<1> SUFFICES ASSUME StoreInv PROVE StoreKeeps
  OBVIOUS
<1>1. \A r \in first : r \in Rows /\ Partition(r) \in Partitions
  BY PartitionFacts DEF StoreInv, StoreTypeOK
<1>2. \A r \in first : files[Partition(r)].torn \/ r \in files[Partition(r)].rows
  BY <1>1 DEF StoreInv, Keeps
<1>3. AckedIsStored
  BY <1>2 DEF AckedIsStored, KeysOf
<1>4. ASSUME NEW r \in first, NEW q \in Stored, Key(q) = Key(r)
      PROVE  q = r
  <2>1. q \in Rows /\ q \in files[Partition(q)].rows /\ Partition(q) \in Partitions
    BY DEF Stored, StoreInv, Tidy
  <2>2. Partition(q) = Partition(r)
    BY <1>1, <1>4, <2>1, PartitionFacts
  <2>3. r \in files[Partition(q)].rows
    BY <1>2, <2>1, <2>2 DEF StoreInv
  <2> QED BY <1>4, <2>1, <2>3 DEF StoreInv, Tidy
<1> QED BY <1>3, <1>4 DEF StoreKeeps, FirstWins

(* Appending to a Parquet store never loses nor replaces an acknowledged row,  *)
(* except with the whole file when a write of it is cut short: whatever        *)
(* batches, retries, errors and crashes follow, read_bars finds the row of the *)
(* first write.                                                                *)
THEOREM StoreKeepsRows == Spec => []StoreKeeps
<1>1. Init => StoreInv
  BY StoreInvInit
<1>2. StoreInv /\ [Next]_vars => StoreInv'
  BY StoreInvNext
<1>3. StoreInv => StoreKeeps
  BY StoreInvKeeps
<1> QED BY <1>1, <1>2, <1>3, PTL DEF Spec

------------------------------------------------------------------------------
(* The ledger *)

\* Dates rise from line to line.
Rising(rows) == \A i \in 1 .. Len(rows) - 1 : rows[i].date < rows[i + 1].date

(* The inductive invariant: a row about to be appended is a session later than *)
(* the last line of a ledger that can be read.                                 *)
LedgerInv ==
    /\ lines \in Seq(Sessions) /\ Rising(lines)
    /\ ending \in {"newline", "bare", "garbage"}
    /\ ending = "bare" => lines # <<>>
    /\ Readable => recorded \subseteq ToSet(lines)
    /\ record.pc = "append" => /\ Readable /\ record.row \in Sessions
                               /\ Chronological(record.row.date)

LEMMA DatesAreNumbers == \A d \in Dates : d \in Int
<1>1. Dates \subseteq Nat
  BY LedgerAssumption
<1> QED BY <1>1

\* A later session at the end keeps the order and adds just itself.
LEMMA AppendFacts ==
    ASSUME NEW rows \in Seq(Sessions), NEW row \in Sessions, Rising(rows),
           rows # <<>> => row.date > Last(rows).date
    PROVE  /\ Append(rows, row) \in Seq(Sessions) /\ Rising(Append(rows, row))
           /\ Append(rows, row) # <<>>
           /\ ToSet(rows) \cup {row} \subseteq ToSet(Append(rows, row))
<1> DEFINE longer == Append(rows, row)
           n == Len(rows)
<1>1. /\ longer \in Seq(Sessions) /\ Len(longer) = n + 1 /\ n \in Nat
      /\ \A i \in 1 .. n : longer[i] = rows[i]
      /\ longer[n + 1] = row
  OBVIOUS
<1>2. rows # <<>> => n > 0 /\ Last(rows) = rows[n]
  BY DEF Last
<1>3. Rising(longer)
  <2> SUFFICES ASSUME NEW i \in 1 .. Len(longer) - 1
               PROVE  longer[i].date < longer[i + 1].date
    BY DEF Rising
  <2>1. CASE i < n
    <3>1. i \in 1 .. n - 1 /\ i \in 1 .. n /\ i + 1 \in 1 .. n
      BY <1>1, <2>1
    <3> QED BY <1>1, <3>1 DEF Rising
  <2>2. CASE i = n
    <3>1. n > 0 /\ rows # <<>>
      BY <1>1, <2>2
    <3>2. rows[n] \in Sessions /\ longer[n] = rows[n] /\ longer[n + 1] = row
      BY <1>1, <3>1
    <3>3. rows[n].date \in Dates /\ row.date \in Dates
      BY <3>2 DEF Sessions
    <3>4. rows[n].date \in Int /\ row.date \in Int
      BY <3>3, DatesAreNumbers
    <3> QED BY <1>2, <2>2, <3>1, <3>2, <3>4
  <2> QED BY <1>1, <2>1, <2>2
<1>4. ToSet(rows) \cup {row} \subseteq ToSet(longer)
  <2>1. DOMAIN rows = 1 .. n /\ DOMAIN longer = 1 .. n + 1
    BY <1>1
  <2>2. ToSet(rows) \subseteq ToSet(longer)
    BY <1>1, <2>1 DEF ToSet
  <2>3. row \in ToSet(longer)
    BY <1>1, <2>1 DEF ToSet
  <2> QED BY <2>2, <2>3
<1> QED BY <1>1, <1>3, <1>4

LEMMA FrontIs ==
    ASSUME NEW rows \in Seq(Sessions), rows # <<>>
    PROVE  /\ Front(rows) \in Seq(Sessions) /\ Len(Front(rows)) = Len(rows) - 1
           /\ \A i \in 1 .. Len(rows) - 1 : Front(rows)[i] = rows[i]
<1> DEFINE n == Len(rows)
           front == Front(rows)
<1>1. n \in Nat /\ n > 0
  OBVIOUS
<1>2. front = SubSeq(rows, 1, n - 1) /\ n - 1 \in 0 .. Len(rows)
  BY <1>1 DEF Front
<1>3. front \in Seq(Sessions)
  BY <1>2
<1>4. Len(front) = n - 1
  <2>1. ASSUME NEW m \in 0 .. Len(rows)
        PROVE  Len(SubSeq(rows, 1, m)) = m
    OBVIOUS
  <2> QED BY <1>2, <2>1
<1>5. \A i \in 1 .. n - 1 : front[i] = rows[i]
  BY <1>1, <1>2
<1> QED BY <1>3, <1>4, <1>5

\* The first lines are in order as well.
LEMMA FrontFacts ==
    ASSUME NEW rows \in Seq(Sessions), Rising(rows), rows # <<>>
    PROVE  Front(rows) \in Seq(Sessions) /\ Rising(Front(rows))
<1> DEFINE n == Len(rows)
           front == Front(rows)
<1>1. n \in Nat /\ n > 0
  OBVIOUS
<1>2. /\ front \in Seq(Sessions) /\ Len(front) = n - 1
      /\ \A i \in 1 .. n - 1 : front[i] = rows[i]
  BY FrontIs
<1>3. Rising(front)
  <2> SUFFICES ASSUME NEW i \in 1 .. Len(front) - 1
               PROVE  front[i].date < front[i + 1].date
    BY DEF Rising
  <2>1. i \in 1 .. n - 1 /\ i + 1 \in 1 .. n - 1
    BY <1>1, <1>2
  <2> QED BY <1>2, <2>1 DEF Rising
<1> QED BY <1>2, <1>3

LEMMA LedgerInvInit == Init => LedgerInv
BY DEF Init, LedgerInit, LedgerInv, NoRecord, Rising, Readable

LEMMA LedgerInvRecord ==
    ASSUME LedgerInv, NEW d \in Dates, NEW pnl \in PnLs, Record(d, pnl)
    PROVE  LedgerInv'
<1>1. lines' = lines /\ ending' = ending /\ recorded' = recorded
  BY DEF Record
<1>2. Cumulative(pnl) \in Int
  <2>1. pnl \in Int
    BY LedgerAssumption
  <2>2. CASE lines = <<>>
    BY <2>1, <2>2 DEF Cumulative
  <2>3. CASE lines # <<>>
    <3>1. Last(lines) \in Sessions
      BY <2>3 DEF LedgerInv, Last
    <3> QED BY <2>1, <2>3, <3>1 DEF Cumulative, Sessions
  <2> QED BY <2>2, <2>3
<1>3. /\ record'.row = [date |-> d, pnl |-> pnl, cumulative |-> Cumulative(pnl)]
      /\ Chronological(d) /\ Readable
  BY DEF Record
<1>4. record'.row \in Sessions /\ record'.row.date = d
  BY <1>2, <1>3 DEF Sessions
<1> QED BY <1>1, <1>3, <1>4 DEF LedgerInv, Readable, Chronological

LEMMA LedgerInvAppended ==
    ASSUME LedgerInv, Appended \/ BreaksOff
    PROVE  LedgerInv'
<1>1. /\ record.pc = "append" /\ record.row \in Sessions /\ Chronological(record.row.date)
      /\ Readable /\ lines \in Seq(Sessions) /\ Rising(lines)
  BY DEF LedgerInv, Appended, BreaksOff
<1>2. record'.pc = "idle"
  BY DEF Appended, BreaksOff, NoRecord
<1>3. /\ Append(lines, record.row) \in Seq(Sessions) /\ Rising(Append(lines, record.row))
      /\ Append(lines, record.row) # <<>>
      /\ ToSet(lines) \cup {record.row} \subseteq ToSet(Append(lines, record.row))
  BY <1>1, AppendFacts DEF Chronological
<1>4. ending = "bare" => Front(lines) \in Seq(Sessions) /\ Rising(Front(lines))
  BY <1>1, FrontFacts DEF LedgerInv
<1>5. recorded' \subseteq recorded \cup {record.row}
  BY DEF Appended, BreaksOff
<1>6. \/ lines' = Append(lines, record.row) /\ ending' \in {"newline", "bare"}
      \/ ending = "bare" /\ lines' = Front(lines) /\ ending' = "garbage"
      \/ lines' = lines /\ ending' = "garbage"
      \/ lines' = lines /\ ending' = ending /\ recorded' = recorded
  BY DEF Appended, Append1, BreaksOff, LedgerInv
<1> QED BY <1>1, <1>2, <1>3, <1>4, <1>5, <1>6 DEF LedgerInv, Readable

LEMMA LedgerInvNext == LedgerInv /\ [Next]_vars => LedgerInv'
<1> SUFFICES ASSUME LedgerInv, [Next]_vars PROVE LedgerInv'
  OBVIOUS
<1>1. CASE UNCHANGED ledgerVars
  BY <1>1 DEF ledgerVars, LedgerInv, Rising, Readable, Chronological
<1>2. ASSUME NEW d \in Dates, NEW pnl \in PnLs, Record(d, pnl)
      PROVE  LedgerInv'
  BY <1>2, LedgerInvRecord
<1>3. CASE Appended \/ BreaksOff
  BY <1>3, LedgerInvAppended
<1>4. LedgerStep \/ UNCHANGED ledgerVars
  BY DEF Next, StoreStep, vars
<1> QED BY <1>1, <1>2, <1>3, <1>4 DEF LedgerStep, LedgerNext

LEMMA LedgerInvCounted == LedgerInv => CountedOnce
BY DEF LedgerInv, CountedOnce, Rising

(* A session counts once: whatever record() calls are interrupted or repeated, *)
(* as long as the ledger can be read it holds every recorded session, and its  *)
(* dates rise from line to line, so that none occurs twice.                    *)
THEOREM SessionsCountOnce == Spec => []CountedOnce
<1>1. Init => LedgerInv
  BY LedgerInvInit
<1>2. LedgerInv /\ [Next]_vars => LedgerInv'
  BY LedgerInvNext
<1>3. LedgerInv => CountedOnce
  BY LedgerInvCounted
<1> QED BY <1>1, <1>2, <1>3, PTL DEF Spec

------------------------------------------------------------------------------
(* Drawdown: the fold of _max_drawdown over the subsets of the indices *)

Start == [cum |-> 0, peak |-> 0, mdd |-> 0]

\* One turn of the loop.
Turn(acc, x) ==
    LET cum == acc.cum + x
        peak == Larger(acc.peak, cum)
    IN  [cum |-> cum, peak |-> peak, mdd |-> Larger(acc.mdd, peak - cum)]

\* f is the recursive function behind the fold over the indices I of pnl.
Runs(pnl, I, f) ==
    f = [s \in SUBSET I |-> IF s = {} THEN Start ELSE Turn(f[s \ {Max(s)}], pnl[Max(s)])]

LEMMA RunsAt ==
    ASSUME NEW pnl, NEW I, NEW f, Runs(pnl, I, f)
    PROVE  \A s \in SUBSET I : /\ s = {} => f[s] = Start
                               /\ s # {} => f[s] = Turn(f[s \ {Max(s)}], pnl[Max(s)])
<1> DEFINE body(u) == IF u = {} THEN Start ELSE Turn(f[u \ {Max(u)}], pnl[Max(u)])
<1>1. f = [u \in SUBSET I |-> body(u)]
  BY DEF Runs
<1> HIDE DEF body
<1>2. \A s \in SUBSET I : f[s] = body(s)
  BY <1>1
<1> QED BY <1>2 DEF body

Numbers(s) == \A x \in s : x \in Nat

\* A finite set of numbers that is not empty has a largest element.
LEMMA MaxIsIn ==
    ASSUME NEW s, Numbers(s), IsFiniteSet(s), s # {}
    PROVE  Max(s) \in s /\ \A x \in s : x <= Max(s)
<1>1. \A x \in s : x \in Nat
  BY DEF Numbers
<1>2. \E m \in s : \A x \in s : x <= m
  BY <1>1, LargestNatural
<1>3. \E m \in s : \A x \in s : m >= x
  BY <1>1, <1>2
<1>4. Max(s) \in s /\ \A x \in s : Max(s) >= x
  BY <1>3 DEF Max
<1> QED BY <1>1, <1>4

LEMMA RunsAgree ==
    ASSUME NEW pnl, NEW I, Numbers(I), IsFiniteSet(I), NEW J, NEW f, NEW h,
           Runs(pnl, I, f), Runs(pnl, J, h), NEW U \in SUBSET I, U \in SUBSET J
    PROVE  f[U] = h[U]
<1> DEFINE Good == {T \in SUBSET I : T \in SUBSET J => f[T] = h[T]}
<1>3. \A s \in SUBSET I : /\ s = {} => f[s] = Start
                          /\ s # {} => f[s] = Turn(f[s \ {Max(s)}], pnl[Max(s)])
  BY RunsAt
<1>4. \A s \in SUBSET J : /\ s = {} => h[s] = Start
                          /\ s # {} => h[s] = Turn(h[s \ {Max(s)}], pnl[Max(s)])
  BY RunsAt
<1>1. ASSUME NEW T \in SUBSET I, \A x \in T : T \ {x} \in Good
      PROVE  T \in Good
  <2> SUFFICES ASSUME T \in SUBSET J PROVE f[T] = h[T]
    OBVIOUS
  <2>1. /\ T = {} => f[T] = Start
        /\ T # {} => f[T] = Turn(f[T \ {Max(T)}], pnl[Max(T)])
    BY <1>3
  <2>4. /\ T = {} => h[T] = Start
        /\ T # {} => h[T] = Turn(h[T \ {Max(T)}], pnl[Max(T)])
    BY <1>4
  <2>2. CASE T = {}
    BY <2>1, <2>2, <2>4
  <2>3. CASE T # {}
    <3>0. Numbers(T) /\ IsFiniteSet(T)
      BY FS_Subset DEF Numbers
    <3>1. Max(T) \in T
      BY <2>3, <3>0, MaxIsIn
    <3>2. T \ {Max(T)} \in Good /\ T \ {Max(T)} \in SUBSET J
      BY <1>1, <3>1
    <3>3. f[T \ {Max(T)}] = h[T \ {Max(T)}]
      BY <3>2
    <3> QED BY <2>1, <2>3, <2>4, <3>3
  <2> QED BY <2>2, <2>3
<1> HIDE DEF Good
<1>2. \A T \in SUBSET I : T \in Good
  BY <1>1, SubsetInduction
<1> QED BY <1>2 DEF Good

LEMMA RunsExist ==
    ASSUME NEW pnl, NEW I, Numbers(I), IsFiniteSet(I)
    PROVE  \E f : Runs(pnl, I, f)
<1> DEFINE Good == {T \in SUBSET I : \A V \in SUBSET T : \E f : Runs(pnl, V, f)}
           F(V) == CHOOSE f : Runs(pnl, V, f)
<1>0. \A V \in SUBSET I : Numbers(V) /\ IsFiniteSet(V)
  BY FS_Subset DEF Numbers
<1>1. ASSUME NEW T \in SUBSET I, \A x \in T : T \ {x} \in Good
      PROVE  T \in Good
  <2>1. \A V \in SUBSET T : V # T => Runs(pnl, V, F(V))
    <3> SUFFICES ASSUME NEW V \in SUBSET T, V # T PROVE Runs(pnl, V, F(V))
      OBVIOUS
    <3>1. PICK x \in T : x \notin V
      OBVIOUS
    <3>2. T \ {x} \in Good /\ V \in SUBSET (T \ {x})
      BY <1>1, <3>1
    <3>3. \E f : Runs(pnl, V, f)
      BY <3>2
    <3> QED BY <3>3
  <2> HIDE DEF F
  <2> DEFINE value(s) == IF s = {} THEN Start ELSE Turn(F(s \ {Max(s)})[s \ {Max(s)}], pnl[Max(s)])
             h == [s \in SUBSET T |-> value(s)]
  <2>3. \A V \in SUBSET T : h[V] = value(V)
    OBVIOUS
  <2> HIDE DEF h
  <2>4. ASSUME NEW V \in SUBSET T, V # T PROVE h[V] = F(V)[V]
    <3>1. Runs(pnl, V, F(V)) /\ Numbers(V) /\ IsFiniteSet(V)
      BY <1>0, <2>1, <2>4
    <3>2. /\ V = {} => F(V)[V] = Start
          /\ V # {} => F(V)[V] = Turn(F(V)[V \ {Max(V)}], pnl[Max(V)])
      BY <3>1, RunsAt
    <3>3. CASE V = {}
      BY <2>3, <3>2, <3>3
    <3>4. CASE V # {}
      <4> DEFINE W == V \ {Max(V)}
      <4>1. W \in SUBSET T /\ W # T /\ W \in SUBSET V
        BY <2>4, <3>1
      <4>2. Runs(pnl, W, F(W))
        BY <2>1, <4>1
      <4>3. F(V)[W] = F(W)[W]
        BY <3>1, <4>1, <4>2, RunsAgree
      <4> QED BY <2>3, <3>2, <3>4, <4>3
    <3> QED BY <3>3, <3>4
  <2>5. ASSUME NEW s \in SUBSET T
        PROVE  value(s) = IF s = {} THEN Start ELSE Turn(h[s \ {Max(s)}], pnl[Max(s)])
    <3>1. CASE s = {}
      BY <3>1
    <3>2. CASE s # {}
      <4>0. Numbers(s) /\ IsFiniteSet(s)
        BY <1>0
      <4>1. s \ {Max(s)} \in SUBSET T /\ s \ {Max(s)} # T
        BY <3>2, <4>0, MaxIsIn
      <4>2. h[s \ {Max(s)}] = F(s \ {Max(s)})[s \ {Max(s)}]
        BY <2>4, <4>1
      <4> QED BY <3>2, <4>2
    <3> QED BY <3>1, <3>2
  <2>6. Runs(pnl, T, h)
    <3>1. h = [s \in SUBSET T |-> value(s)]
      BY DEF h
    <3> HIDE DEF value
    <3> QED BY <2>5, <3>1 DEF Runs
  <2>7. ASSUME NEW V \in SUBSET T PROVE \E f : Runs(pnl, V, f)
    BY <2>1, <2>6
  <2> QED BY <2>7
<1> HIDE DEF Good
<1>2. \A T \in SUBSET I : T \in Good
  BY <1>1, SubsetInduction
<1> QED BY <1>2 DEF Good

\* The loop: acc[k] is its state after k sessions.
Loop(pnl, acc) ==
    /\ acc[0] = Start
    /\ \A k \in 0 .. Len(pnl) - 1 : acc[k + 1] = Turn(acc[k], pnl[k + 1])

\* One more element in an initial part of the indices.
LEMMA RunsGrow ==
    ASSUME NEW pnl, NEW I, NEW f, Runs(pnl, I, f), NEW s \in SUBSET I, Numbers(s), IsFiniteSet(s),
           NEW m \in s, \A x \in s : x <= m
    PROVE  f[s] = Turn(f[s \ {m}], pnl[m])
<1>1. s # {} /\ s \in SUBSET I
  OBVIOUS
<1>2. f[s] = Turn(f[s \ {Max(s)}], pnl[Max(s)])
  BY <1>1, RunsAt
<1>3. Max(s) = m
  <2>1. Max(s) \in s /\ \A x \in s : x <= Max(s)
    BY <1>1, MaxIsIn
  <2>2. Max(s) \in Nat /\ m \in Nat /\ Max(s) <= m /\ m <= Max(s)
    BY <2>1 DEF Numbers
  <2> QED BY <2>2
<1> QED BY <1>2, <1>3

LEMMA DrawdownLoops ==
    ASSUME NEW pnl \in Seq(Int)
    PROVE  \E acc : Loop(pnl, acc) /\ MaxDrawdown(pnl) = acc[Len(pnl)].mdd
<1> DEFINE n == Len(pnl)
           I == 1 .. n
           f == CHOOSE g : Runs(pnl, I, g)
           acc == [k \in 0 .. n |-> f[1 .. k]]
<1>1. n \in Nat /\ DOMAIN pnl = I
  OBVIOUS
<1>2. IsFiniteSet(I) /\ Numbers(I)
  BY <1>1, FS_Interval DEF Numbers
<1>3. MaxDrawdown(pnl) = f[I].mdd
  BY <1>1 DEF MaxDrawdown, FoldLeft, MapThenFoldSet, Runs, Start, Turn
<1>4. \E g : Runs(pnl, I, g)
  BY <1>2, RunsExist
<1>5. Runs(pnl, I, f)
  BY <1>4
<1> HIDE DEF f
<1>6. acc[0] = Start /\ acc[n] = f[I]
  <2>1. 1 .. 0 = {} /\ {} \in SUBSET I
    OBVIOUS
  <2>2. f[{}] = Start
    BY <1>5, <2>1, RunsAt
  <2>3. acc[0] = f[1 .. 0] /\ acc[n] = f[1 .. n]
    BY <1>1
  <2> QED BY <2>1, <2>2, <2>3
<1>7. ASSUME NEW k \in 0 .. n - 1 PROVE acc[k + 1] = Turn(acc[k], pnl[k + 1])
  <2> DEFINE s == 1 .. (k + 1)
  <2>1. s \in SUBSET I /\ k + 1 \in s /\ \A x \in s : x <= k + 1
    BY <1>1
  <2>2. IsFiniteSet(s) /\ Numbers(s)
    BY <1>1, FS_Interval DEF Numbers
  <2>3. s \ {k + 1} = 1 .. k
    BY <1>1
  <2>4. acc[k] = f[1 .. k] /\ acc[k + 1] = f[s]
    BY <1>1
  <2>5. f[s] = Turn(f[s \ {k + 1}], pnl[k + 1])
    <3> HIDE DEF s, I
    <3> QED BY <1>5, <2>1, <2>2, RunsGrow
  <2> QED BY <2>3, <2>4, <2>5
<1> QED BY <1>3, <1>6, <1>7 DEF Loop

\* What the loop holds after k sessions: the sum, its maximum so far, and the
\* largest fall so far, the start at zero included.
Held(pnl, a, k) ==
    /\ a.cum = Upto(pnl, k)
    /\ \E i \in 0 .. k : a.peak = Upto(pnl, i)
    /\ \A i \in 0 .. k : Upto(pnl, i) <= a.peak
    /\ \E i \in 0 .. k : \E j \in i .. k : a.mdd = Upto(pnl, i) - Upto(pnl, j)
    /\ \A i \in 0 .. k : \A j \in i .. k : Upto(pnl, i) - Upto(pnl, j) <= a.mdd

LEMMA TurnKeeps ==
    ASSUME NEW pnl \in Seq(Int), NEW k \in 0 .. Len(pnl) - 1, NEW a, Held(pnl, a, k)
    PROVE  Held(pnl, Turn(a, pnl[k + 1]), k + 1)
<1> DEFINE C(i) == Upto(pnl, i)
           b == Turn(a, pnl[k + 1])
<1>1. /\ Len(pnl) \in Nat /\ k \in Nat /\ k + 1 \in 0 .. Len(pnl)
      /\ \A i \in 0 .. k + 1 : C(i) \in Int
      /\ C(k + 1) = C(k) + pnl[k + 1]
  BY UptoFacts
<1> HIDE DEF C
<1>2. /\ a.cum = C(k)
      /\ \E i \in 0 .. k : a.peak = C(i)
      /\ \A i \in 0 .. k : C(i) <= a.peak
      /\ \E i \in 0 .. k : \E j \in i .. k : a.mdd = C(i) - C(j)
      /\ \A i \in 0 .. k : \A j \in i .. k : C(i) - C(j) <= a.mdd
  BY DEF Held, C
<1>3. PICK p \in 0 .. k : a.peak = C(p)
  BY <1>2
<1>4. PICK u \in 0 .. k : \E j \in u .. k : a.mdd = C(u) - C(j)
  BY <1>2
<1>5. PICK v \in u .. k : a.mdd = C(u) - C(v)
  BY <1>4
<1>6. C(p) \in Int /\ C(u) \in Int /\ C(v) \in Int /\ C(k + 1) \in Int
  BY <1>1
<1>7. /\ b.cum = C(k + 1)
      /\ b.peak = Larger(C(p), C(k + 1))
      /\ b.mdd = Larger(a.mdd, b.peak - b.cum)
  BY <1>1, <1>2, <1>3 DEF Turn
<1> HIDE DEF b
<1>8. PICK q \in 0 .. k + 1 : b.peak = C(q)
  <2>1. CASE C(p) < C(k + 1)
    BY <1>1, <1>7, <2>1 DEF Larger
  <2>2. CASE ~(C(p) < C(k + 1))
    BY <1>1, <1>7, <2>2 DEF Larger
  <2> QED BY <2>1, <2>2
<1>9. ASSUME NEW i \in 0 .. k + 1 PROVE C(i) <= b.peak
  <2>1. C(p) <= b.peak /\ C(k + 1) <= b.peak
    BY <1>6, <1>7 DEF Larger
  <2>2. C(i) <= C(p) \/ i = k + 1
    BY <1>1, <1>2, <1>3
  <2>3. C(i) \in Int /\ b.peak \in Int
    BY <1>1, <1>8
  <2> QED BY <1>6, <2>1, <2>2, <2>3
<1>10. \E i \in 0 .. k + 1 : \E j \in i .. k + 1 : b.mdd = C(i) - C(j)
  <2>1. CASE a.mdd < b.peak - b.cum
    <3>1. b.mdd = C(q) - C(k + 1)
      BY <1>7, <1>8, <2>1 DEF Larger
    <3>2. k + 1 \in q .. k + 1
      BY <1>1
    <3> QED BY <3>1, <3>2
  <2>2. CASE ~(a.mdd < b.peak - b.cum)
    <3>1. b.mdd = C(u) - C(v)
      BY <1>5, <1>7, <2>2 DEF Larger
    <3>2. u \in 0 .. k + 1 /\ v \in u .. k + 1
      BY <1>1
    <3> QED BY <3>1, <3>2
  <2> QED BY <2>1, <2>2
<1>11. ASSUME NEW i \in 0 .. k + 1, NEW j \in i .. k + 1 PROVE C(i) - C(j) <= b.mdd
  <2>1. b.peak \in Int /\ C(i) \in Int /\ C(j) \in Int /\ a.mdd \in Int /\ b.cum \in Int
    <3>1. j \in 0 .. k + 1
      BY <1>1
    <3>2. C(i) \in Int /\ C(j) \in Int /\ C(q) \in Int
      BY <1>1, <3>1
    <3>3. a.mdd \in Int
      BY <1>5, <1>6
    <3> QED BY <1>6, <1>7, <1>8, <3>2, <3>3
  <2>2. a.mdd <= b.mdd /\ b.peak - b.cum <= b.mdd
    BY <1>7, <2>1 DEF Larger
  <2>3. b.mdd \in Int
    BY <1>7, <2>1 DEF Larger
  <2>4. CASE j = k + 1
    <3>1. C(i) <= b.peak /\ C(j) = b.cum
      BY <1>7, <1>9, <2>4
    <3> QED BY <2>1, <2>2, <2>3, <3>1
  <2>5. CASE j # k + 1
    <3>1. i \in 0 .. k /\ j \in i .. k
      BY <1>1, <2>5
    <3>2. C(i) - C(j) <= a.mdd
      BY <1>2, <3>1
    <3> QED BY <2>1, <2>2, <2>3, <3>2
  <2> QED BY <2>4, <2>5
<1> QED BY <1>7, <1>8, <1>9, <1>10, <1>11 DEF Held, C, b

\* _max_drawdown of any sessions is the largest fall of their running sum.
LEMMA DrawdownOfSums ==
    ASSUME NEW pnl \in Seq(Int)
    PROVE  LET n == Len(pnl)
           IN  /\ \E i \in 0 .. n : \E j \in i .. n : MaxDrawdown(pnl) = Upto(pnl, i) - Upto(pnl, j)
               /\ \A i \in 0 .. n : \A j \in i .. n : Upto(pnl, i) - Upto(pnl, j) <= MaxDrawdown(pnl)
<1> DEFINE n == Len(pnl)
<1>1. PICK acc : Loop(pnl, acc) /\ MaxDrawdown(pnl) = acc[n].mdd
  BY DrawdownLoops
<1> DEFINE Good == {k \in Nat : k <= n => Held(pnl, acc[k], k)}
<1>2. n \in Nat
  OBVIOUS
<1>3. 0 \in Good
  <2>1. acc[0] = Start /\ Upto(pnl, 0) = 0
    BY <1>1, UptoFacts DEF Loop
  <2>2. \A i \in 0 .. 0 : i = 0
    OBVIOUS
  <2>3. 0 \in 0 .. 0
    OBVIOUS
  <2>4. Start.cum = 0 /\ Start.peak = 0 /\ Start.mdd = 0
    BY DEF Start
  <2> QED BY <2>1, <2>2, <2>3, <2>4 DEF Held
<1>4. ASSUME NEW k \in Nat, k \in Good PROVE k + 1 \in Good
  <2> SUFFICES ASSUME k + 1 <= n PROVE Held(pnl, acc[k + 1], k + 1)
    OBVIOUS
  <2>1. k \in 0 .. Len(pnl) - 1 /\ k <= n
    BY <1>2
  <2>2. Held(pnl, acc[k], k) /\ acc[k + 1] = Turn(acc[k], pnl[k + 1])
    BY <1>1, <1>4, <2>1 DEF Loop
  <2> QED BY <2>1, <2>2, TurnKeeps
<1> HIDE DEF Good
<1>5. \A k \in Nat : k \in Good
  BY <1>3, <1>4, NaturalsInductive
<1>6. Held(pnl, acc[n], n)
  BY <1>2, <1>5 DEF Good
<1> HIDE DEF n
<1> QED BY <1>1, <1>6 DEF Held, n

------------------------------------------------------------------------------
(* Sums of the ledger *)

Series(rows) == [i \in DOMAIN rows |-> rows[i].pnl]

\* Every line carries the sum up to and including itself.
Summed(rows) == \A i \in 1 .. Len(rows) : rows[i].cumulative = Upto(Series(rows), i)

(* The inductive invariant: so does a row about to be appended. *)
SumInv ==
    /\ Summed(lines)
    /\ record.pc = "append" => record.row.cumulative = Cumulative(record.row.pnl)

LEMMA SessionFacts ==
    \A r \in Sessions : r.pnl \in Int /\ r.cumulative \in Int
<1>1. PnLs \subseteq Int
  BY LedgerAssumption
<1> QED BY <1>1 DEF Sessions

LEMMA SeriesFacts ==
    ASSUME NEW rows \in Seq(Sessions)
    PROVE  /\ Series(rows) \in Seq(Int) /\ Len(Series(rows)) = Len(rows)
           /\ \A i \in 1 .. Len(rows) : Series(rows)[i] = rows[i].pnl
<1>1. DOMAIN rows = 1 .. Len(rows) /\ Len(rows) \in Nat
  OBVIOUS
<1>2. \A i \in 1 .. Len(rows) : rows[i].pnl \in Int
  BY SessionFacts
<1>3. Series(rows) = [i \in 1 .. Len(rows) |-> rows[i].pnl]
  BY <1>1 DEF Series
<1> QED BY <1>1, <1>2, <1>3

LEMMA UptoSame ==
    ASSUME NEW s, NEW t, NEW k \in Nat, \A i \in 1 .. k : s[i] = t[i]
    PROVE  Upto(s, k) = Upto(t, k)
<1> DEFINE I == 1 .. k
<1>1. IsFiniteSet(I)
  BY FS_Interval
<1>2. \A i \in I : s[i] = t[i]
  OBVIOUS
<1> HIDE DEF I
<1>3. SumFunctionOnSet(s, I) = SumFunctionOnSet(t, I)
  BY <1>1, <1>2, SumSame
<1> QED BY <1>3 DEF Upto, I

LEMMA SummedAppend ==
    ASSUME NEW rows \in Seq(Sessions), NEW row \in Sessions, Summed(rows),
           row.cumulative = (IF rows = <<>> THEN 0 ELSE Last(rows).cumulative) + row.pnl
    PROVE  Summed(Append(rows, row))
<1> DEFINE n == Len(rows)
           longer == Append(rows, row)
<1>1. /\ longer \in Seq(Sessions) /\ Len(longer) = n + 1 /\ longer[n + 1] = row
      /\ \A i \in 1 .. n : longer[i] = rows[i]
  BY AppendProperties
<1>2. n \in Nat /\ (rows = <<>> => n = 0) /\ (rows # <<>> => n \in 1 .. n /\ Last(rows) = rows[n])
  BY DEF Last
<1> HIDE DEF longer
<1>3. /\ Series(longer) \in Seq(Int) /\ Len(Series(longer)) = n + 1
      /\ \A i \in 1 .. n + 1 : Series(longer)[i] = longer[i].pnl
  BY <1>1, SeriesFacts
<1>4. /\ Series(rows) \in Seq(Int) /\ Len(Series(rows)) = n
      /\ \A i \in 1 .. n : Series(rows)[i] = rows[i].pnl
  BY SeriesFacts
<1>5. ASSUME NEW k \in 0 .. n PROVE Upto(Series(longer), k) = Upto(Series(rows), k)
  <2>1. \A i \in 1 .. k : i \in 1 .. n /\ i \in 1 .. n + 1
    BY <1>2
  <2>2. \A i \in 1 .. k : Series(longer)[i] = Series(rows)[i]
    BY <1>1, <1>3, <1>4, <2>1
  <2> QED BY <2>2, UptoSame
<1>6. Upto(Series(longer), n + 1) = Upto(Series(longer), n) + row.pnl
  <2>1. n \in 0 .. Len(Series(longer)) - 1 /\ n + 1 \in 1 .. n + 1
    BY <1>2, <1>3
  <2>2. Upto(Series(longer), n + 1) = Upto(Series(longer), n) + Series(longer)[n + 1]
    BY <1>3, <2>1, UptoFacts
  <2> QED BY <1>1, <1>3, <2>1, <2>2
<1>7. row.cumulative = Upto(Series(rows), n) + row.pnl
  <2>1. CASE rows = <<>>
    <3>1. Upto(Series(rows), 0) = 0
      BY <1>4, UptoFacts
    <3> QED BY <1>2, <2>1, <3>1
  <2>2. CASE rows # <<>>
    BY <1>2, <2>2 DEF Summed
  <2> QED BY <2>1, <2>2
<1>8. ASSUME NEW i \in 1 .. n + 1 PROVE longer[i].cumulative = Upto(Series(longer), i)
  <2>1. CASE i = n + 1
    <3>1. n \in 0 .. n
      BY <1>2
    <3> QED BY <1>1, <1>5, <1>6, <1>7, <2>1, <3>1
  <2>2. CASE i # n + 1
    <3>1. i \in 1 .. n /\ i \in 0 .. n
      BY <1>2, <2>2
    <3> QED BY <1>1, <1>5, <3>1 DEF Summed
  <2> QED BY <2>1, <2>2
<1> QED BY <1>1, <1>8 DEF Summed, longer

LEMMA SummedFront ==
    ASSUME NEW rows \in Seq(Sessions), rows # <<>>, Summed(rows)
    PROVE  Summed(Front(rows))
<1> DEFINE n == Len(rows)
           front == Front(rows)
<1>1. n \in Nat /\ n > 0
  OBVIOUS
<1>3. front \in Seq(Sessions) /\ Len(front) = n - 1 /\ \A i \in 1 .. n - 1 : front[i] = rows[i]
  BY FrontIs
<1> HIDE DEF front
<1>4. /\ Series(front) \in Seq(Int) /\ Len(Series(front)) = n - 1
      /\ \A i \in 1 .. n - 1 : Series(front)[i] = front[i].pnl
  BY <1>3, SeriesFacts
<1>5. \A i \in 1 .. n : Series(rows)[i] = rows[i].pnl
  BY SeriesFacts
<1>6. ASSUME NEW i \in 1 .. n - 1 PROVE front[i].cumulative = Upto(Series(front), i)
  <2>1. i \in Nat /\ i \in 1 .. n /\ \A j \in 1 .. i : j \in 1 .. n - 1 /\ j \in 1 .. n
    BY <1>1
  <2>2. \A j \in 1 .. i : Series(front)[j] = Series(rows)[j]
    BY <1>3, <1>4, <1>5, <2>1
  <2>3. Upto(Series(front), i) = Upto(Series(rows), i)
    BY <2>1, <2>2, UptoSame
  <2> QED BY <1>3, <2>1, <2>3 DEF Summed
<1> QED BY <1>3, <1>6 DEF Summed, front

LEMMA SumInvInit == Init => SumInv
BY DEF Init, LedgerInit, SumInv, Summed, NoRecord

LEMMA SumInvNext == LedgerInv /\ SumInv /\ [Next]_vars => SumInv'
<1> SUFFICES ASSUME LedgerInv, SumInv, [Next]_vars PROVE SumInv'
  OBVIOUS
<1>1. CASE UNCHANGED ledgerVars
  BY <1>1 DEF ledgerVars, SumInv, Summed, Series, Cumulative
<1>2. ASSUME NEW d \in Dates, NEW pnl \in PnLs, Record(d, pnl)
      PROVE  SumInv'
  <2>1. /\ lines' = lines
        /\ record'.row = [date |-> d, pnl |-> pnl, cumulative |-> Cumulative(pnl)]
    BY <1>2 DEF Record
  <2>2. record'.row.pnl = pnl /\ record'.row.cumulative = Cumulative(pnl)
    BY <2>1
  <2> QED BY <2>1, <2>2 DEF SumInv, Summed, Series, Cumulative
<1>3. CASE Appended \/ BreaksOff
  <2>1. /\ record.row \in Sessions /\ lines \in Seq(Sessions)
        /\ record.row.cumulative = Cumulative(record.row.pnl) /\ Summed(lines)
    BY <1>3 DEF LedgerInv, SumInv, Appended, BreaksOff
  <2>2. record'.pc = "idle"
    BY <1>3 DEF Appended, BreaksOff, NoRecord
  <2>3. Summed(Append(lines, record.row))
    BY <2>1, SummedAppend DEF Cumulative
  <2>4. ending = "bare" => Summed(Front(lines))
    BY <2>1, SummedFront DEF LedgerInv
  <2>5. \/ lines' = Append(lines, record.row) \/ lines' = lines
        \/ ending = "bare" /\ lines' = Front(lines)
    BY <1>3 DEF Appended, Append1, BreaksOff
  <2>6. Summed(lines')
    BY <2>1, <2>3, <2>4, <2>5
  <2> QED BY <2>2, <2>6 DEF SumInv, Summed, Series
<1>4. LedgerStep \/ UNCHANGED ledgerVars
  BY DEF Next, StoreStep, vars
<1> QED BY <1>1, <1>2, <1>3, <1>4 DEF LedgerStep, LedgerNext

LEMMA LedgerSums ==
    ASSUME LedgerInv, SumInv
    PROVE  /\ PnlSeries \in Seq(Int) /\ Len(PnlSeries) = Len(lines) /\ Len(lines) \in Nat
           /\ CumulativePnl = Upto(PnlSeries, Len(lines))
           /\ \A i \in 1 .. Len(lines) : lines[i].cumulative = Upto(PnlSeries, i)
<1>1. lines \in Seq(Sessions) /\ PnlSeries = Series(lines)
  BY DEF LedgerInv, PnlSeries, Series
<1>2. PnlSeries \in Seq(Int) /\ Len(PnlSeries) = Len(lines)
  BY <1>1, SeriesFacts
<1>3. \A i \in 1 .. Len(lines) : lines[i].cumulative = Upto(PnlSeries, i)
  BY <1>1 DEF SumInv, Summed
<1>4. CASE lines = <<>>
  <2>1. Len(lines) = 0 /\ CumulativePnl = 0
    BY <1>4 DEF CumulativePnl
  <2>2. Upto(PnlSeries, 0) = 0
    BY <1>2, UptoFacts
  <2> QED BY <1>2, <1>3, <2>1, <2>2
<1>5. CASE lines # <<>>
  <2>1. Len(lines) \in 1 .. Len(lines) /\ CumulativePnl = lines[Len(lines)].cumulative
    BY <1>1, <1>5 DEF CumulativePnl, Last
  <2> QED BY <1>2, <1>3, <2>1
<1> QED BY <1>4, <1>5

LEMMA LedgerCumulative ==
    ASSUME LedgerInv, SumInv
    PROVE  CumulativeIsSum
BY LedgerSums, UptoFacts DEF CumulativeIsSum, Sum

LEMMA LedgerDrawdown ==
    ASSUME LedgerInv, SumInv
    PROVE  DrawdownIsWorst
<1> DEFINE n == Len(lines)
           Curve(i) == Sum(SubSeq(PnlSeries, 1, i))
           falls == {Curve(ij[1]) - Curve(ij[2]) : ij \in {ij \in (0 .. n) \X (0 .. n) : ij[1] <= ij[2]}}
           mdd == MaxDrawdown(PnlSeries)
<1>1. PnlSeries \in Seq(Int) /\ Len(PnlSeries) = n /\ n \in Nat
  BY LedgerSums
<1>2. ASSUME NEW i \in 0 .. n PROVE Curve(i) = Upto(PnlSeries, i)
  <2>1. 0 \in 0 .. Len(PnlSeries) /\ i \in 0 .. Len(PnlSeries) /\ 0 + 1 = 1
    BY <1>1
  <2>2. SumFunction(SubSeq(PnlSeries, 0 + 1, i)) = Upto(PnlSeries, i) - Upto(PnlSeries, 0)
    BY <1>1, <2>1, TotalOfSlice
  <2>3. Upto(PnlSeries, 0) = 0 /\ Upto(PnlSeries, i) \in Int
    BY <1>1, <2>1, UptoFacts
  <2> QED BY <2>1, <2>2, <2>3 DEF Sum
<1>3. /\ \E i \in 0 .. n : \E j \in i .. n : mdd = Upto(PnlSeries, i) - Upto(PnlSeries, j)
      /\ \A i \in 0 .. n : \A j \in i .. n : Upto(PnlSeries, i) - Upto(PnlSeries, j) <= mdd
  BY <1>1, DrawdownOfSums
<1> HIDE DEF Curve, mdd, n
<1>4. mdd \in falls
  <2>1. PICK i \in 0 .. n : \E j \in i .. n : mdd = Upto(PnlSeries, i) - Upto(PnlSeries, j)
    BY <1>3
  <2>2. PICK j \in i .. n : mdd = Upto(PnlSeries, i) - Upto(PnlSeries, j)
    BY <2>1
  <2>3. j \in 0 .. n /\ i <= j
    BY <1>1
  <2>4. mdd = Curve(i) - Curve(j)
    BY <1>2, <2>2, <2>3
  <2>5. <<i, j>> \in {ij \in (0 .. n) \X (0 .. n) : ij[1] <= ij[2]}
    BY <2>3
  <2> QED BY <2>4, <2>5
<1>5. ASSUME NEW x \in falls PROVE x <= mdd
  <2>1. PICK ij \in (0 .. n) \X (0 .. n) : ij[1] <= ij[2] /\ x = Curve(ij[1]) - Curve(ij[2])
    OBVIOUS
  <2>2. ij[1] \in 0 .. n /\ ij[2] \in 0 .. n /\ ij[2] \in ij[1] .. n
    BY <1>1, <2>1
  <2>3. x = Upto(PnlSeries, ij[1]) - Upto(PnlSeries, ij[2])
    BY <1>2, <2>1, <2>2
  <2> QED BY <1>3, <2>2, <2>3
<1> HIDE DEF falls
<1>6. mdd \in falls /\ \A x \in falls : x <= mdd
  BY <1>4, <1>5
<1> QED BY <1>6 DEF DrawdownIsWorst, falls, mdd, Curve, n

LEMMA LedgerRising ==
    ASSUME LedgerInv, SumInv
    PROVE  HealthyIsRising
<1> DEFINE n == Len(lines)
           began == IF n <= RollingWindow THEN 0 ELSE lines[n - RollingWindow].cumulative
           recent == Recent(PnlSeries)
<1>1. /\ PnlSeries \in Seq(Int) /\ Len(PnlSeries) = n /\ n \in Nat
      /\ CumulativePnl = Upto(PnlSeries, n)
      /\ \A i \in 1 .. n : lines[i].cumulative = Upto(PnlSeries, i)
  BY LedgerSums
<1>2. /\ Upto(PnlSeries, 0) = 0 /\ Sum(PnlSeries) = Upto(PnlSeries, n)
      /\ \A i \in 0 .. n : Upto(PnlSeries, i) \in Int
  BY <1>1, UptoFacts DEF Sum
<1>3. RollingWindow \in Nat \ {0}
  BY LedgerAssumption
<1>4. Sum(recent) = CumulativePnl - began
  <2>1. CASE n <= RollingWindow
    <3>1. Larger(1, n - RollingWindow + 1) = 0 + 1 /\ 0 \in 0 .. n /\ n \in 0 .. n
      BY <1>1, <1>3, <2>1 DEF Larger
    <3>2. SumFunction(SubSeq(PnlSeries, 0 + 1, n)) = Upto(PnlSeries, n) - Upto(PnlSeries, 0)
      BY <1>1, <3>1, TotalOfSlice
    <3>3. recent = SubSeq(PnlSeries, 0 + 1, n)
      BY <1>1, <3>1 DEF Recent
    <3> QED BY <1>1, <1>2, <2>1, <3>2, <3>3 DEF Sum
  <2>2. CASE ~(n <= RollingWindow)
    <3> DEFINE a == n - RollingWindow
    <3>1. Larger(1, n - RollingWindow + 1) = a + 1 /\ a \in 0 .. n /\ a \in 1 .. n /\ n \in a .. n
      BY <1>1, <1>3, <2>2 DEF Larger
    <3>2. recent = SubSeq(PnlSeries, a + 1, n)
      BY <1>1, <3>1 DEF Recent
    <3> HIDE DEF a
    <3>3. SumFunction(SubSeq(PnlSeries, a + 1, n)) = Upto(PnlSeries, n) - Upto(PnlSeries, a)
      BY <1>1, <3>1, TotalOfSlice
    <3>4. began = Upto(PnlSeries, a)
      BY <1>1, <2>2, <3>1 DEF a
    <3> QED BY <1>1, <3>2, <3>3, <3>4 DEF Sum
  <2> QED BY <2>1, <2>2
<1>5. began \in Int /\ CumulativePnl \in Int
  <2>1. n \in 0 .. n
    BY <1>1
  <2>2. CASE n <= RollingWindow
    BY <1>1, <1>2, <2>1, <2>2
  <2>3. CASE ~(n <= RollingWindow)
    <3>1. n - RollingWindow \in 1 .. n /\ n - RollingWindow \in 0 .. n
      BY <1>1, <1>3, <2>3
    <3> QED BY <1>1, <1>2, <2>1, <2>3, <3>1
  <2> QED BY <2>2, <2>3
<1> HIDE DEF recent, began
<1>6. ASSUME Verdict(PnlSeries) = "healthy"
      PROVE  /\ CumulativePnl > 0
             /\ SharpeSign(recent) # Undefined => CumulativePnl > began
  <2>1. ~(Sum(PnlSeries) <= 0) /\ SharpeSign(recent) # "not positive"
    BY <1>6 DEF Verdict, recent
  <2> DEFINE total == CumulativePnl
  <2>2. Sum(PnlSeries) = total /\ total \in Int
    BY <1>1, <1>2, <1>5 DEF Sum
  <2> HIDE DEF total
  <2>3. ~(total <= 0)
    BY <2>1, <2>2, Zenon
  <2>4. total > 0
    BY <2>2, <2>3
  <2>5. CumulativePnl > 0
    BY <2>4 DEF total
  <2>6. SharpeSign(recent) # Undefined => Sum(recent) > 0
    BY <2>1 DEF SharpeSign
  <2> QED BY <1>4, <1>5, <2>5, <2>6
<1> QED BY <1>6 DEF HealthyIsRising, recent, began

(* The ledger is the one record of the forward run: every session once, however *)
(* often record() broke off or was repeated; cumulative_pnl() is the sum of the *)
(* series; _max_drawdown is the largest fall of that sum; and a healthy verdict *)
(* means above zero and, unless all sessions of the trailing window are equal,  *)
(* above where the window began.                                                *)
THEOREM LedgerSound == Spec => []LedgerIsSound
<1>1. Init => LedgerInv /\ SumInv
  BY LedgerInvInit, SumInvInit
<1>2. LedgerInv /\ SumInv /\ [Next]_vars => LedgerInv' /\ SumInv'
  BY LedgerInvNext, SumInvNext
<1>3. LedgerInv /\ SumInv => LedgerIsSound
  BY LedgerInvCounted, LedgerCumulative, LedgerDrawdown, LedgerRising DEF LedgerIsSound
<1> QED BY <1>1, <1>2, <1>3, PTL DEF Spec

------------------------------------------------------------------------------
(* What the store says: the result of a call *)

\* The rows of the files and of the call in progress.
InHand == Stored \cup (IF write.pc = "writing" THEN write.final ELSE {})

\* The rows of the batch that a file was written, or is being written, for.
Handled ==
    {i \in DOMAIN write.batch :
        Partition(write.batch[i]) \in write.done \cup (IF write.pc = "writing" THEN {write.part} ELSE {})}

(* The inductive invariant: while a call runs, rows_written is by how much the *)
(* store has grown, the content about to be written included, and with         *)
(* dedupe_count it is the number of rows handled.                              *)
CountInv ==
    /\ IsFiniteSet(InHand)
    /\ tally \in [written : Int, deduped : Int, before : Int]
    /\ write.pc # "idle" =>
          /\ Cardinality(InHand) = tally.before + tally.written
          /\ tally.written + tally.deduped = Cardinality(Handled)
    /\ ResultAddsUp

LEMMA CountInvInit == Init => CountInv
<1> SUFFICES ASSUME Init PROVE CountInv
  OBVIOUS
<1>1. \A p \in Partitions : files[p].rows = {}
  BY DEF Init, StoreInit, NoFile
<1>2. write.pc = "idle"
  BY DEF Init, StoreInit, NoWrite
<1>3. InHand = {}
  BY <1>1, <1>2 DEF InHand, Stored
<1>4. tally = NoTally /\ result = NoResult
  BY DEF Init, StoreInit
<1> QED BY <1>2, <1>3, <1>4, FS_EmptySet DEF CountInv, NoTally, NoResult, ResultAddsUp

\* The group of a file, what is left of it and what of that is new are finite.
LEMMA GroupFinite ==
    ASSUME NEW batch \in Seq(Rows), NEW p, NEW old
    PROVE  /\ IsFiniteSet(PartOf(batch, p)) /\ Cardinality(PartOf(batch, p)) \in Nat
           /\ IsFiniteSet(Submitted(batch, p)) /\ Cardinality(Submitted(batch, p)) \in Nat
           /\ IsFiniteSet(NewOnly(old, Submitted(batch, p)))
           /\ Cardinality(NewOnly(old, Submitted(batch, p))) \in Nat
<1> DEFINE n == Len(batch)
           kept == {i \in PartOf(batch, p) :
                       \A j \in i + 1 .. Len(batch) : Key(batch[j]) # Key(batch[i])}
<1>1. n \in Nat /\ DOMAIN batch = 1 .. n
  OBVIOUS
<1>2. IsFiniteSet(1 .. n)
  BY <1>1, FS_Interval
<1>3. PartOf(batch, p) \in SUBSET (1 .. n)
  BY <1>1 DEF PartOf
<1>4. IsFiniteSet(PartOf(batch, p))
  BY <1>2, <1>3, FS_Subset
<1>5. kept \in SUBSET PartOf(batch, p)
  OBVIOUS
<1> HIDE DEF kept
<1>6. IsFiniteSet(kept)
  BY <1>4, <1>5, FS_Subset
<1> DEFINE take == [i \in kept |-> batch[i]]
<1>7. Submitted(batch, p) = {batch[i] : i \in kept}
  BY DEF Submitted, kept
<1>8. take \in Surjection(kept, Submitted(batch, p))
  BY <1>7 DEF Surjection
<1>9. IsFiniteSet(Submitted(batch, p))
  BY <1>6, <1>8, FS_Surjection
<1>10. NewOnly(old, Submitted(batch, p)) \in SUBSET Submitted(batch, p)
  BY DEF NewOnly
<1>11. IsFiniteSet(NewOnly(old, Submitted(batch, p)))
  BY <1>9, <1>10, FS_Subset
<1> QED BY <1>4, <1>9, <1>11, FS_CardinalityType

LEMMA CountInvBegin ==
    ASSUME StoreInv, CountInv, BeginWrite
    PROVE  CountInv'
<1>1. PICK i \in Groups(write.batch, write.done) :
          LET p == Partition(write.batch[i])
              counted == Counted(write.batch, p, files[p].rows)
          IN  /\ ~files[p].torn
              /\ files' = [files EXCEPT ![p] = [exists |-> TRUE, torn |-> TRUE, rows |-> {}]]
              /\ write' = [write EXCEPT !.pc = "writing", !.part = p,
                                        !.final = Merge(files[p].rows, Submitted(write.batch, p))]
              /\ tally' = [tally EXCEPT !.written = @ + counted.new, !.deduped = @ + counted.dupes]
  BY DEF BeginWrite
<1> DEFINE p == Partition(write.batch[i])
           sub == Submitted(write.batch, p)
           old == files[p].rows
           new == NewOnly(old, sub)
           group == PartOf(write.batch, p)
<1>2. write.batch \in Seq(Rows) /\ write.batch[i] \in Rows /\ i \in DOMAIN write.batch
  BY DEF StoreInv, StoreTypeOK, Groups
<1>3. p \in Partitions /\ p \notin write.done
  BY <1>2, PartitionFacts DEF Groups
<1>4. write.pc = "open" /\ result' = result
  BY DEF BeginWrite
<1>5. /\ IsFiniteSet(group) /\ Cardinality(group) \in Nat /\ Cardinality(sub) \in Nat
      /\ IsFiniteSet(new) /\ Cardinality(new) \in Nat
  BY <1>2, GroupFinite
<1>6. Tidy(sub, p) /\ Tidy(old, p)
  BY <1>2, <1>3, SubmittedTidy DEF StoreInv
<1>7. /\ write'.pc = "writing" /\ write'.part = p /\ write'.final = old \cup new
      /\ write'.batch = write.batch /\ write'.done = write.done
  BY <1>1 DEF StoreInv, StoreTypeOK, Merge
<1>8. /\ files'[p].rows = {} /\ \A q \in Partitions \ {p} : files'[q] = files[q]
  BY <1>1, <1>3 DEF StoreInv, StoreTypeOK
<1>9. /\ tally'.written = tally.written + Cardinality(new)
      /\ tally'.deduped = tally.deduped
             + ((Cardinality(group) - Cardinality(sub)) + (Cardinality(sub) - Cardinality(new)))
      /\ tally'.before = tally.before
      /\ tally' = [tally EXCEPT !.written = tally'.written, !.deduped = tally'.deduped]
  BY <1>1 DEF Counted, CountInv
<1>10. InHand = Stored
  BY <1>4 DEF InHand
<1> HIDE DEF new, sub, group
<1>11. InHand' = Stored \cup new
  <2>1. Stored = old \cup UNION {files[q].rows : q \in Partitions \ {p}}
    BY <1>3 DEF Stored
  <2>2. Stored' = UNION {files[q].rows : q \in Partitions \ {p}}
    BY <1>3, <1>8 DEF Stored
  <2> QED BY <1>7, <2>1, <2>2 DEF InHand
<1>12. Stored \cap new = {}
  <2> SUFFICES ASSUME NEW r \in Stored, r \in new PROVE FALSE
    OBVIOUS
  <2>1. r \in sub /\ Key(r) \notin KeysOf(old) /\ Partition(r) = p
    BY <1>6 DEF new, NewOnly, Tidy
  <2>2. r \in files[p].rows
    BY <2>1 DEF Stored, StoreInv, Tidy
  <2> QED BY <2>1, <2>2 DEF KeysOf
<1>13. IsFiniteSet(InHand') /\ Cardinality(InHand') = Cardinality(Stored) + Cardinality(new)
  <2>1. IsFiniteSet(Stored) /\ Cardinality(Stored) \in Nat
    BY <1>10, FS_CardinalityType DEF CountInv
  <2>2. Cardinality(Stored \cup new)
            = Cardinality(Stored) + Cardinality(new) - Cardinality(Stored \cap new)
    BY <1>5, <2>1, FS_Union
  <2>3. Cardinality(Stored \cap new) = 0
    BY <1>12, FS_EmptySet
  <2>4. IsFiniteSet(Stored \cup new)
    BY <1>5, <2>1, FS_Union
  <2> QED BY <1>5, <1>11, <2>1, <2>2, <2>3, <2>4
<1>14. Cardinality(Handled') = Cardinality(Handled) + Cardinality(group) /\ Cardinality(Handled) \in Nat
  <2>1. Handled' = Handled \cup group /\ Handled \cap group = {}
    BY <1>3, <1>4, <1>7 DEF Handled, group, PartOf
  <2>2. IsFiniteSet(Handled)
    <3>1. Len(write.batch) \in Nat /\ Handled \in SUBSET (1 .. Len(write.batch))
      BY <1>2 DEF Handled
    <3>2. IsFiniteSet(1 .. Len(write.batch))
      BY <3>1, FS_Interval
    <3> QED BY <3>1, <3>2, FS_Subset
  <2>3. Cardinality(Handled \cup group)
            = Cardinality(Handled) + Cardinality(group) - Cardinality(Handled \cap group)
    BY <1>5, <2>2, FS_Union
  <2>4. Cardinality(Handled \cap group) = 0 /\ Cardinality(Handled) \in Nat
    BY <2>1, <2>2, FS_EmptySet, FS_CardinalityType
  <2> QED BY <1>5, <2>1, <2>3, <2>4
<1>15. ResultAddsUp'
  BY <1>4 DEF CountInv, ResultAddsUp
<1>16. /\ tally' \in [written : Int, deduped : Int, before : Int]
       /\ Cardinality(InHand') = tally'.before + tally'.written
       /\ tally'.written + tally'.deduped = Cardinality(Handled')
  BY <1>4, <1>5, <1>9, <1>10, <1>13, <1>14 DEF CountInv
<1> QED BY <1>13, <1>15, <1>16 DEF CountInv

LEMMA CountInvEnd ==
    ASSUME StoreInv, CountInv, EndWrite
    PROVE  CountInv'
<1> DEFINE p == write.part
<1>1. /\ p \in Partitions /\ write.pc = "writing" /\ files[p].rows = {}
      /\ tally' = tally /\ result' = result
  BY DEF StoreInv, StoreTypeOK, EndWrite
<1>2. /\ write'.pc = "open" /\ write'.batch = write.batch /\ write'.done = write.done \cup {p}
      /\ files'[p].rows = write.final
      /\ \A q \in Partitions \ {p} : files'[q] = files[q]
  BY <1>1 DEF EndWrite, StoreInv, StoreTypeOK
<1>3. InHand' = InHand
  <2> DEFINE rest == UNION {files[q].rows : q \in Partitions \ {p}}
  <2>1. Stored = rest
    BY <1>1 DEF Stored
  <2>2. Stored' = write.final \cup rest
    BY <1>1, <1>2 DEF Stored
  <2> QED BY <1>1, <1>2, <2>1, <2>2 DEF InHand
<1>4. Handled' = Handled
  BY <1>1, <1>2 DEF Handled
<1> QED BY <1>1, <1>2, <1>3, <1>4 DEF CountInv, ResultAddsUp

LEMMA CountInvReturn ==
    ASSUME StoreInv, CountInv, Return
    PROVE  CountInv'
<1>1. /\ write.pc = "open" /\ Groups(write.batch, write.done) = {}
      /\ write' = NoWrite /\ tally' = NoTally /\ files' = files
      /\ result' = [written |-> tally.written, deduped |-> tally.deduped,
                    grown |-> Cardinality(Stored) - tally.before, submitted |-> Len(write.batch)]
  BY DEF Return
<1>2. InHand = Stored /\ InHand' = Stored
  BY <1>1 DEF InHand, Stored, NoWrite
<1>3. write.batch \in Seq(Rows)
  BY DEF StoreInv, StoreTypeOK
<1>4. Handled = 1 .. Len(write.batch)
  BY <1>1, <1>3 DEF Handled, Groups
<1>5. Cardinality(Handled) = Len(write.batch)
  <2>1. Len(write.batch) \in Nat
    BY <1>3
  <2>2. Cardinality(1 .. Len(write.batch))
            = IF 1 > Len(write.batch) THEN 0 ELSE Len(write.batch) - 1 + 1
    BY <2>1, FS_Interval
  <2> QED BY <1>4, <2>1, <2>2
<1>6. ResultAddsUp'
  BY <1>1, <1>2, <1>5 DEF CountInv, ResultAddsUp
<1>7. tally' \in [written : Int, deduped : Int, before : Int] /\ write'.pc = "idle"
  BY <1>1 DEF NoTally, NoWrite
<1> QED BY <1>2, <1>6, <1>7 DEF CountInv

\* A call that is given up: what its files hold stays.
LEMMA CountInvGivenUp ==
    ASSUME CountInv, files' = files, write' = NoWrite, tally' = NoTally, result' = result
    PROVE  CountInv'
<1>1. InHand' \in SUBSET InHand
  BY DEF InHand, Stored, NoWrite
<1>2. IsFiniteSet(InHand')
  BY <1>1, FS_Subset DEF CountInv
<1> QED BY <1>2 DEF CountInv, ResultAddsUp, NoTally, NoWrite

LEMMA CountInvNext == StoreInv /\ CountInv /\ [Next]_vars => CountInv'
<1> SUFFICES ASSUME StoreInv, CountInv, [Next]_vars PROVE CountInv'
  OBVIOUS
<1>1. CASE UNCHANGED storeVars
  <2>1. files' = files /\ write' = write /\ tally' = tally /\ result' = result
    BY <1>1 DEF storeVars
  <2>2. InHand' = InHand /\ Handled' = Handled /\ (ResultAddsUp' <=> ResultAddsUp)
    BY <2>1 DEF InHand, Stored, Handled, ResultAddsUp
  <2> QED BY <2>1, <2>2 DEF CountInv
<1>2. ASSUME NEW batch \in BoundedSeq(Rows, MaxBatch), Write(batch)
      PROVE  CountInv'
  <2>1. /\ write.pc = "idle" /\ write'.pc = "open" /\ write'.done = {} /\ files' = files
        /\ result' = NoResult
        /\ tally' = [written |-> 0, deduped |-> 0, before |-> Cardinality(Stored)]
    BY <1>2 DEF Write, NoWrite, NoTally
  <2>2. InHand = Stored /\ InHand' = Stored
    BY <2>1 DEF InHand, Stored
  <2>3. Handled' = {}
    BY <2>1 DEF Handled
  <2>4. Cardinality(Stored) \in Nat /\ Cardinality(Handled') = 0
    BY <2>2, <2>3, FS_CardinalityType, FS_EmptySet DEF CountInv
  <2>5. ResultAddsUp'
    BY <2>1 DEF ResultAddsUp, NoResult
  <2> QED BY <2>1, <2>2, <2>4, <2>5 DEF CountInv
<1>3. CASE BeginWrite
  BY <1>3, CountInvBegin
<1>4. CASE EndWrite
  BY <1>4, CountInvEnd
<1>5. CASE Return
  BY <1>5, CountInvReturn
<1>6. CASE Raise
  BY <1>6, CountInvGivenUp DEF Raise
<1>7. CASE Crash
  BY <1>7, CountInvGivenUp DEF Crash
<1>8. StoreStep \/ UNCHANGED storeVars
  BY DEF Next, LedgerStep, vars
<1> QED BY <1>1, <1>2, <1>3, <1>4, <1>5, <1>6, <1>7, <1>8 DEF StoreStep, StoreNext

------------------------------------------------------------------------------
(* What the store says: the order of the rows read *)

\* Rows that the sort keys put into one order.
InOrder(S) ==
    /\ IsFiniteSet(S)
    /\ \A r \in S : ~Before(r, r)
    /\ \A r, q \in S : r = q \/ Before(r, q) \/ Before(q, r)
    /\ \A r, q, t \in S : Before(r, q) /\ Before(q, t) => Before(r, t)

Below(S, r) == {q \in S : Before(q, r)}
RankIn(S, r) == Cardinality(Below(S, r))

\* A row is ranked by the rows before it: no two alike, and every rank is taken.
LEMMA RankFacts ==
    ASSUME NEW S, InOrder(S)
    PROVE  /\ Cardinality(S) \in Nat
           /\ \A r \in S : RankIn(S, r) \in 0 .. Cardinality(S) - 1
           /\ \A r, q \in S : RankIn(S, r) = RankIn(S, q) => r = q
           /\ \A k \in 0 .. Cardinality(S) - 1 : \E r \in S : RankIn(S, r) = k
<1> DEFINE R == {p \in S \X S : Before(p[1], p[2])}
<1>1. \A x, y \in S : <<x, y>> \in R <=> Before(x, y)
  OBVIOUS
<1> HIDE DEF R
<1>2. StrictOrder(S, R)
  BY <1>1 DEF InOrder, StrictOrder
<1>3. ASSUME NEW r \in S
      PROVE  RankBy(S, R, r) = RankIn(S, r)
  <2>1. Under(S, R, r) = Below(S, r)
    BY <1>1 DEF Under, Below
  <2> QED BY <2>1 DEF RankBy, RankIn
<1> QED BY <1>2, <1>3, RanksTaken

\* The sorted rows: place k + 1 is the row of rank k.
LEMMA SortedFacts ==
    ASSUME NEW S, InOrder(S)
    PROVE  /\ Sorted(S) \in Seq(S) /\ Len(Sorted(S)) = Cardinality(S)
           /\ \A i \in 1 .. Cardinality(S) : Sorted(S)[i] \in S /\ RankIn(S, Sorted(S)[i]) = i - 1
           /\ \A i \in 1 .. Cardinality(S), r \in S : RankIn(S, r) = i - 1 => Sorted(S)[i] = r
<1> DEFINE n == Cardinality(S)
           At(i) == CHOOSE r \in S : RankIn(S, r) = i - 1
<1>1. /\ n \in Nat
      /\ \A r, q \in S : RankIn(S, r) = RankIn(S, q) => r = q
      /\ \A k \in 0 .. n - 1 : \E r \in S : RankIn(S, r) = k
  BY RankFacts
<1>2. Sorted(S) = [i \in 1 .. n |-> At(i)]
  BY DEF Sorted, RankIn, Below
<1>3. ASSUME NEW i \in 1 .. n
      PROVE  At(i) \in S /\ RankIn(S, At(i)) = i - 1
  <2>1. i - 1 \in 0 .. n - 1
    BY <1>1
  <2>2. \E r \in S : RankIn(S, r) = i - 1
    BY <1>1, <2>1
  <2> QED BY <2>2
<1> HIDE DEF At
<1>4. \A i \in 1 .. n : Sorted(S)[i] = At(i)
  BY <1>2
<1>5. Sorted(S) \in Seq(S) /\ Len(Sorted(S)) = n
  BY <1>1, <1>2, <1>3
<1> QED BY <1>1, <1>3, <1>4, <1>5

\* What comes wholly before the rest comes first, as it would alone.
LEMMA SortedInTwo ==
    ASSUME NEW A, NEW B, InOrder(A \cup B), \A r \in A, q \in B : Before(r, q) /\ ~Before(q, r)
    PROVE  Sorted(A) \o Sorted(B) = Sorted(A \cup B)
<1> DEFINE S == A \cup B
           a == Cardinality(A)
           b == Cardinality(B)
<1>1. A \cap B = {}
  BY DEF InOrder
<1>2. IsFiniteSet(A) /\ IsFiniteSet(B)
  <2>1. A \in SUBSET S /\ B \in SUBSET S
    OBVIOUS
  <2> QED BY <2>1, FS_Subset DEF InOrder
<1>3. InOrder(A) /\ InOrder(B)
  BY <1>2 DEF InOrder
<1>4. a \in Nat /\ b \in Nat
  BY <1>2, FS_CardinalityType
<1>5. Cardinality(S) = a + b
  <2>1. Cardinality(A \cup B) = a + b - Cardinality(A \cap B)
    BY <1>2, FS_Union
  <2>2. Cardinality(A \cap B) = 0
    BY <1>1, FS_EmptySet
  <2> QED BY <1>4, <2>1, <2>2
<1>6. ASSUME NEW r \in A
      PROVE  RankIn(S, r) = RankIn(A, r)
  <2>1. Below(S, r) = Below(A, r)
    BY DEF Below
  <2> QED BY <2>1 DEF RankIn
<1>7. ASSUME NEW r \in B
      PROVE  RankIn(S, r) = a + RankIn(B, r)
  <2>1. Below(S, r) = A \cup Below(B, r) /\ A \cap Below(B, r) = {} /\ Below(B, r) \in SUBSET B
    BY <1>1 DEF Below
  <2>2. IsFiniteSet(Below(B, r)) /\ Cardinality(Below(B, r)) \in Nat
    BY <1>2, <2>1, FS_Subset, FS_CardinalityType
  <2>3. Cardinality(A \cup Below(B, r)) = a + Cardinality(Below(B, r)) - Cardinality(A \cap Below(B, r))
    BY <1>2, <2>2, FS_Union
  <2>4. Cardinality(A \cap Below(B, r)) = 0
    BY <2>1, FS_EmptySet
  <2>5. RankIn(S, r) = Cardinality(A \cup Below(B, r)) /\ RankIn(B, r) = Cardinality(Below(B, r))
    BY <2>1 DEF RankIn
  <2> HIDE DEF S, a
  <2> QED BY <1>4, <2>2, <2>3, <2>4, <2>5
<1> DEFINE sa == Sorted(A)
           sb == Sorted(B)
           s == Sorted(S)
<1>8. /\ sa \in Seq(A) /\ Len(sa) = a
      /\ \A i \in 1 .. a : sa[i] \in A /\ RankIn(A, sa[i]) = i - 1
  BY <1>3, SortedFacts
<1>9. /\ sb \in Seq(B) /\ Len(sb) = b
      /\ \A i \in 1 .. b : sb[i] \in B /\ RankIn(B, sb[i]) = i - 1
  BY <1>3, SortedFacts
<1>10. /\ s \in Seq(S) /\ Len(s) = Cardinality(S)
       /\ \A i \in 1 .. Cardinality(S), r \in S : RankIn(S, r) = i - 1 => s[i] = r
  BY SortedFacts
<1>11. sa \in Seq(S) /\ sb \in Seq(S)
  BY <1>8, <1>9
<1> HIDE DEF sa, sb, s, a, b, S
<1>12. /\ sa \o sb \in Seq(S) /\ Len(sa \o sb) = a + b
       /\ \A i \in 1 .. a + b : (sa \o sb)[i] = IF i <= a THEN sa[i] ELSE sb[i - a]
  <2>1. /\ sa \o sb \in Seq(S) /\ Len(sa \o sb) = Len(sa) + Len(sb)
        /\ \A i \in 1 .. Len(sa) + Len(sb) :
              (sa \o sb)[i] = IF i <= Len(sa) THEN sa[i] ELSE sb[i - Len(sa)]
    BY <1>11, ConcatProperties
  <2>2. Len(sa) = a /\ Len(sb) = b
    BY <1>8, <1>9
  <2> QED BY <2>1, <2>2
<1>13. ASSUME NEW i \in 1 .. a + b
       PROVE  (sa \o sb)[i] = s[i]
  <2>1. CASE i <= a
    <3>1. i \in 1 .. a
      BY <1>4, <2>1
    <3>2. sa[i] \in A /\ RankIn(S, sa[i]) = i - 1
      BY <1>6, <1>8, <3>1
    <3>3. s[i] = sa[i]
      BY <1>5, <1>10, <3>2 DEF S
    <3> QED BY <1>12, <2>1, <3>3
  <2>2. CASE ~(i <= a)
    <3>1. i - a \in 1 .. b
      BY <1>4, <2>2
    <3>2. sb[i - a] \in B /\ RankIn(B, sb[i - a]) = (i - a) - 1
      BY <1>9, <3>1
    <3>3. RankIn(S, sb[i - a]) = i - 1
      BY <1>4, <1>7, <3>2
    <3>4. s[i] = sb[i - a]
      BY <1>5, <1>10, <3>2, <3>3 DEF S
    <3> QED BY <1>12, <2>2, <3>4
  <2> QED BY <2>1, <2>2
<1>14. sa \o sb = s
  BY <1>5, <1>10, <1>12, <1>13, SeqEqual
<1> QED BY <1>14 DEF sa, sb, s, S

\* The rows of one contract, each key once, are in one order.
LEMMA RowsInOrder ==
    ASSUME StoreInv, CountInv, NEW c,
           NEW S \in SUBSET {r \in Stored : r.contract = c}
    PROVE  InOrder(S)
<1>1. IsFiniteSet(S)
  <2>1. S \in SUBSET InHand
    BY DEF InHand
  <2> QED BY <2>1, FS_Subset DEF CountInv
<1>2. \A r \in S : /\ r \in Rows /\ r.contract = c
                   /\ r \in files[Partition(r)].rows /\ Partition(r) \in Partitions
  BY DEF Stored, StoreInv, Tidy
<1>3. \A r \in S : r.at \in Nat /\ r.rank \in Nat /\ r.sha \in Nat
  <2>1. Times \subseteq Nat /\ Ranks \subseteq Nat /\ Shas \subseteq Nat
    BY StoreAssumption
  <2>2. \A r \in S : r.at \in Times /\ r.rank \in Ranks /\ r.sha \in Shas
    BY <1>2 DEF Rows
  <2> QED BY <2>1, <2>2
<1>4. ASSUME NEW r \in S, NEW q \in S, r.at = q.at, r.rank = q.rank, r.sha = q.sha
      PROVE  r = q
  <2>1. Key(r) = Key(q) /\ Partition(r) = Partition(q)
    BY <1>2, <1>4 DEF Key, Partition
  <2> QED BY <1>2, <2>1 DEF StoreInv, Tidy
<1>5. \A r \in S : ~Before(r, r)
  BY <1>3 DEF Before
<1>6. ASSUME NEW r \in S, NEW q \in S
      PROVE  r = q \/ Before(r, q) \/ Before(q, r)
  BY <1>3, <1>4 DEF Before
<1>7. ASSUME NEW r \in S, NEW q \in S, NEW t \in S, Before(r, q), Before(q, t)
      PROVE  Before(r, t)
  BY <1>3, <1>7 DEF Before
<1> QED BY <1>1, <1>5, <1>6, <1>7 DEF InOrder

LEMMA StoreReadsTile ==
    ASSUME StoreInv, CountInv
    PROVE  ReadsTile
<1> SUFFICES ASSUME NEW c \in Contracts, NEW a \in Times, NEW b \in Times, NEW d \in Times,
                    a <= b, b <= d
             PROVE  ReadBars(c, a, b, FALSE) \o ReadBars(c, b, d, TRUE) = ReadBars(c, a, d, TRUE)
  BY DEF ReadsTile
<1> DEFINE A == {r \in Stored : r.contract = c /\ InQuery(r.at, a, b, FALSE)}
           B == {r \in Stored : r.contract = c /\ InQuery(r.at, b, d, TRUE)}
           S == {r \in Stored : r.contract = c /\ InQuery(r.at, a, d, TRUE)}
<1>1. a \in Nat /\ b \in Nat /\ d \in Nat
  BY StoreAssumption
<1>2. \A r \in Stored : r.at \in Nat
  <2>1. \A r \in Stored : r.at \in Times
    BY DEF Stored, StoreInv, Tidy, Rows
  <2> QED BY <2>1, StoreAssumption
<1>3. S = A \cup B
  BY <1>1, <1>2 DEF InQuery
<1>4. \A r \in A, q \in B : Before(r, q) /\ ~Before(q, r)
  BY <1>1, <1>2 DEF InQuery, Before
<1>5. A \cup B \in SUBSET {r \in Stored : r.contract = c}
  OBVIOUS
<1>6. ReadBars(c, a, b, FALSE) = Sorted(A) /\ ReadBars(c, b, d, TRUE) = Sorted(B)
      /\ ReadBars(c, a, d, TRUE) = Sorted(S)
  BY DEF ReadBars
<1> HIDE DEF A, B, S
<1>7. InOrder(A \cup B)
  BY <1>5, RowsInOrder
<1>8. Sorted(A) \o Sorted(B) = Sorted(A \cup B)
  BY <1>4, <1>7, SortedInTwo
<1> QED BY <1>3, <1>6, <1>8

LEMMA StoreFinalLast ==
    ASSUME StoreInv, CountInv
    PROVE  FinalReadLast
<1> SUFFICES ASSUME NEW c \in Contracts, NEW d \in Times, ReadSettles(c, d, d) # <<>>,
                    NEW r \in Stored, r.contract = c, r.at = d
             PROVE  r.rank <= Last(ReadSettles(c, d, d)).rank
  BY DEF FinalReadLast
<1> DEFINE S == {q \in Stored : q.contract = c /\ InQuery(q.at, d, d, TRUE)}
           s == Sorted(S)
           n == Cardinality(S)
<1>1. ReadSettles(c, d, d) = s
  BY DEF ReadSettles, ReadBars
<1>2. S \in SUBSET {q \in Stored : q.contract = c}
  OBVIOUS
<1>3. d \in Nat /\ \A q \in Stored : q.at \in Nat /\ q.rank \in Nat /\ q.sha \in Nat
  <2>1. \A q \in Stored : q.at \in Times /\ q.rank \in Ranks /\ q.sha \in Shas
    BY DEF Stored, StoreInv, Tidy, Rows
  <2> QED BY <2>1, StoreAssumption
<1>4. r \in S /\ \A q \in S : q.at = d /\ q \in Stored
  BY <1>3 DEF InQuery
<1> HIDE DEF S
<1>5. InOrder(S)
  BY <1>2, RowsInOrder
<1>6. /\ n \in Nat /\ s \in Seq(S) /\ Len(s) = n
      /\ \A i \in 1 .. n : s[i] \in S /\ RankIn(S, s[i]) = i - 1
      /\ RankIn(S, r) \in 0 .. n - 1
      /\ \A i \in 1 .. n, q \in S : RankIn(S, q) = i - 1 => s[i] = q
  BY <1>4, <1>5, SortedFacts, RankFacts
<1>7. n \in 1 .. n /\ Last(s) = s[n]
  BY <1>6 DEF Last
<1> DEFINE l == s[n]
<1>8. l \in S /\ RankIn(S, l) = n - 1
  BY <1>6, <1>7
<1>9. r = l \/ Before(r, l)
  <2> SUFFICES ASSUME r # l PROVE Before(r, l)
    OBVIOUS
  <2>1. Below(S, l) \in SUBSET (S \ {l})
    BY <1>5 DEF Below, InOrder
  <2>2. IsFiniteSet(S \ {l}) /\ Cardinality(S \ {l}) = n - 1
    BY <1>5, <1>8, FS_RemoveElement DEF InOrder
  <2>3. Below(S, l) = S \ {l}
    BY <1>8, <2>1, <2>2, FS_Subset DEF RankIn
  <2> QED BY <1>4, <2>3 DEF Below
<1>10. r.rank <= l.rank
  BY <1>3, <1>4, <1>8, <1>9 DEF Before
<1> QED BY <1>1, <1>7, <1>10

(* The store says what it holds: StoreWriteResult counts the rows a call added *)
(* and accounts for every row handed in, whatever was torn or given up before; *)
(* reading a contract in two windows is reading it in one, and the last settle *)
(* read for a date is the most final one stored.                               *)
THEOREM StoreTellsTruth == Spec => []StoreTells
<1>1. Init => StoreInv /\ CountInv
  BY StoreInvInit, CountInvInit
<1>2. StoreInv /\ CountInv /\ [Next]_vars => StoreInv' /\ CountInv'
  BY StoreInvNext, CountInvNext
<1>3. StoreInv /\ CountInv => StoreTells
  BY StoreReadsTile, StoreFinalLast DEF StoreTells, StoreInv, CountInv
<1> QED BY <1>1, <1>2, <1>3, PTL DEF Spec

-----------------------------------------------------------------------------
(* The roll desk *)

\* Every day of the calendar is a positive number.
LEMMA DaysAreNumbers == TradingDays \subseteq Nat \ {0}
<1> SUFFICES ASSUME NEW y \in Years, NEW d \in TradingDaysOf(y) PROVE d \in Nat \ {0}
  BY DEF TradingDays
<1>1. y \in Int /\ y > 1
  BY CalendarAssumption DEF Years
<1>2. DaysBefore(y, 1) = 0
  BY DEF DaysBefore
<1>3. DaysBefore(y, 12) \in Int
  BY DEF DaysBefore
<1>4. Date(y, 1, 1) \in Int /\ Date(y, 1, 1) > 0
  BY <1>1, <1>2 DEF Date
<1>5. Date(y, 12, 31) \in Int
  BY <1>1, <1>3 DEF Date
<1>6. d \in Date(y, 1, 1) .. Date(y, 12, 31)
  BY DEF TradingDaysOf
<1> HIDE DEF Date
<1> QED BY <1>4, <1>5, <1>6

\* The days between two days of the calendar are finitely many.
LEMMA SpanIsFinite ==
    ASSUME NEW a \in Int, NEW z \in Int
    PROVE  LET span == {t \in TradingDays : a <= t /\ t <= z}
           IN IsFiniteSet(span) /\ Cardinality(span) \in Nat
<1> DEFINE all == a .. z
           span == {t \in TradingDays : a <= t /\ t <= z}
<1>1. IsFiniteSet(all)
  BY FS_Interval
<1>2. ASSUME NEW t \in span PROVE t \in all
  <2>1. t \in Int /\ a <= t /\ t <= z
    BY DaysAreNumbers
  <2> QED BY <2>1
<1> HIDE DEF all
<1>3. IsFiniteSet(span)
  BY <1>1, <1>2, FS_Subset
<1> QED BY <1>3, FS_CardinalityType

LEMMA FirstDayTrades ==
    ASSUME CalendarFits
    PROVE  FirstDay \in TradingDays
<1> DEFINE days == TradingDaysOf(StartYear)
<1>1. days # {} /\ StartYear \in Years
  BY RollAssumption, CalendarAssumption DEF CalendarFits, Years
<1>2. days \subseteq TradingDays
  BY <1>1 DEF TradingDays
<1> HIDE DEF days
<1>3. \E d \in days : \A e \in days : d <= e
  BY <1>1, <1>2, DaysAreNumbers, LeastNatural
<1>4. Min(days) \in days
  BY <1>3 DEF Min
<1> QED BY <1>2, <1>4 DEF FirstDay, days

\* next_trading_day: the first day of the calendar after today.
LEMMA NextTrades ==
    ASSUME CalendarFits, NEW d \in TradingDays, d < LastDay
    PROVE  /\ NextTradingDay(d) \in TradingDays /\ d < NextTradingDay(d)
           /\ \A t \in TradingDays : d < t => NextTradingDay(d) <= t
<1> DEFINE days == (d + 1 .. d + MaxCalendarSteps(1)) \cap TradingDays
<1>1. d \in Nat /\ MaxCalendarSteps(1) \in Nat
  BY DaysAreNumbers DEF MaxCalendarSteps
<1>2. \A t \in TradingDays : t \in days <=> d < t /\ t <= d + MaxCalendarSteps(1)
  BY <1>1, DaysAreNumbers
<1>3. days # {} /\ days \subseteq TradingDays
  <2>1. \E t \in TradingDays : d < t /\ t <= d + MaxCalendarSteps(1)
    BY DEF CalendarFits
  <2> QED BY <1>2, <2>1
<1>4. PICK n \in days : \A t \in days : n <= t
  <2> HIDE DEF days
  <2> QED BY <1>3, DaysAreNumbers, LeastNatural
<1>5. {t \in days : t <= n} = {n}
  BY <1>4, <1>3, DaysAreNumbers
<1>6. Cardinality({t \in days : t <= n}) = 1
  BY <1>5, FS_Singleton
<1> DEFINE m == NextTradingDay(d)
<1>7. m \in days /\ Cardinality({t \in days : t <= m}) = 1
  BY <1>4, <1>6 DEF NextTradingDay, AddTradingDays
<1>8. m = n
  <2> HIDE DEF days, m
  <2>1. n \in {t \in days : t <= m} /\ m \in {t \in days : t <= m}
    BY <1>3, <1>4, <1>7, DaysAreNumbers
  <2>2. IsFiniteSet({t \in days : t <= m})
    <3> DEFINE s == {t \in TradingDays : d + 1 <= t /\ t <= m}
    <3>1. IsFiniteSet(s)
      BY <1>1, <1>3, <1>7, DaysAreNumbers, SpanIsFinite
    <3>2. {t \in days : t <= m} \subseteq s
      BY <1>1, <1>3, DaysAreNumbers DEF days
    <3> QED BY <3>1, <3>2, FS_Subset
  <2>3. \E x : {t \in days : t <= m} = {x}
    BY <1>7, <2>2, FS_Singleton
  <2> QED BY <2>1, <2>3
<1> HIDE DEF m
<1>9. m \in TradingDays /\ d < m /\ m <= d + MaxCalendarSteps(1)
  BY <1>2, <1>3, <1>7
<1> HIDE DEF days
<1>10. \A t \in TradingDays : d < t => m <= t
  BY <1>1, <1>2, <1>4, <1>8, <1>9, DaysAreNumbers
<1> QED BY <1>9, <1>10 DEF m

\* The calendar's entry of a contract.
LEMMA EntryFacts ==
    ASSUME NEW c \in Fronts
    PROVE  /\ Calendar[c].front = c /\ Calendar[c].back = NextContract(c)
           /\ c.root \in Roots /\ c \in BuildCycle(c.root)
<1>1. PICK root \in Roots : c \in BuildCycle(root)
  BY DEF Fronts
<1>2. c.root = root
  BY <1>1 DEF BuildCycle, Contract
<1>3. Calendar[c] = Build(c)
  BY DEF Calendar
<1> QED BY <1>1, <1>2, <1>3 DEF Build, RollWindow

LEMMA WindowsAre ==
    /\ \A c : \A b : b \in Windows({c}) <=> c \in Fronts /\ b = Calendar[c]
    /\ \A root \in Roots : Windows(BuildCycle(root)) = {Calendar[c] : c \in BuildCycle(root)}
<1>1. \A root \in Roots : BuildCycle(root) \cap Fronts = BuildCycle(root)
  BY DEF Fronts
<1> QED BY <1>1 DEF Windows

LEMMA EntriesAre ==
    ASSUME NEW p, NEW e
    PROVE  e \in Entries({p})
           <=> p.qty # 0 /\ p.contract \in Fronts /\ e = [b |-> Calendar[p.contract], qty |-> p.qty]
<1> DEFINE here == {q \in {p} : q.qty # 0}
           Of(q) == {[b |-> b, qty |-> q.qty] : b \in Windows({q.contract})}
<1>1. Entries({p}) = UNION {Of(q) : q \in here}
  BY DEF Entries
<1>2. e \in Of(p) <=> p.contract \in Fronts /\ e = [b |-> Calendar[p.contract], qty |-> p.qty]
  BY WindowsAre
<1> HIDE DEF Of
<1> QED BY <1>1, <1>2

LEMMA HeldIs ==
    ASSUME NEW b
    PROVE  b \in HeldWindow <=> position.qty # 0 /\ position.contract \in Fronts /\ b = Calendar[position.contract]
<1>1. \A e : e \in Entries({position})
         <=> position.qty # 0 /\ position.contract \in Fronts
             /\ e = [b |-> Calendar[position.contract], qty |-> position.qty]
  BY EntriesAre
<1> DEFINE e == [b |-> Calendar[position.contract], qty |-> position.qty]
<1>2. e.b = Calendar[position.contract]
  OBVIOUS
<1> HIDE DEF e
<1> QED BY <1>1, <1>2 DEF HeldWindow, e

\* The days since the roll of a window was due.
Overdue(b) == {t \in TradingDays : b.target <= t /\ t <= today}

\* The window held is not one that was attended, its roll is overdue by no more
\* days than nobody came, and every earlier window of the root is behind.
OnTime(b) ==
    /\ attended < b.target
    /\ Cardinality(Overdue(b)) <= absent + 1
    /\ \A c \in BuildCycle(b.front.root) : Calendar[c].target < b.target => Calendar[c].target <= today

(* The inductive invariant of the desk. *)
DeskInv ==
    /\ today \in TradingDays
    /\ attended \in Int /\ attended <= today
    /\ absent \in 0 .. MaxAbsence
    /\ \A b \in HeldWindow : OnTime(b)
    /\ \A d \in decisions : d.back = position.contract /\ d.back = NextContract(d.front)

\* What CalendarFits says of one window.
LEMMA WindowFits ==
    ASSUME CalendarFits, NEW c \in Fronts
    PROVE  /\ Ordered(Calendar[c]) /\ Calendar[c].deadline < Delivery(Calendar[c])
           /\ Calendar[c].target \in TradingDays /\ Calendar[c].target \in Nat \ {0}
           /\ Calendar[c].deadline \in TradingDays
BY DaysAreNumbers DEF CalendarFits, IsTradingDay

\* FirstToRoll picks the next window of the root.
LEMMA ActiveIsFirst ==
    ASSUME CalendarFits, NEW root \in Roots, NEW day \in Nat,
           \E c \in BuildCycle(root) : day < Calendar[c].target
    PROVE  /\ ActiveContract(root, day) \in BuildCycle(root)
           /\ day < Calendar[ActiveContract(root, day)].target
           /\ \A c \in BuildCycle(root) :
                 Calendar[c].target < Calendar[ActiveContract(root, day)].target
                 => Calendar[c].target <= day
<1> DEFINE ahead == {b \in Windows(BuildCycle(root)) : day < b.target}
           due == {b.target : b \in ahead}
<1>1. \A c \in BuildCycle(root) : c \in Fronts
  BY DEF Fronts
<1>2. \A b : b \in ahead <=> \E c \in BuildCycle(root) : b = Calendar[c] /\ day < b.target
  BY WindowsAre
<1>3. \A b \in ahead : b.target \in Nat
  BY <1>1, <1>2, WindowFits
<1>4. due # {} /\ due \subseteq Nat
  BY <1>2, <1>3
<1> HIDE DEF ahead
<1>5. \E b \in ahead : \A w \in ahead : b.target <= w.target
  <2>1. PICK n \in due : \A m \in due : n <= m
    <3> HIDE DEF due
    <3> QED BY <1>4, LeastNatural
  <2> QED BY <2>1
<1> DEFINE nearest == FirstToRoll(ahead)
<1>6. nearest \in ahead /\ \A w \in ahead : nearest.target <= w.target
  BY <1>5 DEF FirstToRoll
<1> HIDE DEF nearest
<1>7. PICK c \in BuildCycle(root) : nearest = Calendar[c] /\ day < nearest.target
  BY <1>2, <1>6
<1>8. ActiveContract(root, day) = c
  <2>1. ActiveContract(root, day) = nearest.front
    BY DEF ActiveContract, nearest, ahead
  <2> QED BY <2>1, <1>1, <1>7, EntryFacts
<1>9. ASSUME NEW w \in BuildCycle(root), Calendar[w].target < nearest.target
      PROVE  Calendar[w].target <= day
  <2>1. Calendar[w].target \in Nat /\ nearest.target \in Nat
    BY <1>1, <1>3, <1>6, WindowFits
  <2>2. Calendar[w] \in ahead <=> day < Calendar[w].target
    BY <1>2
  <2> QED BY <1>6, <1>9, <2>1, <2>2
<1> QED BY <1>7, <1>8, <1>9

\* A window that is ahead of today is the one to roll next when all earlier ones
\* are behind.
LEMMA FirstIsActive ==
    ASSUME CalendarFits, NEW c \in Fronts, NEW day \in Nat, day < Calendar[c].target,
           \A w \in BuildCycle(c.root) : Calendar[w].target < Calendar[c].target => Calendar[w].target <= day
    PROVE  c = ActiveContract(c.root, day)
<1> DEFINE a == ActiveContract(c.root, day)
<1>1. c.root \in Roots /\ c \in BuildCycle(c.root)
  BY EntryFacts
<1>2. /\ a \in BuildCycle(c.root) /\ day < Calendar[a].target
      /\ \A w \in BuildCycle(c.root) : Calendar[w].target < Calendar[a].target => Calendar[w].target <= day
  BY <1>1, ActiveIsFirst
<1> HIDE DEF a
<1>3. a \in Fronts
  BY <1>1, <1>2 DEF Fronts
<1>4. Calendar[a].target \in Nat /\ Calendar[c].target \in Nat
  BY <1>3, WindowFits
<1>5. Calendar[a].target = Calendar[c].target
  BY <1>1, <1>2, <1>4
<1>6. a = c
  BY <1>1, <1>2, <1>5 DEF CalendarFits
<1> QED BY <1>6 DEF a

LEMMA DeskInvInit ==
    ASSUME CalendarFits, DeskInit
    PROVE  DeskInv
<1>1. today = FirstDay /\ attended = 0 /\ absent = 0 /\ decisions = {}
  BY DEF DeskInit
<1>2. today \in TradingDays /\ today \in Nat
  BY <1>1, FirstDayTrades, DaysAreNumbers
<1>3. PICK root \in Roots, q \in Quantities :
          position = [contract |-> ActiveContract(root, today), qty |-> q]
  BY DEF DeskInit
<1> DEFINE c == position.contract
<1>4. c = ActiveContract(root, today)
  BY <1>3
<1>5. \E w \in BuildCycle(root) : today < Calendar[w].target
  BY <1>1 DEF CalendarFits
<1>6. /\ c \in BuildCycle(root) /\ today < Calendar[c].target
      /\ \A w \in BuildCycle(root) : Calendar[w].target < Calendar[c].target => Calendar[w].target <= today
  BY <1>2, <1>4, <1>5, ActiveIsFirst
<1> HIDE DEF c
<1>7. c \in Fronts /\ c.root = root
  <2>1. c \in BuildCycle(root)
    BY <1>6
  <2>2. c \in Fronts
    BY <2>1 DEF Fronts
  <2>3. c.root = root
    BY <2>1 DEF BuildCycle, Contract
  <2> QED BY <2>2, <2>3
<1>8. ASSUME NEW b \in HeldWindow PROVE OnTime(b)
  <2>1. b = Calendar[c]
    BY HeldIs DEF c
  <2>2. b.front.root = root /\ b.target \in Nat \ {0}
    BY <2>1, <1>7, EntryFacts, WindowFits
  <2>3. Overdue(b) = {}
    <3>1. today < b.target
      BY <1>6, <2>1
    <3>2. \A t \in TradingDays : ~(b.target <= t /\ t <= today)
      BY <3>1, <1>2, <2>2, DaysAreNumbers
    <3> QED BY <3>2 DEF Overdue
  <2>4. Cardinality(Overdue(b)) = 0
    BY <2>3, FS_EmptySet
  <2> QED BY <1>1, <1>6, <2>1, <2>2, <2>4 DEF OnTime
<1> QED BY <1>1, <1>2, <1>8, RollAssumption DEF DeskInv

\* One more day is overdue at most when the calendar moves on to the next one.
LEMMA OneMoreDay ==
    ASSUME CalendarFits, DeskInv, today < LastDay, today' = NextTradingDay(today),
           NEW b, b.target \in Nat
    PROVE  /\ Cardinality(Overdue(b)') \in Nat /\ Cardinality(Overdue(b)) \in Nat
           /\ Cardinality(Overdue(b)') <= Cardinality(Overdue(b)) + 1
<1>1. today \in TradingDays /\ today \in Nat
  BY DaysAreNumbers DEF DeskInv
<1>2. /\ today' \in TradingDays /\ today' \in Nat /\ today < today'
      /\ \A t \in TradingDays : today < t => today' <= t
  BY <1>1, NextTrades, DaysAreNumbers
<1> DEFINE old == Overdue(b)
           new == Overdue(b)'
<1>3. /\ old = {t \in TradingDays : b.target <= t /\ t <= today}
      /\ new = {t \in TradingDays : b.target <= t /\ t <= today'}
  BY DEF Overdue
<1>4. IsFiniteSet(old) /\ Cardinality(old) \in Nat /\ IsFiniteSet(new) /\ Cardinality(new) \in Nat
  BY <1>1, <1>2, <1>3, SpanIsFinite
<1>5. new \subseteq old \cup {today'}
  <2> SUFFICES ASSUME NEW t \in TradingDays, b.target <= t, t <= today', t # today' PROVE t <= today
    BY <1>3
  <2> QED BY <1>1, <1>2, DaysAreNumbers
<1> HIDE DEF old, new
<1>6. IsFiniteSet(old \cup {today'}) /\ Cardinality(old \cup {today'}) <= Cardinality(old) + 1
      /\ Cardinality(old \cup {today'}) \in Nat
  <2>1. PICK n : n = today'
    OBVIOUS
  <2>2. /\ IsFiniteSet(old \cup {n})
        /\ Cardinality(old \cup {n}) = IF n \in old THEN Cardinality(old) ELSE Cardinality(old) + 1
    BY <1>4, FS_AddElement
  <2> QED BY <1>4, <2>1, <2>2
<1>7. Cardinality(new) <= Cardinality(old \cup {today'})
  BY <1>5, <1>6, FS_Subset
<1> QED BY <1>4, <1>6, <1>7 DEF old, new

LEMMA NextDayOnTime ==
    ASSUME CalendarFits, DeskInv, NextDay
    PROVE  DeskInv'
<1>1. /\ today < LastDay /\ today' = NextTradingDay(today)
      /\ decisions' = {} /\ position' = position /\ attended' = attended
      /\ attended = today \/ absent < MaxAbsence
      /\ absent' = IF attended = today THEN 0 ELSE absent + 1
  BY DEF NextDay
<1>2. /\ today \in TradingDays /\ today \in Nat /\ attended \in Int /\ attended <= today
      /\ absent \in Nat /\ absent <= MaxAbsence /\ MaxAbsence \in Nat
  BY RollAssumption, DaysAreNumbers DEF DeskInv
<1>3. today' \in TradingDays /\ today' \in Nat /\ today < today'
  BY <1>1, <1>2, NextTrades, DaysAreNumbers
<1>4. absent' \in 0 .. MaxAbsence /\ attended' <= today'
  BY <1>1, <1>2, <1>3
<1>5. HeldWindow' = HeldWindow
  BY <1>1 DEF HeldWindow
<1>6. ASSUME NEW b \in HeldWindow PROVE OnTime(b)'
  <2>1. b.target \in Nat
    BY HeldIs, WindowFits
  <2>2. /\ attended < b.target /\ Cardinality(Overdue(b)) <= absent + 1
        /\ \A c \in BuildCycle(b.front.root) : Calendar[c].target < b.target => Calendar[c].target <= today
    BY DEF DeskInv, OnTime
  <2>3. /\ Cardinality(Overdue(b)') \in Nat /\ Cardinality(Overdue(b)) \in Nat
        /\ Cardinality(Overdue(b)') <= Cardinality(Overdue(b)) + 1
    BY <1>1, <2>1, OneMoreDay
  <2>4. Cardinality(Overdue(b)') <= absent' + 1
    <3>1. CASE attended = today
      <4>1. \A t \in TradingDays : ~(b.target <= t /\ t <= today)
        <5>1. today < b.target
          BY <2>2, <3>1
        <5>2. \A t \in TradingDays : t \in Nat
          BY DaysAreNumbers
        <5> QED BY <1>2, <2>1, <5>1, <5>2
      <4>2. Cardinality(Overdue(b)) = 0
        BY <4>1, FS_EmptySet DEF Overdue
      <4> QED BY <1>1, <2>3, <3>1, <4>2
    <3>2. CASE attended # today
      BY <1>1, <1>2, <2>2, <2>3, <3>2
    <3> QED BY <3>1, <3>2
  <2>5. ASSUME NEW c \in BuildCycle(b.front.root), Calendar[c].target < b.target
        PROVE  Calendar[c].target <= today'
    <3>1. b.front.root \in Roots
      BY HeldIs, EntryFacts
    <3>2. Calendar[c].target \in Nat
      BY <3>1, WindowFits DEF Fronts
    <3> QED BY <1>2, <1>3, <2>2, <2>5, <3>2
  <2> QED BY <1>1, <2>2, <2>4, <2>5 DEF OnTime
<1> QED BY <1>1, <1>2, <1>3, <1>4, <1>5, <1>6 DEF DeskInv

\* decide_rolls on the position: nothing, or the roll of the window held.
LEMMA DecisionIs ==
    ASSUME NEW divergent \in BOOLEAN, NEW bag \in BOOLEAN, NEW day,
           NEW d \in DecideRolls(day, {position}, divergent, bag)
    PROVE  /\ position.qty # 0 /\ position.contract \in Fronts
           /\ Calendar[position.contract].target <= day
           /\ d.front = position.contract /\ d.back = NextContract(position.contract)
           /\ d.qty = position.qty
<1>1. PICK w \in Entries({position}) :
          /\ w.b.target <= day
          /\ \E method : d = Decision(w.b, w.qty, day, method)
  BY DEF DecideRolls
<1>2. /\ position.qty # 0 /\ position.contract \in Fronts
      /\ w = [b |-> Calendar[position.contract], qty |-> position.qty]
  BY EntriesAre
<1>3. w.b = Calendar[position.contract] /\ w.qty = position.qty
  BY <1>2
<1>4. d.front = w.b.front /\ d.back = w.b.back /\ d.qty = w.qty
  BY <1>1 DEF Decision
<1> QED BY <1>1, <1>2, <1>3, <1>4, EntryFacts

\* The next window of the root is not due yet when a window held on time is rolled.
LEMMA BackIsAhead ==
    ASSUME CalendarFits, DeskInv, NEW c \in Fronts, Calendar[c].target <= today,
           OnTime(Calendar[c]), NextContract(c) \in Fronts
    PROVE  /\ today < Calendar[NextContract(c)].target
           /\ \A w \in BuildCycle(c.root) :
                 Calendar[w].target < Calendar[NextContract(c)].target => Calendar[w].target <= today
<1> DEFINE from == Calendar[c].target
           to == Calendar[NextContract(c)].target
           gap == {t \in TradingDays : from <= t /\ t < to}
<1>1. /\ Cardinality(gap) > MaxAbsence + 1
      /\ \A w \in BuildCycle(c.root) : Calendar[w].target <= from \/ to <= Calendar[w].target
  BY DEF CalendarFits
<1>2. from \in Nat /\ to \in Nat /\ today \in Nat /\ absent \in Nat /\ absent <= MaxAbsence /\ MaxAbsence \in Nat
  BY WindowFits, RollAssumption, DaysAreNumbers DEF DeskInv
<1>3. Overdue(Calendar[c]) = {t \in TradingDays : from <= t /\ t <= today}
  BY DEF Overdue
<1>4. Cardinality(Overdue(Calendar[c])) <= absent + 1
  BY DEF OnTime
<1> HIDE DEF from, to
<1>5. today < to
  <2> SUFFICES ASSUME to <= today PROVE FALSE
    BY <1>2
  <2>1. gap \subseteq Overdue(Calendar[c])
    <3>1. \A t \in TradingDays : t < to => t <= today
      BY <1>2, DaysAreNumbers
    <3> QED BY <1>3, <3>1
  <2>2. IsFiniteSet(Overdue(Calendar[c])) /\ Cardinality(Overdue(Calendar[c])) \in Nat
    BY <1>2, <1>3, SpanIsFinite
  <2> HIDE DEF gap
  <2>3. Cardinality(gap) <= Cardinality(Overdue(Calendar[c])) /\ IsFiniteSet(gap)
    BY <2>1, <2>2, FS_Subset
  <2>4. Cardinality(gap) \in Nat
    BY <2>3, FS_CardinalityType
  <2> QED BY <1>1, <1>2, <1>4, <2>2, <2>3, <2>4
<1>6. ASSUME NEW w \in BuildCycle(c.root), Calendar[w].target < to
      PROVE  Calendar[w].target <= today
  <2>1. c.root \in Roots
    BY EntryFacts
  <2>2. Calendar[w].target \in Nat
    BY <2>1, WindowFits DEF Fronts
  <2>3. Calendar[w].target <= from /\ from <= today
    BY <1>1, <1>2, <1>6, <2>2 DEF from
  <2> QED BY <1>2, <2>2, <2>3
<1> QED BY <1>5, <1>6 DEF to

LEMMA AttendOnTime ==
    ASSUME CalendarFits, DeskInv, Attend
    PROVE  DeskInv'
<1>1. /\ attended' = today /\ absent' = 0 /\ today' = today
      /\ position' = IF decisions' = {} THEN position
                     ELSE LET d == CHOOSE d \in decisions' : TRUE
                          IN [contract |-> d.back, qty |-> d.qty]
  BY DEF Attend
<1>2. PICK divergent \in BOOLEAN, bag \in BOOLEAN :
          decisions' = DecideRolls(today, {position}, divergent, bag)
  BY DEF Attend
<1>3. today \in TradingDays /\ today \in Nat /\ MaxAbsence \in Nat
  BY DaysAreNumbers, RollAssumption DEF DeskInv
<1> DEFINE c == position.contract
           k == NextContract(c)
<1>4. ASSUME NEW e \in Fronts, e.root \in Roots, today < Calendar[e].target,
             \A w \in BuildCycle(e.root) : Calendar[w].target < Calendar[e].target => Calendar[w].target <= today
      PROVE  OnTime(Calendar[e])'
  <2>1. Calendar[e].target \in Nat /\ Calendar[e].front = e
    BY WindowFits, EntryFacts
  <2>2. \A t \in TradingDays : ~(Calendar[e].target <= t /\ t <= today)
    <3>1. \A t \in TradingDays : t \in Nat
      BY DaysAreNumbers
    <3> QED BY <1>3, <1>4, <2>1, <3>1
  <2>3. Cardinality(Overdue(Calendar[e])') = 0
    BY <1>1, <2>2, FS_EmptySet DEF Overdue
  <2> QED BY <1>1, <1>4, <2>1, <2>3 DEF OnTime
<1>5. CASE decisions' = {}
  <2>1. position' = position
    BY <1>1, <1>5
  <2>2. ASSUME NEW b \in HeldWindow' PROVE OnTime(b)'
    <3>1. b \in HeldWindow
      BY <2>1 DEF HeldWindow
    <3>2. position.qty # 0 /\ c \in Fronts /\ b = Calendar[c]
      BY <3>1, HeldIs
    <3>3. OnTime(b)
      BY <3>1 DEF DeskInv
    <3>4. today < b.target
      <4> SUFFICES ASSUME b.target <= today PROVE FALSE
        BY <1>3, <3>2, WindowFits
      <4> DEFINE e == [b |-> Calendar[c], qty |-> position.qty]
      <4>1. e \in Entries({position})
        BY <3>2, EntriesAre
      <4>2. e.b.target <= today
        BY <3>2
      <4> HIDE DEF e
      <4>3. DecideRolls(today, {position}, divergent, bag) # {}
        BY <4>1, <4>2 DEF DecideRolls
      <4> QED BY <1>2, <1>5, <4>3
    <3>5. b.front = c /\ c.root \in Roots
      BY <3>2, EntryFacts
    <3> HIDE DEF c
    <3> QED BY <1>4, <3>2, <3>3, <3>4, <3>5 DEF OnTime
  <2> QED BY <1>1, <1>3, <1>5, <2>2 DEF DeskInv
<1>6. CASE decisions' # {}
  <2>1. PICK d \in decisions' : position' = [contract |-> d.back, qty |-> d.qty]
    BY <1>1, <1>6
  <2>2. \A x \in decisions' : x.front = c /\ x.back = k
    BY <1>2, DecisionIs
  <2>3. /\ c \in Fronts /\ position.qty # 0 /\ Calendar[c].target <= today
        /\ position'.contract = k
    BY <1>2, <2>1, DecisionIs
  <2>4. OnTime(Calendar[c])
    BY <2>3, HeldIs DEF DeskInv
  <2>5. k.root = c.root
    BY DEF NextContract, Contract
  <2> HIDE DEF c, k
  <2>6. ASSUME NEW b \in HeldWindow' PROVE OnTime(b)'
    <3>1. k \in Fronts /\ b = Calendar[k]
      <4>1. \A e : (e \in Entries({position}))'
               => (position'.contract \in Fronts /\ e.b = Calendar[position'.contract])
        <5>1. PICK p : p = position'
          OBVIOUS
        <5>2. ASSUME NEW e, e \in Entries({p}) PROVE p.contract \in Fronts /\ e.b = Calendar[p.contract]
          BY <5>2, EntriesAre
        <5>3. Entries({position})' = Entries({p})
          BY <5>1 DEF Entries
        <5> QED BY <5>1, <5>2, <5>3
      <4> QED BY <2>3, <4>1 DEF HeldWindow
    <3>2. c.root \in Roots
      BY <2>3, EntryFacts
    <3>3. /\ today < Calendar[k].target
          /\ \A w \in BuildCycle(c.root) : Calendar[w].target < Calendar[k].target => Calendar[w].target <= today
      BY <2>3, <2>4, <3>1, BackIsAhead DEF k
    <3> QED BY <1>4, <2>5, <3>1, <3>2, <3>3
  <2>7. \A x \in decisions' : x.back = position'.contract /\ x.back = NextContract(x.front)
    BY <2>2, <2>3 DEF k
  <2> QED BY <1>1, <1>3, <2>6, <2>7 DEF DeskInv
<1> QED BY <1>5, <1>6

LEMMA DeskStep ==
    ASSUME CalendarFits, DeskInv, [DeskNext]_deskVars
    PROVE  DeskInv'
<1>1. CASE Attend
  BY <1>1, AttendOnTime
<1>2. CASE NextDay
  BY <1>2, NextDayOnTime
<1>3. CASE UNCHANGED deskVars
  BY <1>3 DEF DeskInv, OnTime, Overdue, HeldWindow, Entries, deskVars
<1> QED BY <1>1, <1>2, <1>3 DEF DeskNext

LEMMA DeskInductive ==
    ASSUME CalendarFits
    PROVE  DeskSpec => []DeskInv
BY DeskInvInit, DeskStep, PTL DEF DeskSpec

\* A position is carried into delivery, and SEQUENTIAL_EMERGENCY decided, only after
\* an absence that began before its roll window, however often the desk was away
\* before, for every calendar whose windows lie further apart than the longest
\* absence (roll_executor.py, RollExecutor.decide_rolls, RollCalendarBuilder.build).
THEOREM RollsAreInTime ==
    ASSUME CalendarFits
    PROVE  DeskSpec => []RollsInTime
<1>1. DeskInv => RollsInTime
  <2> SUFFICES ASSUME DeskInv, NEW b \in HeldWindow
               PROVE  attended < b.target /\ b.deadline < Delivery(b)
    BY DEF RollsInTime, FlatBeforeDelivery, EmergencyIsAbsence
  <2> QED BY HeldIs, WindowFits DEF DeskInv, OnTime
<1> QED BY <1>1, DeskInductive, PTL

\* Whenever the desk has acted it holds the contract that the continuous series
\* splices in for that day, however long it was absent, and a decision closes the
\* contract held and opens the next of its cycle (roll_executor.py,
\* RollExecutor.decide_rolls; continuous.py, ContinuousSeriesBuilder.build).
THEOREM DeskFollowsSeries ==
    ASSUME CalendarFits
    PROVE  DeskSpec => [](RollTypeOK /\ DeskHoldsSeries)
<1>1. DeskInv => RollTypeOK
  <2> SUFFICES ASSUME DeskInv PROVE RollTypeOK
    OBVIOUS
  <2>1. absent \in 0 .. MaxAbsence + 1
    BY RollAssumption DEF DeskInv
  <2>2. \A b \in Windows({position.contract}) :
            Ordered(b) /\ IsTradingDay(b.target) /\ IsTradingDay(b.deadline)
    BY WindowsAre, WindowFits DEF IsTradingDay
  <2> QED BY <2>1, <2>2 DEF RollTypeOK, DeskInv, IsTradingDay
<1>2. DeskInv => DeskHoldsSeries
  <2> SUFFICES ASSUME DeskInv, NEW b \in HeldWindow, attended = today
               PROVE  b.front = ActiveContract(b.front.root, today)
    BY DEF DeskHoldsSeries
  <2>1. position.contract \in Fronts /\ b = Calendar[position.contract]
    BY HeldIs
  <2>2. b.front = position.contract
    BY <2>1, EntryFacts
  <2>3. today \in Nat /\ OnTime(b)
    BY DaysAreNumbers DEF DeskInv
  <2> QED BY <2>1, <2>2, <2>3, FirstIsActive DEF OnTime
<1> QED BY <1>1, <1>2, DeskInductive, PTL
=============================================================================
