-------------------------- MODULE Portfolio_proofs --------------------------
(***************************************************************************)
(* Theorems about the continuous series and about PortfolioBacktestEngine, *)
(* which runs on them, for every set of contracts, every data set, every   *)
(* price and every answer of the strategy.                                 *)
(***************************************************************************)
EXTENDS PortfolioBacktestEngine, MockBroker_proofs

-----------------------------------------------------------------------------
(* Largest and smallest days                                                 *)

LEMMA MaxFacts ==
    ASSUME NEW s \in SUBSET Nat, IsFiniteSet(s), s # {}
    PROVE  Max(s) \in s /\ \A x \in s : x <= Max(s)
<1>1. \E m \in s : \A x \in s : x <= m
  BY LargestNatural
<1>2. \A m, x \in s : x <= m <=> m >= x
  OBVIOUS
<1>3. \E m \in s : \A x \in s : m >= x
  BY <1>1, <1>2
<1>4. Max(s) \in s /\ \A x \in s : Max(s) >= x
  BY <1>3 DEF Max
<1> QED BY <1>2, <1>4

LEMMA MinFacts ==
    ASSUME NEW s \in SUBSET Nat, s # {}
    PROVE  Min(s) \in s /\ \A x \in s : Min(s) <= x
<1>1. \E m \in s : \A x \in s : m <= x
  BY LeastNatural
<1>2. Min(s) \in s /\ \A x \in s : Min(s) =< x
  BY <1>1 DEF Min
<1> QED BY <1>2

-----------------------------------------------------------------------------
(* The series of one root                                                    *)

LEMMA DataFacts ==
    /\ IsFiniteSet(Contracts) /\ Expiries = Contracts /\ IsFiniteSet(Days)
    /\ \A d \in Days : d \in Nat \ {0}
    /\ \A h \in Haves, c \in Contracts : h[c] \in SUBSET Days
    /\ \A c \in Contracts : Target[c] \in Nat /\ Ltd[c] \in Nat
    /\ \A c, d \in Contracts : Root[c] = Root[d] /\ Target[c] = Target[d] => c = d
BY ConstantsAssumption, PortfolioAssumption, SeriesAssumption

\* The window of a contract, target by target.
LEMMA WindowFacts ==
    ASSUME NEW h \in Haves, NEW c \in Contracts, NEW d \in Nat
    PROVE  InWindow(h, c, d) <=>
              /\ d < Target[c]
              /\ \A b \in Present(h, Root[c]) : Target[b] < Target[c] => Target[b] <= d
<1> DEFINE P == {b \in Present(h, Root[c]) : Target[b] < Target[c]}
           E == EarlierTargets(h, c)
<1>1. P \in SUBSET Contracts /\ \A b \in P : Target[b] \in Nat
  BY DataFacts DEF Present
<1>2. E = {Target[b] : b \in P}
  BY DEF EarlierTargets
<1>3. E \in SUBSET Nat
  BY <1>1, <1>2
<1>4. IsFiniteSet(E)
  <2> DEFINE f == [b \in P |-> Target[b]]
  <2>1. IsFiniteSet(P)
    BY <1>1, DataFacts, FS_Subset
  <2>2. f \in Surjection(P, E)
    BY <1>2 DEF Surjection
  <2> QED BY <2>1, <2>2, FS_Surjection
<1>5. CASE E = {}
  BY <1>2, <1>5 DEF InWindow
<1>6. CASE E # {}
  <2>1. Max(E) \in E /\ \A x \in E : x <= Max(E)
    BY <1>3, <1>4, <1>6, MaxFacts
  <2>2. Max(E) \in Nat /\ \A b \in P : Target[b] \in E
    BY <1>2, <1>3, <2>1
  <2>3. PICK b \in P : Max(E) = Target[b]
    BY <1>2, <2>1
  <2>4. InWindow(h, c, d) <=> d >= Max(E) /\ d < Target[c]
    BY <1>6 DEF InWindow
  <2> HIDE DEF E
  <2>5. d >= Max(E) <=> \A x \in P : Target[x] <= d
    BY <1>1, <2>1, <2>2, <2>3
  <2> QED BY <2>4, <2>5
<1> QED BY <1>5, <1>6

\* The bars of a root that are in the window of their contract.
BarsOf(h, r) ==
    {b \in [contract : Present(h, r), day : UNION {h[c] : c \in Expiries}] :
        b.day \in h[b.contract] /\ InWindow(h, b.contract, b.day)}

Precedes(a, b) ==
    \/ Target[a.contract] < Target[b.contract]
    \/ a.contract = b.contract /\ a.day < b.day

AnyBars == [contract : Contracts, day : Days]

LEMMA AnyBarsFinite == IsFiniteSet(AnyBars)
<1> DEFINE f == [p \in Contracts \X Days |-> [contract |-> p[1], day |-> p[2]]]
<1>1. IsFiniteSet(Contracts \X Days)
  BY DataFacts, FS_Product
<1>2. f \in Surjection(Contracts \X Days, AnyBars)
  <2>1. f \in [Contracts \X Days -> AnyBars]
    BY DEF AnyBars
  <2>2. ASSUME NEW b \in AnyBars PROVE \E p \in Contracts \X Days : f[p] = b
    <3>1. <<b.contract, b.day>> \in Contracts \X Days
      BY DEF AnyBars
    <3>2. f[<<b.contract, b.day>>] = b
      BY <3>1 DEF AnyBars
    <3> QED BY <3>1, <3>2
  <2> HIDE DEF f
  <2> QED BY <2>1, <2>2 DEF Surjection
<1> QED BY <1>1, <1>2, FS_Surjection

LEMMA BarsOfFacts ==
    ASSUME NEW h \in Haves, NEW r
    PROVE  /\ BarsOf(h, r) \in SUBSET AnyBars
           /\ \A b \in AnyBars :
                 b \in BarsOf(h, r) <=> /\ Root[b.contract] = r /\ b.day \in h[b.contract]
                                        /\ InWindow(h, b.contract, b.day)
<1>1. Present(h, r) \in SUBSET Contracts /\ UNION {h[c] : c \in Expiries} \in SUBSET Days
  BY DataFacts DEF Present
<1>2. BarsOf(h, r) \in SUBSET AnyBars
  BY <1>1 DEF BarsOf, AnyBars
<1>3. ASSUME NEW b \in AnyBars
      PROVE  b \in BarsOf(h, r) <=> /\ Root[b.contract] = r /\ b.day \in h[b.contract]
                                    /\ InWindow(h, b.contract, b.day)
  <2>1. b.contract \in Contracts /\ b.contract \in Expiries
    BY DataFacts DEF AnyBars
  <2>2. b.day \in h[b.contract] => b.day \in UNION {h[c] : c \in Expiries} /\ h[b.contract] # {}
    BY <2>1
  <2>3. b \in [contract : {b.contract}, day : {b.day}]
    BY DEF AnyBars
  <2>4. b.contract \in Present(h, r) <=> Root[b.contract] = r /\ h[b.contract] # {}
    BY <2>1 DEF Present
  <2>5. \A C, D : b \in [contract : C, day : D] <=> b.contract \in C /\ b.day \in D
    BY <2>3
  <2> QED BY <2>2, <2>4, <2>5 DEF BarsOf
<1> QED BY <1>2, <1>3

\* A bar of the series, contract by contract.
LEMMA BarFacts ==
    ASSUME NEW h \in Haves, NEW r, NEW b \in BarsOf(h, r)
    PROVE  /\ b \in AnyBars /\ b.contract \in Contracts /\ b.day \in Days /\ b.day \in Nat
           /\ Root[b.contract] = r /\ b.day \in h[b.contract] /\ b.contract \in Present(h, r)
           /\ b.day < Target[b.contract] /\ Target[b.contract] \in Nat
           /\ \A c \in Present(h, r) : Target[c] < Target[b.contract] => Target[c] <= b.day
<1>1. /\ b \in AnyBars /\ Root[b.contract] = r /\ b.day \in h[b.contract]
      /\ InWindow(h, b.contract, b.day)
  BY BarsOfFacts
<1>2. b.contract \in Contracts /\ b.day \in Days
  BY <1>1 DEF AnyBars
<1>3. b.day \in Nat /\ Target[b.contract] \in Nat
  BY <1>2, DataFacts
<1>4. /\ b.day < Target[b.contract]
      /\ \A c \in Present(h, r) : Target[c] < Target[b.contract] => Target[c] <= b.day
  BY <1>1, <1>2, <1>3, WindowFacts
<1>5. b.contract \in Present(h, r)
  BY <1>1, <1>2, DataFacts DEF Present
<1> QED BY <1>1, <1>2, <1>3, <1>4, <1>5

\* The windows come one after the other: a bar before another is of an earlier day.
LEMMA PrecedesIsEarlier ==
    ASSUME NEW h \in Haves, NEW r, NEW a \in BarsOf(h, r), NEW b \in BarsOf(h, r)
    PROVE  Precedes(a, b) <=> a.day < b.day
<1>1. /\ a.contract \in Present(h, r) /\ a.day \in Nat /\ a.day < Target[a.contract]
      /\ Target[a.contract] \in Nat /\ a.contract \in Contracts /\ Root[a.contract] = r
      /\ \A c \in Present(h, r) : Target[c] < Target[a.contract] => Target[c] <= a.day
  BY BarFacts
<1>2. /\ b.contract \in Present(h, r) /\ b.day \in Nat /\ b.day < Target[b.contract]
      /\ Target[b.contract] \in Nat /\ b.contract \in Contracts /\ Root[b.contract] = r
      /\ \A c \in Present(h, r) : Target[c] < Target[b.contract] => Target[c] <= b.day
  BY BarFacts
<1>3. Target[a.contract] = Target[b.contract] => a.contract = b.contract
  BY <1>1, <1>2, DataFacts
<1>4. Target[a.contract] < Target[b.contract] => a.day < b.day
  BY <1>1, <1>2
<1>5. Target[b.contract] < Target[a.contract] => b.day < a.day
  BY <1>1, <1>2
<1> QED BY <1>1, <1>2, <1>3, <1>4, <1>5 DEF Precedes

\* On one day a root has one bar in the series.
LEMMA OneBarADay ==
    ASSUME NEW h \in Haves, NEW r, NEW a \in BarsOf(h, r), NEW b \in BarsOf(h, r), a.day = b.day
    PROVE  a = b
<1>1. /\ a \in AnyBars /\ a.contract \in Present(h, r) /\ a.day \in Nat
      /\ a.day < Target[a.contract]
      /\ Target[a.contract] \in Nat /\ a.contract \in Contracts /\ Root[a.contract] = r
      /\ \A c \in Present(h, r) : Target[c] < Target[a.contract] => Target[c] <= a.day
  BY BarFacts
<1>2. /\ b \in AnyBars /\ b.contract \in Present(h, r) /\ b.day < Target[b.contract]
      /\ Target[b.contract] \in Nat /\ b.contract \in Contracts /\ Root[b.contract] = r
      /\ \A c \in Present(h, r) : Target[c] < Target[b.contract] => Target[c] <= b.day
  BY BarFacts
<1>3. ~(Target[a.contract] < Target[b.contract])
  BY <1>1, <1>2
<1>4. ~(Target[b.contract] < Target[a.contract])
  BY <1>1, <1>2
<1>5. Target[a.contract] = Target[b.contract]
  BY <1>1, <1>2, <1>3, <1>4
<1>6. a.contract = b.contract
  BY <1>1, <1>2, <1>5, DataFacts
<1> QED BY <1>1, <1>2, <1>6 DEF AnyBars

\* What a series is: the bars of the windows, each once, by day.
IsSeries(h, r, s) ==
    /\ s \in Seq(BarsOf(h, r)) /\ Len(s) \in Nat /\ DOMAIN s = 1 .. Len(s)
    /\ \A i \in 1 .. Len(s) : s[i] \in BarsOf(h, r)
    /\ \A b \in BarsOf(h, r) : \E i \in 1 .. Len(s) : s[i] = b
    /\ \A i, j \in 1 .. Len(s) : i < j => s[i].day < s[j].day

LEMMA SpliceFacts ==
    ASSUME NEW h \in Haves, NEW r
    PROVE  IsSeries(h, r, Splice(h, r))
<1> DEFINE S == BarsOf(h, r)
           R == {p \in S \X S : Precedes(p[1], p[2])}
           s == Splice(h, r)
<1>1. \A x, y \in S : <<x, y>> \in R <=> Precedes(x, y)
  OBVIOUS
<1>2. IsFiniteSet(S)
  BY BarsOfFacts, AnyBarsFinite, FS_Subset
<1>3. s = [i \in 1 .. Cardinality(S) |->
             CHOOSE b \in S : Cardinality({a \in S : Precedes(a, b)}) = i - 1]
  BY DEF Splice, SortedBy, BarsOf, Precedes
<1>4. \A x, y \in S : Precedes(x, y) <=> x.day < y.day
  BY PrecedesIsEarlier
<1>5. \A x \in S : x.day \in Nat
  BY BarFacts
<1>6. \A x, y \in S : x.day = y.day => x = y
  BY OneBarADay
<1> HIDE DEF S, R, s
<1>7. StrictOrder(S, R)
  <2>1. \A x, y \in S : x = y \/ x.day < y.day \/ y.day < x.day
    BY <1>5, <1>6
  <2>2. \A x, y, z \in S : x.day < y.day /\ y.day < z.day => x.day < z.day
    BY <1>5
  <2>3. \A x \in S : ~(x.day < x.day)
    BY <1>5
  <2> QED BY <1>1, <1>2, <1>4, <2>1, <2>2, <2>3 DEF StrictOrder
<1>8. s = Arranged(S, R)
  <2>1. \A b \in S : RankBy(S, R, b) = Cardinality({a \in S : Precedes(a, b)})
    <3> SUFFICES ASSUME NEW b \in S
                 PROVE  RankBy(S, R, b) = Cardinality({a \in S : Precedes(a, b)})
      OBVIOUS
    <3>1. Under(S, R, b) = {a \in S : Precedes(a, b)}
      BY <1>1 DEF Under
    <3> QED BY <3>1 DEF RankBy
  <2> DEFINE At(i) == CHOOSE b \in S : Cardinality({a \in S : Precedes(a, b)}) = i - 1
             By(i) == CHOOSE b \in S : RankBy(S, R, b) = i - 1
  <2>2. \A i : At(i) = By(i)
    BY <2>1
  <2>3. /\ s = [i \in 1 .. Cardinality(S) |-> At(i)]
        /\ Arranged(S, R) = [i \in 1 .. Cardinality(S) |-> By(i)]
    BY <1>3 DEF Arranged
  <2> HIDE DEF At, By
  <2> QED BY <2>2, <2>3
<1>9. /\ s \in Seq(S) /\ Len(s) = Cardinality(S) /\ Cardinality(S) \in Nat
      /\ \A i \in 1 .. Cardinality(S) : s[i] \in S
  BY <1>7, <1>8, ArrangedFacts
<1>10. /\ \A x \in S : \E i \in 1 .. Cardinality(S) : s[i] = x
       /\ \A i, j \in 1 .. Cardinality(S) : i < j => <<s[i], s[j]>> \in R
  BY <1>7, <1>8, ArrangedInOrder
<1>11. \A i, j \in 1 .. Cardinality(S) : i < j => s[i].day < s[j].day
  BY <1>1, <1>4, <1>9, <1>10
<1>12. DOMAIN s = 1 .. Len(s)
  BY <1>9
<1> QED BY <1>9, <1>10, <1>11, <1>12 DEF IsSeries, S, s

\* Neighbours in a series: contracts come in the order of their targets.
LEMMA SeriesTargets ==
    ASSUME NEW h \in Haves, NEW r, NEW s, IsSeries(h, r, s),
           NEW i \in 1 .. Len(s), NEW j \in 1 .. Len(s), i <= j
    PROVE  /\ Target[s[i].contract] \in Nat /\ Target[s[j].contract] \in Nat
           /\ Target[s[i].contract] <= Target[s[j].contract]
           /\ s[i].contract # s[j].contract => Target[s[i].contract] < Target[s[j].contract]
<1>1. s[i] \in BarsOf(h, r) /\ s[j] \in BarsOf(h, r) /\ Len(s) \in Nat
  BY DEF IsSeries
<1>2. Target[s[i].contract] \in Nat /\ Target[s[j].contract] \in Nat
  BY <1>1, BarFacts
<1>3. CASE i = j
  BY <1>2, <1>3
<1>4. CASE i # j
  <2>1. s[i].day < s[j].day
    BY <1>1, <1>4 DEF IsSeries
  <2>2. Precedes(s[i], s[j])
    BY <1>1, <2>1, PrecedesIsEarlier
  <2> QED BY <1>2, <2>2 DEF Precedes
<1> QED BY <1>3, <1>4

\* On every day the series is in the contract that rolls next.
LEMMA SeriesFollows ==
    ASSUME NEW h \in Haves, NEW r
    PROVE  FollowsCalendar(h, r)
<1> DEFINE s == Splice(h, r)
           P == Present(h, r)
           Active(d) == {c \in P : /\ d < Target[c]
                                   /\ \A b \in P : d < Target[b] => Target[c] <= Target[b]}
           D == UNION {h[c] : c \in Expiries}
<1>1. IsSeries(h, r, s)
  BY SpliceFacts
<1>2. Range(s) = BarsOf(h, r)
  <2> HIDE DEF s
  <2> QED BY <1>1 DEF IsSeries, Range
<1>3. \A d \in D : d \in Days /\ d \in Nat
  BY DataFacts
<1>4. \A c \in P : c \in Contracts /\ Root[c] = r /\ Target[c] \in Nat
  BY DataFacts DEF Present
<1>5. ASSUME NEW d \in D
      PROVE  {b \in BarsOf(h, r) : b.day = d} = {Bar(c, d) : c \in {x \in Active(d) : d \in h[x]}}
  <2>1. ASSUME NEW b \in BarsOf(h, r), b.day = d
        PROVE  b = Bar(b.contract, d) /\ b.contract \in Active(d) /\ d \in h[b.contract]
    <3>1. /\ b \in AnyBars /\ b.day \in h[b.contract] /\ b.contract \in P
          /\ b.day < Target[b.contract] /\ Target[b.contract] \in Nat /\ b.day \in Nat
          /\ \A c \in P : Target[c] < Target[b.contract] => Target[c] <= b.day
      BY BarFacts
    <3>2. b = Bar(b.contract, d)
      BY <2>1, <3>1 DEF AnyBars, Bar
    <3>3. \A c \in P : d < Target[c] => Target[b.contract] <= Target[c]
      BY <1>4, <2>1, <3>1
    <3> QED BY <2>1, <3>1, <3>2, <3>3
  <2>2. ASSUME NEW c \in Active(d), d \in h[c]
        PROVE  Bar(c, d) \in BarsOf(h, r) /\ Bar(c, d).day = d
    <3>1. c \in Contracts /\ Root[c] = r /\ d \in Days /\ d \in Nat
      BY <1>3, <1>4
    <3>2. Bar(c, d) \in AnyBars /\ Bar(c, d).contract = c /\ Bar(c, d).day = d
      BY <3>1 DEF Bar, AnyBars
    <3>3. InWindow(h, c, d)
      <4>1. \A b \in P : Target[b] < Target[c] => Target[b] <= d
        BY <1>4, <3>1
      <4> QED BY <3>1, <4>1, WindowFacts
    <3> QED BY <2>2, <3>1, <3>2, <3>3, BarsOfFacts
  <2> HIDE DEF Active
  <2> QED BY <2>1, <2>2
<1> HIDE DEF s
<1> QED BY <1>2, <1>5 DEF FollowsCalendar, s

\* The contract of the series on a day on which it has a bar.
LEMMA CurrentOnDay ==
    ASSUME NEW h \in Haves, NEW r, NEW s, IsSeries(h, r, s), NEW k \in 1 .. Len(s)
    PROVE  CurrentContract(s, s[k].day) = s[k].contract
<1> DEFINE I == {i \in DOMAIN s : s[i].day <= s[k].day}
<1>1. /\ Len(s) \in Nat /\ DOMAIN s = 1 .. Len(s)
      /\ \A i \in 1 .. Len(s) : s[i] \in BarsOf(h, r)
      /\ \A i, j \in 1 .. Len(s) : i < j => s[i].day < s[j].day
  BY DEF IsSeries
<1>2. \A i \in 1 .. Len(s) : s[i].day \in Nat
  BY <1>1, BarFacts
<1>3. k \in I /\ \A i \in I : i <= k
  BY <1>1, <1>2
<1>4. I \in SUBSET Nat /\ IsFiniteSet(I)
  <2>1. I \in SUBSET (1 .. Len(s))
    BY <1>1
  <2>2. IsFiniteSet(1 .. Len(s))
    BY <1>1, FS_Interval
  <2>3. IsFiniteSet(I)
    BY <2>1, <2>2, FS_Subset
  <2> QED BY <2>1, <2>3
<1> HIDE DEF I
<1>5. Max(I) \in I /\ \A x \in I : x <= Max(I)
  BY <1>3, <1>4, MaxFacts
<1>6. Max(I) = k
  <2>1. \A x \in I : x \in Nat
    BY <1>4
  <2>2. Max(I) \in Nat /\ k \in Nat
    BY <1>3, <1>5, <2>1
  <2> QED BY <1>3, <1>5, <2>2
<1> QED BY <1>6 DEF CurrentContract, I

\* A day with a close on or before another.
LEMMA OnOrBeforeFacts ==
    ASSUME NEW days \in SUBSET Days, NEW d \in Nat
    PROVE  /\ OnOrBefore(days, d) \in Nat /\ OnOrBefore(days, d) <= d
           /\ OnOrBefore(days, d) # 0 => OnOrBefore(days, d) \in days
           /\ \A x \in days : x <= d => x <= OnOrBefore(days, d)
<1> DEFINE S == {x \in days : x <= d} \cup {0}
<1>1. S \in SUBSET Nat
  BY DataFacts
<1>2. IsFiniteSet(S)
  <2>1. {x \in days : x <= d} \in SUBSET Days
    OBVIOUS
  <2>2. IsFiniteSet({x \in days : x <= d})
    BY <2>1, DataFacts, FS_Subset
  <2> QED BY <2>2, FS_AddElement
<1>3. Max(S) \in S /\ \A x \in S : x <= Max(S)
  BY <1>1, <1>2, MaxFacts
<1>4. OnOrBefore(days, d) = Max(S)
  BY DEF OnOrBefore
<1>5. Max(S) \in Nat /\ \A x \in S : x <= d
  BY <1>1, <1>3
<1>6. \A x \in days : x <= d => x \in S
  OBVIOUS
<1>7. Max(S) # 0 => Max(S) \in days
  BY <1>3
<1> HIDE DEF S
<1> QED BY <1>3, <1>4, <1>5, <1>6, <1>7

LEMMA OnOrAfterFacts ==
    ASSUME NEW days \in SUBSET Days, NEW d \in Nat
    PROVE  /\ OnOrAfter(days, d) \in Nat
           /\ OnOrAfter(days, d) # 0 => OnOrAfter(days, d) \in days /\ d <= OnOrAfter(days, d)
           /\ d \in days => OnOrAfter(days, d) = d
<1> DEFINE S == {x \in days : x >= d}
<1>1. S \in SUBSET Nat /\ S \in SUBSET days
  BY DataFacts
<1>2. OnOrAfter(days, d) = IF S = {} THEN 0 ELSE Min(S)
  BY DEF OnOrAfter
<1>3. S # {} => Min(S) \in S /\ \A x \in S : Min(S) <= x
  BY <1>1, MinFacts
<1>4. \A x \in S : x >= d /\ x \in Nat
  BY <1>1
<1>5. d \in days => d \in S
  OBVIOUS
<1> DEFINE m == Min(S)
<1> HIDE DEF S, m
<1>6. CASE S = {}
  BY <1>2, <1>5, <1>6
<1>7. CASE S # {}
  <2>1. OnOrAfter(days, d) = m
    BY <1>2, <1>7 DEF m
  <2>2. m \in S /\ \A x \in S : m <= x
    BY <1>3, <1>7 DEF m
  <2>3. m \in Nat /\ d <= m /\ m \in days
    BY <1>1, <1>4, <2>2
  <2>4. d \in days => m = d
    BY <1>5, <2>2, <2>3
  <2> QED BY <2>1, <2>3, <2>4
<1> QED BY <1>6, <1>7

\* What a carry strategy is shown agrees with the series.
LEMMA CarryFollows ==
    ASSUME NEW h \in Haves, NEW r
    PROVE  CarryAgrees(h, r)
<1> DEFINE s == Splice(h, r)
<1>1. IsSeries(h, r, s)
  BY SpliceFacts
<1>2. ASSUME NEW c \in Present(h, r), BackOf[c] \in Expiries, NEW d \in h[c], InWindow(h, c, d),
             CarryBackDay(h, BackOf[c], d) # 0, Ltd[c] < Ltd[BackOf[c]]
      PROVE  /\ CurrentContract(s, d) = c
             /\ Target[c] < Target[BackOf[c]]
             /\ CarryBackDay(h, BackOf[c], d) \in h[BackOf[c]]
             /\ CarryBackDay(h, BackOf[c], d) <= d
  <2>1. c \in Contracts /\ c \in Expiries /\ Root[c] = r /\ BackOf[c] \in Contracts
    BY <1>2, DataFacts DEF Present
  <2>2. d \in Days /\ d \in Nat
    BY <2>1, DataFacts
  <2>3. Bar(c, d) \in AnyBars /\ Bar(c, d).contract = c /\ Bar(c, d).day = d
    BY <2>1, <2>2 DEF Bar, AnyBars
  <2>4. Bar(c, d) \in BarsOf(h, r)
    BY <1>2, <2>1, <2>3, BarsOfFacts
  <2> HIDE DEF s
  <2>5. PICK k \in 1 .. Len(s) : s[k] = Bar(c, d)
    BY <1>1, <2>4 DEF IsSeries
  <2>6. CurrentContract(s, s[k].day) = s[k].contract
    BY <1>1, CurrentOnDay
  <2>7. CurrentContract(s, d) = c
    BY <2>3, <2>5, <2>6
  <2>8. Target[c] < Target[BackOf[c]]
    BY <1>2, <2>1, SeriesAssumption
  <2>9. h[BackOf[c]] \in SUBSET Days
    BY <2>1, DataFacts
  <2>10. CarryBackDay(h, BackOf[c], d) \in h[BackOf[c]] /\ CarryBackDay(h, BackOf[c], d) <= d
    BY <1>2, <2>2, <2>9, OnOrBeforeFacts DEF CarryBackDay
  <2> QED BY <2>7, <2>8, <2>10
<1> HIDE DEF s
<1>3. ASSUME NEW o \in CarryInputs(h, r)
      PROVE  /\ CurrentContract(s, o.asOf) = o.front
             /\ Target[o.front] < Target[o.back]
             /\ o.backDay \in h[o.back] /\ o.backDay <= o.asOf
  <2>1. PICK c \in Present(h, r), d \in UNION {h[x] : x \in Expiries} :
           /\ BackOf[c] \in Expiries
           /\ d \in h[c] /\ InWindow(h, c, d)
           /\ CarryBackDay(h, BackOf[c], d) # 0
           /\ d < Ltd[c] /\ Ltd[c] < Ltd[BackOf[c]]
           /\ o = [asOf |-> d, front |-> c, back |-> BackOf[c],
                   backDay |-> CarryBackDay(h, BackOf[c], d)]
    BY DEF CarryInputs
  <2>2. /\ o.asOf = d /\ o.front = c /\ o.back = BackOf[c]
        /\ o.backDay = CarryBackDay(h, BackOf[c], d)
    BY <2>1
  <2> QED BY <1>2, <2>1, <2>2
<1> QED BY <1>3 DEF CarryAgrees, s

\* The rolls of a series: between neighbours of two contracts of the root, on the
\* target of the old one, at closes of the data.
LEMMA RollFacts ==
    ASSUME NEW h \in Haves, NEW r, Builds(h, r), NEW e \in RollEventsOf(h, r)
    PROVE  /\ e.old \in Contracts /\ e.new \in Contracts /\ e.day \in Nat
           /\ Root[e.old] = r /\ Root[e.new] = r
           /\ e.day = Target[e.old] /\ Target[e.old] < Target[e.new]
           /\ Target[e.old] \in Nat /\ Target[e.new] \in Nat
           /\ e.frontDay = OnOrBefore(h[e.old], e.day) /\ e.frontDay \in h[e.old]
           /\ e.frontDay \in Days /\ e.frontDay <= e.day
           /\ e.backDay = OnOrAfter(h[e.new], e.day) /\ e.backDay \in h[e.new]
           /\ e.backDay \in Days /\ e.day <= e.backDay
           /\ \E i \in 2 .. Len(Splice(h, r)) :
                 e.old = Splice(h, r)[i - 1].contract /\ e.new = Splice(h, r)[i].contract
<1> DEFINE s == Splice(h, r)
<1>1. IsSeries(h, r, s)
  BY SpliceFacts
<1>2. PICK i \in RollFlags(s) : e = RollEvent(h, s[i - 1].contract, s[i].contract)
  BY DEF RollEventsOf
<1>3. e.frontDay # 0 /\ e.backDay # 0
  BY DEF Builds
<1> HIDE DEF s
<1>4. i \in 2 .. Len(s) /\ s[i].contract # s[i - 1].contract /\ Len(s) \in Nat
  BY <1>1, <1>2 DEF RollFlags, IsSeries
<1>5. i - 1 \in 1 .. Len(s) /\ i \in 1 .. Len(s) /\ i - 1 <= i
  BY <1>4
<1>6. s[i - 1] \in BarsOf(h, r) /\ s[i] \in BarsOf(h, r)
  BY <1>1, <1>5 DEF IsSeries
<1>7. /\ e.old = s[i - 1].contract /\ e.new = s[i].contract /\ e.day = Target[e.old]
      /\ e.frontDay = OnOrBefore(h[e.old], e.day) /\ e.backDay = OnOrAfter(h[e.new], e.day)
  BY <1>2 DEF RollEvent
<1>8. e.old \in Contracts /\ e.new \in Contracts /\ Root[e.old] = r /\ Root[e.new] = r
  BY <1>6, <1>7, BarFacts
<1>9. Target[e.old] < Target[e.new] /\ Target[e.old] \in Nat /\ Target[e.new] \in Nat
  BY <1>1, <1>4, <1>5, <1>7, SeriesTargets
<1>10. h[e.old] \in SUBSET Days /\ h[e.new] \in SUBSET Days /\ e.day \in Nat
  BY <1>7, <1>8, <1>9, DataFacts
<1>11. e.frontDay \in h[e.old] /\ e.frontDay <= e.day
  BY <1>3, <1>7, <1>10, OnOrBeforeFacts
<1>12. e.backDay \in h[e.new] /\ e.day <= e.backDay
  BY <1>3, <1>7, <1>10, OnOrAfterFacts
<1>13. e.frontDay \in Days /\ e.backDay \in Days
  BY <1>10, <1>11, <1>12
<1> QED BY <1>4, <1>7, <1>8, <1>9, <1>10, <1>11, <1>12, <1>13 DEF s

\* An old contract is rolled once, and so is a new one rolled into.
LEMMA RollsDistinct ==
    ASSUME NEW h \in Haves, NEW r, NEW s, IsSeries(h, r, s),
           NEW i \in RollFlags(s), NEW j \in RollFlags(s),
           \/ s[i - 1].contract = s[j - 1].contract
           \/ s[i].contract = s[j].contract
    PROVE  i = j
<1>1. /\ i \in 2 .. Len(s) /\ j \in 2 .. Len(s) /\ Len(s) \in Nat
      /\ s[i].contract # s[i - 1].contract /\ s[j].contract # s[j - 1].contract
  BY DEF RollFlags, IsSeries
<1>2. ASSUME NEW a \in 2 .. Len(s), NEW b \in 2 .. Len(s), a < b,
             s[a].contract # s[a - 1].contract, s[b].contract # s[b - 1].contract
      PROVE  s[a - 1].contract # s[b - 1].contract /\ s[a].contract # s[b].contract
  <2>1. /\ a - 1 \in 1 .. Len(s) /\ a \in 1 .. Len(s) /\ b - 1 \in 1 .. Len(s) /\ b \in 1 .. Len(s)
        /\ a - 1 <= a /\ a <= b - 1 /\ b - 1 <= b
    BY <1>1, <1>2
  <2> DEFINE p == Target[s[a - 1].contract]
             q == Target[s[a].contract]
             u == Target[s[b - 1].contract]
             v == Target[s[b].contract]
  <2>2. p \in Nat /\ q \in Nat /\ p < q
    BY <1>2, <2>1, SeriesTargets
  <2>3. u \in Nat /\ q <= u
    BY <2>1, SeriesTargets
  <2>4. v \in Nat /\ u < v
    BY <1>2, <2>1, SeriesTargets
  <2>5. p # u /\ q # v
    <3> HIDE DEF p, q, u, v
    <3> QED BY <2>2, <2>3, <2>4
  <2> QED BY <2>5
<1>3. ~(i < j) /\ ~(j < i)
  BY <1>1, <1>2
<1> QED BY <1>1, <1>3

\* Images of the same size: a function that is one to one.
LEMMA ImageSize ==
    ASSUME NEW S, IsFiniteSet(S), NEW T, NEW f \in [S -> T], \A y \in T : \E x \in S : f[x] = y,
           \A x, y \in S : f[x] = f[y] => x = y
    PROVE  IsFiniteSet(T) /\ Cardinality(T) = Cardinality(S)
<1>1. f \in Surjection(S, T) /\ f \in Injection(S, T)
  BY DEF Surjection, Injection, IsInjective
<1> QED BY <1>1, FS_Surjection

\* Between two bars of a series there is a return or a roll.
LEMMA ReturnsFollow ==
    ASSUME NEW h \in Haves, NEW r, Builds(h, r)
    PROVE  ReturnsWithinContract(h, r)
<1> DEFINE s == Splice(h, r)
           n == Len(s)
           F == RollFlags(s)
           G == (2 .. n) \ F
           C == CleanReturns(s)
           E == RollEventsOf(h, r)
           f == [i \in G |-> <<s[i - 1], s[i]>>]
           g == [i \in F |-> RollEvent(h, s[i - 1].contract, s[i].contract)]
<1>1. IsSeries(h, r, s)
  BY SpliceFacts
<1>2. s # <<>>
  BY DEF Builds
<1>3. C = {f[i] : i \in G} /\ E = {g[i] : i \in F}
  BY DEF CleanReturns, RollEventsOf
<1>4. F \in SUBSET (2 .. n) /\ G \in SUBSET (2 .. n)
  BY DEF RollFlags
<1>5. \A i \in F : g[i].old = s[i - 1].contract
  BY DEF RollEvent
<1>6. \A i \in G : f[i][1] = s[i - 1] /\ f[i][2] = s[i]
  OBVIOUS
<1>7. \A i \in G : s[i].contract = s[i - 1].contract
  BY DEF RollFlags
<1>8. DOMAIN f = G /\ DOMAIN g = F /\ f \in [G -> C] /\ g \in [F -> E]
  BY <1>3
<1> HIDE DEF s, f, g, C, E
<1>9. n \in Nat /\ n >= 1
  BY <1>1, <1>2 DEF IsSeries
<1>10. IsFiniteSet(F) /\ IsFiniteSet(G) /\ Cardinality(F) + Cardinality(G) + 1 = n
       /\ Cardinality(F) \in Nat /\ Cardinality(G) \in Nat
  <2> DEFINE two == 2
  <2>1. two \in Int /\ n \in Int
    BY <1>9
  <2> HIDE DEF n
  <2>2. IsFiniteSet(two .. n) /\ Cardinality(two .. n) = IF two > n THEN 0 ELSE n - two + 1
    <3> HIDE DEF two
    <3> QED BY <2>1, FS_Interval
  <2>3. IsFiniteSet(2 .. n) /\ Cardinality(2 .. n) = n - 1
    BY <1>9, <2>2
  <2>4. IsFiniteSet(F) /\ IsFiniteSet(G)
    BY <1>4, <2>3, FS_Subset
  <2>5. Cardinality(G) = Cardinality(2 .. n) - Cardinality((2 .. n) \cap F)
    BY <2>3, FS_Difference DEF n
  <2>6. (2 .. n) \cap F = F
    BY <1>4
  <2>7. Cardinality(F) \in Nat /\ Cardinality(G) \in Nat
    BY <2>4, FS_CardinalityType
  <2> DEFINE a == Cardinality(F)
             b == Cardinality(G)
             m == Cardinality(2 .. n)
  <2>8. b = m - a /\ m = n - 1 /\ a \in Nat /\ b \in Nat
    BY <2>3, <2>5, <2>6, <2>7
  <2> HIDE DEF a, b, m
  <2>9. a + b + 1 = n
    BY <1>9, <2>8
  <2> QED BY <2>4, <2>7, <2>9 DEF a, b
<1>11. Cardinality(C) = Cardinality(G)
  <2>1. ASSUME NEW i \in G, NEW j \in G, f[i] = f[j] PROVE i = j
    <3>1. s[i] = s[j] /\ i \in 1 .. n /\ j \in 1 .. n
      BY <1>6, <1>9, <2>1
    <3>2. \A a, b \in 1 .. n : a < b => s[a].day < s[b].day
      BY <1>1 DEF IsSeries
    <3>3. \A a \in 1 .. n : s[a].day \in Nat
      BY <1>1, BarFacts DEF IsSeries
    <3> HIDE DEF n
    <3> QED BY <1>9, <3>1, <3>2, <3>3
  <2>2. \A y \in C : \E x \in G : f[x] = y
    BY <1>3
  <2>3. \A x, y \in G : f[x] = f[y] => x = y
    BY <2>1
  <2> HIDE DEF G
  <2> QED BY <1>8, <1>10, <2>2, <2>3, ImageSize
<1>12. Cardinality(E) = Cardinality(F)
  <2>1. ASSUME NEW i \in F, NEW j \in F, g[i] = g[j] PROVE i = j
    <3>1. s[i - 1].contract = s[j - 1].contract
      BY <1>5, <2>1
    <3> QED BY <1>1, <3>1, RollsDistinct
  <2>2. \A y \in E : \E x \in F : g[x] = y
    BY <1>3
  <2>3. \A x, y \in F : g[x] = g[y] => x = y
    BY <2>1
  <2> HIDE DEF F
  <2> QED BY <1>8, <1>10, <2>2, <2>3, ImageSize
<1>13. \A p \in C : p[1].contract = p[2].contract
  BY <1>3, <1>6, <1>7
<1>14. Cardinality(C) + Cardinality(E) + 1 = n
  BY <1>9, <1>10, <1>11, <1>12
<1> QED BY <1>13, <1>14 DEF ReturnsWithinContract, s, C, E

-----------------------------------------------------------------------------
(* The data of a run                                                         *)

DataInv ==
    /\ have \in Haves /\ \A r \in Range(Roots) : Builds(have, r)
    /\ indexed = Index(have)
    /\ rollEvents = UNION {RollEventsOf(have, r) : r \in Range(Roots)}

LEMMA DataKept ==
    ASSUME [PortfolioNext]_allVars
    PROVE  have' = have /\ indexed' = indexed /\ rollEvents' = rollEvents
BY DEF PortfolioNext, NextBar, Advance, SeeClose, ExecuteRoll, Mark, GenerateSignals, PlaceLeg,
       NextDate, Over, allVars, loopVars

\* The series under the engine follow the roll calendar, carry observations look
\* at the contract of the series and at no close of a later day, and no return is
\* taken across a roll or lost within a contract (continuous.py, build;
\* intraday_continuous.py, roll_clean_returns; term_structure.py, _precompute).
THEOREM SeriesSound == PortfolioSpec => []SeriesAreSound
<1> DEFINE DataFixed == have \in Haves /\ \A r \in Range(Roots) : Builds(have, r)
<1>1. PortfolioInit => DataFixed
  BY DEF PortfolioInit
<1>2. DataFixed /\ [PortfolioNext]_allVars => DataFixed'
  BY DataKept
<1>3. DataFixed => SeriesAreSound
  BY SeriesFollows, CarryFollows, ReturnsFollow
     DEF SeriesAreSound, SeriesFollowCalendar, CarryAgreesWithSeries, ReturnsAreClean
<1> HIDE DEF DataFixed
<1> QED BY <1>1, <1>2, <1>3, PTL DEF PortfolioSpec

-----------------------------------------------------------------------------
(* The bars of a run, by date and stream                                     *)

LEMMA PlaceFacts ==
    ASSUME NEW r \in Range(Roots)
    PROVE  Place(r) \in DOMAIN Roots /\ Roots[Place(r)] = r /\ Place(r) \in Nat
<1>1. \E i \in DOMAIN Roots : Roots[i] = r
  BY DEF Range
<1>2. Place(r) \in DOMAIN Roots /\ Roots[Place(r)] = r
  BY <1>1 DEF Place
<1>3. Roots \in Seq(Range(Roots))
  BY PortfolioAssumption
<1>4. DOMAIN Roots \in SUBSET Nat
  BY <1>3
<1> QED BY <1>2, <1>4

RunBars(h) == {b \in AnyBars : Root[b.contract] \in Range(Roots) /\ b \in BarsOf(h, Root[b.contract])}

Earlier(a, b) ==
    \/ a.day < b.day
    \/ a.day = b.day /\ Place(Root[a.contract]) < Place(Root[b.contract])

\* What the index is: the bars of all series, each once, by date and then stream.
IsIndex(h, s) ==
    /\ s \in Seq(AnyBars) /\ Len(s) \in Nat /\ DOMAIN s = 1 .. Len(s)
    /\ \A i \in 1 .. Len(s) : s[i] \in RunBars(h)
    /\ \A b \in RunBars(h) : \E i \in 1 .. Len(s) : s[i] = b
    /\ \A i, j \in 1 .. Len(s) : i < j => Earlier(s[i], s[j])

LEMMA IndexFacts ==
    ASSUME NEW h \in Haves
    PROVE  IsIndex(h, Index(h))
<1> DEFINE S == RunBars(h)
           R == {p \in S \X S : Earlier(p[1], p[2])}
           s == Index(h)
<1>1. \A x, y \in S : <<x, y>> \in R <=> Earlier(x, y)
  OBVIOUS
<1>2. S \in SUBSET AnyBars /\ IsFiniteSet(S)
  BY AnyBarsFinite, FS_Subset DEF RunBars
<1>3. UNION {Range(Splice(h, r)) : r \in Range(Roots)} = S
  <2>1. ASSUME NEW r \in Range(Roots)
        PROVE  Range(Splice(h, r)) = BarsOf(h, r)
    <3> DEFINE b == Splice(h, r)
    <3>1. IsSeries(h, r, b)
      BY SpliceFacts
    <3> HIDE DEF b
    <3>2. Range(b) = BarsOf(h, r)
      BY <3>1 DEF IsSeries, Range
    <3> QED BY <3>2 DEF b
  <2>2. \A r : \A b \in BarsOf(h, r) : b \in AnyBars /\ Root[b.contract] = r
    BY BarFacts
  <2>3. UNION {Range(Splice(h, r)) : r \in Range(Roots)} = UNION {BarsOf(h, r) : r \in Range(Roots)}
    BY <2>1
  <2> QED BY <2>2, <2>3 DEF RunBars
<1>4. s = [i \in 1 .. Cardinality(S) |->
             CHOOSE b \in S : Cardinality({a \in S : Earlier(a, b)}) = i - 1]
  <2> DEFINE B == UNION {Range(Splice(h, r)) : r \in Range(Roots)}
  <2>1. s = [i \in 1 .. Cardinality(B) |->
               CHOOSE b \in B : Cardinality({a \in B : Earlier(a, b)}) = i - 1]
    BY DEF Index, SortedBy, Earlier
  <2>2. B = S
    BY <1>3
  <2> HIDE DEF B, S, s
  <2> QED BY <2>1, <2>2
<1>5. \A x \in S : x.day \in Nat /\ Place(Root[x.contract]) \in Nat
  <2> SUFFICES ASSUME NEW x \in S PROVE x.day \in Nat /\ Place(Root[x.contract]) \in Nat
    OBVIOUS
  <2>1. x.day \in Days /\ Root[x.contract] \in Range(Roots)
    BY DEF RunBars, AnyBars
  <2> QED BY <2>1, DataFacts, PlaceFacts
<1>6. \A x, y \in S : x.day = y.day /\ Place(Root[x.contract]) = Place(Root[y.contract]) => x = y
  <2> SUFFICES ASSUME NEW x \in S, NEW y \in S, x.day = y.day,
                      Place(Root[x.contract]) = Place(Root[y.contract])
               PROVE  x = y
    OBVIOUS
  <2>1. /\ Root[x.contract] \in Range(Roots) /\ x \in BarsOf(h, Root[x.contract])
        /\ Root[y.contract] \in Range(Roots) /\ y \in BarsOf(h, Root[y.contract])
    BY DEF RunBars
  <2>2. Root[x.contract] = Root[y.contract]
    BY <2>1, PlaceFacts
  <2> QED BY <2>1, <2>2, OneBarADay
<1> HIDE DEF S, R, s
<1>7. StrictOrder(S, R)
  <2>1. \A x, y \in S : x = y \/ Earlier(x, y) \/ Earlier(y, x)
    BY <1>5, <1>6 DEF Earlier
  <2>2. \A x, y, z \in S : Earlier(x, y) /\ Earlier(y, z) => Earlier(x, z)
    BY <1>5 DEF Earlier
  <2>3. \A x \in S : ~Earlier(x, x)
    BY <1>5 DEF Earlier
  <2> QED BY <1>1, <1>2, <2>1, <2>2, <2>3 DEF StrictOrder
<1>8. s = Arranged(S, R)
  <2>1. \A b \in S : RankBy(S, R, b) = Cardinality({a \in S : Earlier(a, b)})
    <3> SUFFICES ASSUME NEW b \in S
                 PROVE  RankBy(S, R, b) = Cardinality({a \in S : Earlier(a, b)})
      OBVIOUS
    <3>1. Under(S, R, b) = {a \in S : Earlier(a, b)}
      BY <1>1 DEF Under
    <3> QED BY <3>1 DEF RankBy
  <2> DEFINE At(i) == CHOOSE b \in S : Cardinality({a \in S : Earlier(a, b)}) = i - 1
             By(i) == CHOOSE b \in S : RankBy(S, R, b) = i - 1
  <2>2. \A i : At(i) = By(i)
    BY <2>1
  <2>3. /\ s = [i \in 1 .. Cardinality(S) |-> At(i)]
        /\ Arranged(S, R) = [i \in 1 .. Cardinality(S) |-> By(i)]
    BY <1>4 DEF Arranged
  <2> HIDE DEF At, By
  <2> QED BY <2>2, <2>3
<1>9. /\ s \in Seq(S) /\ Len(s) = Cardinality(S) /\ Cardinality(S) \in Nat
      /\ \A i \in 1 .. Cardinality(S) : s[i] \in S
  BY <1>7, <1>8, ArrangedFacts
<1>10. /\ \A x \in S : \E i \in 1 .. Cardinality(S) : s[i] = x
       /\ \A i, j \in 1 .. Cardinality(S) : i < j => <<s[i], s[j]>> \in R
  BY <1>7, <1>8, ArrangedInOrder
<1>11. \A i, j \in 1 .. Cardinality(S) : i < j => Earlier(s[i], s[j])
  BY <1>1, <1>9, <1>10
<1>12. s \in Seq(AnyBars) /\ DOMAIN s = 1 .. Len(s)
  BY <1>2, <1>9
<1> QED BY <1>9, <1>10, <1>11, <1>12 DEF IsIndex, S, s

\* The rolls of a date, in some order.
LEMMA SeqOfSet ==
    ASSUME NEW S, IsFiniteSet(S)
    PROVE  SetToSeq(S) \in Seq(S) /\ Range(SetToSeq(S)) = S
<1> DEFINE n == Cardinality(S)
           f == SetToSeq(S)
<1>1. n \in Nat /\ ExistsBijection(1 .. n, S)
  BY FS_CardinalityType
<1>2. \E g \in [1 .. n -> S] : IsInjective(g)
  BY <1>1 DEF ExistsBijection, Bijection, Injection
<1>3. f \in [1 .. n -> S] /\ IsInjective(f)
  BY <1>2 DEF SetToSeq
<1>4. IsFiniteSet(1 .. n) /\ Cardinality(1 .. n) = n
  <2> DEFINE one == 1
  <2>1. one \in Int /\ n \in Int
    BY <1>1
  <2> HIDE DEF one, n
  <2>2. IsFiniteSet(one .. n) /\ Cardinality(one .. n) = IF one > n THEN 0 ELSE n - one + 1
    BY <2>1, FS_Interval
  <2> QED BY <1>1, <2>2 DEF one
<1>5. f \in Injection(1 .. n, S)
  BY <1>3 DEF Injection
<1> HIDE DEF f
<1>6. f \in Surjection(1 .. n, S)
  BY <1>4, <1>5, FS_Injection
<1>7. \A x \in S : \E i \in 1 .. n : f[i] = x
  BY <1>6 DEF Surjection
<1>8. DOMAIN f = 1 .. n /\ \A i \in 1 .. n : f[i] \in S
  BY <1>3
<1>9. Range(f) = S
  BY <1>7, <1>8 DEF Range
<1>10. f \in Seq(S)
  <2> HIDE DEF n
  <2> QED BY <1>1, <1>3
<1> QED BY <1>9, <1>10 DEF f

\* What the date loop knows of its data.
IsRun ==
    /\ Len(indexed) \in Nat /\ DOMAIN indexed = 1 .. Len(indexed)
    /\ \A i \in 1 .. Len(indexed) :
          /\ indexed[i] \in AnyBars
          /\ indexed[i].contract \in Contracts /\ indexed[i].day \in Days /\ indexed[i].day \in Nat
          /\ Root[indexed[i].contract] \in Range(Roots)
          /\ indexed[i].day < Target[indexed[i].contract]
    /\ \A i, j \in 1 .. Len(indexed) : i <= j => indexed[i].day <= indexed[j].day
    /\ \A i, j \in 1 .. Len(indexed) :
          indexed[i].day = indexed[j].day /\ Root[indexed[i].contract] = Root[indexed[j].contract]
          => i = j

\* What it knows of the rolls: an old contract is rolled once, on its target, into
\* a contract with no bar before that day.
AreRolls ==
    /\ IsFiniteSet(rollEvents)
    /\ \A e \in rollEvents :
          /\ e.old \in Contracts /\ e.new \in Contracts /\ e.day \in Nat /\ e.old # e.new
          /\ Root[e.old] = Root[e.new] /\ Root[e.old] \in Range(Roots)
          /\ e.day = Target[e.old] /\ e.day < Target[e.new] /\ Target[e.new] \in Nat
          /\ e.frontDay \in Days /\ e.frontDay = OnOrBefore(have[e.old], e.day)
          /\ e.backDay \in Days /\ e.backDay = OnOrAfter(have[e.new], e.day)
          /\ have[e.new] \in SUBSET Days
          /\ \E i \in 1 .. Len(indexed) : indexed[i].contract = e.old
          /\ \A i \in 1 .. Len(indexed) : indexed[i].contract = e.new => e.day <= indexed[i].day
    /\ \A e, f \in rollEvents : e.old = f.old \/ e.new = f.new => e = f

LEMMA RunFacts ==
    ASSUME DataInv
    PROVE  IsRun
<1>1. have \in Haves /\ indexed = Index(have) /\ IsIndex(have, indexed)
  BY IndexFacts DEF DataInv
<1> DEFINE n == Len(indexed)
<1>2. n \in Nat /\ DOMAIN indexed = 1 .. n /\ \A i \in 1 .. n : indexed[i] \in RunBars(have)
  BY <1>1 DEF IsIndex
<1>3. \A i, j \in 1 .. n : i < j => Earlier(indexed[i], indexed[j])
  BY <1>1 DEF IsIndex
<1>4. ASSUME NEW i \in 1 .. n
      PROVE  /\ indexed[i] \in AnyBars /\ Root[indexed[i].contract] \in Range(Roots)
             /\ indexed[i] \in BarsOf(have, Root[indexed[i].contract])
             /\ indexed[i].contract \in Contracts /\ indexed[i].day \in Days /\ indexed[i].day \in Nat
             /\ indexed[i].day < Target[indexed[i].contract]
  <2>1. indexed[i] \in RunBars(have)
    BY <1>2
  <2>2. /\ indexed[i] \in AnyBars /\ Root[indexed[i].contract] \in Range(Roots)
        /\ indexed[i] \in BarsOf(have, Root[indexed[i].contract])
    BY <2>1 DEF RunBars
  <2> HIDE DEF n
  <2> QED BY <1>1, <2>2, BarFacts
<1> HIDE DEF n
<1>5. ASSUME NEW i \in 1 .. n, NEW j \in 1 .. n, i <= j PROVE indexed[i].day <= indexed[j].day
  <2>1. i = j \/ i < j
    BY <1>5
  <2>2. CASE i = j
    BY <1>4, <2>2
  <2>3. CASE i < j
    <3>1. indexed[i].day \in Nat /\ indexed[j].day \in Nat
      BY <1>4
    <3>2. Earlier(indexed[i], indexed[j])
      BY <1>3, <2>3
    <3> QED BY <3>1, <3>2 DEF Earlier
  <2> QED BY <2>1, <2>2, <2>3
<1>6. ASSUME NEW i \in 1 .. n, NEW j \in 1 .. n, indexed[i].day = indexed[j].day,
             Root[indexed[i].contract] = Root[indexed[j].contract]
      PROVE  i = j
  <2>1. ASSUME NEW k \in 1 .. n, NEW m \in 1 .. n, k < m, indexed[k].day = indexed[m].day,
               Root[indexed[k].contract] = Root[indexed[m].contract]
        PROVE  FALSE
    <3>1. Earlier(indexed[k], indexed[m])
      BY <1>3, <2>1
    <3>2. indexed[k].day \in Nat /\ indexed[m].day \in Nat
      BY <1>4
    <3>3. Place(Root[indexed[m].contract]) < Place(Root[indexed[m].contract])
      BY <2>1, <3>1, <3>2 DEF Earlier
    <3>4. Place(Root[indexed[m].contract]) \in Nat
      BY <1>4, PlaceFacts
    <3> QED BY <3>3, <3>4
  <2>2. i = j \/ i < j \/ j < i
    OBVIOUS
  <2> QED BY <1>6, <2>1, <2>2
<1> QED BY <1>2, <1>4, <1>5, <1>6 DEF IsRun, n

LEMMA RollsFinite ==
    ASSUME DataInv
    PROVE  IsFiniteSet(rollEvents)
<1> DEFINE Pairs == Contracts \X Contracts
           f == [x \in Pairs |-> RollEvent(have, x[1], x[2])]
           All == {f[x] : x \in Pairs}
<1>1. IsFiniteSet(Pairs)
  BY DataFacts, FS_Product
<1>2. \A y \in All : \E x \in Pairs : f[x] = y
  OBVIOUS
<1>3. f \in [Pairs -> All]
  OBVIOUS
<1>4. ASSUME NEW e \in rollEvents PROVE e \in All
  <2>1. PICK r \in Range(Roots) : e \in RollEventsOf(have, r)
    BY DEF DataInv
  <2>2. have \in Haves /\ Builds(have, r)
    BY DEF DataInv
  <2>3. PICK i \in RollFlags(Splice(have, r)) :
            e = RollEvent(have, Splice(have, r)[i - 1].contract, Splice(have, r)[i].contract)
    BY <2>1 DEF RollEventsOf
  <2>4. e = RollEvent(have, e.old, e.new)
    BY <2>3 DEF RollEvent
  <2>5. e.old \in Contracts /\ e.new \in Contracts
    BY <2>1, <2>2, RollFacts
  <2>6. <<e.old, e.new>> \in Pairs /\ f[<<e.old, e.new>>] = e
    BY <2>4, <2>5
  <2> QED BY <2>6
<1> HIDE DEF f, Pairs, All
<1>5. f \in Surjection(Pairs, All)
  BY <1>2, <1>3 DEF Surjection
<1>6. IsFiniteSet(All)
  BY <1>1, <1>5, FS_Surjection
<1>7. rollEvents \in SUBSET All
  BY <1>4
<1> QED BY <1>6, <1>7, FS_Subset

LEMMA RollsFacts ==
    ASSUME DataInv
    PROVE  AreRolls
<1>1. have \in Haves /\ \A r \in Range(Roots) : Builds(have, r)
  BY DEF DataInv
<1>2. \A e \in rollEvents : \E r \in Range(Roots) : e \in RollEventsOf(have, r)
  BY DEF DataInv
<1>3. IsIndex(have, indexed)
  BY <1>1, IndexFacts DEF DataInv
<1>4. ASSUME NEW e \in rollEvents
      PROVE  /\ e.old \in Contracts /\ e.new \in Contracts /\ e.day \in Nat /\ e.old # e.new
             /\ Root[e.old] = Root[e.new] /\ Root[e.old] \in Range(Roots)
             /\ e.day = Target[e.old] /\ e.day < Target[e.new] /\ Target[e.new] \in Nat
             /\ e.frontDay \in Days /\ e.frontDay = OnOrBefore(have[e.old], e.day)
             /\ e.backDay \in Days /\ e.backDay = OnOrAfter(have[e.new], e.day)
             /\ have[e.new] \in SUBSET Days
             /\ \E i \in 1 .. Len(indexed) : indexed[i].contract = e.old
             /\ \A i \in 1 .. Len(indexed) : indexed[i].contract = e.new => e.day <= indexed[i].day
  <2>1. PICK r \in Range(Roots) : e \in RollEventsOf(have, r)
    BY <1>2
  <2>2. Builds(have, r)
    BY <1>1
  <2> DEFINE s == Splice(have, r)
  <2>3. /\ e.old \in Contracts /\ e.new \in Contracts /\ e.day \in Nat
        /\ Root[e.old] = r /\ Root[e.new] = r
        /\ e.day = Target[e.old] /\ Target[e.old] < Target[e.new]
        /\ Target[e.old] \in Nat /\ Target[e.new] \in Nat
        /\ e.frontDay = OnOrBefore(have[e.old], e.day)
        /\ e.frontDay \in Days
        /\ e.backDay = OnOrAfter(have[e.new], e.day)
        /\ e.backDay \in Days
        /\ \E i \in 2 .. Len(s) : e.old = s[i - 1].contract /\ e.new = s[i].contract
    BY <1>1, <2>1, <2>2, RollFacts
  <2>4. PICK i \in 2 .. Len(s) : e.old = s[i - 1].contract
    BY <2>3
  <2>5. IsSeries(have, r, s)
    BY <1>1, SpliceFacts
  <2>6. i - 1 \in 1 .. Len(s)
    BY <2>5 DEF IsSeries
  <2>7. s[i - 1] \in BarsOf(have, r)
    BY <2>5, <2>6 DEF IsSeries
  <2> DEFINE b == s[i - 1]
  <2> HIDE DEF s
  <2>8. b \in AnyBars /\ Root[b.contract] = r /\ b.contract \in Present(have, r)
    BY <1>1, <2>7, BarFacts
  <2>9. b \in RunBars(have)
    BY <2>7, <2>8 DEF RunBars
  <2>10. \E k \in 1 .. Len(indexed) : indexed[k] = b
    BY <1>3, <2>9 DEF IsIndex
  <2>11. \E k \in 1 .. Len(indexed) : indexed[k].contract = e.old
    BY <2>4, <2>10
  <2>12. ASSUME NEW k \in 1 .. Len(indexed), indexed[k].contract = e.new
         PROVE  e.day <= indexed[k].day
    <3>1. indexed[k] \in RunBars(have)
      BY <1>3 DEF IsIndex
    <3>2. indexed[k] \in BarsOf(have, r)
      BY <2>3, <2>12, <3>1 DEF RunBars
    <3>3. \A c \in Present(have, r) :
             Target[c] < Target[indexed[k].contract] => Target[c] <= indexed[k].day
      BY <1>1, <3>2, BarFacts
    <3> QED BY <2>3, <2>4, <2>8, <2>12, <3>3
  <2>13. have[e.new] \in SUBSET Days
    BY <1>1, <2>3, DataFacts
  <2>14. e.old # e.new
    BY <2>3
  <2> QED BY <2>3, <2>11, <2>12, <2>13, <2>14
<1>5. ASSUME NEW e \in rollEvents, NEW f \in rollEvents, e.old = f.old \/ e.new = f.new
      PROVE  e = f
  <2>1. PICK r \in Range(Roots) : e \in RollEventsOf(have, r)
    BY <1>2
  <2>2. PICK q \in Range(Roots) : f \in RollEventsOf(have, q)
    BY <1>2
  <2>3. Builds(have, r) /\ Builds(have, q)
    BY <1>1
  <2>4. Root[e.old] = r /\ Root[e.new] = r
    BY <1>1, <2>1, <2>3, RollFacts
  <2>5. Root[f.old] = q /\ Root[f.new] = q
    BY <1>1, <2>2, <2>3, RollFacts
  <2>6. r = q
    BY <1>5, <2>4, <2>5
  <2> DEFINE s == Splice(have, r)
  <2>7. PICK i \in RollFlags(s) : e = RollEvent(have, s[i - 1].contract, s[i].contract)
    BY <2>1 DEF RollEventsOf
  <2>8. PICK j \in RollFlags(s) : f = RollEvent(have, s[j - 1].contract, s[j].contract)
    BY <2>2, <2>6 DEF RollEventsOf
  <2>9. IsSeries(have, r, s)
    BY <1>1, SpliceFacts
  <2> HIDE DEF s
  <2>10. \/ s[i - 1].contract = s[j - 1].contract
         \/ s[i].contract = s[j].contract
    BY <1>5, <2>7, <2>8 DEF RollEvent
  <2>11. i = j
    BY <1>1, <2>9, <2>10, RollsDistinct
  <2> QED BY <2>7, <2>8, <2>11
<1> QED BY <1>4, <1>5, RollsFinite DEF AreRolls

-----------------------------------------------------------------------------
(* The inductive invariant of the date loop                                  *)

Phases == {"bar", "fill", "roll", "signals", "place"}
Counts == [signals : Nat, orders : Nat, fills : Nat, rolls : Nat, cost : Int]

\* A leg is of a contract of one of the roots.
Legs == {leg \in [contract : Contracts, dir : {-1, 0, 1}, weight : Nat] :
            Root[leg.contract] \in Range(Roots)}

LoopTyped ==
    /\ t \in 0 .. Len(indexed) /\ phase \in Phases
    /\ tape \in [Contracts \X Days -> Nat] /\ lastClose \in [Contracts -> Nat]
    /\ curve \in Seq(Int) /\ count \in Counts
    /\ placed \in Seq(Days) /\ Len(placed) = Len(orders)
    /\ largest \in [Range(Roots) -> Nat]
    /\ rolls \in Seq(rollEvents) /\ legs \in Seq(Legs)

\* The point of the last date begun is on the curve.
Marked ==
    \/ phase \in {"signals", "place"}
    \/ phase = "bar" /\ (t = 0 \/ DateIsOver)

LoopInv ==
    /\ phase # "fill" => Idle
    /\ phase # "bar" => t > 0
    /\ t > 0 => bar.contract = indexed[t].contract
    /\ phase \in {"roll", "signals", "place"} => DateIsOver
    /\ phase \in {"signals", "place"} => Equity > 0
    /\ Len(curve) = IF Marked THEN Cardinality(Dates) ELSE Cardinality(Dates) - 1
    /\ phase # "roll" => rolls = <<>>
    /\ phase # "place" => legs = <<>>
    /\ \A i \in DOMAIN rolls : rolls[i].day = Today

\* Bar i is behind the engine, its close included.
Seen(i) == i \in 1 .. t /\ (i < t \/ phase # "fill")

\* A close that was looked at is the close of its day.
CloseInv ==
    /\ \A i \in 1 .. t : tape[<<indexed[i].contract, indexed[i].day>>] > 0
    /\ \A i \in 1 .. t : Seen(i) => lastClose[indexed[i].contract] > 0
    /\ \A c \in Contracts : lastClose[c] # 0 =>
          \E i \in 1 .. t : indexed[i].contract = c /\ lastClose[c] = tape[<<c, indexed[i].day>>]
    /\ \A i \in DOMAIN legs : lastClose[legs[i].contract] > 0

PortInv == TypeOK /\ DataInv /\ LoopTyped /\ LoopInv /\ CloseInv

LEMMA PortFacts ==
    ASSUME PortInv
    PROVE  /\ IsRun /\ AreRolls /\ TypeOK /\ OrdersTyped /\ book \in Books /\ bar \in Bars
           /\ t \in Nat /\ t <= Len(indexed) /\ Len(indexed) \in Nat
           /\ phase \in Phases /\ Len(curve) \in Nat /\ Len(orders) \in Nat
           /\ t > 0 => /\ Today \in Days /\ Today \in Nat /\ t \in 1 .. Len(indexed)
                       /\ bar.contract = indexed[t].contract /\ bar.contract \in Contracts
                       /\ Today < Target[bar.contract] /\ Target[bar.contract] \in Nat
                       /\ Root[bar.contract] \in Range(Roots)
           /\ \A i \in 1 .. t : indexed[i].day \in Nat /\ indexed[i].day <= Today
<1>1. IsRun /\ AreRolls
  BY RunFacts, RollsFacts DEF PortInv
<1>2. TypeOK /\ OrdersTyped /\ book \in Books /\ bar \in Bars /\ Len(orders) \in Nat
  BY TypeOKSplit DEF PortInv, OrdersTyped
<1>3. t \in Nat /\ t <= Len(indexed) /\ Len(indexed) \in Nat /\ phase \in Phases /\ Len(curve) \in Nat
  BY <1>1 DEF PortInv, LoopTyped, IsRun
<1>4. ASSUME t > 0 PROVE t \in 1 .. Len(indexed)
  BY <1>3, <1>4
<1>5. ASSUME t > 0
      PROVE  /\ Today \in Days /\ Today \in Nat /\ t \in 1 .. Len(indexed)
             /\ bar.contract = indexed[t].contract /\ bar.contract \in Contracts
             /\ Today < Target[bar.contract] /\ Target[bar.contract] \in Nat
             /\ Root[bar.contract] \in Range(Roots)
  <2>1. bar.contract = indexed[t].contract
    BY <1>5 DEF PortInv, LoopInv
  <2>2. /\ indexed[t].contract \in Contracts /\ indexed[t].day \in Days /\ indexed[t].day \in Nat
        /\ Root[indexed[t].contract] \in Range(Roots)
        /\ indexed[t].day < Target[indexed[t].contract]
    BY <1>1, <1>4, <1>5 DEF IsRun
  <2> QED BY <1>4, <1>5, <2>1, <2>2, DataFacts DEF Today
<1>6. ASSUME NEW i \in 1 .. t PROVE indexed[i].day \in Nat /\ indexed[i].day <= Today
  <2>1. i \in 1 .. Len(indexed) /\ t \in 1 .. Len(indexed) /\ i <= t
    BY <1>3
  <2> QED BY <1>1, <2>1 DEF IsRun, Today
<1> QED BY <1>1, <1>2, <1>3, <1>5, <1>6

\* The dates of the first n bars.
DatesTo(n) == {indexed[i].day : i \in 1 .. n}

LEMMA DatesGrow ==
    ASSUME IsRun, NEW n \in Nat, n < Len(indexed)
    PROVE  /\ IsFiniteSet(DatesTo(n)) /\ Cardinality(DatesTo(n)) \in Nat
           /\ n > 0 /\ indexed[n + 1].day = indexed[n].day =>
                 Cardinality(DatesTo(n + 1)) = Cardinality(DatesTo(n))
           /\ n = 0 \/ indexed[n + 1].day # indexed[n].day =>
                 Cardinality(DatesTo(n + 1)) = Cardinality(DatesTo(n)) + 1
<1>1. Len(indexed) \in Nat /\ n + 1 \in 1 .. Len(indexed)
  BY DEF IsRun
<1>2. \A i \in 1 .. n : i \in 1 .. Len(indexed) /\ i <= n
  BY <1>1
<1>3. DatesTo(n) \in SUBSET Days
  BY <1>2 DEF IsRun, DatesTo
<1>4. IsFiniteSet(DatesTo(n)) /\ Cardinality(DatesTo(n)) \in Nat
  BY <1>3, DataFacts, FS_Subset, FS_CardinalityType
<1>5. DatesTo(n + 1) = DatesTo(n) \cup {indexed[n + 1].day}
  <2>1. 1 .. n + 1 = (1 .. n) \cup {n + 1}
    OBVIOUS
  <2> QED BY <2>1 DEF DatesTo
<1>6. ASSUME n > 0, indexed[n + 1].day = indexed[n].day PROVE DatesTo(n + 1) = DatesTo(n)
  <2>1. n \in 1 .. n
    BY <1>6
  <2>2. indexed[n].day \in DatesTo(n)
    BY <2>1 DEF DatesTo
  <2> QED BY <1>5, <1>6, <2>2
<1>7. ASSUME n = 0 \/ indexed[n + 1].day # indexed[n].day PROVE indexed[n + 1].day \notin DatesTo(n)
  <2> SUFFICES ASSUME NEW i \in 1 .. n, indexed[i].day = indexed[n + 1].day PROVE FALSE
    BY DEF DatesTo
  <2>1. n \in 1 .. Len(indexed) /\ i \in 1 .. Len(indexed) /\ i <= n /\ n > 0
    BY <1>1
  <2>2. indexed[i].day <= indexed[n].day /\ indexed[n].day <= indexed[n + 1].day
    BY <1>1, <2>1 DEF IsRun
  <2>3. indexed[n].day \in Nat /\ indexed[n + 1].day \in Nat
    BY <1>1, <2>1 DEF IsRun
  <2> QED BY <1>7, <2>1, <2>2, <2>3
<1>8. ASSUME n = 0 \/ indexed[n + 1].day # indexed[n].day
      PROVE Cardinality(DatesTo(n + 1)) = Cardinality(DatesTo(n)) + 1
  BY <1>4, <1>5, <1>7, <1>8, FS_AddElement
<1> QED BY <1>4, <1>6, <1>8

LEMMA PortInit == PortfolioInit => PortInv
<1> SUFFICES ASSUME PortfolioInit PROVE PortInv
  OBVIOUS
<1>1. TypeOK /\ DataInv /\ orders = <<>> /\ Idle
  BY TypeOKInit DEF PortfolioInit, DataInv, Init, Idle
<1>2. IsRun
  BY <1>1, RunFacts
<1>3. t = 0 /\ phase = "bar" /\ rolls = <<>> /\ legs = <<>> /\ curve = <<>> /\ placed = <<>>
  BY DEF PortfolioInit
<1>4. LoopTyped
  <2>1. tape \in [Contracts \X Days -> Nat] /\ lastClose \in [Contracts -> Nat]
        /\ largest \in [Range(Roots) -> Nat]
    BY DEF PortfolioInit
  <2>2. count \in Counts
    BY DEF PortfolioInit, Counts
  <2>3. t \in 0 .. Len(indexed)
    BY <1>2, <1>3 DEF IsRun
  <2> QED BY <1>1, <1>3, <2>1, <2>2, <2>3 DEF LoopTyped, Phases
<1>5. Dates = {} /\ Marked
  BY <1>3 DEF Dates, Marked
<1>6. Cardinality(Dates) = 0
  BY <1>5, FS_EmptySet
<1>7. LoopInv
  <2>1. DOMAIN rolls = {} /\ DOMAIN legs = {} /\ Len(curve) = 0
    BY <1>3
  <2> QED BY <1>1, <1>3, <1>5, <1>6, <2>1 DEF LoopInv
<1>8. CloseInv
  <2>1. DOMAIN legs = {} /\ 1 .. t = {}
    BY <1>3
  <2>2. \A c \in Contracts : lastClose[c] = 0
    BY DEF PortfolioInit
  <2> QED BY <2>1, <2>2 DEF CloseInv
<1> QED BY <1>1, <1>4, <1>7, <1>8 DEF PortInv

\* A close that is on the tape stays what it is.
TapeGrows ==
    /\ tape' \in [Contracts \X Days -> Nat]
    /\ \A x \in Contracts \X Days : tape[x] # 0 => tape'[x] = tape[x]

\* The last closes of the contracts follow the tape.
LEMMA ClosesKept ==
    ASSUME PortInv, TapeGrows, indexed' = indexed, t \in 1 .. t' \/ t = 0, t' \in Nat,
           UNCHANGED lastClose
    PROVE  /\ \A i \in 1 .. t : tape'[<<indexed[i].contract, indexed[i].day>>] > 0
           /\ \A c \in Contracts : lastClose'[c] # 0 =>
                 \E i \in 1 .. t' : indexed[i].contract = c /\ lastClose'[c] = tape'[<<c, indexed[i].day>>]
<1>1. IsRun /\ t \in Nat /\ t <= Len(indexed) /\ Len(indexed) \in Nat
  BY PortFacts
<1>2. ASSUME NEW i \in 1 .. t
      PROVE  /\ <<indexed[i].contract, indexed[i].day>> \in Contracts \X Days
             /\ tape[<<indexed[i].contract, indexed[i].day>>] > 0
             /\ tape'[<<indexed[i].contract, indexed[i].day>>] = tape[<<indexed[i].contract, indexed[i].day>>]
  <2>1. i \in 1 .. Len(indexed)
    BY <1>1
  <2>2. <<indexed[i].contract, indexed[i].day>> \in Contracts \X Days
    BY <1>1, <2>1 DEF IsRun
  <2>3. tape[<<indexed[i].contract, indexed[i].day>>] > 0
    BY DEF PortInv, CloseInv
  <2>4. tape[<<indexed[i].contract, indexed[i].day>>] \in Nat
    BY <2>2 DEF PortInv, LoopTyped
  <2> QED BY <2>2, <2>3, <2>4 DEF TapeGrows
<1>3. ASSUME NEW c \in Contracts, lastClose'[c] # 0
      PROVE  \E i \in 1 .. t' : indexed[i].contract = c /\ lastClose'[c] = tape'[<<c, indexed[i].day>>]
  <2>1. PICK i \in 1 .. t : indexed[i].contract = c /\ lastClose[c] = tape[<<c, indexed[i].day>>]
    BY <1>3 DEF PortInv, CloseInv
  <2>2. i \in 1 .. t'
    BY <1>1
  <2> QED BY <1>2, <2>1, <2>2
<1> QED BY <1>2, <1>3

LEMMA NextBarStep ==
    ASSUME PortInv, NEW b \in Bars, NEW px \in Closes[Root[b.contract]], NextBar(b, px)
    PROVE  PortInv' /\ TapeGrows
<1>1. /\ IsRun /\ TypeOK /\ t \in Nat /\ Len(indexed) \in Nat /\ t <= Len(indexed)
      /\ Len(curve) \in Nat
  BY PortFacts
<1>2. /\ phase = "bar" /\ t < Len(indexed) /\ t' = t + 1 /\ phase' = "fill"
      /\ b.contract = indexed[t + 1].contract /\ px \in CloseOf(b.contract, indexed[t + 1].day)
      /\ tape' = [tape EXCEPT ![<<b.contract, indexed[t + 1].day>>] = px]
      /\ have' = have /\ indexed' = indexed /\ rollEvents' = rollEvents
      /\ lastClose' = lastClose /\ rolls' = rolls /\ legs' = legs /\ curve' = curve
      /\ count' = count /\ placed' = placed /\ largest' = largest
  BY DEF NextBar
<1>3. /\ orders' = orders /\ cancelled' = cancelled /\ filled' = filled /\ events' = events
      /\ book' = book /\ bar' = b /\ cursor' \in {cursor, 1} /\ (cursor' = 1 => orders # <<>> \/ cursor = 1)
  BY DEF NextBar, AdvanceStart
<1>4. TypeOK'
  <2>1. orders \in Seq(Orders) /\ cursor \in 0 .. Len(orders)
    BY <1>1 DEF TypeOK
  <2>2. cursor' \in 0 .. Len(orders)
    <3>1. Len(orders) \in Nat /\ (orders # <<>> => Len(orders) > 0)
      BY <2>1
    <3> QED BY <1>3, <2>1, <3>1
  <2> QED BY <1>1, <1>3, <2>2 DEF TypeOK, Ids
<1>5. DataInv'
  BY <1>2 DEF PortInv, DataInv
<1> DEFINE n == t + 1
           x == <<indexed[n].contract, indexed[n].day>>
<1>6. /\ n \in 1 .. Len(indexed) /\ x \in Contracts \X Days
      /\ indexed[n].contract \in Contracts /\ Root[indexed[n].contract] \in Range(Roots)
  BY <1>1, <1>2 DEF IsRun
<1>7. px \in Nat /\ px > 0
  <2>1. Closes[Root[b.contract]] \in SUBSET (Nat \ {0})
    BY <1>2, <1>6, PortfolioAssumption
  <2> QED BY <2>1
<1>8. tape \in [Contracts \X Days -> Nat] /\ tape[x] \in Nat /\ (tape[x] # 0 => px = tape[x])
  BY <1>2, <1>6 DEF PortInv, LoopTyped, CloseOf
<1>9. tape' = [tape EXCEPT ![x] = px]
  BY <1>2
<1>10. TapeGrows /\ tape'[x] = px
  <2> HIDE DEF x
  <2> QED BY <1>6, <1>7, <1>8, <1>9 DEF TapeGrows
<1>11. LoopTyped'
  <2>1. t' \in 0 .. Len(indexed)
    BY <1>1, <1>2
  <2> QED BY <1>2, <1>3, <1>10, <2>1 DEF PortInv, LoopTyped, TapeGrows, Phases
<1>12. Dates = DatesTo(t) /\ Dates' = DatesTo(n)
  BY <1>2 DEF Dates, DatesTo
<1>13. Len(curve') = Cardinality(Dates') - 1
  <2>1. Len(curve) = IF Marked THEN Cardinality(Dates) ELSE Cardinality(Dates) - 1
    BY DEF PortInv, LoopInv
  <2>2. Marked <=> t = 0 \/ indexed[n].day # indexed[t].day
    BY <1>1, <1>2 DEF Marked, DateIsOver, Today
  <2>3. /\ Cardinality(DatesTo(t)) \in Nat
        /\ t > 0 /\ indexed[n].day = indexed[t].day => Cardinality(DatesTo(n)) = Cardinality(DatesTo(t))
        /\ t = 0 \/ indexed[n].day # indexed[t].day =>
                 Cardinality(DatesTo(n)) = Cardinality(DatesTo(t)) + 1
    BY <1>1, <1>2, DatesGrow
  <2> DEFINE p == Cardinality(DatesTo(t))
             q == Cardinality(DatesTo(n))
  <2>4. Len(curve') = IF Marked THEN p ELSE p - 1
    BY <1>2, <1>12, <2>1
  <2>5. p \in Nat /\ (Marked => q = p + 1) /\ (~Marked => q = p)
    BY <1>1, <2>2, <2>3
  <2> HIDE DEF p, q
  <2>6. Len(curve') = q - 1
    BY <2>4, <2>5
  <2> QED BY <1>12, <2>6 DEF q
<1>14. LoopInv'
  <2>1. rolls = <<>> /\ legs = <<>>
    BY <1>2 DEF PortInv, LoopInv
  <2>2. DOMAIN rolls' = {}
    BY <1>2, <2>1
  <2>3. ~Marked'
    BY <1>2 DEF Marked
  <2>4. t' > 0 /\ indexed'[t'].contract = bar'.contract
    BY <1>1, <1>2, <1>3
  <2> QED BY <1>2, <1>13, <2>1, <2>2, <2>3, <2>4 DEF LoopInv
<1>15. CloseInv'
  <2>1. /\ \A i \in 1 .. t : tape'[<<indexed[i].contract, indexed[i].day>>] > 0
        /\ \A c \in Contracts : lastClose'[c] # 0 =>
              \E i \in 1 .. t' : indexed[i].contract = c /\ lastClose'[c] = tape'[<<c, indexed[i].day>>]
    <3>1. t' \in Nat /\ (t \in 1 .. t' \/ t = 0)
      BY <1>1, <1>2
    <3> QED BY <1>2, <1>10, <3>1, ClosesKept
  <2>2. ASSUME NEW i \in 1 .. t' PROVE tape'[<<indexed[i].contract, indexed[i].day>>] > 0
    <3>1. i \in 1 .. t \/ i = n
      BY <1>1, <1>2
    <3>2. CASE i = n
      BY <1>7, <1>10, <3>2
    <3> QED BY <2>1, <3>1, <3>2
  <2>3. ASSUME NEW i \in 1 .. t', Seen(i)' PROVE lastClose'[indexed[i].contract] > 0
    <3>1. i < t' /\ i \in 1 .. t
      BY <1>1, <1>2, <2>3 DEF Seen
    <3>2. Seen(i)
      BY <1>2, <3>1 DEF Seen
    <3>3. lastClose[indexed[i].contract] > 0
      BY <3>1, <3>2 DEF PortInv, CloseInv
    <3> QED BY <1>2, <3>3
  <2>4. DOMAIN legs' = {}
    BY <1>2 DEF PortInv, LoopInv
  <2> QED BY <1>2, <2>1, <2>2, <2>3, <2>4 DEF CloseInv
<1> QED BY <1>4, <1>5, <1>10, <1>11, <1>14, <1>15 DEF PortInv

\* Nothing that the invariant looks at depends on more than these.
SameDate == UNCHANGED <<have, indexed, rollEvents, t>>

LEMMA SameDateFacts ==
    ASSUME SameDate
    PROVE  /\ Dates' = Dates /\ Today' = Today /\ (DateIsOver' <=> DateIsOver)
           /\ have' = have /\ indexed' = indexed /\ rollEvents' = rollEvents /\ t' = t
           /\ (DataInv => DataInv')
BY DEF SameDate, Dates, Today, DateIsOver, DataInv

LEMMA AdvanceStep ==
    ASSUME PortInv, Advance
    PROVE  PortInv' /\ TapeGrows
<1>1. /\ phase = "fill" /\ phase' = "fill" /\ SameDate /\ orders' = orders /\ bar' = bar
      /\ tape' = tape /\ lastClose' = lastClose /\ rolls' = rolls /\ legs' = legs
      /\ curve' = curve /\ placed' = placed /\ largest' = largest
  BY DEF Advance, SameDate, AdvanceSkip, AdvanceFill, Fill
<1>2. /\ Dates' = Dates /\ Today' = Today /\ (DateIsOver' <=> DateIsOver)
      /\ indexed' = indexed /\ rollEvents' = rollEvents /\ t' = t /\ (DataInv => DataInv')
  BY <1>1, SameDateFacts
<1>3. TypeOK /\ OrdersTyped /\ cursor \in 0 .. Len(orders) /\ Len(orders) \in Nat
  BY PortFacts DEF TypeOK
<1>4. TypeOK' /\ count' \in Counts
  <2>1. count \in Counts
    BY DEF PortInv, LoopTyped
  <2>2. CASE AdvanceSkip /\ UNCHANGED count
    <3>1. NextCursor \in 0 .. Len(orders)
      BY <1>3 DEF NextCursor
    <3> QED BY <1>3, <2>1, <2>2, <3>1 DEF AdvanceSkip, TypeOK, Ids
  <2>3. CASE AdvanceFill /\ count' = [count EXCEPT !.fills = @ + 1]
    <3>1. /\ OrdersTyped' /\ book' \in Books /\ cursor' \in 0 .. Len(orders')
      BY <1>3, <2>3, AdvanceTyped
    <3>2. bar' \in Bars
      BY <1>1, <1>3 DEF TypeOK
    <3>3. TypeOK'
      BY <3>1, <3>2, TypeOKSplit DEF TypeOK, OrdersTyped, Books, Events
    <3>4. count' \in Counts
      BY <2>1, <2>3 DEF Counts
    <3> QED BY <3>3, <3>4
  <2> QED BY <2>2, <2>3 DEF Advance
<1>5. LoopTyped'
  BY <1>1, <1>2, <1>4 DEF PortInv, LoopTyped
<1>6. Marked' <=> Marked
  BY <1>1 DEF Marked
<1>7. LoopInv'
  BY <1>1, <1>2, <1>6 DEF PortInv, LoopInv, Equity
<1>8. CloseInv'
  BY <1>1, <1>2 DEF PortInv, CloseInv, Seen
<1>9. TapeGrows
  BY <1>1 DEF PortInv, LoopTyped, TapeGrows
<1> QED BY <1>2, <1>4, <1>5, <1>7, <1>8, <1>9 DEF PortInv

LEMMA RollsOnFacts ==
    ASSUME AreRolls, NEW d
    PROVE  /\ RollsOn(d) \in Seq(rollEvents) /\ DOMAIN RollsOn(d) = 1 .. Len(RollsOn(d))
           /\ \A i \in DOMAIN RollsOn(d) : RollsOn(d)[i].day = d
           /\ Range(RollsOn(d)) = {e \in rollEvents : e.day = d}
<1> DEFINE S == {e \in rollEvents : e.day = d}
           s == SetToSeq(S)
<1>1. IsFiniteSet(S)
  <2>1. IsFiniteSet(rollEvents) /\ S \in SUBSET rollEvents
    BY DEF AreRolls
  <2> QED BY <2>1, FS_Subset
<1>2. s \in Seq(S) /\ Range(s) = S
  BY <1>1, SeqOfSet
<1>3. RollsOn(d) = s
  BY DEF RollsOn
<1>4. S \in SUBSET rollEvents /\ \A e \in S : e.day = d
  OBVIOUS
<1> HIDE DEF s, S
<1>5. s \in Seq(rollEvents) /\ \A i \in DOMAIN s : s[i].day = d
  BY <1>2, <1>4
<1> QED BY <1>2, <1>3, <1>5 DEF S

LEMMA SeeCloseStep ==
    ASSUME PortInv, SeeClose
    PROVE  PortInv' /\ TapeGrows
<1>1. /\ phase = "fill" /\ Idle /\ SameDate /\ UNCHANGED vars
      /\ lastClose' = [lastClose EXCEPT ![bar.contract] = tape[<<bar.contract, Today>>]]
      /\ tape' = tape /\ legs' = legs /\ curve' = curve /\ count' = count
      /\ placed' = placed /\ largest' = largest
      /\ \/ DateIsOver /\ phase' = "roll" /\ rolls' = RollsOn(Today)
         \/ ~DateIsOver /\ phase' = "bar" /\ rolls' = rolls
  BY DEF SeeClose, SameDate
<1>2. /\ Dates' = Dates /\ Today' = Today /\ (DateIsOver' <=> DateIsOver)
      /\ indexed' = indexed /\ rollEvents' = rollEvents /\ t' = t /\ (DataInv => DataInv')
  BY <1>1, SameDateFacts
<1>3. TypeOK' /\ orders' = orders /\ bar' = bar /\ Idle'
  BY <1>1 DEF vars, TypeOK, PortInv, Ids, Idle
<1>4. /\ t > 0 /\ AreRolls /\ bar.contract = indexed[t].contract /\ bar.contract \in Contracts
      /\ t \in Nat /\ Today \in Days /\ IsRun /\ t <= Len(indexed) /\ Len(indexed) \in Nat
  BY <1>1, PortFacts DEF PortInv, LoopInv
<1> DEFINE c == bar.contract
           x == tape[<<c, Today>>]
<1>5. x > 0 /\ x \in Nat
  <2>1. t \in 1 .. t
    BY <1>4
  <2>2. tape[<<indexed[t].contract, indexed[t].day>>] > 0
    BY <2>1 DEF PortInv, CloseInv
  <2>3. tape \in [Contracts \X Days -> Nat] /\ <<c, Today>> \in Contracts \X Days
    BY <1>4 DEF PortInv, LoopTyped
  <2> QED BY <1>4, <2>2, <2>3 DEF Today
<1>6. lastClose \in [Contracts -> Nat] /\ lastClose' = [lastClose EXCEPT ![c] = x]
  BY <1>1 DEF PortInv, LoopTyped
<1> HIDE DEF x
<1>7. /\ lastClose' \in [Contracts -> Nat] /\ lastClose'[c] = x
      /\ \A d \in Contracts : d # c => lastClose'[d] = lastClose[d]
  BY <1>4, <1>5, <1>6
<1>8. rolls' \in Seq(rollEvents) /\ (phase' # "roll" => rolls' = <<>>)
      /\ \A i \in DOMAIN rolls' : rolls'[i].day = Today
  <2>1. rolls \in Seq(rollEvents) /\ rolls = <<>>
    BY <1>1 DEF PortInv, LoopInv, LoopTyped
  <2>2. DOMAIN <<>> = {}
    OBVIOUS
  <2> QED BY <1>1, <1>4, <2>1, <2>2, RollsOnFacts
<1>9. LoopTyped'
  BY <1>1, <1>2, <1>3, <1>7, <1>8 DEF PortInv, LoopTyped, Phases
<1>10. ~Marked' /\ ~Marked
  BY <1>1, <1>2, <1>4 DEF Marked
<1>11. legs = <<>>
  BY <1>1 DEF PortInv, LoopInv
<1>12. LoopInv'
  BY <1>1, <1>2, <1>3, <1>4, <1>8, <1>10, <1>11 DEF PortInv, LoopInv
<1>13. CloseInv'
  <2>1. ASSUME NEW i \in 1 .. t, indexed[i].contract # c PROVE lastClose'[indexed[i].contract] > 0
    <3>1. i < t /\ i \in 1 .. Len(indexed)
      <4>1. i # t
        BY <1>4, <2>1
      <4> QED BY <1>4, <4>1
    <3>2. indexed[i].contract \in Contracts /\ Seen(i)
      BY <1>4, <3>1 DEF IsRun, Seen
    <3>3. lastClose[indexed[i].contract] > 0
      BY <3>2 DEF PortInv, CloseInv
    <3> QED BY <1>7, <2>1, <3>2, <3>3
  <2>2. ASSUME NEW d \in Contracts, lastClose'[d] # 0
        PROVE  \E i \in 1 .. t : indexed[i].contract = d /\ lastClose'[d] = tape[<<d, indexed[i].day>>]
    <3>1. CASE d = c
      <4>1. t \in 1 .. t
        BY <1>4
      <4>2. lastClose'[d] = tape[<<d, indexed[t].day>>]
        BY <1>7, <3>1 DEF x, Today
      <4> QED BY <1>4, <3>1, <4>1, <4>2
    <3>2. CASE d # c
      BY <1>7, <2>2, <3>2 DEF PortInv, CloseInv
    <3> QED BY <3>1, <3>2
  <2>3. DOMAIN legs' = {}
    BY <1>1, <1>11
  <2>4. \A i \in 1 .. t : tape[<<indexed[i].contract, indexed[i].day>>] > 0
    BY DEF PortInv, CloseInv
  <2>5. \A i \in 1 .. t : lastClose'[indexed[i].contract] > 0
    BY <1>5, <1>7, <2>1
  <2>6. tape' = tape /\ indexed' = indexed /\ t' = t
    BY <1>1, <1>2
  <2>7. \A d \in Contracts : lastClose'[d] # 0 =>
           \E i \in 1 .. t' : indexed'[i].contract = d /\ lastClose'[d] = tape'[<<d, indexed'[i].day>>]
    BY <2>2, <2>6
  <2>8. /\ \A i \in 1 .. t' : tape'[<<indexed'[i].contract, indexed'[i].day>>] > 0
        /\ \A i \in 1 .. t' : lastClose'[indexed'[i].contract] > 0
    BY <2>4, <2>5, <2>6
  <2> QED BY <2>3, <2>7, <2>8 DEF CloseInv
<1>14. TapeGrows
  BY <1>1 DEF PortInv, LoopTyped, TapeGrows
<1> QED BY <1>2, <1>3, <1>9, <1>12, <1>13, <1>14 DEF PortInv

\* The roll at the head of the list, its prices, and what it does.
LEMMA RollEffect ==
    ASSUME PortInv, NEW ff \in RollFills, NEW bf \in RollFills, ExecuteRoll(ff, bf)
    PROVE  LET e == Head(rolls)
           IN  /\ rolls # <<>> /\ e \in rollEvents /\ e.day = Today /\ phase = "roll"
               /\ rolls' = Tail(rolls) /\ rolls' \in Seq(rollEvents)
               /\ \A i \in DOMAIN rolls' : rolls'[i] \in rollEvents /\ rolls'[i].day = Today
               /\ Range(rolls) \in SUBSET (Range(rolls') \cup {e})
               /\ ff \in Nat \ {0} /\ bf \in Nat \ {0}
               /\ TapeGrows /\ tape'[<<e.old, e.frontDay>>] = ff /\ tape'[<<e.new, e.backDay>>] = bf
               /\ \/ Held(e.old) = 0 /\ UNCHANGED <<vars, count>>
                  \/ Held(e.old) # 0 /\ RollPosition(e.old, e.new, ff, bf)
               /\ orders' = orders /\ cancelled' = cancelled /\ filled' = filled
               /\ events' = events /\ bar' = bar /\ cursor' = cursor /\ book' \in Books
               /\ count' \in Counts
<1> DEFINE e == Head(rolls)
<1>1. /\ AreRolls /\ TypeOK /\ book \in Books
  BY PortFacts
<1>2. /\ phase = "roll" /\ rolls # <<>> /\ rolls' = Tail(rolls)
      /\ ff \in CloseOf(e.old, e.frontDay) /\ bf \in CloseOf(e.new, e.backDay)
      /\ tape' = [tape EXCEPT ![<<e.old, e.frontDay>>] = ff, ![<<e.new, e.backDay>>] = bf]
      /\ \/ Held(e.old) = 0 /\ UNCHANGED <<vars, count>>
         \/ /\ Held(e.old) # 0 /\ RollPosition(e.old, e.new, ff, bf)
            /\ count' = [count EXCEPT !.rolls = @ + 1,
                                      !.cost = @ + (bf - ff) * Held(e.old) * Mult[e.new]]
  BY DEF ExecuteRoll
<1>3. rolls \in Seq(rollEvents) /\ \A i \in DOMAIN rolls : rolls[i].day = Today
  BY DEF PortInv, LoopTyped, LoopInv
<1>4. e \in rollEvents /\ e.day = Today /\ rolls' \in Seq(rollEvents)
  <2>1. 1 \in DOMAIN rolls /\ e = rolls[1]
    BY <1>2, <1>3
  <2> QED BY <1>2, <1>3, <2>1
<1>5. \A i \in DOMAIN rolls' : rolls'[i] \in rollEvents /\ rolls'[i].day = Today
  <2> SUFFICES ASSUME NEW i \in DOMAIN rolls' PROVE rolls'[i] \in rollEvents /\ rolls'[i].day = Today
    OBVIOUS
  <2>1. rolls'[i] = rolls[i + 1] /\ i + 1 \in DOMAIN rolls
    BY <1>2, <1>3
  <2> QED BY <1>3, <2>1
<1>6. Range(rolls) \in SUBSET (Range(rolls') \cup {e})
  <2> SUFFICES ASSUME NEW i \in DOMAIN rolls PROVE rolls[i] = e \/ \E j \in DOMAIN rolls' : rolls'[j] = rolls[i]
    BY DEF Range
  <2>1. CASE i = 1
    BY <1>2, <1>3, <2>1
  <2>2. CASE i # 1
    <3>1. i - 1 \in DOMAIN rolls' /\ rolls'[i - 1] = rolls[i]
      BY <1>2, <1>3, <2>2
    <3> QED BY <3>1
  <2> QED BY <2>1, <2>2
<1> DEFINE x == <<e.old, e.frontDay>>
           y == <<e.new, e.backDay>>
<1>7. /\ e.old \in Contracts /\ e.new \in Contracts /\ e.old # e.new
      /\ e.frontDay \in Days /\ e.backDay \in Days
      /\ Root[e.old] \in Range(Roots) /\ Root[e.new] \in Range(Roots)
  BY <1>1, <1>4 DEF AreRolls
<1> HIDE DEF e
<1>8. /\ x \in Contracts \X Days /\ y \in Contracts \X Days /\ x # y
  BY <1>7
<1>9. tape \in [Contracts \X Days -> Nat]
  BY DEF PortInv, LoopTyped
<1>10. /\ ff \in Nat \ {0} /\ bf \in Nat \ {0} /\ (tape[x] # 0 => ff = tape[x])
       /\ (tape[y] # 0 => bf = tape[y])
  <2>1. tape[x] \in Nat /\ tape[y] \in Nat
    BY <1>8, <1>9
  <2>2. Closes[Root[e.old]] \in SUBSET (Nat \ {0}) /\ Closes[Root[e.new]] \in SUBSET (Nat \ {0})
    BY <1>7, PortfolioAssumption
  <2> QED BY <1>2, <2>1, <2>2 DEF CloseOf
<1>11. tape' = [tape EXCEPT ![x] = ff, ![y] = bf]
  BY <1>2
<1>12. TapeGrows /\ tape'[x] = ff /\ tape'[y] = bf
  <2> HIDE DEF x, y
  <2> QED BY <1>8, <1>9, <1>10, <1>11 DEF TapeGrows
<1>13. /\ orders' = orders /\ cancelled' = cancelled /\ filled' = filled
       /\ events' = events /\ bar' = bar /\ cursor' = cursor /\ book' \in Books
  <2>1. CASE Held(e.old) = 0 /\ UNCHANGED <<vars, count>>
    BY <1>1, <2>1 DEF vars
  <2>2. CASE RollPosition(e.old, e.new, ff, bf)
    <3>1. ff \in Int /\ bf \in Int
      BY <1>10
    <3> QED BY <1>1, <1>7, <2>2, <3>1, RollMovesBook
  <2> QED BY <1>2, <2>1, <2>2
<1>14. count' \in Counts
  <2>1. count \in Counts
    BY DEF PortInv, LoopTyped
  <2>2. CASE UNCHANGED <<vars, count>>
    BY <2>1, <2>2
  <2>3. CASE count' = [count EXCEPT !.rolls = @ + 1, !.cost = @ + (bf - ff) * Held(e.old) * Mult[e.new]]
    <3> DEFINE k == (bf - ff) * Held(e.old) * Mult[e.new]
               u == count.cost + k
               v == count.rolls + 1
    <3>1. k \in Int
      <4>1. bf - ff \in Int /\ Held(e.old) \in Int /\ Mult[e.new] \in Int
        BY <1>1, <1>7, <1>10, ConstantsAssumption DEF Held, Books, Positions
      <4>2. (bf - ff) * Held(e.old) \in Int
        BY <4>1
      <4> QED BY <4>1, <4>2
    <3>2. u \in Int /\ v \in Nat
      <4> HIDE DEF k
      <4> QED BY <2>1, <3>1 DEF Counts
    <3>3. count' = [count EXCEPT !.rolls = v, !.cost = u]
      BY <2>3
    <3> HIDE DEF u, v
    <3> QED BY <2>1, <3>2, <3>3 DEF Counts
  <2> QED BY <1>2, <2>2, <2>3
<1> QED BY <1>2, <1>4, <1>5, <1>6, <1>10, <1>12, <1>13, <1>14 DEF e

LEMMA ExecuteRollStep ==
    ASSUME PortInv, NEW ff \in RollFills, NEW bf \in RollFills, ExecuteRoll(ff, bf)
    PROVE  PortInv' /\ TapeGrows
<1>1. /\ phase = "roll" /\ rolls' \in Seq(rollEvents) /\ TapeGrows
      /\ \A i \in DOMAIN rolls' : rolls'[i].day = Today
      /\ orders' = orders /\ cancelled' = cancelled /\ filled' = filled
      /\ events' = events /\ bar' = bar /\ cursor' = cursor /\ book' \in Books
      /\ count' \in Counts
  BY RollEffect
<1>2. /\ SameDate /\ phase' = phase /\ lastClose' = lastClose /\ legs' = legs /\ curve' = curve
      /\ placed' = placed /\ largest' = largest
  BY DEF ExecuteRoll, SameDate
<1>3. /\ Dates' = Dates /\ Today' = Today /\ (DateIsOver' <=> DateIsOver)
      /\ indexed' = indexed /\ rollEvents' = rollEvents /\ t' = t /\ (DataInv => DataInv')
  BY <1>2, SameDateFacts
<1>4. TypeOK'
  BY <1>1 DEF PortInv, TypeOK, Ids, Books
<1>5. LoopTyped'
  BY <1>1, <1>2, <1>3 DEF PortInv, LoopTyped, TapeGrows
<1>6. Marked' <=> Marked
  BY <1>2, <1>3 DEF Marked
<1>7. LoopInv'
  BY <1>1, <1>2, <1>3, <1>6 DEF PortInv, LoopInv, Idle, Equity
<1>8. CloseInv'
  <2>1. t \in Nat
    BY PortFacts
  <2>2. /\ \A i \in 1 .. t : tape'[<<indexed[i].contract, indexed[i].day>>] > 0
        /\ \A c \in Contracts : lastClose'[c] # 0 =>
              \E i \in 1 .. t' : indexed[i].contract = c /\ lastClose'[c] = tape'[<<c, indexed[i].day>>]
    <3>1. t' \in Nat /\ (t \in 1 .. t' \/ t = 0)
      BY <1>3, <2>1
    <3> QED BY <1>1, <1>2, <1>3, <3>1, ClosesKept
  <2>3. \A i \in 1 .. t' : Seen(i)' => lastClose'[indexed'[i].contract] > 0
    BY <1>2, <1>3 DEF PortInv, CloseInv, Seen
  <2>4. \A i \in DOMAIN legs' : lastClose'[legs'[i].contract] > 0
    BY <1>2 DEF PortInv, CloseInv
  <2> QED BY <1>3, <2>2, <2>3, <2>4 DEF CloseInv
<1> QED BY <1>1, <1>3, <1>4, <1>5, <1>7, <1>8 DEF PortInv

LEMMA MarkIsInt ==
    ASSUME PortInv
    PROVE  MarkToMarket \in Int /\ \A c \in Contracts : Unrealized(c) \in Int
<1>1. book \in Books /\ lastClose \in [Contracts -> Nat]
  BY PortFacts DEF PortInv, LoopTyped
<1>2. ASSUME NEW c \in Contracts PROVE Unrealized(c) \in Int
  <2>1. /\ lastClose[c] \in Int /\ book.pos[c].avg \in Int /\ Held(c) \in Int /\ Mult[c] \in Int
    BY <1>1, ConstantsAssumption DEF Books, Positions, Held
  <2>2. (lastClose[c] - book.pos[c].avg) * Held(c) \in Int
    BY <2>1
  <2> QED BY <2>1, <2>2 DEF Unrealized
<1> DEFINE I == {d \in Contracts : Held(d) # 0 /\ lastClose[d] # 0}
           u == [c \in I |-> Unrealized(c)]
<1>3. u \in [I -> Int]
  BY <1>2
<1>4. IsFiniteSet(I)
  BY ConstantsAssumption, FS_Subset
<1>5. SumFunction(u) \in Int
  BY <1>3, <1>4, TotalIsInt
<1>6. StartingEquity \in Int /\ book.realized \in Int
  BY <1>1, PortfolioAssumption DEF Books
<1>7. MarkToMarket = StartingEquity + book.realized + SumFunction(u)
  BY DEF MarkToMarket
<1> HIDE DEF u
<1> QED BY <1>2, <1>5, <1>6, <1>7

LEMMA MarkStep ==
    ASSUME PortInv, Mark
    PROVE  PortInv' /\ TapeGrows /\ Equity' = MarkToMarket
<1>1. /\ phase = "roll" /\ rolls = <<>> /\ SameDate /\ UNCHANGED vars
      /\ curve' = Append(curve, MarkToMarket)
      /\ phase' = IF MarkToMarket <= 0 THEN "bar" ELSE "signals"
      /\ tape' = tape /\ lastClose' = lastClose /\ rolls' = rolls /\ legs' = legs /\ count' = count
      /\ placed' = placed /\ largest' = largest
  BY DEF Mark, SameDate
<1>2. /\ Dates' = Dates /\ Today' = Today /\ (DateIsOver' <=> DateIsOver)
      /\ indexed' = indexed /\ rollEvents' = rollEvents /\ t' = t /\ (DataInv => DataInv')
  BY <1>1, SameDateFacts
<1>3. TypeOK' /\ orders' = orders /\ bar' = bar /\ cursor' = cursor
  BY <1>1 DEF vars, TypeOK, PortInv, Ids
<1>4. MarkToMarket \in Int /\ curve \in Seq(Int)
  BY MarkIsInt DEF PortInv, LoopTyped
<1>5. curve' \in Seq(Int) /\ Len(curve') = Len(curve) + 1 /\ Equity' = MarkToMarket /\ Len(curve) \in Nat
  BY <1>1, <1>4 DEF Equity
<1>6. LoopTyped'
  BY <1>1, <1>2, <1>3, <1>5 DEF PortInv, LoopTyped, Phases
<1>7. DateIsOver /\ t > 0 /\ Idle /\ legs = <<>>
  BY <1>1 DEF PortInv, LoopInv
<1>8. Marked' /\ ~Marked
  BY <1>1, <1>2, <1>7 DEF Marked
<1>9. Len(curve') = Cardinality(Dates')
  <2>1. Len(curve) = Cardinality(Dates) - 1
    BY <1>8 DEF PortInv, LoopInv
  <2>2. IsFiniteSet(Dates)
    <3>1. IsRun /\ t \in Nat /\ t <= Len(indexed) /\ Len(indexed) \in Nat
      BY PortFacts
    <3>2. \A i \in 1 .. t : i \in 1 .. Len(indexed)
      BY <3>1
    <3>3. Dates \in SUBSET Days
      BY <3>1, <3>2 DEF Dates, IsRun
    <3> QED BY <3>3, DataFacts, FS_Subset
  <2> DEFINE k == Cardinality(Dates)
  <2>3. k \in Nat
    BY <2>2, FS_CardinalityType
  <2>4. Len(curve) = k - 1 /\ Cardinality(Dates') = k
    BY <1>2, <2>1
  <2> HIDE DEF k
  <2> QED BY <1>5, <2>3, <2>4
<1>10. LoopInv'
  <2>1. phase' \in {"signals", "place"} => Equity' > 0
    BY <1>1, <1>4, <1>5
  <2>2. DOMAIN rolls' = {}
    BY <1>1
  <2> QED BY <1>1, <1>2, <1>3, <1>7, <1>8, <1>9, <2>1, <2>2 DEF PortInv, LoopInv, Idle
<1>11. CloseInv'
  BY <1>1, <1>2 DEF PortInv, CloseInv, Seen
<1>12. TapeGrows
  BY <1>1 DEF PortInv, LoopTyped, TapeGrows
<1> QED BY <1>2, <1>3, <1>5, <1>6, <1>10, <1>11, <1>12 DEF PortInv

LEMMA NextDateStep ==
    ASSUME PortInv, NextDate
    PROVE  PortInv' /\ TapeGrows
<1>1. /\ phase = "place" /\ legs = <<>> /\ phase' = "bar" /\ SameDate /\ UNCHANGED vars
      /\ tape' = tape /\ lastClose' = lastClose /\ rolls' = rolls /\ legs' = legs /\ curve' = curve
      /\ count' = count /\ placed' = placed /\ largest' = largest
  BY DEF NextDate, SameDate
<1>2. /\ Dates' = Dates /\ Today' = Today /\ (DateIsOver' <=> DateIsOver)
      /\ indexed' = indexed /\ rollEvents' = rollEvents /\ t' = t /\ (DataInv => DataInv')
  BY <1>1, SameDateFacts
<1>3. TypeOK' /\ orders' = orders /\ bar' = bar /\ cursor' = cursor
  BY <1>1 DEF vars, TypeOK, PortInv, Ids
<1>4. LoopTyped'
  BY <1>1, <1>2, <1>3 DEF PortInv, LoopTyped, Phases
<1>5. DateIsOver /\ Idle /\ rolls = <<>>
  BY <1>1 DEF PortInv, LoopInv
<1>6. Marked' /\ Marked
  BY <1>1, <1>2, <1>5 DEF Marked
<1>7. LoopInv'
  BY <1>1, <1>2, <1>3, <1>5, <1>6 DEF PortInv, LoopInv, Idle
<1>8. CloseInv'
  BY <1>1, <1>2 DEF PortInv, CloseInv, Seen
<1>9. TapeGrows
  BY <1>1 DEF PortInv, LoopTyped, TapeGrows
<1> QED BY <1>2, <1>3, <1>4, <1>7, <1>8, <1>9 DEF PortInv

\* The legs are placed root by root, in the order of the streams.
LEMMA SignalOrder ==
    ASSUME NEW S \in SUBSET Range(Roots)
    PROVE  LET s == SortedBy(S, LAMBDA a, b : Place(a) < Place(b))
           IN  /\ Cardinality(S) \in Nat
               /\ \A i \in 1 .. Cardinality(S) : s[i] \in S
               /\ \A i, j \in 1 .. Cardinality(S) : s[i] = s[j] => i = j
<1> DEFINE R == {p \in S \X S : Place(p[1]) < Place(p[2])}
           s == SortedBy(S, LAMBDA a, b : Place(a) < Place(b))
<1>1. \A x, y \in S : <<x, y>> \in R <=> Place(x) < Place(y)
  OBVIOUS
<1>2. IsFiniteSet(S)
  <2> DEFINE n == Len(Roots)
             one == 1
  <2>1. Roots \in Seq(Range(Roots)) /\ n \in Nat /\ DOMAIN Roots = 1 .. n
    BY PortfolioAssumption
  <2>2. Roots \in Surjection(1 .. n, Range(Roots))
    <3>1. Roots \in [1 .. n -> Range(Roots)]
      BY <2>1
    <3>2. \A y \in Range(Roots) : \E i \in 1 .. n : Roots[i] = y
      BY <2>1 DEF Range
    <3> HIDE DEF n
    <3> QED BY <3>1, <3>2 DEF Surjection
  <2>3. one \in Int /\ n \in Int
    BY <2>1
  <2> HIDE DEF n, one
  <2>4. IsFiniteSet(one .. n)
    BY <2>3, FS_Interval
  <2>5. IsFiniteSet(1 .. n)
    BY <2>4 DEF one
  <2>6. IsFiniteSet(Range(Roots))
    BY <2>2, <2>5, FS_Surjection
  <2> QED BY <2>6, FS_Subset
<1>3. \A x \in S : Place(x) \in Nat
  BY PlaceFacts
<1>4. \A x, y \in S : Place(x) = Place(y) => x = y
  BY PlaceFacts
<1>5. s = [i \in 1 .. Cardinality(S) |-> CHOOSE b \in S : Cardinality({a \in S : Place(a) < Place(b)}) = i - 1]
  BY DEF SortedBy
<1> HIDE DEF R, s
<1>6. StrictOrder(S, R)
  <2>1. \A x, y \in S : x = y \/ Place(x) < Place(y) \/ Place(y) < Place(x)
    BY <1>3, <1>4
  <2>2. \A x, y, z \in S : Place(x) < Place(y) /\ Place(y) < Place(z) => Place(x) < Place(z)
    BY <1>3
  <2>3. \A x \in S : ~(Place(x) < Place(x))
    BY <1>3
  <2> QED BY <1>1, <1>2, <2>1, <2>2, <2>3 DEF StrictOrder
<1>7. s = Arranged(S, R)
  <2>1. \A b \in S : RankBy(S, R, b) = Cardinality({a \in S : Place(a) < Place(b)})
    <3> SUFFICES ASSUME NEW b \in S
                 PROVE  RankBy(S, R, b) = Cardinality({a \in S : Place(a) < Place(b)})
      OBVIOUS
    <3>1. Under(S, R, b) = {a \in S : Place(a) < Place(b)}
      BY <1>1 DEF Under
    <3> QED BY <3>1 DEF RankBy
  <2> DEFINE At(i) == CHOOSE b \in S : Cardinality({a \in S : Place(a) < Place(b)}) = i - 1
             By(i) == CHOOSE b \in S : RankBy(S, R, b) = i - 1
  <2>2. \A i : At(i) = By(i)
    BY <2>1
  <2>3. /\ s = [i \in 1 .. Cardinality(S) |-> At(i)]
        /\ Arranged(S, R) = [i \in 1 .. Cardinality(S) |-> By(i)]
    BY <1>5 DEF Arranged
  <2> HIDE DEF At, By
  <2> QED BY <2>2, <2>3
<1>8. /\ Cardinality(S) \in Nat
      /\ \A i \in 1 .. Cardinality(S) : s[i] \in S /\ RankBy(S, R, s[i]) = i - 1
  BY <1>6, <1>7, ArrangedFacts
<1>9. ASSUME NEW i \in 1 .. Cardinality(S), NEW j \in 1 .. Cardinality(S), s[i] = s[j] PROVE i = j
  <2> DEFINE n == Cardinality(S)
             k == RankBy(S, R, s[j])
  <2>1. k = i - 1 /\ k = j - 1
    BY <1>8, <1>9
  <2>2. n \in Nat /\ i \in 1 .. n /\ j \in 1 .. n
    BY <1>8, <1>9
  <2> HIDE DEF n, k
  <2> QED BY <2>1, <2>2
<1> QED BY <1>8, <1>9 DEF s

\* The contract of a root with a bar behind the engine.
LEMMA LatestFacts ==
    ASSUME PortInv, NEW r, Shown(r) # {}
    PROVE  /\ Max(Shown(r)) \in Shown(r) /\ \A i \in Shown(r) : i <= Max(Shown(r))
           /\ Max(Shown(r)) \in 1 .. t /\ LatestContract(r) = indexed[Max(Shown(r))].contract
           /\ Root[LatestContract(r)] = r /\ LatestContract(r) \in Contracts
<1>1. IsRun /\ t \in Nat /\ t <= Len(indexed) /\ Len(indexed) \in Nat
  BY PortFacts
<1> DEFINE one == 1
           m == Max(Shown(r))
<1>2. IsFiniteSet(one .. t)
  <2>1. one \in Int /\ t \in Int
    BY <1>1
  <2> HIDE DEF one
  <2> QED BY <2>1, FS_Interval
<1>3. IsFiniteSet(1 .. t)
  BY <1>2 DEF one
<1>4. Shown(r) \in SUBSET (1 .. t)
  BY DEF Shown
<1>5. Shown(r) \in SUBSET Nat
  BY <1>1, <1>4
<1>6. IsFiniteSet(Shown(r))
  BY <1>3, <1>4, FS_Subset
<1>7. m \in Shown(r) /\ \A i \in Shown(r) : i <= m
  BY <1>5, <1>6, MaxFacts
<1>8. m \in 1 .. t /\ Root[indexed[m].contract] = r
  BY <1>7 DEF Shown
<1>9. LatestContract(r) = indexed[m].contract
  BY DEF LatestContract
<1> HIDE DEF m
<1>10. m \in 1 .. Len(indexed)
  BY <1>1, <1>8
<1>11. indexed[m].contract \in Contracts
  BY <1>1, <1>10 DEF IsRun
<1> QED BY <1>7, <1>8, <1>9, <1>11 DEF m

\* The legs of a date: one per root, each in the contract its root is in.
LEMMA SignalsEffect ==
    ASSUME PortInv, GenerateSignals
    PROVE  /\ legs' \in Seq(Legs) /\ count' \in Counts
           /\ \A i \in DOMAIN legs' :
                 /\ Shown(Root[legs'[i].contract]) # {}
                 /\ legs'[i].contract = LatestContract(Root[legs'[i].contract])
           /\ \A i, j \in DOMAIN legs' : Root[legs'[i].contract] = Root[legs'[j].contract] => i = j
<1>1. PICK S \in SUBSET {r \in Range(Roots) : Shown(r) # {}} :
          \E dir \in [S -> {-1, 0, 1}], w \in LegWeights(S) :
             /\ legs' = [i \in 1 .. Cardinality(S) |->
                            LET r == SortedBy(S, LAMBDA a, b : Place(a) < Place(b))[i]
                            IN  [contract |-> LatestContract(r), dir |-> dir[r], weight |-> w[r]]]
             /\ count' = [count EXCEPT !.signals = @ + Cardinality(S)]
  BY DEF GenerateSignals
<1>2. PICK dir \in [S -> {-1, 0, 1}], w \in LegWeights(S) :
             /\ legs' = [i \in 1 .. Cardinality(S) |->
                            LET r == SortedBy(S, LAMBDA a, b : Place(a) < Place(b))[i]
                            IN  [contract |-> LatestContract(r), dir |-> dir[r], weight |-> w[r]]]
             /\ count' = [count EXCEPT !.signals = @ + Cardinality(S)]
  BY <1>1
<1> DEFINE s == SortedBy(S, LAMBDA a, b : Place(a) < Place(b))
           n == Cardinality(S)
<1>3. S \in SUBSET Range(Roots) /\ \A r \in S : Shown(r) # {}
  OBVIOUS
<1>4. /\ n \in Nat /\ \A i \in 1 .. n : s[i] \in S
      /\ \A i, j \in 1 .. n : s[i] = s[j] => i = j
  BY <1>3, SignalOrder
<1>5. legs' = [i \in 1 .. n |-> [contract |-> LatestContract(s[i]), dir |-> dir[s[i]], weight |-> w[s[i]]]]
  BY <1>2
<1>6. w \in [Range(Roots) -> Nat]
  BY PortfolioAssumption DEF LegWeights, InverseVolWeights
<1>7. count' = [count EXCEPT !.signals = @ + n]
  BY <1>2
<1> HIDE DEF s, n
<1>8. \A r \in S : Root[LatestContract(r)] = r /\ LatestContract(r) \in Contracts
  BY <1>3, LatestFacts
<1>9. \A i \in 1 .. n :
         /\ [contract |-> LatestContract(s[i]), dir |-> dir[s[i]], weight |-> w[s[i]]] \in Legs
         /\ legs'[i].contract = LatestContract(s[i]) /\ Root[legs'[i].contract] = s[i]
  BY <1>3, <1>4, <1>5, <1>6, <1>8 DEF Legs
<1>10. legs' \in Seq(Legs) /\ DOMAIN legs' = 1 .. n
  <2>1. legs' \in [1 .. n -> Legs]
    BY <1>5, <1>9
  <2> QED BY <1>4, <2>1
<1>11. count' \in Counts
  <2>1. count \in Counts
    BY DEF PortInv, LoopTyped
  <2> QED BY <1>4, <1>7, <2>1 DEF Counts
<1>12. ASSUME NEW i \in DOMAIN legs'
       PROVE  /\ Shown(Root[legs'[i].contract]) # {}
              /\ legs'[i].contract = LatestContract(Root[legs'[i].contract])
  BY <1>3, <1>4, <1>9, <1>10
<1>13. ASSUME NEW i \in DOMAIN legs', NEW j \in DOMAIN legs',
              Root[legs'[i].contract] = Root[legs'[j].contract]
       PROVE  i = j
  <2>1. i \in 1 .. n /\ j \in 1 .. n
    BY <1>10, <1>13
  <2>2. Root[legs'[i].contract] = s[i] /\ Root[legs'[j].contract] = s[j]
    BY <1>9, <2>1
  <2> QED BY <1>4, <1>13, <2>1, <2>2
<1> QED BY <1>10, <1>11, <1>12, <1>13

LEMMA SignalsStep ==
    ASSUME PortInv, GenerateSignals
    PROVE  PortInv' /\ TapeGrows
<1>1. /\ phase = "signals" /\ phase' = "place" /\ SameDate /\ UNCHANGED vars
      /\ tape' = tape /\ lastClose' = lastClose /\ rolls' = rolls /\ curve' = curve
      /\ placed' = placed /\ largest' = largest
  BY DEF GenerateSignals, SameDate
<1>2. /\ Dates' = Dates /\ Today' = Today /\ (DateIsOver' <=> DateIsOver)
      /\ indexed' = indexed /\ rollEvents' = rollEvents /\ t' = t /\ (DataInv => DataInv')
  BY <1>1, SameDateFacts
<1>3. TypeOK' /\ orders' = orders /\ bar' = bar /\ cursor' = cursor
  BY <1>1 DEF vars, TypeOK, PortInv, Ids
<1>4. /\ legs' \in Seq(Legs) /\ count' \in Counts
      /\ \A i \in DOMAIN legs' :
             /\ Shown(Root[legs'[i].contract]) # {}
             /\ legs'[i].contract = LatestContract(Root[legs'[i].contract])
  BY SignalsEffect
<1>5. LoopTyped'
  BY <1>1, <1>2, <1>3, <1>4 DEF PortInv, LoopTyped, Phases
<1>6. DateIsOver /\ Idle /\ rolls = <<>> /\ Equity > 0 /\ t > 0
  BY <1>1 DEF PortInv, LoopInv
<1>7. Marked' /\ Marked
  BY <1>1 DEF Marked
<1>8. LoopInv'
  BY <1>1, <1>2, <1>3, <1>6, <1>7 DEF PortInv, LoopInv, Idle, Equity
<1>9. CloseInv'
  <2>1. ASSUME NEW i \in DOMAIN legs' PROVE lastClose[legs'[i].contract] > 0
    <3> DEFINE k == Max(Shown(Root[legs'[i].contract]))
    <3>1. k \in 1 .. t /\ legs'[i].contract = indexed[k].contract
      BY <1>4, LatestFacts
    <3> HIDE DEF k
    <3>2. Seen(k)
      BY <1>1, <3>1 DEF Seen
    <3> QED BY <3>1, <3>2 DEF PortInv, CloseInv
  <2>2. \A i \in DOMAIN legs' : lastClose'[legs'[i].contract] > 0
    BY <1>1, <2>1
  <2>3. \A i \in 1 .. t' : Seen(i)' => lastClose'[indexed'[i].contract] > 0
    BY <1>1, <1>2 DEF PortInv, CloseInv, Seen
  <2>4. /\ \A i \in 1 .. t' : tape'[<<indexed'[i].contract, indexed'[i].day>>] > 0
        /\ \A c \in Contracts : lastClose'[c] # 0 =>
              \E i \in 1 .. t' : indexed'[i].contract = c /\ lastClose'[c] = tape'[<<c, indexed'[i].day>>]
    BY <1>1, <1>2 DEF PortInv, CloseInv
  <2> QED BY <2>2, <2>3, <2>4 DEF CloseInv
<1>10. TapeGrows
  BY <1>1 DEF PortInv, LoopTyped, TapeGrows
<1> QED BY <1>2, <1>3, <1>5, <1>8, <1>9, <1>10 DEF PortInv

LEMMA SizeIsNat ==
    ASSUME PortInv, phase = "place", NEW leg \in Legs, lastClose[leg.contract] > 0
    PROVE  SizeOf(leg) \in Nat
<1>1. /\ leg.contract \in Contracts /\ leg.weight \in Nat
  BY DEF Legs
<1> DEFINE f == (Kelly * leg.weight) \div 100
           notional == lastClose[leg.contract] * Mult[leg.contract]
<1>2. \A x, y \in Nat : y > 0 => x \div y \in Nat
  OBVIOUS
<1>3. f \in Nat
  <2>1. Kelly * leg.weight \in Nat
    BY <1>1, PortfolioAssumption
  <2> QED BY <1>2, <2>1
<1>4. notional \in Nat /\ notional > 0
  <2>1. \A x, y \in Nat : x > 0 /\ y > 0 => x * y \in Nat /\ x * y > 0
    OBVIOUS
  <2>2. lastClose[leg.contract] \in Nat
    BY <1>1 DEF PortInv, LoopTyped
  <2>3. Mult[leg.contract] \in Nat /\ Mult[leg.contract] > 0
    <3>1. Mult[leg.contract] \in Nat \ {0}
      BY <1>1, ConstantsAssumption
    <3> QED BY <3>1
  <2> QED BY <2>1, <2>2, <2>3
<1>5. Equity \in Nat
  <2>1. Equity > 0 /\ curve \in Seq(Int) /\ t > 0
    BY DEF PortInv, LoopInv, LoopTyped
  <2>2. Marked /\ Len(curve) = Cardinality(Dates) /\ IsRun /\ t \in Nat /\ t <= Len(indexed)
        /\ Len(indexed) \in Nat
    BY PortFacts DEF PortInv, LoopInv, Marked
  <2>3. Len(curve) # 0
    <3>1. IsFiniteSet(Dates)
      <4>1. \A i \in 1 .. t : i \in 1 .. Len(indexed)
        BY <2>2
      <4>2. Dates \in SUBSET Days
        BY <2>2, <4>1 DEF Dates, IsRun
      <4> QED BY <4>2, DataFacts, FS_Subset
    <3>2. t \in 1 .. t
      BY <2>1, <2>2
    <3>3. indexed[t].day \in Dates
      BY <3>2 DEF Dates
    <3> QED BY <2>2, <3>1, <3>3, FS_EmptySet
  <2>4. Len(curve) \in DOMAIN curve
    BY <2>1, <2>3
  <2>5. Equity \in Int
    BY <2>1, <2>4 DEF Equity
  <2> QED BY <2>1, <2>5
<1>6. KellyPct \in Nat /\ MarginBudgetPct \in Nat /\ LeverageCap \in Nat /\ Margin \in Nat /\ Margin > 0
  BY SizingAssumption, PortfolioAssumption
<1> HIDE DEF f, notional
<1>7. KellyContracts(f, Equity, notional) \in Nat
  <2>1. f * KellyPct * Equity \in Nat /\ 10000 * notional \in Nat /\ 10000 * notional > 0
    <3>1. f * KellyPct \in Nat
      BY <1>3, <1>6
    <3> QED BY <1>4, <1>5, <3>1
  <2> QED BY <1>2, <2>1 DEF KellyContracts
<1>8. MarginContracts(Equity, Margin) \in Nat
  <2>1. Equity * MarginBudgetPct \in Nat /\ 100 * Margin \in Nat /\ 100 * Margin > 0
    BY <1>5, <1>6
  <2> QED BY <1>2, <2>1 DEF MarginContracts
<1>9. LeverageContracts(Equity, notional) \in Nat
  <2>1. Equity * LeverageCap \in Nat
    BY <1>5, <1>6
  <2> QED BY <1>2, <1>4, <2>1 DEF LeverageContracts
<1>10. BaseContracts(f, Equity, notional, Margin) \in Nat
  BY <1>7, <1>8, <1>9 DEF BaseContracts, Least
<1>11. SizeOf(leg) = IF leg.dir = 0 THEN 0 ELSE BaseContracts(f, Equity, notional, Margin)
  BY DEF SizeOf, f, notional
<1> QED BY <1>10, <1>11

\* What a leg does: nothing, or one market order for the difference to its target.
LEMMA LegEffect ==
    ASSUME AnyQuantity, PortInv, PlaceLeg
    PROVE  LET leg == Head(legs)
               size == SizeOf(leg)
               delta == ResolveOrder(leg, size)
               o == [contract |-> leg.contract, qty |-> Abs(delta), type |-> "MKT",
                     side |-> IF delta > 0 THEN "BUY" ELSE "SELL", price |-> 0]
           IN  /\ legs # <<>> /\ leg \in Legs /\ leg = legs[1] /\ 1 \in DOMAIN legs
               /\ size \in Nat /\ delta \in Int /\ phase = "place"
               /\ legs' = Tail(legs) /\ legs' \in Seq(Legs)
               /\ \A i \in DOMAIN legs' : i + 1 \in DOMAIN legs /\ legs'[i] = legs[i + 1]
               /\ largest' \in [Range(Roots) -> Nat]
               /\ \A r \in Range(Roots) : largest[r] <= largest'[r]
               /\ size <= largest'[Root[leg.contract]]
               /\ \/ UNCHANGED <<vars, count, placed>>
                  \/ /\ delta # 0 /\ o \in Orders /\ PlaceOrder(o) /\ ~BlockAllTrades
                     /\ count' = [count EXCEPT !.orders = @ + 1]
                     /\ placed' = Append(placed, Today)
<1> DEFINE leg == Head(legs)
           size == SizeOf(leg)
           delta == ResolveOrder(leg, size)
           o == [contract |-> leg.contract, qty |-> Abs(delta), type |-> "MKT",
                 side |-> IF delta > 0 THEN "BUY" ELSE "SELL", price |-> 0]
           r == Root[leg.contract]
           m == Max({largest[r], size})
<1>1. /\ phase = "place" /\ legs # <<>> /\ legs' = Tail(legs)
      /\ largest' = [largest EXCEPT ![r] = m]
      /\ \/ UNCHANGED <<vars, count, placed>>
         \/ /\ delta # 0 /\ PlaceOrder(o) /\ ~BlockAllTrades
            /\ count' = [count EXCEPT !.orders = @ + 1]
            /\ placed' = Append(placed, Today)
  BY DEF PlaceLeg
<1>2. legs \in Seq(Legs) /\ largest \in [Range(Roots) -> Nat]
      /\ \A i \in DOMAIN legs : lastClose[legs[i].contract] > 0
  BY DEF PortInv, LoopTyped, CloseInv
<1>3. leg \in Legs /\ leg = legs[1] /\ 1 \in DOMAIN legs /\ legs' \in Seq(Legs)
  BY <1>1, <1>2
<1>4. \A i \in DOMAIN legs' : i + 1 \in DOMAIN legs /\ legs'[i] = legs[i + 1]
  BY <1>1, <1>2
<1>5. size \in Nat
  BY <1>1, <1>2, <1>3, SizeIsNat
<1>6. leg.contract \in Contracts /\ leg.dir \in {-1, 0, 1} /\ r \in Range(Roots)
  BY <1>3 DEF Legs
<1> HIDE DEF leg
<1>7. delta \in Int
  <2>1. Held(leg.contract) \in Int
    <3>1. book \in Books
      BY PortFacts
    <3> QED BY <1>6, <3>1 DEF Held, Books, Positions
  <2> HIDE DEF size
  <2>2. leg.dir * size \in Int
    BY <1>5, <1>6
  <2> QED BY <2>1, <2>2 DEF ResolveOrder
<1> HIDE DEF size, delta
<1>8. m \in Nat /\ largest[r] <= m /\ size <= m
  <2> DEFINE T == {largest[r], size}
  <2>1. largest[r] \in Nat
    BY <1>2, <1>6
  <2>2. T \in SUBSET Nat /\ T # {} /\ IsFiniteSet(T)
    <3>1. IsFiniteSet({size})
      BY FS_Singleton
    <3>2. IsFiniteSet({size} \cup {largest[r]})
      BY <3>1, FS_AddElement
    <3>3. T = {size} \cup {largest[r]}
      OBVIOUS
    <3> QED BY <1>5, <2>1, <3>2, <3>3
  <2>3. Max(T) \in T /\ \A x \in T : x <= Max(T)
    BY <2>2, MaxFacts
  <2> QED BY <2>2, <2>3
<1> HIDE DEF m
<1>9. /\ largest' \in [Range(Roots) -> Nat] /\ \A x \in Range(Roots) : largest[x] <= largest'[x]
      /\ size <= largest'[r]
  <2> HIDE DEF r
  <2> QED BY <1>1, <1>2, <1>6, <1>8
<1>10. delta # 0 => o \in Orders
  <2> SUFFICES ASSUME delta # 0 PROVE o \in Orders
    OBVIOUS
  <2>1. Abs(delta) \in Quantities
    BY <1>7 DEF Abs, AnyQuantity
  <2> QED BY <1>6, <2>1 DEF Orders, OrderTypes, Sides, PricesFor
<1> HIDE DEF o
<1> QED BY <1>1, <1>3, <1>4, <1>5, <1>7, <1>9, <1>10 DEF leg, size, delta, o, r

LEMMA PlaceLegStep ==
    ASSUME AnyQuantity, PortInv, PlaceLeg
    PROVE  PortInv' /\ TapeGrows
<1> DEFINE leg == Head(legs)
           size == SizeOf(leg)
           delta == ResolveOrder(leg, size)
           o == [contract |-> leg.contract, qty |-> Abs(delta), type |-> "MKT",
                 side |-> IF delta > 0 THEN "BUY" ELSE "SELL", price |-> 0]
<1>1. /\ legs' \in Seq(Legs) /\ phase = "place"
      /\ \A i \in DOMAIN legs' : i + 1 \in DOMAIN legs /\ legs'[i] = legs[i + 1]
      /\ largest' \in [Range(Roots) -> Nat]
      /\ \/ UNCHANGED <<vars, count, placed>>
         \/ /\ o \in Orders /\ PlaceOrder(o)
            /\ count' = [count EXCEPT !.orders = @ + 1]
            /\ placed' = Append(placed, Today)
  BY LegEffect
<1> HIDE DEF o
<1>2. /\ SameDate /\ phase' = phase /\ tape' = tape /\ lastClose' = lastClose /\ rolls' = rolls
      /\ curve' = curve
  BY DEF PlaceLeg, SameDate
<1>3. /\ Dates' = Dates /\ Today' = Today /\ (DateIsOver' <=> DateIsOver)
      /\ indexed' = indexed /\ rollEvents' = rollEvents /\ t' = t /\ (DataInv => DataInv')
  BY <1>2, SameDateFacts
<1>4. DateIsOver /\ Idle /\ rolls = <<>> /\ Equity > 0 /\ t > 0
  BY <1>1 DEF PortInv, LoopInv
<1>5. TypeOK /\ Today \in Days /\ OrdersTyped /\ bar \in Bars /\ book \in Books
      /\ cursor \in 0 .. Len(orders)
  BY <1>4, PortFacts DEF TypeOK
<1>6. placed \in Seq(Days) /\ Len(placed) = Len(orders) /\ count \in Counts /\ orders \in Seq(Orders)
  BY <1>5 DEF PortInv, LoopTyped, OrdersTyped
<1>7. /\ TypeOK' /\ placed' \in Seq(Days) /\ Len(placed') = Len(orders') /\ count' \in Counts
      /\ bar' = bar /\ cursor' = cursor
  <2>1. CASE UNCHANGED <<vars, count, placed>>
    BY <1>5, <1>6, <2>1 DEF vars, TypeOK, Ids
  <2>2. CASE /\ o \in Orders /\ PlaceOrder(o)
             /\ count' = [count EXCEPT !.orders = @ + 1]
             /\ placed' = Append(placed, Today)
    <3>1. OrdersTyped' /\ cursor' \in 0 .. Len(orders')
      BY <1>5, <2>2, PlaceOrderTyped
    <3>2. book' = book /\ bar' = bar /\ cursor' = cursor /\ orders' = Append(orders, o)
      BY <2>2 DEF PlaceOrder
    <3>3. TypeOK'
      BY <1>5, <3>1, <3>2 DEF TypeOK, OrdersTyped, Books, Events
    <3>4. placed' \in Seq(Days) /\ Len(placed') = Len(orders')
      BY <1>5, <1>6, <2>2, <3>2
    <3>5. count' \in Counts
      <4>1. count' = [count EXCEPT !.orders = @ + 1] /\ count \in Counts
        BY <1>6, <2>2
      <4> QED BY <4>1 DEF Counts
    <3> QED BY <3>2, <3>3, <3>4, <3>5
  <2> QED BY <1>1, <2>1, <2>2
<1>8. LoopTyped'
  BY <1>1, <1>2, <1>3, <1>7 DEF PortInv, LoopTyped
<1>9. Marked' /\ Marked
  BY <1>1, <1>2 DEF Marked
<1>10. LoopInv'
  BY <1>1, <1>2, <1>3, <1>4, <1>7, <1>9 DEF PortInv, LoopInv, Idle, Equity
<1>11. CloseInv'
  <2>1. \A i \in DOMAIN legs' : lastClose'[legs'[i].contract] > 0
    BY <1>1, <1>2 DEF PortInv, CloseInv
  <2>2. \A i \in 1 .. t' : Seen(i)' => lastClose'[indexed'[i].contract] > 0
    BY <1>2, <1>3 DEF PortInv, CloseInv, Seen
  <2>3. /\ \A i \in 1 .. t' : tape'[<<indexed'[i].contract, indexed'[i].day>>] > 0
        /\ \A c \in Contracts : lastClose'[c] # 0 =>
              \E i \in 1 .. t' : indexed'[i].contract = c /\ lastClose'[c] = tape'[<<c, indexed'[i].day>>]
    BY <1>2, <1>3 DEF PortInv, CloseInv
  <2> QED BY <2>1, <2>2, <2>3 DEF CloseInv
<1>12. TapeGrows
  BY <1>2 DEF PortInv, LoopTyped, TapeGrows
<1> QED BY <1>3, <1>7, <1>8, <1>10, <1>11, <1>12 DEF PortInv

LEMMA PortStep ==
    ASSUME AnyQuantity, PortInv, [PortfolioNext]_allVars
    PROVE  PortInv'
<1>1. CASE UNCHANGED allVars
  <2>1. /\ vars' = vars /\ SameDate /\ phase' = phase /\ tape' = tape /\ lastClose' = lastClose
        /\ rolls' = rolls /\ legs' = legs /\ curve' = curve /\ count' = count /\ placed' = placed
        /\ largest' = largest
    BY <1>1 DEF allVars, loopVars, SameDate
  <2>2. /\ Dates' = Dates /\ Today' = Today /\ (DateIsOver' <=> DateIsOver)
        /\ indexed' = indexed /\ rollEvents' = rollEvents /\ t' = t /\ (DataInv => DataInv')
    BY <2>1, SameDateFacts
  <2>3. TypeOK' /\ orders' = orders /\ bar' = bar /\ cursor' = cursor
    BY <2>1 DEF vars, TypeOK, PortInv, Ids
  <2>4. LoopTyped'
    BY <2>1, <2>2, <2>3 DEF PortInv, LoopTyped
  <2>5. LoopInv'
    BY <2>1, <2>2, <2>3 DEF PortInv, LoopInv, Idle, Equity, Marked
  <2>6. CloseInv'
    BY <2>1, <2>2 DEF PortInv, CloseInv, Seen
  <2> QED BY <2>2, <2>3, <2>4, <2>5, <2>6 DEF PortInv
<1>2. CASE Over
  BY <1>1, <1>2 DEF Over
<1> QED BY <1>1, <1>2, NextBarStep, AdvanceStep, SeeCloseStep, ExecuteRollStep, MarkStep, SignalsStep,
           PlaceLegStep, NextDateStep DEF PortfolioNext

-----------------------------------------------------------------------------
(* Orders are decided before they are filled                                 *)

DecidedInv ==
    /\ t = 0 => orders = <<>>
    /\ \A id \in Ids : placed[id] <= Today /\ (filled[id] > 0 => placed[id] < Today)
    /\ \/ phase \in {"bar", "place"} /\ (t = 0 \/ DateIsOver)
       \/ \A id \in Ids : placed[id] < Today

LEMMA DecidedKept ==
    ASSUME DecidedInv, SameDate, UNCHANGED <<orders, filled, placed>>,
           \/ phase' = phase
           \/ phase \notin {"bar", "place"}
           \/ phase' \in {"bar", "place"} /\ (t = 0 \/ DateIsOver)
    PROVE  DecidedInv'
<1>1. /\ Today' = Today /\ (DateIsOver' <=> DateIsOver) /\ t' = t
  BY SameDateFacts
<1> QED BY <1>1 DEF DecidedInv, Ids

\* Facts about the orders placed so far.
LEMMA PlacedFacts ==
    ASSUME PortInv
    PROVE  /\ Ids = 1 .. Len(orders) /\ DOMAIN placed = Ids /\ DOMAIN filled = Ids
           /\ \A id \in Ids : placed[id] \in Days /\ placed[id] \in Nat /\ filled[id] \in Nat
                              /\ orders[id].qty \in Nat \ {0} /\ orders[id].contract \in Contracts
                              /\ orders[id].side \in Sides
<1>1. OrdersTyped /\ placed \in Seq(Days) /\ Len(placed) = Len(orders) /\ orders \in Seq(Orders)
      /\ filled \in Seq(Nat) /\ Len(filled) = Len(orders)
  BY PortFacts DEF PortInv, LoopTyped, OrdersTyped
<1>2. Ids = 1 .. Len(orders) /\ DOMAIN placed = Ids /\ DOMAIN filled = Ids
  BY <1>1 DEF Ids
<1>3. ASSUME NEW id \in Ids
      PROVE  /\ placed[id] \in Days /\ placed[id] \in Nat /\ filled[id] \in Nat
             /\ orders[id].qty \in Nat \ {0} /\ orders[id].contract \in Contracts
             /\ orders[id].side \in Sides
  <2>1. placed[id] \in Days
    BY <1>1, <1>2
  <2> QED BY <1>1, <2>1, OneOrder, DataFacts
<1> QED BY <1>2, <1>3

LEMMA DecidedStep ==
    ASSUME AnyQuantity, PortInv, DecidedInv, [PortfolioNext]_allVars
    PROVE  DecidedInv'
<1>1. ASSUME NEW b \in Bars, NEW px \in Closes[Root[b.contract]], NextBar(b, px)
      PROVE  DecidedInv'
  <2>1. /\ phase = "bar" /\ t' = t + 1 /\ t < Len(indexed) /\ indexed' = indexed /\ phase' = "fill"
        /\ orders' = orders /\ filled' = filled /\ placed' = placed
    BY <1>1 DEF NextBar, AdvanceStart
  <2>2. IsRun /\ t \in Nat /\ Len(indexed) \in Nat /\ Ids = 1 .. Len(orders)
        /\ \A id \in Ids : placed[id] \in Nat
    BY PortFacts, PlacedFacts
  <2>3. ASSUME NEW id \in Ids PROVE placed[id] < Today'
    <3>1. t # 0
      BY <2>3 DEF DecidedInv, Ids
    <3>2. t \in 1 .. Len(indexed) /\ t + 1 \in 1 .. Len(indexed) /\ t <= t + 1
      BY <2>1, <2>2, <3>1
    <3>3. Today \in Nat /\ Today' \in Nat /\ Today <= Today' /\ Today' = indexed[t + 1].day
      BY <2>1, <2>2, <3>2 DEF IsRun, Today
    <3>4. placed[id] \in Nat /\ placed[id] <= Today
      BY <2>2, <2>3 DEF DecidedInv
    <3>5. CASE DateIsOver
      <4>1. Today # Today'
        BY <2>1, <2>2, <3>3, <3>5 DEF DateIsOver
      <4> QED BY <3>3, <3>4, <4>1
    <3>6. CASE ~DateIsOver
      <4>1. placed[id] < Today
        BY <2>3, <3>1, <3>6 DEF DecidedInv
      <4> QED BY <3>3, <3>4, <4>1
    <3> QED BY <3>5, <3>6
  <2>4. \A id \in Ids : placed[id] <= Today'
    <3> SUFFICES ASSUME NEW id \in Ids PROVE placed[id] <= Today'
      OBVIOUS
    <3>1. placed[id] < Today' /\ placed[id] \in Nat
      BY <2>2, <2>3
    <3>2. Today' \in Nat
      <4>1. t + 1 \in 1 .. Len(indexed)
        BY <2>1, <2>2
      <4> QED BY <2>1, <2>2, <4>1 DEF Today, IsRun
    <3> QED BY <3>1, <3>2
  <2>5. Ids' = Ids /\ t' # 0
    BY <2>1, <2>2 DEF Ids
  <2> QED BY <2>1, <2>3, <2>4, <2>5 DEF DecidedInv
<1>2. CASE Advance
  <2>1. SameDate /\ orders' = orders /\ placed' = placed /\ phase' = phase /\ phase = "fill"
    BY <1>2 DEF Advance, SameDate, AdvanceSkip, AdvanceFill, Fill
  <2>2. /\ Today' = Today /\ (DateIsOver' <=> DateIsOver) /\ t' = t /\ Ids' = Ids
    BY <2>1, SameDateFacts DEF Ids
  <2>3. \A id \in Ids : placed[id] < Today /\ placed[id] <= Today
    BY <2>1 DEF DecidedInv
  <2> QED BY <2>1, <2>2, <2>3 DEF DecidedInv
<1>3. CASE SeeClose \/ Mark \/ GenerateSignals \/ NextDate
  <2>1. /\ SameDate /\ UNCHANGED <<orders, filled, placed>>
        /\ phase \in {"fill", "roll", "signals"} \/ (phase = "place" /\ phase' = "bar")
    BY <1>3 DEF SeeClose, Mark, GenerateSignals, NextDate, SameDate, vars
  <2>2. phase = "place" => DateIsOver
    BY DEF PortInv, LoopInv
  <2> QED BY <2>1, <2>2, DecidedKept
<1>4. ASSUME NEW ff \in RollFills, NEW bf \in RollFills, ExecuteRoll(ff, bf) PROVE DecidedInv'
  <2>1. SameDate /\ placed' = placed /\ phase' = phase
    BY <1>4 DEF ExecuteRoll, SameDate
  <2>2. UNCHANGED <<orders, filled, placed>>
    BY <1>4, <2>1, RollEffect
  <2> QED BY <2>1, <2>2, DecidedKept
<1>5. CASE PlaceLeg
  <2>1. SameDate /\ phase' = phase /\ phase = "place"
    BY <1>5 DEF PlaceLeg, SameDate
  <2>2. CASE UNCHANGED <<vars, count, placed>>
    BY <2>1, <2>2, DecidedKept DEF vars
  <2>3. CASE \E o \in Orders : PlaceOrder(o) /\ placed' = Append(placed, Today)
    <3>1. PICK o \in Orders : PlaceOrder(o) /\ placed' = Append(placed, Today)
      BY <2>3
    <3>2. orders' = Append(orders, o) /\ filled' = Append(filled, 0)
      BY <3>1 DEF PlaceOrder
    <3>3. /\ Today' = Today /\ (DateIsOver' <=> DateIsOver) /\ t' = t
      BY <2>1, SameDateFacts
    <3>4. t > 0 /\ DateIsOver
      BY <2>1 DEF PortInv, LoopInv
    <3>5. Today \in Nat /\ placed \in Seq(Days) /\ orders \in Seq(Orders) /\ filled \in Seq(Nat)
          /\ Len(placed) = Len(orders) /\ Len(filled) = Len(orders)
      BY <3>4, PortFacts DEF PortInv, LoopTyped, OrdersTyped
    <3>6. ASSUME NEW id \in Ids' PROVE placed'[id] <= Today /\ (filled'[id] > 0 => placed'[id] < Today)
      <4>1. CASE id \in Ids
        <5>1. placed'[id] = placed[id] /\ filled'[id] = filled[id]
          BY <3>1, <3>2, <3>5, <4>1 DEF Ids
        <5> QED BY <4>1, <5>1 DEF DecidedInv
      <4>2. CASE id \notin Ids
        <5>1. id = Len(orders) + 1
          BY <3>2, <3>5, <3>6, <4>2 DEF Ids
        <5>2. placed'[id] = Today /\ filled'[id] = 0
          BY <3>1, <3>2, <3>5, <5>1
        <5> QED BY <3>5, <5>2
      <4> QED BY <4>1, <4>2
    <3> QED BY <2>1, <3>3, <3>4, <3>6 DEF DecidedInv
  <2> QED BY <1>5, <2>2, <2>3, LegEffect
<1>6. CASE UNCHANGED allVars
  BY <1>6, DecidedKept DEF allVars, vars, loopVars, SameDate
<1>7. CASE Over
  BY <1>6, <1>7 DEF Over
<1> QED BY <1>1, <1>2, <1>3, <1>4, <1>5, <1>6, <1>7 DEF PortfolioNext

-----------------------------------------------------------------------------
(* Positions and rolls                                                       *)

\* The roll e has been executed.
Rolled(e) ==
    /\ e.day \in Dates
    /\ \/ e.day < Today
       \/ Marked
       \/ phase = "roll" /\ e \notin Range(rolls)

\* What has been rolled stays flat.
LeftInv == \A e \in rollEvents : Rolled(e) => Held(e.old) = 0

\* A position is in a contract with a close, or in one that was rolled into.
KnownInv ==
    /\ t = 0 => \A c \in Contracts : Held(c) = 0
    /\ \A c \in Contracts : Held(c) # 0 =>
          \/ lastClose[c] # 0
          \/ phase = "fill" /\ bar.contract = c
          \/ \E e \in rollEvents : e.new = c /\ e.day <= Today /\ Held(e.old) = 0

\* A contract that trades is not one whose roll is due.
LEMMA RolledIsBehind ==
    ASSUME PortInv, t > 0, NEW e \in rollEvents, e.day <= Today
    PROVE  e.old # bar.contract /\ \A f \in rollEvents : f.day = Today => f.new # e.old
<1>1. /\ AreRolls /\ Today \in Nat /\ Today < Target[bar.contract] /\ Target[bar.contract] \in Nat
  BY PortFacts
<1>2. e.day = Target[e.old] /\ e.day \in Nat
  BY <1>1 DEF AreRolls
<1>3. e.old # bar.contract
  BY <1>1, <1>2
<1>4. ASSUME NEW f \in rollEvents, f.day = Today, f.new = e.old PROVE FALSE
  <2>1. f.day < Target[f.new] /\ Target[f.new] \in Nat
    BY <1>1 DEF AreRolls
  <2> QED BY <1>1, <1>2, <1>4, <2>1
<1> QED BY <1>3, <1>4

LEMMA DatesAreBehind ==
    ASSUME PortInv, NEW d \in Dates
    PROVE  d \in Nat /\ d <= Today /\ t > 0
<1>1. PICK i \in 1 .. t : d = indexed[i].day
  BY DEF Dates
<1>2. t \in Nat
  BY PortFacts
<1> QED BY <1>1, <1>2, PortFacts

\* Where positions move.
LEMMA FillHeld ==
    ASSUME PortInv, AdvanceFill
    PROVE  \A c \in Contracts : c # bar.contract => Held(c)' = Held(c)
<1>1. TypeOK
  BY PortFacts
<1> DEFINE q == Signed(orders[cursor].side, orders[cursor].qty - filled[cursor])
<1>2. \E gain : Moved(book', book, bar.contract, q, gain)
  BY <1>1, FillMovesBook
<1> HIDE DEF q
<1> QED BY <1>2 DEF Moved, Held

LEMMA RollHeld ==
    ASSUME PortInv, NEW e \in rollEvents, NEW ff \in Int, NEW bf \in Int,
           RollPosition(e.old, e.new, ff, bf)
    PROVE  /\ Held(e.old)' = 0 /\ Held(e.new)' = Held(e.new) + Held(e.old)
           /\ \A c \in Contracts : c # e.old /\ c # e.new => book'.pos[c] = book.pos[c]
<1>1. book \in Books /\ AreRolls
  BY PortFacts
<1>2. e.old \in Contracts /\ e.new \in Contracts /\ e.old # e.new
  BY <1>1 DEF AreRolls
<1>3. PICK m, g : /\ m \in Books
                  /\ Moved(m, book, e.old, -book.pos[e.old].qty, g)
                  /\ \E a, k : Moved(a, m, e.new, book.pos[e.old].qty, k)
                               /\ book'.pos = a.pos /\ book'.realized = a.realized
  BY <1>1, <1>2, RollMoves
<1>4. PICK a, k : Moved(a, m, e.new, book.pos[e.old].qty, k) /\ book'.pos = a.pos
  BY <1>3
<1>5. book.pos[e.old].qty \in Int /\ book.pos[e.new].qty \in Int
  BY <1>1, <1>2 DEF Books, Positions
<1>6. m.pos[e.old].qty = 0 /\ m.pos[e.new] = book.pos[e.new]
  BY <1>2, <1>3, <1>5 DEF Moved
<1>7. a.pos[e.old] = m.pos[e.old] /\ a.pos[e.new].qty = m.pos[e.new].qty + book.pos[e.old].qty
  BY <1>2, <1>4 DEF Moved
<1>8. \A c \in Contracts : c # e.old /\ c # e.new => a.pos[c] = book.pos[c]
  BY <1>3, <1>4 DEF Moved
<1> QED BY <1>4, <1>6, <1>7, <1>8 DEF Held

\* Which of the steps of a date move what is held.
LEMMA HeldMoves ==
    ASSUME AnyQuantity, PortInv, [PortfolioNext]_allVars
    PROVE  \/ book' = book
           \/ phase = "fill" /\ phase' = "fill" /\ AdvanceFill
           \/ \E ff, bf \in RollFills :
                 ExecuteRoll(ff, bf) /\ RollPosition(Head(rolls).old, Head(rolls).new, ff, bf)
<1>1. CASE PlaceLeg
  <2>1. ASSUME NEW o, PlaceOrder(o) PROVE book' = book
    BY <2>1 DEF PlaceOrder
  <2> QED BY <1>1, <2>1, LegEffect DEF vars
<1>2. ASSUME NEW ff \in RollFills, NEW bf \in RollFills, ExecuteRoll(ff, bf)
      PROVE  book' = book \/ RollPosition(Head(rolls).old, Head(rolls).new, ff, bf)
  BY <1>2, RollEffect DEF vars
<1>3. CASE Advance
  BY <1>3 DEF Advance, AdvanceSkip
<1>4. CASE UNCHANGED allVars \/ Over \/ SeeClose \/ Mark \/ GenerateSignals \/ NextDate
  BY <1>4 DEF allVars, vars, Over, SeeClose, Mark, GenerateSignals, NextDate
<1>5. ASSUME NEW b \in Bars, NEW px \in Closes[Root[b.contract]], NextBar(b, px) PROVE book' = book
  BY <1>5 DEF NextBar, AdvanceStart
<1> QED BY <1>1, <1>2, <1>3, <1>4, <1>5 DEF PortfolioNext

\* A roll that has been executed was so before the step, or is executed by it.
LEMMA RolledStep ==
    ASSUME AnyQuantity, PortInv, [PortfolioNext]_allVars, NEW e \in rollEvents, Rolled(e)'
    PROVE  Rolled(e) \/ \E ff, bf \in RollFills : ExecuteRoll(ff, bf) /\ e = Head(rolls)
<1>1. t \in Nat /\ IsRun /\ AreRolls /\ Len(indexed) \in Nat
  BY PortFacts
<1>2. e.day \in Nat
  BY <1>1 DEF AreRolls
<1>3. ASSUME NEW b \in Bars, NEW px \in Closes[Root[b.contract]], NextBar(b, px)
      PROVE  Rolled(e)
  <2>1. /\ phase = "bar" /\ t' = t + 1 /\ t < Len(indexed) /\ indexed' = indexed /\ phase' = "fill"
    BY <1>3 DEF NextBar
  <2>2. e.day \in Dates' /\ e.day < Today'
    BY <2>1 DEF Rolled, Marked
  <2>3. PICK i \in 1 .. t + 1 : e.day = indexed[i].day
    BY <2>1, <2>2 DEF Dates
  <2>4. Today' = indexed[t + 1].day /\ Today' \in Nat
    <3>1. t + 1 \in 1 .. Len(indexed)
      BY <1>1, <2>1
    <3> QED BY <1>1, <2>1, <3>1 DEF Today, IsRun
  <2>5. i \in 1 .. t
    <3>1. i # t + 1
      BY <1>2, <2>2, <2>3, <2>4
    <3> QED BY <1>1, <3>1
  <2>6. e.day \in Dates
    BY <2>3, <2>5 DEF Dates
  <2>7. Today \in Nat /\ t > 0 /\ e.day <= Today
    BY <2>6, DatesAreBehind, PortFacts
  <2>8. CASE DateIsOver
    BY <2>1, <2>6, <2>8 DEF Rolled, Marked
  <2>9. CASE ~DateIsOver
    <3>1. Today = Today'
      BY <2>1, <2>4, <2>9 DEF DateIsOver
    <3> QED BY <2>2, <2>6, <3>1 DEF Rolled
  <2> QED BY <2>8, <2>9
<1>4. ASSUME SameDate, Marked' => Marked, phase' = "roll" => phase = "roll" /\ rolls' = rolls
      PROVE  Rolled(e)
  <2>1. Dates' = Dates /\ Today' = Today
    BY <1>4, SameDateFacts
  <2> QED BY <1>4, <2>1 DEF Rolled
<1>5. CASE Advance
  <2>1. SameDate /\ phase' = "fill"
    BY <1>5 DEF Advance, SameDate
  <2> QED BY <1>4, <2>1 DEF Marked
<1>6. CASE SeeClose
  <2>1. /\ SameDate /\ phase = "fill"
        /\ \/ phase' = "roll" /\ rolls' = RollsOn(Today)
           \/ phase' = "bar" /\ ~DateIsOver
    BY <1>6 DEF SeeClose, SameDate
  <2>2. /\ Dates' = Dates /\ Today' = Today /\ (DateIsOver' <=> DateIsOver) /\ t' = t
    BY <2>1, SameDateFacts
  <2>3. t > 0
    BY <2>1 DEF PortInv, LoopInv
  <2>4. CASE phase' = "bar" /\ ~DateIsOver
    BY <1>4, <2>1, <2>2, <2>3, <2>4 DEF Marked
  <2>5. CASE phase' = "roll" /\ rolls' = RollsOn(Today)
    <3>1. e.day \in Dates /\ (e.day < Today \/ e \notin Range(rolls'))
      BY <2>2, <2>5 DEF Rolled, Marked
    <3>2. e.day \in Nat /\ e.day <= Today /\ Today \in Nat
      BY <2>3, <3>1, DatesAreBehind, PortFacts
    <3>3. e \notin Range(rolls') => e.day # Today
      BY <1>1, <2>5, RollsOnFacts
    <3>4. e.day < Today
      BY <3>1, <3>2, <3>3
    <3> QED BY <3>1, <3>4 DEF Rolled
  <2> QED BY <2>1, <2>4, <2>5
<1>7. ASSUME NEW ff \in RollFills, NEW bf \in RollFills, ExecuteRoll(ff, bf), e # Head(rolls)
      PROVE  Rolled(e)
  <2>1. SameDate /\ phase = "roll" /\ phase' = "roll"
    BY <1>7 DEF ExecuteRoll, SameDate
  <2>2. Dates' = Dates /\ Today' = Today
    BY <2>1, SameDateFacts
  <2>3. Range(rolls) \in SUBSET (Range(rolls') \cup {Head(rolls)})
    BY <1>7, RollEffect
  <2>4. e \notin Range(rolls') => e \notin Range(rolls)
    BY <1>7, <2>3
  <2> QED BY <2>1, <2>2, <2>4 DEF Rolled, Marked
<1>8. CASE Mark
  <2>1. SameDate /\ phase = "roll" /\ rolls = <<>>
    BY <1>8 DEF Mark, SameDate
  <2>2. Dates' = Dates
    BY <2>1, SameDateFacts
  <2>3. e.day \in Dates /\ e \notin Range(rolls)
    BY <2>1, <2>2 DEF Rolled, Range
  <2> QED BY <2>1, <2>3 DEF Rolled
<1>9. CASE GenerateSignals \/ NextDate \/ PlaceLeg
  <2>1. SameDate /\ Marked /\ phase' # "roll"
    BY <1>9 DEF GenerateSignals, NextDate, PlaceLeg, SameDate, Marked
  <2> QED BY <1>4, <2>1
<1>10. CASE UNCHANGED allVars \/ Over
  <2>1. SameDate /\ phase' = phase /\ rolls' = rolls
    BY <1>10 DEF allVars, loopVars, SameDate, Over
  <2>2. Marked' => Marked
    BY <2>1, SameDateFacts DEF Marked
  <2> QED BY <1>4, <2>1, <2>2
<1> QED BY <1>3, <1>5, <1>6, <1>7, <1>8, <1>9, <1>10 DEF PortfolioNext

LEMMA LeftStep ==
    ASSUME AnyQuantity, PortInv, LeftInv, [PortfolioNext]_allVars
    PROVE  LeftInv'
<1>1. rollEvents' = rollEvents /\ AreRolls /\ book \in Books
  BY DataKept, PortFacts
<1> SUFFICES ASSUME NEW e \in rollEvents, Rolled(e)' PROVE Held(e.old)' = 0
  BY <1>1 DEF LeftInv
<1>2. e.old \in Contracts
  BY <1>1 DEF AreRolls
<1>3. CASE Rolled(e)
  <2>1. Held(e.old) = 0 /\ e.day <= Today /\ t > 0
    BY <1>3, DatesAreBehind DEF LeftInv, Rolled
  <2>2. e.old # bar.contract /\ \A f \in rollEvents : f.day = Today => f.new # e.old
    BY <2>1, RolledIsBehind
  <2>3. CASE book' = book
    BY <2>1, <2>3 DEF Held
  <2>4. CASE AdvanceFill
    BY <1>2, <2>1, <2>2, <2>4, FillHeld
  <2>5. ASSUME NEW ff \in RollFills, NEW bf \in RollFills, ExecuteRoll(ff, bf),
               RollPosition(Head(rolls).old, Head(rolls).new, ff, bf)
        PROVE  Held(e.old)' = 0
    <3>1. PICK f \in rollEvents : f = Head(rolls) /\ f.day = Today /\ ff \in Int /\ bf \in Int
      BY <2>5, RollEffect
    <3>2. RollPosition(f.old, f.new, ff, bf)
      BY <2>5, <3>1
    <3>3. f.new # e.old
      BY <2>2, <3>1
    <3> QED BY <1>2, <2>1, <3>1, <3>2, <3>3, RollHeld DEF Held
  <2> QED BY <2>3, <2>4, <2>5, HeldMoves
<1>4. ASSUME NEW ff \in RollFills, NEW bf \in RollFills, ExecuteRoll(ff, bf), e = Head(rolls)
      PROVE  Held(e.old)' = 0
  <2>1. CASE Held(e.old) = 0 /\ UNCHANGED <<vars, count>>
    BY <2>1 DEF vars, Held
  <2>2. CASE RollPosition(e.old, e.new, ff, bf)
    <3>1. ff \in Int /\ bf \in Int
      BY <1>4, RollEffect
    <3> QED BY <2>2, <3>1, RollHeld
  <2> QED BY <1>4, <2>1, <2>2, RollEffect
<1> QED BY <1>3, <1>4, RolledStep

\* The data stay and the dates only move on.
LEMMA DatesMoveOn ==
    ASSUME AnyQuantity, PortInv, [PortfolioNext]_allVars
    PROVE  /\ indexed' = indexed /\ rollEvents' = rollEvents
           /\ t \in Nat /\ t' \in Nat /\ t <= t' /\ t' <= Len(indexed) /\ Len(indexed) \in Nat
           /\ t > 0 => Today <= Today' /\ Today \in Nat /\ Today' \in Nat
<1>1. IsRun /\ t \in Nat /\ t <= Len(indexed) /\ Len(indexed) \in Nat
      /\ indexed' = indexed /\ rollEvents' = rollEvents
  BY PortFacts, DataKept
<1>2. t' \in Nat /\ t <= t'
  <2>1. SameDate \/ \E b \in Bars : \E px \in Closes[Root[b.contract]] : NextBar(b, px)
    BY DEF PortfolioNext, Advance, SeeClose, ExecuteRoll, Mark, GenerateSignals, PlaceLeg, NextDate,
           Over, allVars, loopVars, SameDate
  <2>2. CASE SameDate
    BY <1>1, <2>2 DEF SameDate
  <2>3. ASSUME NEW b \in Bars, NEW px \in Closes[Root[b.contract]], NextBar(b, px)
        PROVE t' \in Nat /\ t <= t'
    BY <1>1, <2>3 DEF NextBar
  <2> QED BY <2>1, <2>2, <2>3
<1>3. t' <= Len(indexed)
  BY <1>1, PortStep DEF PortInv, LoopTyped
<1>4. ASSUME t > 0 PROVE Today <= Today' /\ Today \in Nat /\ Today' \in Nat
  <2>1. t \in 1 .. Len(indexed) /\ t' \in 1 .. Len(indexed)
    BY <1>1, <1>2, <1>3, <1>4
  <2> QED BY <1>1, <1>2, <2>1 DEF Today, IsRun
<1> QED BY <1>1, <1>2, <1>3, <1>4

\* What was rolled out of is not entered again.
LEMMA FlatStaysFlat ==
    ASSUME AnyQuantity, PortInv, [PortfolioNext]_allVars, t > 0,
           NEW e \in rollEvents, e.day <= Today, Held(e.old) = 0
    PROVE  Held(e.old)' = 0
<1>1. e.old \in Contracts /\ e.old # bar.contract
  BY PortFacts, RolledIsBehind DEF AreRolls
<1>2. CASE book' = book
  BY <1>2 DEF Held
<1>3. CASE AdvanceFill
  BY <1>1, <1>3, FillHeld
<1>4. ASSUME NEW ff \in RollFills, NEW bf \in RollFills, ExecuteRoll(ff, bf),
             RollPosition(Head(rolls).old, Head(rolls).new, ff, bf)
      PROVE  Held(e.old)' = 0
  <2>1. PICK f \in rollEvents : f = Head(rolls) /\ f.day = Today /\ ff \in Int /\ bf \in Int
    BY <1>4, RollEffect
  <2>2. RollPosition(f.old, f.new, ff, bf)
    BY <1>4, <2>1
  <2>3. f.new # e.old
    BY <2>1, RolledIsBehind
  <2>4. /\ Held(f.old)' = 0
        /\ \A d \in Contracts : d # f.old /\ d # f.new => Held(d)' = Held(d)
    BY <2>1, <2>2, RollHeld DEF Held
  <2> QED BY <1>1, <2>3, <2>4
<1> QED BY <1>2, <1>3, <1>4, HeldMoves

LEMMA KnownStep ==
    ASSUME AnyQuantity, PortInv, KnownInv, [PortfolioNext]_allVars
    PROVE  KnownInv'
<1>1. /\ rollEvents' = rollEvents /\ indexed' = indexed /\ AreRolls /\ IsRun /\ book \in Books
      /\ t \in Nat /\ Len(indexed) \in Nat
  BY DataKept, PortFacts
<1>2. t' \in Nat /\ t <= t'
  BY DatesMoveOn
<1>4. t > 0 => Today <= Today' /\ Today \in Nat /\ Today' \in Nat
  BY DatesMoveOn
\* Contracts whose position does not move.
<1>5. ASSUME NEW c \in Contracts, Held(c)' = Held(c), Held(c) # 0,
             lastClose[c] # 0 => lastClose'[c] # 0,
             phase = "fill" /\ bar.contract = c =>
                 lastClose'[c] # 0 \/ (phase' = "fill" /\ bar'.contract = c)
      PROVE  \/ lastClose'[c] # 0
             \/ phase' = "fill" /\ bar'.contract = c
             \/ \E e \in rollEvents' : e.new = c /\ e.day <= Today' /\ Held(e.old)' = 0
  <2>1. t > 0
    BY <1>1, <1>5 DEF KnownInv
  <2>2. CASE \E e \in rollEvents : e.new = c /\ e.day <= Today /\ Held(e.old) = 0
    <3>1. PICK e \in rollEvents : e.new = c /\ e.day <= Today /\ Held(e.old) = 0
      BY <2>2
    <3>2. e.day \in Nat
      BY <1>1 DEF AreRolls
    <3>3. e.day <= Today'
      BY <1>4, <2>1, <3>1, <3>2
    <3> QED BY <1>1, <2>1, <3>1, <3>3, FlatStaysFlat
  <2> QED BY <1>5, <2>2 DEF KnownInv
<1>6. ASSUME NEW c \in Contracts, lastClose[c] # 0 PROVE lastClose'[c] # 0
  <2>1. CASE SeeClose
    <3>1. /\ lastClose' = [lastClose EXCEPT ![bar.contract] = tape[<<bar.contract, Today>>]]
          /\ phase = "fill" /\ lastClose \in [Contracts -> Nat]
      BY <2>1 DEF SeeClose, PortInv, LoopTyped
    <3>2. t > 0 /\ bar.contract = indexed[t].contract /\ bar.contract \in Contracts /\ t \in 1 .. t
      BY <1>1, <3>1, PortFacts DEF PortInv, LoopInv
    <3>3. tape[<<bar.contract, Today>>] > 0
      BY <3>2 DEF PortInv, CloseInv, Today
    <3> QED BY <1>6, <3>1, <3>2, <3>3
  <2>2. CASE ~SeeClose
    <3>1. lastClose' = lastClose
      BY <2>2 DEF PortfolioNext, NextBar, Advance, ExecuteRoll, Mark, GenerateSignals, PlaceLeg,
                  NextDate, Over, allVars, loopVars
    <3> QED BY <1>6, <3>1
  <2> QED BY <2>1, <2>2
<1>7. phase = "fill" =>
         \/ phase' = "fill" /\ bar' = bar
         \/ lastClose'[bar.contract] # 0
  <2> SUFFICES ASSUME phase = "fill" PROVE \/ phase' = "fill" /\ bar' = bar
                                           \/ lastClose'[bar.contract] # 0
    OBVIOUS
  <2>1. t > 0 /\ t \in 1 .. t
    BY <1>1 DEF PortInv, LoopInv
  <2>2. bar.contract = indexed[t].contract /\ bar.contract \in Contracts
    BY <2>1, PortFacts
  <2>3. CASE SeeClose
    <3>1. /\ lastClose' = [lastClose EXCEPT ![bar.contract] = tape[<<bar.contract, Today>>]]
          /\ lastClose \in [Contracts -> Nat]
      BY <2>3 DEF SeeClose, PortInv, LoopTyped
    <3>2. tape[<<bar.contract, Today>>] > 0
      BY <2>1, <2>2 DEF PortInv, CloseInv, Today
    <3> QED BY <2>2, <3>1, <3>2
  <2>4. CASE Advance
    BY <2>4 DEF Advance, AdvanceSkip, AdvanceFill
  <2>5. CASE UNCHANGED allVars
    BY <2>5 DEF allVars, loopVars, vars
  <2> QED BY <2>3, <2>4, <2>5 DEF PortfolioNext, NextBar, ExecuteRoll, Mark, GenerateSignals, PlaceLeg,
                                  NextDate, Over
<1>8. t' = 0 => \A c \in Contracts : Held(c)' = 0
  <2> SUFFICES ASSUME t' = 0 PROVE \A c \in Contracts : Held(c)' = 0
    OBVIOUS
  <2>1. t = 0 /\ phase = "bar"
    BY <1>1, <1>2 DEF PortInv, LoopInv
  <2>2. book' = book
    <3>1. ~\E ff, bf \in RollFills : ExecuteRoll(ff, bf)
      BY <2>1 DEF ExecuteRoll
    <3> QED BY <2>1, <3>1, HeldMoves
  <2> QED BY <2>1, <2>2 DEF KnownInv, Held
<1> SUFFICES ASSUME NEW c \in Contracts, Held(c)' # 0
             PROVE  \/ lastClose'[c] # 0
                    \/ phase' = "fill" /\ bar'.contract = c
                    \/ \E e \in rollEvents' : e.new = c /\ e.day <= Today' /\ Held(e.old)' = 0
  BY <1>8 DEF KnownInv
<1>9. CASE book' = book
  <2>1. Held(c)' = Held(c)
    BY <1>9 DEF Held
  <2> QED BY <1>5, <1>6, <1>7, <2>1
<1>10. CASE phase = "fill" /\ phase' = "fill" /\ AdvanceFill
  <2>1. bar' = bar
    BY <1>10 DEF AdvanceFill
  <2>2. CASE c = bar.contract
    BY <1>10, <2>1, <2>2
  <2>3. CASE c # bar.contract
    <3>1. Held(c)' = Held(c)
      BY <1>10, <2>3, FillHeld
    <3> QED BY <1>5, <1>6, <1>7, <3>1
  <2> QED BY <2>2, <2>3
<1>11. ASSUME NEW ff \in RollFills, NEW bf \in RollFills, ExecuteRoll(ff, bf),
              RollPosition(Head(rolls).old, Head(rolls).new, ff, bf)
       PROVE  \/ lastClose'[c] # 0
              \/ phase' = "fill" /\ bar'.contract = c
              \/ \E e \in rollEvents' : e.new = c /\ e.day <= Today' /\ Held(e.old)' = 0
  <2>1. PICK f \in rollEvents : f = Head(rolls) /\ f.day = Today /\ ff \in Int /\ bf \in Int
    BY <1>11, RollEffect
  <2>2. RollPosition(f.old, f.new, ff, bf) /\ phase = "roll"
    BY <1>11, <2>1 DEF ExecuteRoll
  <2>3. /\ Held(f.old)' = 0
        /\ \A d \in Contracts : d # f.old /\ d # f.new => Held(d)' = Held(d)
    BY <2>1, <2>2, RollHeld DEF Held
  <2>4. t > 0
    BY <2>2 DEF PortInv, LoopInv
  <2>5. CASE c = f.new
    <3>1. f.day <= Today'
      BY <1>4, <2>1, <2>4
    <3> QED BY <1>1, <2>1, <2>3, <2>5, <3>1
  <2>6. CASE c # f.new
    <3>1. Held(c)' = Held(c)
      BY <2>3, <2>6
    <3> QED BY <1>5, <1>6, <1>7, <3>1
  <2> QED BY <2>5, <2>6
<1> QED BY <1>9, <1>10, <1>11, HeldMoves

-----------------------------------------------------------------------------
(* The account                                                               *)

\* What a step of the engine asks of the broker's books.
LEMMA BrokerMoves ==
    ASSUME AnyQuantity, PortInv, [PortfolioNext]_allVars
    PROVE  \/ UNCHANGED <<orders, filled, book>>
           \/ AdvanceFill
           \/ \E o \in Orders : PlaceOrder(o)
           \/ \E e \in rollEvents, ff, bf \in RollFills : RollPosition(e.old, e.new, ff, bf)
<1>1. CASE PlaceLeg
  BY <1>1, LegEffect DEF vars
<1>2. ASSUME NEW ff \in RollFills, NEW bf \in RollFills, ExecuteRoll(ff, bf)
      PROVE  \/ UNCHANGED <<orders, filled, book>>
             \/ \E e \in rollEvents : RollPosition(e.old, e.new, ff, bf)
  BY <1>2, RollEffect DEF vars
<1>3. CASE Advance
  BY <1>3 DEF Advance, AdvanceSkip
<1>4. CASE UNCHANGED allVars \/ Over \/ SeeClose \/ Mark \/ GenerateSignals \/ NextDate
  BY <1>4 DEF allVars, vars, Over, SeeClose, Mark, GenerateSignals, NextDate
<1>5. ASSUME NEW b \in Bars, NEW px \in Closes[Root[b.contract]], NextBar(b, px)
      PROVE  UNCHANGED <<orders, filled, book>>
  BY <1>5 DEF NextBar, AdvanceStart
<1> QED BY <1>1, <1>2, <1>3, <1>4, <1>5 DEF PortfolioNext

LEMMA SumsInit ==
    ASSUME Init
    PROVE  NetIsFills /\ PositionTotals
<1> DEFINE q == [c \in Contracts |-> book.pos[c].qty]
           r == [c \in Contracts |-> book.pos[c].realized]
           f == [id \in Ids |-> Signed(orders[id].side, filled[id])]
<1>1. book = EmptyBook /\ orders = <<>>
  BY DEF Init
<1>2. \A c \in Contracts : book.pos[c].qty = 0 /\ book.pos[c].realized = 0
  BY <1>1 DEF EmptyBook, FlatPosition
<1>3. q \in [Contracts -> Int] /\ r \in [Contracts -> Int]
      /\ (\A c \in Contracts : q[c] = 0 /\ r[c] = 0) /\ IsFiniteSet(Contracts)
  BY <1>2, ConstantsAssumption
<1>4. Ids = {} /\ f \in [Ids -> Int] /\ IsFiniteSet(Ids) /\ \A id \in Ids : f[id] = 0
  <2>1. Ids = {}
    BY <1>1 DEF Ids
  <2> QED BY <2>1, FS_EmptySet
<1>5. NetIsFills <=> SumFunction(q) = SumFunction(f)
  BY DEF NetIsFills
<1>6. PositionTotals <=> SumFunction(r) = 0
  BY <1>1 DEF PositionTotals, EmptyBook
<1> HIDE DEF q, r, f
<1>7. SumFunction(q) = 0 /\ SumFunction(r) = 0
  BY <1>3, TotalOfZeros
<1>8. SumFunction(f) = 0
  BY <1>4, TotalOfZeros
<1> QED BY <1>5, <1>6, <1>7, <1>8

LEMMA SumsStep ==
    ASSUME AnyQuantity, PortInv, NetIsFills, PositionTotals, [PortfolioNext]_allVars
    PROVE  NetIsFills' /\ PositionTotals'
<1>1. TypeOK /\ AreRolls /\ book \in Books
  BY PortFacts
<1>2. CASE UNCHANGED <<orders, filled, book>>
  BY <1>2 DEF NetIsFills, PositionTotals, Ids
<1>3. CASE AdvanceFill
  <2>1. NetIsFills'
    BY <1>1, <1>3, FillKeepsNet
  <2> DEFINE q == Signed(orders[cursor].side, orders[cursor].qty - filled[cursor])
  <2>2. bar.contract \in Contracts /\ \E gain : Moved(book', book, bar.contract, q, gain)
    BY <1>1, <1>3, FillMovesBook
  <2> HIDE DEF q
  <2>3. PICK gain : Moved(book', book, bar.contract, q, gain)
    BY <2>2
  <2>4. Totalled(book)
    BY DEF PositionTotals, Totalled
  <2>5. Totalled(book')
    BY <1>1, <2>2, <2>3, <2>4, MovedTotalled
  <2> QED BY <2>1, <2>5 DEF PositionTotals, Totalled
<1>4. ASSUME NEW o \in Orders, PlaceOrder(o) PROVE NetIsFills' /\ PositionTotals'
  <2>1. NetIsFills'
    BY <1>1, <1>4, PlaceKeepsNet
  <2> QED BY <1>4, <2>1 DEF PlaceOrder, PositionTotals
<1>5. ASSUME NEW e \in rollEvents, NEW ff \in RollFills, NEW bf \in RollFills,
             RollPosition(e.old, e.new, ff, bf)
      PROVE  NetIsFills' /\ PositionTotals'
  <2>1. e.old \in Contracts /\ e.new \in Contracts /\ ff \in Int /\ bf \in Int
    BY <1>1, ConstantsAssumption DEF AreRolls
  <2>2. NetIsFills'
    BY <1>1, <1>5, <2>1, RollKeepsNet
  <2>3. Totalled(book)
    BY DEF PositionTotals, Totalled
  <2>4. Totalled(book')
    BY <1>1, <1>5, <2>1, <2>3, RollKeepsTotals
  <2> QED BY <2>2, <2>4 DEF PositionTotals, Totalled
<1> QED BY <1>2, <1>3, <1>4, <1>5, BrokerMoves

EngineSound == PortInv /\ DecidedInv /\ LeftInv /\ KnownInv /\ NetIsFills /\ PositionTotals

LEMMA EngineInit == PortfolioInit => EngineSound
<1> SUFFICES ASSUME PortfolioInit PROVE EngineSound
  OBVIOUS
<1>1. PortInv
  BY PortInit
<1>2. NetIsFills /\ PositionTotals
  BY SumsInit DEF PortfolioInit
<1>3. t = 0 /\ orders = <<>> /\ book = EmptyBook /\ phase = "bar"
  BY DEF PortfolioInit, Init
<1>4. DecidedInv
  BY <1>3 DEF DecidedInv, Ids
<1>5. \A c \in Contracts : Held(c) = 0
  BY <1>3 DEF EmptyBook, FlatPosition, Held
<1>6. LeftInv /\ KnownInv
  <2>1. AreRolls
    BY <1>1, PortFacts
  <2> QED BY <1>5, <2>1 DEF LeftInv, KnownInv, AreRolls
<1> QED BY <1>1, <1>2, <1>4, <1>6 DEF EngineSound

LEMMA EngineStep ==
    AnyQuantity /\ EngineSound /\ [PortfolioNext]_allVars => EngineSound'
BY PortStep, DecidedStep, LeftStep, KnownStep, SumsStep DEF EngineSound

LEMMA EngineInvariant ==
    ASSUME AnyQuantity
    PROVE  PortfolioSpec => []EngineSound
<1>1. EngineSound /\ [PortfolioNext]_allVars => EngineSound'
  BY EngineStep
<1> QED BY <1>1, EngineInit, PTL DEF PortfolioSpec

\* Over any data and any answers of the strategy the portfolio engine keeps its
\* shape with one point of the curve per date, fills no order on the date it was
\* decided on, leaves nothing behind in a contract it rolled out of, and holds
\* what its fills say (portfolio_backtest.py, run, _execute_rolls and
\* _resolve_order; mock_broker.py, advance and roll_position).
THEOREM PortfolioSound ==
    ASSUME AnyQuantity
    PROVE  PortfolioSpec => []PortfolioIsSound
<1>1. EngineSound => PortfolioIsSound
  <2> SUFFICES ASSUME EngineSound PROVE PortfolioIsSound
    OBVIOUS
  <2>1. PortInv /\ DecidedInv /\ LeftInv /\ NetIsFills /\ PositionTotals
    BY DEF EngineSound
  <2>2. PortfolioTypeOK
    <3>1. TypeOK /\ LoopTyped
      BY <2>1 DEF PortInv
    <3>2. phase = "bar" /\ (t = 0 \/ DateIsOver) => Len(curve) = Cardinality(Dates)
      BY <2>1 DEF PortInv, LoopInv, Marked
    <3> QED BY <3>1, <3>2 DEF PortfolioTypeOK, LoopTyped, Phases, Counts
  <2>3. FilledLater
    BY <2>1 DEF DecidedInv, FilledLater, Ids
  <2>4. NothingLeftBehind
    BY <2>1 DEF LeftInv, NothingLeftBehind, Rolled, Marked
  <2> QED BY <2>1, <2>2, <2>3, <2>4 DEF PortfolioIsSound
<1> QED BY <1>1, EngineInvariant, PTL

-----------------------------------------------------------------------------
(* The mark                                                                  *)

\* What contract c is worth to the account: a contract without a close is left out.
Worth(c) ==
    book.pos[c].realized
        + (IF lastClose[c] = 0 THEN 0 ELSE Held(c) * (lastClose[c] - book.pos[c].avg) * Mult[c])

LEMMA MarkIsWorth ==
    ASSUME PortInv, PositionTotals
    PROVE  /\ \A c \in Contracts : Worth(c) \in Int
           /\ MarkToMarket = StartingEquity + SumFunction([c \in Contracts |-> Worth(c)])
<1> DEFINE I == {d \in Contracts : Held(d) # 0 /\ lastClose[d] # 0}
           u == [c \in I |-> Unrealized(c)]
           U == [c \in Contracts |-> IF lastClose[c] = 0 THEN 0 ELSE Unrealized(c)]
           R == [c \in Contracts |-> book.pos[c].realized]
           K == [c \in Contracts |-> Worth(c)]
<1>1. /\ \A c \in Contracts : /\ book.pos[c].realized \in Int /\ book.pos[c].avg \in Int
                              /\ Held(c) \in Int /\ lastClose[c] \in Int /\ Mult[c] \in Int
      /\ book.realized \in Int /\ StartingEquity \in Int /\ IsFiniteSet(Contracts)
  <2>1. book \in Books /\ lastClose \in [Contracts -> Nat]
    BY PortFacts DEF PortInv, LoopTyped
  <2> QED BY <2>1, ConstantsAssumption, PortfolioAssumption DEF Books, Positions, Held
<1>2. \A c \in Contracts : Unrealized(c) \in Int
  BY MarkIsInt
<1>3. ASSUME NEW c \in Contracts
      PROVE  /\ Held(c) * (lastClose[c] - book.pos[c].avg) * Mult[c] = Unrealized(c)
             /\ Held(c) = 0 => Unrealized(c) = 0
  <2> DEFINE gap == lastClose[c] - book.pos[c].avg
  <2>1. gap \in Int /\ Held(c) \in Int /\ Mult[c] \in Int
    BY <1>1
  <2>2. Unrealized(c) = gap * Held(c) * Mult[c]
    BY DEF Unrealized
  <2> HIDE DEF gap
  <2>3. Held(c) * gap = gap * Held(c)
    BY <2>1
  <2>4. Held(c) = 0 => gap * Held(c) = 0
    BY <2>1
  <2>5. 0 * Mult[c] = 0
    BY <2>1
  <2> QED BY <2>2, <2>3, <2>4, <2>5 DEF gap
<1>4. I \in SUBSET Contracts /\ IsFiniteSet(I)
      /\ \A c \in Contracts \ I : Held(c) = 0 \/ lastClose[c] = 0
  BY <1>1, FS_Subset
<1>5. MarkToMarket = StartingEquity + book.realized + SumFunction(u)
  BY DEF MarkToMarket
<1>6. SumFunction(u) = SumFunctionOnSet(u, I) /\ SumFunction(R) = SumFunctionOnSet(R, Contracts)
      /\ SumFunction(K) = SumFunctionOnSet(K, Contracts)
  BY DEF SumFunction, FoldFunction, SumFunctionOnSet
<1>7. /\ \A c \in I : u[c] = U[c]
      /\ \A c \in Contracts : U[c] \in Int /\ R[c] \in Int /\ K[c] = R[c] + U[c]
      /\ \A c \in Contracts \ I : U[c] = 0
  BY <1>1, <1>2, <1>3, <1>4 DEF Worth
<1>8. SumFunction(R) = book.realized
  BY DEF PositionTotals
<1>9. \A c \in Contracts : Worth(c) \in Int
  BY <1>7
<1> HIDE DEF u, U, R, K, I
<1>10. SumFunctionOnSet(u, I) = SumFunctionOnSet(U, I)
  BY <1>4, <1>7, SumSame
<1>11. SumFunctionOnSet(U, Contracts) = SumFunctionOnSet(U, I)
  BY <1>1, <1>4, <1>7, SumSkipsZeros
<1>12. SumFunctionOnSet(K, Contracts)
          = SumFunctionOnSet(R, Contracts) + SumFunctionOnSet(U, Contracts)
  BY <1>1, <1>7, SumAdds
<1>13. SumFunctionOnSet(U, Contracts) \in Int
  BY <1>1, <1>7, SumIsInt
<1>14. MarkToMarket = StartingEquity + SumFunction(K)
  <2> DEFINE w == SumFunctionOnSet(U, Contracts)
  <2>1. SumFunction(u) = w
    BY <1>6, <1>10, <1>11
  <2>2. SumFunction(K) = book.realized + w
    BY <1>6, <1>8, <1>12
  <2>3. w \in Int
    BY <1>13
  <2> HIDE DEF w
  <2> QED BY <1>1, <1>5, <2>1, <2>2, <2>3
<1> QED BY <1>9, <1>14 DEF K

\* A decision is taken on the mark of its date.
MarkInv == phase = "signals" => Equity = MarkToMarket

LEMMA MarkInvStep ==
    ASSUME PortInv, MarkInv, [PortfolioNext]_allVars
    PROVE  MarkInv'
<1>1. CASE Mark
  <2>1. Equity' = MarkToMarket /\ book' = book /\ lastClose' = lastClose
    BY <1>1, MarkStep DEF Mark, vars
  <2>2. MarkToMarket' = MarkToMarket
    BY <2>1 DEF MarkToMarket, Unrealized, Held
  <2> QED BY <2>1, <2>2 DEF MarkInv
<1>2. CASE UNCHANGED allVars
  BY <1>2 DEF allVars, vars, loopVars, MarkInv, Equity, MarkToMarket, Unrealized, Held
<1>3. CASE ~Mark /\ ~UNCHANGED allVars
  <2>1. phase' # "signals"
    <3>1. CASE PlaceLeg
      BY <3>1 DEF PlaceLeg
    <3>2. CASE Advance \/ SeeClose \/ GenerateSignals \/ NextDate
      BY <3>2 DEF Advance, SeeClose, GenerateSignals, NextDate
    <3>3. ASSUME NEW ff \in RollFills, NEW bf \in RollFills, ExecuteRoll(ff, bf) PROVE phase' # "signals"
      BY <3>3 DEF ExecuteRoll
    <3>4. ASSUME NEW b \in Bars, NEW px \in Closes[Root[b.contract]], NextBar(b, px)
          PROVE  phase' # "signals"
      BY <3>4 DEF NextBar
    <3> QED BY <1>3, <3>1, <3>2, <3>3, <3>4 DEF PortfolioNext, Over
  <2> QED BY <2>1 DEF MarkInv
<1> QED BY <1>1, <1>2, <1>3

\* The point of every date on the blended curve is the start, what each contract
\* realized, and the open contracts at their last closes, over any number of legs
\* and through their rolls (portfolio_backtest.py, run and _execute_rolls;
\* backtest.py, _mark_to_market; mock_broker.py, _apply_fill_to_position and roll_position).
THEOREM BlendedCurveExplained ==
    ASSUME AnyQuantity
    PROVE  PortfolioSpec => []BlendedCurveIsCash
<1>1. PortfolioInit => MarkInv
  BY DEF PortfolioInit, MarkInv
<1>2. EngineSound /\ MarkInv /\ [PortfolioNext]_allVars => MarkInv'
  BY MarkInvStep DEF EngineSound
<1>3. EngineSound /\ MarkInv => BlendedCurveIsCash
  <2> SUFFICES ASSUME EngineSound, MarkInv, phase = "signals",
                      \A c \in Contracts : Held(c) # 0 => lastClose[c] # 0
               PROVE  Equity = StartingEquity
                         + SumFunction([c \in Contracts |->
                               book.pos[c].realized + Held(c) * (lastClose[c] - book.pos[c].avg) * Mult[c]])
    BY DEF BlendedCurveIsCash
  <2>1. Equity = StartingEquity + SumFunction([c \in Contracts |-> Worth(c)])
    BY MarkIsWorth DEF EngineSound, MarkInv
  <2>2. ASSUME NEW c \in Contracts
        PROVE  Worth(c) = book.pos[c].realized + Held(c) * (lastClose[c] - book.pos[c].avg) * Mult[c]
    <3>1. CASE lastClose[c] # 0
      BY <3>1 DEF Worth
    <3>2. CASE lastClose[c] = 0
      <4> DEFINE gap == lastClose[c] - book.pos[c].avg
      <4>1. Held(c) = 0
        BY <3>2
      <4>2. gap \in Int /\ Mult[c] \in Int
        <5>1. book \in Books /\ lastClose \in [Contracts -> Nat]
          BY PortFacts DEF EngineSound, PortInv, LoopTyped
        <5> QED BY <5>1, ConstantsAssumption DEF Books, Positions
      <4> HIDE DEF gap
      <4>3. 0 * gap = 0 /\ 0 * Mult[c] = 0
        BY <4>2
      <4>4. Held(c) * gap * Mult[c] = 0
        BY <4>1, <4>3
      <4> QED BY <3>2, <4>4 DEF Worth, gap
    <3> QED BY <3>1, <3>2
  <2>3. [c \in Contracts |-> Worth(c)] = [c \in Contracts |->
            book.pos[c].realized + Held(c) * (lastClose[c] - book.pos[c].avg) * Mult[c]]
    BY <2>2
  <2> QED BY <2>1, <2>3
<1> QED BY <1>1, <1>2, <1>3, EngineInvariant, PTL DEF PortfolioSpec

\* The cash of a roll: the old contract is sold at its price, the new one bought.
LEMMA RollPays ==
    ASSUME book \in Books, NEW front \in Contracts, NEW back \in Contracts, front # back,
           NEW ff \in Int, NEW bf \in Int, RollPosition(front, back, ff, bf)
    PROVE  LET q == book.pos[front].qty
           IN  /\ Cash(front, book'.pos[front]) = Cash(front, book.pos[front]) + q * ff * Mult[front]
               /\ Cash(back, book'.pos[back]) = Cash(back, book.pos[back]) - q * bf * Mult[back]
<1> DEFINE q == book.pos[front].qty
<1>1. Account!Roll(front, back, ff, bf)
  BY RollIsRoll
<1>2. CashOf(book') = [CashOf(book) EXCEPT ![front] = @ + Net(book)[front] * ff * Mult[front],
                                           ![back] = @ - Net(book)[front] * bf * Mult[back]]
  BY <1>1 DEF Account!Roll, Net, CashOf, Cash
<1>3. Net(book)[front] = q
  BY DEF Net
<1> DEFINE x == CashOf(book)[front] + q * ff * Mult[front]
           y == CashOf(book)[back] - q * bf * Mult[back]
<1>4. CashOf(book') = [CashOf(book) EXCEPT ![front] = x, ![back] = y]
  BY <1>2, <1>3
<1>5. DOMAIN CashOf(book) = Contracts
  BY DEF CashOf
<1> HIDE DEF x, y
<1>6. CashOf(book')[front] = x /\ CashOf(book')[back] = y
  BY <1>4, <1>5
<1>7. \A b : \A c \in Contracts : CashOf(b)[c] = Cash(c, b.pos[c])
  BY DEF CashOf
<1> QED BY <1>6, <1>7 DEF x, y

\* A roll into a flat contract realizes nothing there.
LEMMA RollOpensAtPrice ==
    ASSUME book \in Books, NEW front \in Contracts, NEW back \in Contracts, front # back,
           NEW ff \in Int, NEW bf \in Int, RollPosition(front, back, ff, bf), book.pos[back].qty = 0
    PROVE  book'.pos[back].realized = book.pos[back].realized
<1> DEFINE q == book.pos[front].qty
           closed == FrontClosed(front, ff)
<1>1. book.pos \in [Contracts -> Positions]
  BY DEF Books
<1>2. closed.pos[back] = book.pos[back]
  BY <1>1 DEF FrontClosed, ApplyLeg
<1>3. closed.pos = [book.pos EXCEPT ![front] = PositionAfter(book, front, -book.pos[front].qty, ff)]
  BY DEF FrontClosed, ApplyLeg
<1>4. DOMAIN closed.pos = Contracts
  BY <1>1, <1>3
<1>5. book' = Carry(ApplyLeg(closed, back, q, bf, TRUE), front, back)
  BY DEF RollPosition
<1> HIDE DEF closed
<1>6. book'.pos = [closed.pos EXCEPT ![back] = PositionAfter(closed, back, q, bf)]
  BY <1>5 DEF Carry, ApplyLeg
<1>7. book'.pos[back] = PositionAfter(closed, back, q, bf)
  BY <1>4, <1>6
<1>8. RealizedDelta(back, closed.pos[back], q, bf) = 0
  BY <1>2 DEF RealizedDelta
<1>9. PositionAfter(closed, back, q, bf).realized = book.pos[back].realized + 0
  BY <1>2, <1>8 DEF PositionAfter
<1>10. book.pos[back].realized \in Int
  BY <1>1 DEF Positions
<1> QED BY <1>7, <1>9, <1>10

MarkExplained ==
    /\ \A c \in Contracts : Worth(c) \in Int
    /\ MarkToMarket = StartingEquity + SumFunction([c \in Contracts |-> Worth(c)])

\* What c is worth, by its cash.
LEMMA WorthByCash ==
    ASSUME NEW r \in Int, NEW q \in Int, NEW a \in Int, NEW p \in Int, NEW m \in Int
    PROVE  r + q * (p - a) * m = (r - q * a * m) + q * p * m
<1>1. q * (p - a) = q * p - q * a
  OBVIOUS
<1> DEFINE x == q * p
           y == q * a
<1>2. x \in Int /\ y \in Int
  OBVIOUS
<1>3. q * (p - a) = x - y
  BY <1>1
<1> HIDE DEF x, y
<1>4. (x - y) * m = x * m - y * m
  BY <1>2
<1> DEFINE u == x * m
           v == y * m
<1>5. u \in Int /\ v \in Int
  BY <1>2
<1>6. q * (p - a) * m = u - v
  BY <1>3, <1>4
<1> HIDE DEF u, v
<1>7. r + (u - v) = (r - v) + u
  BY <1>5
<1> QED BY <1>6, <1>7 DEF u, v, x, y

LEMMA PairedRoll ==
    ASSUME EngineSound, MarkExplained, MarkExplained', NEW ff \in RollFills, NEW bf \in RollFills,
           ExecuteRoll(ff, bf), NEW e \in rollEvents, e = Head(rolls), Today \in have[e.new]
    PROVE  MarkToMarket' - MarkToMarket =
              Held(e.old) * (tape'[<<e.old, OnOrBefore(have[e.old], Today)>>] - lastClose[e.old]) * Mult[e.old]
<1>1. /\ PortInv /\ KnownInv
  BY DEF EngineSound
<1>2. /\ phase = "roll" /\ e.day = Today /\ ff \in Nat \ {0} /\ bf \in Nat \ {0} /\ TapeGrows
      /\ tape'[<<e.old, e.frontDay>>] = ff /\ tape'[<<e.new, e.backDay>>] = bf
      /\ \/ Held(e.old) = 0 /\ UNCHANGED <<vars, count>>
         \/ Held(e.old) # 0 /\ RollPosition(e.old, e.new, ff, bf)
      /\ book' \in Books
  BY <1>1, RollEffect
<1>3. t > 0 /\ t \in Nat /\ Today \in Nat /\ AreRolls /\ IsRun /\ book \in Books
      /\ Len(indexed) \in Nat /\ t <= Len(indexed)
  BY <1>1, <1>2, PortFacts DEF PortInv, LoopInv
<1>4. /\ e.old \in Contracts /\ e.new \in Contracts /\ e.old # e.new
      /\ e.frontDay = OnOrBefore(have[e.old], e.day) /\ e.backDay = OnOrAfter(have[e.new], e.day)
      /\ have[e.new] \in SUBSET Days /\ e.day \in Nat /\ e.day = Target[e.old]
  BY <1>3 DEF AreRolls
<1>5. e.backDay = Today
  BY <1>2, <1>4, OnOrAfterFacts
<1>6. lastClose' = lastClose /\ lastClose \in [Contracts -> Nat]
  BY <1>1 DEF ExecuteRoll, PortInv, LoopTyped
<1> DEFINE q == Held(e.old)
           p == lastClose[e.old]
           m == Mult[e.old]
<1>7. tape'[<<e.old, OnOrBefore(have[e.old], Today)>>] = ff
  BY <1>2, <1>4
<1>8. /\ q \in Int /\ p \in Int /\ m \in Int /\ ff \in Int /\ bf \in Int
      /\ StartingEquity \in Int
  BY <1>2, <1>3, <1>4, <1>6, ConstantsAssumption, PortfolioAssumption DEF Held, Books, Positions
<1>9. CASE Held(e.old) = 0 /\ UNCHANGED <<vars, count>>
  <2>1. MarkToMarket' = MarkToMarket
    BY <1>6, <1>9 DEF vars, MarkToMarket, Unrealized, Held
  <2>2. MarkToMarket \in Int
    BY <1>1, MarkIsInt
  <2>3. q = 0
    BY <1>9
  <2> HIDE DEF q, p, m
  <2>4. q * (ff - p) = 0
    BY <1>8, <2>3
  <2>5. 0 * m = 0
    BY <1>8
  <2>6. q * (ff - p) * m = 0
    BY <2>4, <2>5
  <2> QED BY <1>7, <2>1, <2>2, <2>6 DEF q, p, m
<1>10. CASE Held(e.old) # 0 /\ RollPosition(e.old, e.new, ff, bf)
  <2> DEFINE f == [c \in Contracts |-> Worth(c)]
  <2>1. PICK g : g = f
    OBVIOUS
  <2>2. PICK h : h = f'
    OBVIOUS
  <2>3. /\ g \in [Contracts -> Int] /\ h \in [Contracts -> Int] /\ IsFiniteSet(Contracts)
        /\ (\A c \in Contracts : g[c] = Worth(c) /\ h[c] = Worth(c)')
        /\ MarkToMarket = StartingEquity + SumFunction(g)
        /\ MarkToMarket' = StartingEquity + SumFunction(h)
    BY <2>1, <2>2, ConstantsAssumption DEF MarkExplained
  <2> HIDE DEF f
  <2>4. ASSUME NEW c \in Contracts, c # e.old, c # e.new PROVE h[c] = g[c]
    <3>1. book'.pos[c] = book.pos[c]
      BY <1>1, <1>8, <1>10, <2>4, RollHeld
    <3>2. Worth(c)' = Worth(c)
      BY <1>6, <3>1 DEF Worth, Held
    <3> QED BY <2>3, <3>2
  <2>5. p > 0
    <3>1. PICK i \in 1 .. Len(indexed) : indexed[i].contract = e.old
      BY <1>3 DEF AreRolls
    <3>2. indexed[i].day < Target[e.old] /\ indexed[i].day \in Nat
      BY <1>3, <3>1 DEF IsRun
    <3>3. i <= t
      <4> SUFFICES ASSUME t < i PROVE FALSE
        BY <1>3
      <4>1. t + 1 \in 1 .. Len(indexed) /\ t + 1 <= i /\ t \in 1 .. Len(indexed)
        BY <1>3
      <4>2. indexed[t + 1].day <= indexed[i].day /\ indexed[t].day <= indexed[t + 1].day
            /\ indexed[t + 1].day \in Nat
        BY <1>3, <4>1 DEF IsRun
      <4>3. DateIsOver
        BY <1>1, <1>2 DEF PortInv, LoopInv
      <4>4. indexed[t + 1].day # Today
        BY <1>3, <4>1, <4>3 DEF DateIsOver
      <4> QED BY <1>2, <1>3, <1>4, <3>2, <4>2, <4>4 DEF Today
    <3>4. i \in 1 .. t /\ Seen(i)
      BY <1>2, <1>3, <3>3 DEF Seen
    <3> QED BY <1>1, <3>1, <3>4 DEF PortInv, CloseInv
  <2>6. /\ Cash(e.old, book'.pos[e.old]) = Cash(e.old, book.pos[e.old]) + q * ff * m
        /\ Cash(e.new, book'.pos[e.new]) = Cash(e.new, book.pos[e.new]) - q * bf * Mult[e.new]
    <3>1. /\ book \in Books /\ e.old \in Contracts /\ e.new \in Contracts /\ e.old # e.new
          /\ ff \in Int /\ bf \in Int /\ RollPosition(e.old, e.new, ff, bf)
      BY <1>3, <1>4, <1>8, <1>10
    <3> DEFINE n == book.pos[e.old].qty
    <3>2. /\ Cash(e.old, book'.pos[e.old]) = Cash(e.old, book.pos[e.old]) + n * ff * Mult[e.old]
          /\ Cash(e.new, book'.pos[e.new]) = Cash(e.new, book.pos[e.new]) - n * bf * Mult[e.new]
      BY <3>1, RollPays
    <3>3. n = q
      BY DEF Held
    <3> HIDE DEF n, q
    <3> QED BY <3>2, <3>3 DEF m
  <2>7. h[e.old] - g[e.old] = q * (ff - p) * m
    <3> DEFINE r == book.pos[e.old].realized
               a == book.pos[e.old].avg
               s == book'.pos[e.old].realized
               d == book'.pos[e.old].avg
    <3>1. r \in Int /\ a \in Int /\ s \in Int /\ d \in Int
      BY <1>2, <1>3, <1>4 DEF Books, Positions
    <3>2. Held(e.old)' = 0
      BY <1>1, <1>8, <1>10, RollHeld
    <3>3. g[e.old] = r + q * (p - a) * m
      BY <1>4, <2>3, <2>5 DEF Worth
    <3>4. h[e.old] = s + 0 * (p - d) * m
      BY <1>4, <1>6, <2>3, <2>5, <3>2 DEF Worth, Held
    <3>5. s - 0 * d * m = (r - q * a * m) + q * ff * m
      BY <2>6, <3>2 DEF Cash, Held
    <3> HIDE DEF r, a, s, d, q, p, m
    <3>6. 0 * (p - d) = 0 /\ 0 * d = 0 /\ 0 * m = 0
      BY <1>8, <3>1
    <3>7. 0 * (p - d) * m = 0 /\ 0 * d * m = 0
      BY <3>6
    <3>8. h[e.old] = s /\ s = (r - q * a * m) + q * ff * m
      BY <3>1, <3>4, <3>5, <3>7
    <3>9. g[e.old] = (r - q * a * m) + q * p * m
      BY <1>8, <3>1, <3>3, WorthByCash
    <3>10. q * (ff - p) * m = q * ff * m - q * p * m
      <4> DEFINE x == q * ff
                 y == q * p
      <4>1. x \in Int /\ y \in Int /\ q * (ff - p) = x - y
        BY <1>8
      <4> HIDE DEF x, y
      <4>2. (x - y) * m = x * m - y * m
        BY <1>8, <4>1
      <4> QED BY <4>1, <4>2 DEF x, y
    <3> DEFINE k == r - q * a * m
               u == q * ff * m
               v == q * p * m
    <3>11. k \in Int /\ u \in Int /\ v \in Int
      <4>1. q * a \in Int /\ q * ff \in Int /\ q * p \in Int
        BY <1>8, <3>1
      <4>2. q * a * m \in Int /\ u \in Int /\ v \in Int
        BY <1>8, <4>1
      <4> QED BY <3>1, <4>2
    <3>12. h[e.old] = k + u /\ g[e.old] = k + v /\ q * (ff - p) * m = u - v
      BY <3>8, <3>9, <3>10
    <3> HIDE DEF k, u, v
    <3> QED BY <3>11, <3>12
  <2>8. h[e.new] = g[e.new]
    <3> DEFINE n == Mult[e.new]
               l == lastClose[e.new]
               r == book.pos[e.new].realized
               a == book.pos[e.new].avg
               w == Held(e.new)
               s == book'.pos[e.new].realized
               d == book'.pos[e.new].avg
    <3>1. r \in Int /\ a \in Int /\ s \in Int /\ d \in Int /\ n \in Int /\ l \in Int /\ w \in Int
      <4>1. book.pos[e.new] \in Positions /\ book'.pos[e.new] \in Positions
        BY <1>2, <1>3, <1>4 DEF Books
      <4>2. r \in Int /\ a \in Int /\ s \in Int /\ d \in Int /\ w \in Int
        BY <4>1 DEF Positions, Held
      <4>3. n \in Int
        BY <1>4, ConstantsAssumption
      <4>4. l \in Int
        BY <1>4, <1>6
      <4> QED BY <4>2, <4>3, <4>4
    <3>2. book'.pos[e.new].qty = w + q
      BY <1>1, <1>8, <1>10, RollHeld DEF Held
    <3>3. CASE l = 0
      <4>1. Held(e.new) = 0
        <5> SUFFICES ASSUME Held(e.new) # 0 PROVE FALSE
          OBVIOUS
        <5>1. PICK x \in rollEvents : x.new = e.new /\ Held(x.old) = 0
          BY <1>1, <1>2, <1>4, <3>3 DEF KnownInv
        <5>2. x = e
          BY <1>3, <5>1 DEF AreRolls
        <5> QED BY <1>10, <5>1, <5>2
      <4>2. s = r
        BY <1>3, <1>4, <1>8, <1>10, <4>1, RollOpensAtPrice DEF Held
      <4> QED BY <1>4, <1>6, <2>3, <3>3, <4>2 DEF Worth
    <3>4. CASE l # 0
      <4>1. l = bf
        <5>1. PICK i \in 1 .. t : indexed[i].contract = e.new /\ l = tape[<<e.new, indexed[i].day>>]
          BY <1>1, <1>4, <3>4 DEF PortInv, CloseInv
        <5>2. indexed[i].day <= Today /\ indexed[i].day \in Nat
          BY <1>1, PortFacts
        <5>3. i \in 1 .. Len(indexed)
          BY <1>3
        <5>4. e.day <= indexed[i].day
          BY <1>3, <5>1, <5>3 DEF AreRolls
        <5>5. indexed[i].day = Today
          BY <1>2, <1>3, <5>2, <5>4
        <5>6. Today \in Days
          BY <1>1, <1>3, PortFacts
        <5>7. <<e.new, Today>> \in Contracts \X Days /\ tape[<<e.new, Today>>] # 0
          BY <1>4, <3>4, <5>1, <5>5, <5>6
        <5>8. tape'[<<e.new, Today>>] = tape[<<e.new, Today>>]
          BY <1>2, <5>7 DEF TapeGrows
        <5> QED BY <1>2, <1>5, <5>1, <5>5, <5>8
      <4>2. g[e.new] = r + w * (l - a) * n
        BY <1>4, <2>3, <3>4 DEF Worth
      <4>3. h[e.new] = s + (w + q) * (l - d) * n
        BY <1>4, <1>6, <2>3, <3>2, <3>4 DEF Worth, Held
      <4>4. s - (w + q) * d * n = (r - w * a * n) - q * bf * n
        BY <2>6, <3>2 DEF Cash, Held
      <4> DEFINE z == w + q
      <4>5. z \in Int
        BY <1>8, <3>1
      <4> HIDE DEF r, a, s, d, q, w, n, l
      <4>6. g[e.new] = (r - w * a * n) + w * l * n
        BY <3>1, <4>2, WorthByCash
      <4>7. h[e.new] = (s - z * d * n) + z * l * n
        <5> HIDE DEF z
        <5>1. s + z * (l - d) * n = (s - z * d * n) + z * l * n
          BY <3>1, <4>5, WorthByCash
        <5> QED BY <4>3, <5>1 DEF z
      <4>8. z * l * n = w * l * n + q * l * n
        <5> DEFINE x == w * l
                   y == q * l
        <5>1. x \in Int /\ y \in Int /\ z * l = x + y
          BY <1>8, <3>1
        <5> HIDE DEF x, y, z
        <5>2. (x + y) * n = x * n + y * n
          BY <3>1, <5>1
        <5> QED BY <5>1, <5>2 DEF x, y
      <4> DEFINE k == r - w * a * n
                 u == w * l * n
                 v == q * l * n
      <4>9. k \in Int /\ u \in Int /\ v \in Int
        <5>1. w * a \in Int /\ w * l \in Int /\ q * l \in Int
          BY <1>8, <3>1
        <5>2. w * a * n \in Int /\ u \in Int /\ v \in Int
          BY <3>1, <5>1
        <5> QED BY <3>1, <5>2
      <4>10. s - z * d * n = k - v
        BY <4>1, <4>4
      <4>11. h[e.new] = (k - v) + (u + v) /\ g[e.new] = k + u
        BY <4>6, <4>7, <4>8, <4>10
      <4> HIDE DEF k, u, v
      <4> QED BY <4>9, <4>11
    <3> QED BY <3>3, <3>4
  <2>9. SumFunction(h) = SumFunction(g) + (h[e.old] - g[e.old])
    <3>1. \A x \in Contracts \ {e.old} : h[x] = g[x]
      BY <2>4, <2>8
    <3> QED BY <1>4, <2>3, <3>1, TotalChanges
  <2>10. SumFunction(g) \in Int /\ SumFunction(h) \in Int
    BY <2>3, TotalIsInt
  <2> DEFINE G == SumFunction(g)
             H == SumFunction(h)
             k == q * (ff - p) * m
  <2>11. k \in Int
    <3> HIDE DEF q, p, m
    <3>1. q * (ff - p) \in Int
      BY <1>8
    <3> QED BY <1>8, <3>1
  <2>12. H = G + k /\ G \in Int /\ MarkToMarket' = StartingEquity + H /\ MarkToMarket = StartingEquity + G
    BY <2>3, <2>7, <2>9, <2>10
  <2> HIDE DEF G, H, k
  <2>13. MarkToMarket' - MarkToMarket = k
    BY <1>8, <2>11, <2>12
  <2> QED BY <1>7, <2>13 DEF k, q, p, m
<1> QED BY <1>2, <1>9, <1>10

\* A roll on a date on which the new contract traded changes the mark by the move
\* of the old contract to its last close and by nothing else, whatever is held
\* and however the legs interleave (portfolio_backtest.py, _execute_rolls;
\* backtest.py, _mark_to_market; mock_broker.py, roll_position).
THEOREM RollsArePaired ==
    ASSUME AnyQuantity
    PROVE  PortfolioSpec => RollIsPaired
<1> DEFINE Paired ==
      phase = "roll" /\ rolls # <<>> /\ Today \in have[Head(rolls).new] =>
          LET c == Head(rolls).old
          IN  MarkToMarket' - MarkToMarket =
                 Held(c) * (tape'[<<c, OnOrBefore(have[c], Today)>>] - lastClose[c]) * Mult[c]
<1>1. EngineSound => MarkExplained
  BY MarkIsWorth DEF EngineSound, MarkExplained
<1>2. EngineSound /\ MarkExplained /\ MarkExplained' /\ [PortfolioNext]_allVars => [Paired]_allVars
  <2> SUFFICES ASSUME EngineSound, MarkExplained, MarkExplained', PortfolioNext,
                      phase = "roll", rolls # <<>>, Today \in have[Head(rolls).new]
               PROVE  Paired \/ UNCHANGED allVars
    OBVIOUS
  <2>1. CASE \E ff, bf \in RollFills : ExecuteRoll(ff, bf)
    <3>1. PICK ff \in RollFills, bf \in RollFills : ExecuteRoll(ff, bf)
      BY <2>1
    <3>2. PICK e \in rollEvents : e = Head(rolls)
      BY <3>1, RollEffect DEF EngineSound
    <3>3. MarkToMarket' - MarkToMarket =
              Held(e.old) * (tape'[<<e.old, OnOrBefore(have[e.old], Today)>>] - lastClose[e.old]) * Mult[e.old]
      BY <3>1, <3>2, PairedRoll
    <3> QED BY <3>2, <3>3
  <2>2. CASE ~\E ff, bf \in RollFills : ExecuteRoll(ff, bf)
    BY <2>2 DEF PortfolioNext, NextBar, Advance, SeeClose, Mark, GenerateSignals, PlaceLeg, NextDate, Over
  <2> QED BY <2>1, <2>2
<1>3. RollIsPaired <=> [][Paired]_allVars
  BY DEF RollIsPaired
<1> HIDE DEF Paired
<1> QED BY <1>1, <1>2, <1>3, EngineInvariant, PTL DEF PortfolioSpec

-----------------------------------------------------------------------------
(* The exposure of a leg                                                     *)

\* A contract that is rolled into has a bar.
LEMMA NewTrades ==
    ASSUME DataInv, NEW e \in rollEvents
    PROVE  \E i \in 1 .. Len(indexed) : indexed[i].contract = e.new
<1>1. have \in Haves /\ IsIndex(have, indexed)
  BY IndexFacts DEF DataInv
<1>2. PICK r \in Range(Roots) : e \in RollEventsOf(have, r)
  BY DEF DataInv
<1>3. Builds(have, r)
  BY DEF DataInv
<1> DEFINE s == Splice(have, r)
<1>4. PICK i \in 2 .. Len(s) : e.new = s[i].contract
  BY <1>1, <1>2, <1>3, RollFacts
<1>5. IsSeries(have, r, s)
  BY <1>1, SpliceFacts
<1> HIDE DEF s
<1>6. i \in 1 .. Len(s)
  BY <1>5 DEF IsSeries
<1>7. PICK b \in BarsOf(have, r) : b = s[i]
  BY <1>5, <1>6 DEF IsSeries
<1>8. b \in AnyBars /\ Root[b.contract] = r
  BY <1>1, <1>7, BarFacts
<1>9. b \in RunBars(have)
  BY <1>7, <1>8 DEF RunBars
<1> QED BY <1>1, <1>4, <1>7, <1>9 DEF IsIndex

\* Between a contract of a root and a later one there is a roll out of the first,
\* into a contract no later than the second, on a day no later than its bars.
LEMMA RollBetween ==
    ASSUME DataInv, NEW i \in 1 .. Len(indexed), NEW j \in 1 .. Len(indexed),
           Root[indexed[i].contract] = Root[indexed[j].contract],
           Target[indexed[i].contract] < Target[indexed[j].contract]
    PROVE  \E e \in rollEvents :
              /\ e.old = indexed[i].contract /\ e.day <= indexed[j].day
              /\ Target[e.new] <= Target[indexed[j].contract]
<1>1. have \in Haves /\ IsIndex(have, indexed)
  BY IndexFacts DEF DataInv
<1>2. PICK r \in Range(Roots) : r = Root[indexed[i].contract]
  <2>1. indexed[i] \in RunBars(have)
    BY <1>1 DEF IsIndex
  <2> QED BY <2>1 DEF RunBars
<1>3. indexed[i] \in BarsOf(have, r) /\ indexed[j] \in BarsOf(have, r)
  <2>1. indexed[i] \in RunBars(have) /\ indexed[j] \in RunBars(have)
    BY <1>1 DEF IsIndex
  <2> QED BY <1>2, <2>1 DEF RunBars
<1> DEFINE s == Splice(have, r)
<1>4. IsSeries(have, r, s)
  BY <1>1, SpliceFacts
<1>5. ASSUME NEW k \in RollFlags(s)
      PROVE  RollEvent(have, s[k - 1].contract, s[k].contract) \in rollEvents
  BY <1>2 DEF RollEventsOf, DataInv
<1> HIDE DEF s
<1>6. PICK n \in Nat : n = Len(s)
  BY <1>4 DEF IsSeries
<1>7. PICK a \in 1 .. n : s[a] = indexed[i]
  BY <1>3, <1>4, <1>6 DEF IsSeries
<1>8. PICK b \in 1 .. n : s[b] = indexed[j]
  BY <1>3, <1>4, <1>6 DEF IsSeries
<1>9. \A x, y \in 1 .. n : x <= y =>
         /\ Target[s[x].contract] \in Nat /\ Target[s[y].contract] \in Nat
         /\ Target[s[x].contract] <= Target[s[y].contract]
  BY <1>1, <1>4, <1>6, SeriesTargets
<1>10. a < b
  <2>1. CASE b <= a
    BY <1>7, <1>8, <1>9, <2>1
  <2> QED BY <2>1
<1> DEFINE M == {x \in 1 .. b : s[x].contract = s[a].contract}
<1>11. PICK k \in M : \A x \in M : x <= k
  <2>1. a \in M /\ \A x \in M : x \in Nat
    BY <1>10
  <2>2. IsFiniteSet(1 .. b)
    <3> DEFINE one == 1
    <3>1. one \in Int /\ b \in Int
      OBVIOUS
    <3> HIDE DEF one
    <3>2. IsFiniteSet(one .. b)
      BY <3>1, FS_Interval
    <3> QED BY <3>2 DEF one
  <2>3. IsFiniteSet(M)
    BY <2>2, FS_Subset
  <2> HIDE DEF M
  <2> QED BY <2>1, <2>3, LargestNatural
<1>12. /\ k \in 1 .. n /\ k < b /\ k + 1 \in 2 .. n /\ k + 1 \in 1 .. n /\ k + 1 <= b
       /\ s[k].contract = s[a].contract
       /\ s[k + 1].contract # s[k].contract
  <2>1. k \in 1 .. b /\ s[k].contract = s[a].contract
    BY <1>11
  <2>2. k # b
    BY <1>7, <1>8, <1>9, <2>1
  <2>3. k < b /\ k + 1 \in 1 .. b
    BY <2>1, <2>2
  <2>4. k + 1 \notin M
    BY <1>11, <2>1
  <2> QED BY <2>1, <2>3, <2>4
<1> HIDE DEF M
<1>13. PICK e \in rollEvents : e = RollEvent(have, s[k].contract, s[k + 1].contract)
  <2>1. k + 1 \in RollFlags(s) /\ (k + 1) - 1 = k
    BY <1>6, <1>12 DEF RollFlags
  <2> QED BY <1>5, <2>1
<1>14. e.old = s[k].contract /\ e.new = s[k + 1].contract /\ e.day = Target[s[k].contract]
  BY <1>13 DEF RollEvent
<1>15. Target[e.new] <= Target[indexed[j].contract]
  BY <1>8, <1>9, <1>12, <1>14
<1>16. Target[s[k].contract] <= indexed[j].day
  <2>1. indexed[i].contract \in Present(have, r)
    BY <1>1, <1>3, BarFacts
  <2>2. \A c \in Present(have, r) :
           Target[c] < Target[indexed[j].contract] => Target[c] <= indexed[j].day
    BY <1>1, <1>3, BarFacts
  <2> QED BY <1>7, <1>12, <2>1, <2>2
<1> QED BY <1>7, <1>12, <1>14, <1>15, <1>16

\* Where a position may be: in a contract that traded on an earlier date, or in
\* one that was rolled into.
Reached(c) ==
    \/ \E i \in 1 .. t : indexed[i].contract = c /\ indexed[i].day < Today
    \/ \E e \in rollEvents : e.new = c /\ e.day <= Today /\ Held(e.old) = 0

\* A roll on an earlier day has been executed where every roll falls on a date.
LEMMA EarlierRolled ==
    ASSUME PortInv, LeftInv, Aligned, t > 0, NEW e \in rollEvents, e.day < Today
    PROVE  Held(e.old) = 0
<1>1. IsRun /\ t \in Nat /\ t <= Len(indexed) /\ Len(indexed) \in Nat /\ Today \in Nat /\ t \in 1 .. Len(indexed)
  BY PortFacts
<1>2. PICK i \in 1 .. Len(indexed) : indexed[i].day = e.day
  BY <1>1 DEF Aligned, IsRun
<1>3. i <= t
  <2>1. CASE t <= i
    <3>1. Today <= indexed[i].day
      BY <1>1, <2>1 DEF IsRun, Today
    <3>2. e.day \in Nat
      BY PortFacts DEF AreRolls
    <3> QED BY <1>1, <1>2, <3>1, <3>2
  <2> QED BY <1>1, <2>1
<1>4. e.day \in Dates
  BY <1>1, <1>2, <1>3 DEF Dates
<1> QED BY <1>4 DEF LeftInv, Rolled

\* Two contracts of one root are never both held.
LEMMA OneContract ==
    ASSUME PortInv, LeftInv, Aligned, t > 0,
           \A x \in Contracts : Held(x) # 0 => Reached(x),
           NEW c \in Contracts, NEW d \in Contracts, Root[c] = Root[d], c # d, Held(c) # 0
    PROVE  Held(d) = 0
<1>1. DataInv /\ IsRun /\ AreRolls /\ t \in Nat /\ t <= Len(indexed) /\ Len(indexed) \in Nat /\ Today \in Nat
  BY PortFacts DEF PortInv
<1>2. ASSUME NEW x \in Contracts, Held(x) # 0
      PROVE  \E i \in 1 .. Len(indexed) : indexed[i].contract = x
  <2>1. CASE \E i \in 1 .. t : indexed[i].contract = x
    BY <1>1, <2>1
  <2>2. CASE \E e \in rollEvents : e.new = x
    BY <1>1, <2>2, NewTrades
  <2> QED BY <1>2, <2>1, <2>2 DEF Reached
<1>3. ASSUME NEW x \in Contracts, NEW y \in Contracts, Root[x] = Root[y], Target[x] < Target[y],
             Held(x) # 0, Held(y) # 0
      PROVE  FALSE
  <2>0. Target[x] \in Nat /\ Target[y] \in Nat
    BY DataFacts
  <2>1. PICK i \in 1 .. Len(indexed) : indexed[i].contract = x
    BY <1>2, <1>3
  <2>2. ASSUME NEW j \in 1 .. Len(indexed), indexed[j].contract = y
        PROVE  \E e \in rollEvents : e.old = x /\ e.day <= indexed[j].day
    BY <1>1, <1>3, <2>1, <2>2, RollBetween
  <2>3. ASSUME NEW e \in rollEvents, e.old = x PROVE e.day \in Nat /\ e.day >= Today
    <3>1. e.day \in Nat
      BY <1>1 DEF AreRolls
    <3>2. ~(e.day < Today)
      BY <1>3, <2>3, EarlierRolled
    <3> QED BY <1>1, <3>1, <3>2
  <2>4. CASE \E j \in 1 .. t : indexed[j].contract = y /\ indexed[j].day < Today
    <3>1. PICK j \in 1 .. Len(indexed) : indexed[j].contract = y /\ indexed[j].day < Today
      BY <1>1, <2>4
    <3>2. PICK e \in rollEvents : e.old = x /\ e.day <= indexed[j].day
      BY <2>2, <3>1
    <3>3. indexed[j].day \in Nat
      BY <1>1 DEF IsRun
    <3> QED BY <1>1, <2>3, <3>1, <3>2, <3>3
  <2>5. CASE \E f \in rollEvents : f.new = y /\ f.day <= Today /\ Held(f.old) = 0
    <3>1. PICK f \in rollEvents : f.new = y /\ f.day <= Today /\ Held(f.old) = 0
      BY <2>5
    <3>2. /\ f.old \in Contracts /\ Root[f.old] = Root[y] /\ f.day = Target[f.old] /\ f.day \in Nat
          /\ \E k \in 1 .. Len(indexed) : indexed[k].contract = f.old
      BY <1>1, <3>1 DEF AreRolls
    <3>3. PICK k \in 1 .. Len(indexed) : indexed[k].contract = f.old
      BY <3>2
    <3>4. Target[f.old] # Target[x]
      BY <1>3, <3>1, <3>2, DataFacts
    <3>5. CASE Target[x] < Target[f.old]
      <4>1. PICK j \in 1 .. Len(indexed) : indexed[j].contract = y
        BY <1>2, <1>3
      <4>2. PICK e \in rollEvents : e.old = x
        BY <2>2, <4>1
      <4>3. e.day = Target[x]
        BY <1>1, <4>2 DEF AreRolls
      <4> QED BY <1>1, <2>0, <2>3, <3>1, <3>2, <3>5, <4>2, <4>3
    <3>6. CASE Target[f.old] < Target[x]
      <4>1. PICK g \in rollEvents : g.old = f.old /\ Target[g.new] <= Target[x]
        BY <1>1, <1>3, <2>1, <3>2, <3>3, <3>6, RollBetween
      <4>2. g = f
        BY <1>1, <4>1 DEF AreRolls
      <4> QED BY <1>3, <2>0, <3>1, <4>1, <4>2
    <3> QED BY <2>0, <3>2, <3>4, <3>5, <3>6
  <2> QED BY <1>3, <2>4, <2>5 DEF Reached
<1>4. Target[c] \in Nat /\ Target[d] \in Nat /\ Target[c] # Target[d]
  BY DataFacts
<1>5. Target[c] < Target[d] \/ Target[d] < Target[c]
  BY <1>4
<1> QED BY <1>3, <1>5

\* Contract c has a bar on day d behind the engine.
TradedOn(c, d) == \E i \in 1 .. t : indexed[i].contract = c /\ indexed[i].day = d

\* Every order is a market order, filled whole or not at all.
MarketInv ==
    /\ cancelled = {}
    /\ \A id \in Ids : orders[id].type = "MKT" /\ filled[id] \in {0, orders[id].qty}

\* On aligned streams an order is for the contract that traded on its date.
TradedInv == \A id \in Ids : Root[orders[id].contract] \in Range(Roots)
                             /\ TradedOn(orders[id].contract, placed[id])

\* A bar of a later date fills it, once advance() has come to it.
FilledInv ==
    \A id \in Ids, i \in 1 .. t :
        /\ indexed[i].contract = orders[id].contract
        /\ placed[id] < indexed[i].day
        /\ i < t \/ Idle \/ id < cursor
        => filled[id] = orders[id].qty

\* One order for a root and date, those still to be placed included.
OnceInv ==
    /\ \A i, j \in Ids :
          placed[i] = placed[j] /\ Root[orders[i].contract] = Root[orders[j].contract] => i = j
    /\ \A i, j \in DOMAIN legs : Root[legs[i].contract] = Root[legs[j].contract] => i = j
    /\ \A i \in DOMAIN legs :
          /\ TradedOn(legs[i].contract, Today)
          /\ \A id \in Ids : placed[id] = Today => Root[orders[id].contract] # Root[legs[i].contract]

LegInv == MarketInv /\ TradedInv /\ FilledInv /\ OnceInv

LEMMA LegKept ==
    ASSUME LegInv, SameDate, UNCHANGED <<orders, filled, placed, cancelled, cursor, legs>>
    PROVE  LegInv'
<1>1. Today' = Today /\ t' = t /\ indexed' = indexed /\ Ids' = Ids /\ (Idle' <=> Idle)
  BY SameDateFacts DEF Ids, Idle
<1>2. \A c, d : TradedOn(c, d)' <=> TradedOn(c, d)
  BY <1>1 DEF TradedOn
<1>3. MarketInv'
  BY <1>1 DEF LegInv, MarketInv
<1>4. TradedInv'
  BY <1>1, <1>2 DEF LegInv, TradedInv
<1>5. FilledInv'
  BY <1>1 DEF LegInv, FilledInv
<1>6. OnceInv'
  BY <1>1, <1>2 DEF LegInv, OnceInv
<1> QED BY <1>3, <1>4, <1>5, <1>6 DEF LegInv

LEMMA LegNextBar ==
    ASSUME PortInv, LegInv, NEW b \in Bars, NEW px \in Closes[Root[b.contract]], NextBar(b, px)
    PROVE  LegInv'
<1>1. /\ phase = "bar" /\ t' = t + 1 /\ indexed' = indexed /\ legs' = legs
      /\ orders' = orders /\ filled' = filled /\ placed' = placed /\ cancelled' = cancelled
      /\ (orders = <<>>) \/ (cursor' = 1)
  BY DEF NextBar, AdvanceStart
<1>2. t \in Nat /\ Ids = 1 .. Len(orders) /\ Len(orders) \in Nat /\ Ids' = Ids /\ Idle /\ legs = <<>>
  BY <1>1, PortFacts, PlacedFacts DEF PortInv, LoopInv, Ids
<1>3. \A c, d : TradedOn(c, d) => TradedOn(c, d)'
  BY <1>1, <1>2 DEF TradedOn
<1>4. MarketInv'
  BY <1>1, <1>2 DEF LegInv, MarketInv
<1>5. TradedInv'
  BY <1>1, <1>2, <1>3 DEF LegInv, TradedInv
<1>6. FilledInv'
  <2> SUFFICES ASSUME NEW id \in Ids, NEW i \in 1 .. t + 1, indexed[i].contract = orders[id].contract,
                      placed[id] < indexed[i].day, i < t + 1 \/ Idle' \/ id < cursor'
               PROVE  filled[id] = orders[id].qty
    BY <1>1, <1>2 DEF FilledInv
  <2>1. id >= 1 /\ id \in Nat /\ orders # <<>>
    BY <1>2 DEF Ids
  <2>2. cursor' = 1 /\ ~Idle'
    BY <1>1, <2>1 DEF Idle
  <2>3. i \in 1 .. t
    BY <1>2, <2>1, <2>2
  <2> QED BY <1>2, <2>3 DEF LegInv, FilledInv
<1>7. OnceInv'
  <2>1. DOMAIN legs' = {}
    BY <1>1, <1>2
  <2> QED BY <1>1, <1>2, <2>1 DEF LegInv, OnceInv
<1> QED BY <1>4, <1>5, <1>6, <1>7 DEF LegInv

LEMMA LegAdvance ==
    ASSUME PortInv, LegInv, Advance
    PROVE  LegInv'
<1>1. /\ SameDate /\ orders' = orders /\ placed' = placed /\ cancelled' = cancelled /\ legs' = legs
      /\ phase = "fill" /\ cursor # 0 /\ cursor' = NextCursor
  BY DEF Advance, AdvanceSkip, AdvanceFill, Fill, SameDate, Idle
<1>2. /\ Today' = Today /\ t' = t /\ indexed' = indexed /\ Ids' = Ids
  BY <1>1, SameDateFacts DEF Ids
<1>3. /\ TypeOK /\ t \in Nat /\ Ids = 1 .. Len(orders) /\ Len(orders) \in Nat /\ cursor \in Ids
      /\ bar.contract = indexed[t].contract /\ t > 0 /\ OrdersTyped
      /\ \A id \in Ids : filled[id] \in Nat /\ orders[id].qty \in Nat \ {0}
  <2>1. cursor \in 0 .. Len(orders)
    BY TypeOKSplit DEF PortInv
  <2>2. t > 0
    BY <1>1 DEF PortInv, LoopInv
  <2> QED BY <1>1, <2>1, <2>2, PortFacts, PlacedFacts
<1>4. \A c, d : TradedOn(c, d)' <=> TradedOn(c, d)
  BY <1>2 DEF TradedOn
<1>5. /\ \A id \in Ids : id # cursor => filled'[id] = filled[id]
      /\ filled'[cursor] \in {filled[cursor], orders[cursor].qty}
      /\ orders[cursor].contract = bar.contract => filled'[cursor] = orders[cursor].qty
  <2>1. CASE AdvanceFill
    <3>1. filled' = [filled EXCEPT ![cursor] = orders[cursor].qty] /\ DOMAIN filled = Ids
      BY <1>3, <2>1, FillMovesBook, PlacedFacts
    <3> QED BY <1>3, <3>1
  <2>2. CASE AdvanceSkip
    <3>1. filled' = filled /\ ~Hit(cursor)
      BY <2>2 DEF AdvanceSkip
    <3>2. cancelled = {} /\ orders[cursor].type = "MKT" /\ filled[cursor] \in {0, orders[cursor].qty}
      BY <1>3 DEF LegInv, MarketInv
    <3>3. orders[cursor].contract = bar.contract => ~(filled[cursor] < orders[cursor].qty)
      BY <3>1, <3>2 DEF Hit, Crosses
    <3>4. filled[cursor] = 0 => filled[cursor] < orders[cursor].qty
      BY <1>3
    <3> QED BY <3>1, <3>2, <3>3, <3>4
  <2> QED BY <2>1, <2>2 DEF Advance
<1>6. \A id \in Ids : filled[id] = orders[id].qty => filled'[id] = orders[id].qty
  BY <1>5
<1>7. MarketInv'
  BY <1>1, <1>2, <1>5 DEF LegInv, MarketInv
<1>8. TradedInv'
  BY <1>1, <1>2, <1>4 DEF LegInv, TradedInv
<1>9. FilledInv'
  <2> SUFFICES ASSUME NEW id \in Ids, NEW i \in 1 .. t, indexed[i].contract = orders[id].contract,
                      placed[id] < indexed[i].day, i < t \/ Idle' \/ id < cursor'
               PROVE  filled'[id] = orders[id].qty
    BY <1>1, <1>2 DEF FilledInv
  <2>1. CASE i < t \/ id < cursor
    BY <1>6, <2>1 DEF LegInv, FilledInv
  <2>2. CASE i = t /\ ~(id < cursor)
    <3>1. id = cursor
      BY <1>1, <1>3, <2>2 DEF NextCursor, Idle
    <3> QED BY <1>3, <1>5, <2>2, <3>1
  <2> QED BY <1>3, <2>1, <2>2
<1>10. OnceInv'
  BY <1>1, <1>2, <1>4 DEF LegInv, OnceInv
<1> QED BY <1>7, <1>8, <1>9, <1>10 DEF LegInv

\* With a bar of every root on every date a leg is of the contract of its date.
LEMMA LegSignals ==
    ASSUME PortInv, DecidedInv, LegInv, Aligned, GenerateSignals
    PROVE  LegInv'
<1>1. /\ SameDate /\ orders' = orders /\ placed' = placed /\ cancelled' = cancelled
      /\ filled' = filled /\ cursor' = cursor /\ phase = "signals"
  BY DEF GenerateSignals, SameDate, vars
<1>2. Today' = Today /\ t' = t /\ indexed' = indexed /\ Ids' = Ids /\ (Idle' <=> Idle)
  BY <1>1, SameDateFacts DEF Ids, Idle
<1>3. \A c, d : TradedOn(c, d)' <=> TradedOn(c, d)
  BY <1>2 DEF TradedOn
<1>4. MarketInv' /\ TradedInv' /\ FilledInv'
  <2>1. MarketInv'
    BY <1>1, <1>2 DEF LegInv, MarketInv
  <2>2. TradedInv'
    BY <1>1, <1>2, <1>3 DEF LegInv, TradedInv
  <2>3. FilledInv'
    BY <1>1, <1>2 DEF LegInv, FilledInv
  <2> QED BY <2>1, <2>2, <2>3
<1>5. t > 0 /\ DateIsOver
  BY <1>1 DEF PortInv, LoopInv
<1>6. IsRun /\ t \in 1 .. Len(indexed) /\ Today \in Nat /\ Len(indexed) \in Nat /\ legs' \in Seq(Legs)
      /\ t \in Nat
  BY <1>5, PortFacts, SignalsEffect
<1>7. \A id \in Ids : placed[id] # Today
  <2>1. \A id \in Ids : placed[id] < Today /\ placed[id] \in Nat
    BY <1>1, PlacedFacts DEF DecidedInv
  <2> QED BY <1>6, <2>1
<1>8. ASSUME NEW k \in DOMAIN legs' PROVE TradedOn(legs'[k].contract, Today)
  <2> DEFINE r == Root[legs'[k].contract]
             m == Max(Shown(r))
  <2>1. r \in Range(Roots) /\ Shown(r) # {} /\ legs'[k].contract = LatestContract(r)
    <3>1. legs'[k] \in Legs
      BY <1>6
    <3> QED BY <3>1, SignalsEffect DEF Legs
  <2>2. m \in 1 .. t /\ legs'[k].contract = indexed[m].contract /\ \A i \in Shown(r) : i <= m
    BY <2>1, LatestFacts
  <2>3. PICK j \in 1 .. Len(indexed) : indexed[j].day = Today /\ Root[indexed[j].contract] = r
    <3>1. t \in DOMAIN indexed /\ DOMAIN indexed = 1 .. Len(indexed)
      BY <1>6 DEF IsRun
    <3> HIDE DEF r
    <3>2. \E j \in DOMAIN indexed : indexed[j].day = indexed[t].day /\ Root[indexed[j].contract] = r
      BY <2>1, <3>1 DEF Aligned
    <3> QED BY <3>1, <3>2 DEF Today
  <2> HIDE DEF r, m
  <2>4. j <= t
    <3> SUFFICES ASSUME t < j PROVE FALSE
      BY <1>6
    <3>1. t + 1 \in 1 .. Len(indexed) /\ t + 1 <= j /\ t <= t + 1
      BY <1>6
    <3>2. /\ indexed[t + 1].day <= indexed[j].day /\ indexed[t].day <= indexed[t + 1].day
          /\ indexed[t + 1].day \in Nat
      BY <1>6, <3>1 DEF IsRun
    <3>3. indexed[t + 1].day = Today
      BY <1>6, <2>3, <3>2 DEF Today
    <3> QED BY <1>5, <1>6, <3>1, <3>3 DEF DateIsOver
  <2>5. j \in Shown(r)
    BY <1>6, <2>3, <2>4 DEF Shown
  <2>6. j <= m /\ m <= t /\ m \in 1 .. Len(indexed)
    BY <1>6, <2>2, <2>5
  <2>7. indexed[j].day <= indexed[m].day /\ indexed[m].day <= indexed[t].day /\ indexed[m].day \in Nat
    BY <1>6, <2>6 DEF IsRun
  <2>8. indexed[m].day = Today
    BY <1>6, <2>3, <2>7 DEF Today
  <2> QED BY <2>2, <2>8 DEF TradedOn
<1>9. OnceInv'
  <2>1. \A i, j \in DOMAIN legs' : Root[legs'[i].contract] = Root[legs'[j].contract] => i = j
    BY SignalsEffect
  <2> QED BY <1>1, <1>2, <1>3, <1>7, <1>8, <2>1 DEF LegInv, OnceInv
<1> QED BY <1>4, <1>9 DEF LegInv

\* An order is placed under the next id, and the others stay as they are.
Placed(o) ==
    LET n == Len(orders) + 1
    IN  /\ n \notin Ids /\ n \in Ids' /\ n \in Nat
        /\ \A id \in Ids' : id \in Ids \/ id = n
        /\ orders'[n] = o /\ filled'[n] = 0 /\ placed'[n] = Today
        /\ \A id \in Ids : /\ orders'[id] = orders[id] /\ filled'[id] = filled[id]
                           /\ placed'[id] = placed[id] /\ id \in Ids' /\ id \in Nat /\ id < n
        /\ cancelled' = cancelled /\ cursor' = cursor /\ book' = book

\* What a leg does, by ids.
LEMMA LegPlaces ==
    ASSUME AnyQuantity, PortInv, PlaceLeg
    PROVE  LET leg == Head(legs)
               size == SizeOf(leg)
               delta == ResolveOrder(leg, size)
               o == [contract |-> leg.contract, qty |-> Abs(delta), type |-> "MKT",
                     side |-> IF delta > 0 THEN "BUY" ELSE "SELL", price |-> 0]
           IN  UNCHANGED <<orders, filled, placed, cancelled, cursor, book>> \/ Placed(o)
<1> DEFINE leg == Head(legs)
           size == SizeOf(leg)
           delta == ResolveOrder(leg, size)
           o == [contract |-> leg.contract, qty |-> Abs(delta), type |-> "MKT",
                 side |-> IF delta > 0 THEN "BUY" ELSE "SELL", price |-> 0]
<1>1. \/ UNCHANGED <<vars, count, placed>>
      \/ o \in Orders /\ PlaceOrder(o) /\ placed' = Append(placed, Today)
  BY LegEffect
<1> HIDE DEF o
<1>2. CASE UNCHANGED <<vars, count, placed>>
  BY <1>2 DEF vars, o
<1>3. CASE o \in Orders /\ PlaceOrder(o) /\ placed' = Append(placed, Today)
  <2>1. orders' = Append(orders, o) /\ filled' = Append(filled, 0)
        /\ cancelled' = cancelled /\ cursor' = cursor /\ book' = book
    BY <1>3 DEF PlaceOrder
  <2>2. /\ placed \in Seq(Days) /\ orders \in Seq(Orders) /\ filled \in Seq(Nat)
        /\ Len(placed) = Len(orders) /\ Len(filled) = Len(orders) /\ Len(orders) \in Nat
    BY PortFacts DEF PortInv, LoopTyped, OrdersTyped
  <2>3. /\ Ids = 1 .. Len(orders) /\ Ids' = 1 .. (Len(orders) + 1)
    BY <2>1, <2>2 DEF Ids
  <2>4. ASSUME NEW id \in Ids
        PROVE  orders'[id] = orders[id] /\ filled'[id] = filled[id] /\ placed'[id] = placed[id]
    BY <1>3, <2>1, <2>2, <2>3
  <2>5. orders'[Len(orders) + 1] = o /\ filled'[Len(orders) + 1] = 0 /\ placed'[Len(orders) + 1] = Today
    BY <1>3, <2>1, <2>2
  <2>6. Placed(o)
    BY <2>1, <2>2, <2>3, <2>4, <2>5 DEF Placed
  <2> QED BY <2>6 DEF o
<1> QED BY <1>1, <1>2, <1>3

LEMMA LegPlaced ==
    ASSUME AnyQuantity, PortInv, LegInv, PlaceLeg
    PROVE  LegInv'
<1>1. PICK leg \in Legs : leg = Head(legs) /\ leg = legs[1] /\ 1 \in DOMAIN legs
  BY LegEffect
<1>2. /\ \A i \in DOMAIN legs' : i + 1 \in DOMAIN legs /\ legs'[i] = legs[i + 1]
      /\ DOMAIN legs' \in SUBSET (Nat \ {0}) /\ phase = "place"
  <2>1. /\ legs' \in Seq(Legs) /\ phase = "place"
        /\ \A i \in DOMAIN legs' : i + 1 \in DOMAIN legs /\ legs'[i] = legs[i + 1]
    BY LegEffect
  <2> QED BY <2>1
<1>3. SameDate
  BY DEF PlaceLeg, SameDate
<1>4. Today' = Today /\ t' = t /\ indexed' = indexed
  BY <1>3, SameDateFacts
<1>5. \A c, d : TradedOn(c, d)' <=> TradedOn(c, d)
  BY <1>4 DEF TradedOn
<1>6. \A i, j \in DOMAIN legs' : Root[legs'[i].contract] = Root[legs'[j].contract] => i = j
  <2> SUFFICES ASSUME NEW i \in DOMAIN legs', NEW j \in DOMAIN legs',
                      Root[legs'[i].contract] = Root[legs'[j].contract]
               PROVE  i = j
    OBVIOUS
  <2>1. i + 1 = j + 1
    BY <1>2 DEF LegInv, OnceInv
  <2>2. i \in Nat /\ j \in Nat
    BY <1>2
  <2> QED BY <2>1, <2>2
<1>7. \A i \in DOMAIN legs' : /\ TradedOn(legs'[i].contract, Today)
                              /\ Root[legs'[i].contract] # Root[leg.contract]
                              /\ \A id \in Ids : placed[id] = Today =>
                                    Root[orders[id].contract] # Root[legs'[i].contract]
  <2> SUFFICES ASSUME NEW i \in DOMAIN legs'
               PROVE  /\ TradedOn(legs'[i].contract, Today)
                      /\ Root[legs'[i].contract] # Root[leg.contract]
                      /\ \A id \in Ids : placed[id] = Today =>
                            Root[orders[id].contract] # Root[legs'[i].contract]
    OBVIOUS
  <2>1. i + 1 \in DOMAIN legs /\ legs'[i] = legs[i + 1] /\ i + 1 # 1
    BY <1>2
  <2>2. Root[legs[i + 1].contract] # Root[legs[1].contract]
    BY <1>1, <2>1 DEF LegInv, OnceInv
  <2> QED BY <1>1, <2>1, <2>2 DEF LegInv, OnceInv
<1>8. TradedOn(leg.contract, Today) /\ Root[leg.contract] \in Range(Roots)
      /\ \A id \in Ids : placed[id] = Today => Root[orders[id].contract] # Root[leg.contract]
  BY <1>1 DEF LegInv, OnceInv, Legs
<1>9. CASE UNCHANGED <<orders, filled, placed, cancelled, cursor, book>>
  <2>1. Ids' = Ids /\ (Idle' <=> Idle)
    BY <1>9 DEF Ids, Idle
  <2>2. MarketInv'
    BY <1>9, <2>1 DEF LegInv, MarketInv
  <2>3. TradedInv'
    BY <1>5, <1>9, <2>1 DEF LegInv, TradedInv
  <2>4. FilledInv'
    BY <1>4, <1>9, <2>1 DEF LegInv, FilledInv
  <2>5. OnceInv'
    BY <1>4, <1>5, <1>6, <1>7, <1>9, <2>1 DEF LegInv, OnceInv
  <2> QED BY <2>2, <2>3, <2>4, <2>5 DEF LegInv
<1>10. ASSUME NEW o, o.contract = leg.contract, o.type = "MKT", Placed(o) PROVE LegInv'
  <2> DEFINE n == Len(orders) + 1
  <2>1. /\ n \notin Ids /\ n \in Ids' /\ n \in Nat
        /\ \A id \in Ids' : id \in Ids \/ id = n
        /\ orders'[n] = o /\ filled'[n] = 0 /\ placed'[n] = Today
        /\ \A id \in Ids : /\ orders'[id] = orders[id] /\ filled'[id] = filled[id]
                           /\ placed'[id] = placed[id] /\ id \in Ids'
        /\ cancelled' = cancelled /\ cursor' = cursor
    BY <1>10 DEF Placed
  <2> HIDE DEF n
  <2>2. MarketInv'
    <3>1. \A id \in Ids' : orders'[id].type = "MKT" /\ filled'[id] \in {0, orders'[id].qty}
      BY <1>10, <2>1 DEF LegInv, MarketInv
    <3> QED BY <2>1, <3>1 DEF LegInv, MarketInv
  <2>3. TradedInv'
    <3>1. \A id \in Ids' : Root[orders'[id].contract] \in Range(Roots)
                           /\ TradedOn(orders'[id].contract, placed'[id])
      BY <1>8, <1>10, <2>1 DEF LegInv, TradedInv
    <3> QED BY <1>5, <3>1 DEF TradedInv
  <2>4. FilledInv'
    <3> SUFFICES ASSUME NEW id \in Ids', NEW i \in 1 .. t,
                        indexed[i].contract = orders'[id].contract,
                        placed'[id] < indexed[i].day, i < t \/ Idle \/ id < cursor
                 PROVE  filled'[id] = orders'[id].qty
      BY <1>4, <2>1 DEF FilledInv, Idle
    <3>1. CASE id \in Ids
      BY <2>1, <3>1 DEF LegInv, FilledInv
    <3>2. CASE id = n
      <4>1. Today < indexed[i].day
        BY <2>1, <3>2
      <4>2. t > 0
        BY <1>2 DEF PortInv, LoopInv
      <4>3. indexed[i].day <= Today /\ indexed[i].day \in Nat /\ Today \in Nat
        BY <4>2, PortFacts
      <4> QED BY <4>1, <4>3
    <3> QED BY <2>1, <3>1, <3>2
  <2>5. OnceInv'
    <3>1. \A i, j \in Ids' :
             placed'[i] = placed'[j] /\ Root[orders'[i].contract] = Root[orders'[j].contract] => i = j
      <4> SUFFICES ASSUME NEW i \in Ids', NEW j \in Ids', placed'[i] = placed'[j],
                          Root[orders'[i].contract] = Root[orders'[j].contract]
                   PROVE  i = j
        OBVIOUS
      <4>1. CASE i \in Ids /\ j \in Ids
        BY <2>1, <4>1 DEF LegInv, OnceInv
      <4>2. CASE i \in Ids /\ j = n
        BY <1>8, <1>10, <2>1, <4>2
      <4>3. CASE i = n /\ j \in Ids
        BY <1>8, <1>10, <2>1, <4>3
      <4> QED BY <2>1, <4>1, <4>2, <4>3
    <3>2. \A i \in DOMAIN legs' : \A id \in Ids' : placed'[id] = Today =>
                                    Root[orders'[id].contract] # Root[legs'[i].contract]
      BY <1>7, <1>10, <2>1
    <3> QED BY <1>4, <1>5, <1>6, <1>7, <3>1, <3>2 DEF OnceInv
  <2> QED BY <2>2, <2>3, <2>4, <2>5 DEF LegInv
<1> QED BY <1>1, <1>9, <1>10, LegPlaces

LEMMA LegStep ==
    ASSUME AnyQuantity, PortInv, DecidedInv, LegInv, Aligned, [PortfolioNext]_allVars
    PROVE  LegInv'
<1>1. CASE SeeClose \/ Mark \/ NextDate \/ Over \/ UNCHANGED allVars
  <2>1. SameDate /\ UNCHANGED <<orders, filled, placed, cancelled, cursor, legs>>
    BY <1>1 DEF SeeClose, Mark, NextDate, Over, SameDate, vars, allVars, loopVars
  <2> QED BY <2>1, LegKept
<1>2. ASSUME NEW ff \in RollFills, NEW bf \in RollFills, ExecuteRoll(ff, bf) PROVE LegInv'
  <2>1. SameDate /\ placed' = placed /\ legs' = legs
    BY <1>2 DEF ExecuteRoll, SameDate
  <2>2. UNCHANGED <<orders, filled, cancelled, cursor>>
    BY <1>2, RollEffect
  <2> QED BY <2>1, <2>2, LegKept
<1> QED BY <1>1, <1>2, LegNextBar, LegAdvance, LegSignals, LegPlaced DEF PortfolioNext

LEMMA ReachedKept ==
    ASSUME AnyQuantity, PortInv, [PortfolioNext]_allVars, t > 0, NEW c \in Contracts, Reached(c)
    PROVE  Reached(c)'
<1>1. /\ indexed' = indexed /\ rollEvents' = rollEvents /\ IsRun /\ AreRolls
      /\ t \in Nat /\ t' \in Nat /\ t <= t' /\ t' <= Len(indexed) /\ Len(indexed) \in Nat
      /\ Today <= Today' /\ Today \in Nat /\ Today' \in Nat
  BY DatesMoveOn, PortFacts
<1>2. CASE \E i \in 1 .. t : indexed[i].contract = c /\ indexed[i].day < Today
  <2>1. PICK i \in 1 .. t : indexed[i].contract = c /\ indexed[i].day < Today
    BY <1>2
  <2>2. i \in 1 .. t' /\ i \in 1 .. Len(indexed)
    BY <1>1
  <2>3. indexed[i].day \in Nat
    BY <1>1, <2>2 DEF IsRun
  <2>4. indexed[i].day < Today'
    BY <1>1, <2>1, <2>3
  <2>5. i \in 1 .. t' /\ indexed'[i].contract = c /\ indexed'[i].day < Today'
    BY <1>1, <2>1, <2>2, <2>4
  <2> QED BY <2>5 DEF Reached
<1>3. CASE \E e \in rollEvents : e.new = c /\ e.day <= Today /\ Held(e.old) = 0
  <2>1. PICK e \in rollEvents : e.new = c /\ e.day <= Today /\ Held(e.old) = 0
    BY <1>3
  <2>2. e.day \in Nat
    BY <1>1 DEF AreRolls
  <2>3. e.day <= Today'
    BY <1>1, <2>1, <2>2
  <2>4. Held(e.old)' = 0
    BY <2>1, FlatStaysFlat
  <2>5. e \in rollEvents' /\ e.new = c /\ e.day <= Today' /\ Held(e.old)' = 0
    BY <1>1, <2>1, <2>3, <2>4
  <2> QED BY <2>5 DEF Reached
<1> QED BY <1>2, <1>3 DEF Reached

\* What is held once order id is filled is within the cap.
OpenCapped(id) ==
    Abs(Held(orders[id].contract) + Signed(orders[id].side, orders[id].qty))
        <= largest[Root[orders[id].contract]]

\* No position is larger than a decision allowed, nor will be when what can still
\* fill fills.
CapInv ==
    /\ \A c \in Contracts : Held(c) # 0 =>
          Root[c] \in Range(Roots) /\ Abs(Held(c)) <= largest[Root[c]] /\ Reached(c)
    /\ \A id \in Ids : filled[id] = 0 /\ Today < Target[orders[id].contract] => OpenCapped(id)

\* In the middle of a date at most one order for a contract is open.
LEMMA OneOpen ==
    ASSUME PortInv, DecidedInv, LegInv, phase = "fill", NEW i \in Ids, NEW j \in Ids,
           orders[i].contract = orders[j].contract, filled[i] = 0, filled[j] = 0
    PROVE  i = j
<1>1. t > 0
  BY DEF PortInv, LoopInv
<1>2. t \in Nat /\ Today \in Nat /\ \A id \in Ids : placed[id] \in Nat /\ placed[id] < Today
      /\ orders[id].qty \in Nat \ {0}
  BY <1>1, PortFacts, PlacedFacts DEF DecidedInv
<1>3. ASSUME NEW a \in Ids, NEW b \in Ids, orders[a].contract = orders[b].contract, filled[a] = 0,
             placed[a] < placed[b]
      PROVE  FALSE
  <2>1. PICK k \in 1 .. t : indexed[k].contract = orders[b].contract /\ indexed[k].day = placed[b]
    BY DEF LegInv, TradedInv, TradedOn
  <2>2. placed[b] < Today
    BY <1>2
  <2>3. k # t
    BY <1>2, <2>1, <2>2 DEF Today
  <2>4. k < t
    BY <1>2, <2>3
  <2>5. filled[a] = orders[a].qty
    BY <1>3, <2>1, <2>4 DEF LegInv, FilledInv
  <2> QED BY <1>2, <1>3, <2>5
<1>4. placed[i] = placed[j] \/ placed[i] < placed[j] \/ placed[j] < placed[i]
  BY <1>2
<1>5. CASE placed[i] = placed[j]
  BY <1>5 DEF LegInv, OnceInv
<1> QED BY <1>3, <1>4, <1>5

\* What a leg decided is the sum of what is held and what was ordered.
LEMMA TargetSize ==
    ASSUME NEW q \in Int, NEW dir \in {-1, 0, 1}, NEW size \in Nat
    PROVE  LET delta == dir * size - q
           IN  /\ delta \in Int
               /\ q + Signed(IF delta > 0 THEN "BUY" ELSE "SELL", Abs(delta)) = dir * size
               /\ Abs(dir * size) <= size
<1>1. dir * size \in Int /\ dir * size \in {-size, 0, size}
  OBVIOUS
<1> DEFINE w == dir * size
           delta == w - q
<1>2. PICK x \in Int : x = w
  BY <1>1
<1> HIDE DEF w
<1>3. delta \in Int
  BY <1>2
<1>4. q + delta = w
  BY <1>2
<1>5. Signed(IF delta > 0 THEN "BUY" ELSE "SELL", Abs(delta)) = delta
  <2> HIDE DEF delta
  <2> QED BY <1>3 DEF Signed, Abs
<1>6. Abs(w) <= size
  BY <1>1, <1>2 DEF Abs, w
<1> QED BY <1>3, <1>4, <1>5, <1>6 DEF w

\* What is decided can only raise the largest size.
LEMMA LargestGrows ==
    ASSUME AnyQuantity, PortInv, [PortfolioNext]_allVars
    PROVE  /\ \A r \in Range(Roots) : largest[r] \in Nat /\ largest'[r] \in Nat /\ largest[r] <= largest'[r]
           /\ PlaceLeg \/ largest' = largest
<1>1. largest \in [Range(Roots) -> Nat]
  BY DEF PortInv, LoopTyped
<1>2. PlaceLeg \/ largest' = largest
  BY DEF PortfolioNext, NextBar, Advance, SeeClose, ExecuteRoll, Mark, GenerateSignals, NextDate,
         Over, allVars, loopVars
<1>3. CASE largest' = largest
  BY <1>1, <1>3
<1>4. CASE PlaceLeg
  BY <1>1, <1>4, LegEffect
<1> QED BY <1>2, <1>3, <1>4

\* A position that does not move keeps within the cap.
LEMMA CapKept ==
    ASSUME AnyQuantity, PortInv, CapInv, [PortfolioNext]_allVars, t > 0,
           NEW c \in Contracts, Held(c)' = Held(c), Held(c)' # 0
    PROVE  Root[c] \in Range(Roots) /\ Abs(Held(c)') <= largest'[Root[c]] /\ Reached(c)'
<1>1. Root[c] \in Range(Roots) /\ Abs(Held(c)) <= largest[Root[c]] /\ Reached(c)
  BY DEF CapInv
<1>2. Reached(c)'
  BY <1>1, ReachedKept
<1>3. Held(c) \in Int
  BY PortFacts DEF Books, Positions, Held
<1>4. Abs(Held(c)) \in Int
  BY <1>3 DEF Abs
<1>5. largest[Root[c]] \in Nat /\ largest'[Root[c]] \in Nat /\ largest[Root[c]] <= largest'[Root[c]]
  BY <1>1, LargestGrows
<1> QED BY <1>1, <1>2, <1>4, <1>5

\* Nor does an open order when neither it nor its position changes.
LEMMA OpenKept ==
    ASSUME AnyQuantity, PortInv, LegInv, CapInv, [PortfolioNext]_allVars, t > 0,
           NEW id \in Ids, filled[id] = 0, orders'[id] = orders[id],
           NEW c \in Contracts, c = orders[id].contract, Held(c)' = Held(c), Today' < Target[c]
    PROVE  OpenCapped(id)'
<1> DEFINE o == orders[id]
<1>1. PICK n \in Int : n = Held(c) + Signed(o.side, o.qty)
  <2>1. o.qty \in Nat \ {0} /\ o.side \in Sides
    BY PlacedFacts
  <2>2. Held(c) \in Int
    BY PortFacts DEF Books, Positions, Held
  <2> QED BY <2>1, <2>2 DEF Signed
<1>2. Today < Target[c]
  <2>1. Target[c] \in Nat
    BY DataFacts
  <2> QED BY <2>1, DatesMoveOn
<1>3. Root[c] \in Range(Roots)
  BY DEF LegInv, TradedInv
<1>4. Abs(n) <= largest[Root[c]]
  BY <1>1, <1>2 DEF CapInv, OpenCapped
<1>5. largest[Root[c]] \in Nat /\ largest'[Root[c]] \in Nat /\ largest[Root[c]] <= largest'[Root[c]]
  BY <1>3, LargestGrows
<1>6. Abs(n) \in Int
  BY DEF Abs
<1>7. Abs(n) <= largest'[Root[c]]
  BY <1>4, <1>5, <1>6
<1>8. Held(orders[id].contract)' = Held(c)
  BY DEF Held
<1>9. orders'[id].contract = c /\ Signed(orders'[id].side, orders'[id].qty) = Signed(o.side, o.qty)
  OBVIOUS
<1> QED BY <1>1, <1>7, <1>8, <1>9 DEF OpenCapped

LEMMA CapFill ==
    ASSUME AnyQuantity, PortInv, DecidedInv, LegInv, CapInv, [PortfolioNext]_allVars,
           Advance, AdvanceFill
    PROVE  CapInv'
<1>0. PICK c \in Contracts, o \in Orders, k \in Ids : c = bar.contract /\ o = orders[cursor] /\ k = cursor
  <2>1. bar.contract \in Contracts /\ cursor \in Ids
    BY FillMovesBook DEF PortInv
  <2>2. orders[cursor] \in Orders
    BY <2>1, PortFacts, OneOrder
  <2> QED BY <2>1, <2>2
<1>1. SameDate /\ phase = "fill" /\ orders' = orders /\ largest' = largest
  BY DEF Advance, SameDate, AdvanceFill, Fill
<1>2. t > 0
  BY <1>1 DEF PortInv, LoopInv
<1>3. Today' = Today /\ t' = t /\ indexed' = indexed /\ Ids' = Ids
  BY <1>1, SameDateFacts DEF Ids
<1>4. /\ cursor \in Ids /\ o.contract = c /\ c \in Contracts
      /\ o.qty - filled[cursor] \in Nat \ {0}
      /\ filled' = [filled EXCEPT ![cursor] = o.qty]
      /\ \E gain : Moved(book', book, c, Signed(o.side, o.qty - filled[cursor]), gain)
  BY <1>0, FillMovesBook DEF PortInv
<1>5. Ids = DOMAIN filled /\ o.qty \in Nat \ {0} /\ filled[cursor] \in {0, o.qty}
  BY <1>4, <1>0, PlacedFacts DEF LegInv, MarketInv
<1>6. filled[cursor] = 0 /\ o.qty - filled[cursor] = o.qty
  BY <1>4, <1>5
<1>7. Held(c)' = Held(c) + Signed(o.side, o.qty)
  BY <1>4, <1>6 DEF Moved, Held
<1>8. Today < Target[c] /\ Root[c] \in Range(Roots)
  BY <1>2, <1>0, PortFacts
<1>9. Abs(Held(c)') <= largest'[Root[c]]
  <2>1. OpenCapped(cursor)
    BY <1>4, <1>0, <1>6, <1>8 DEF CapInv
  <2> QED BY <1>1, <1>4, <1>0, <1>7, <2>1 DEF OpenCapped
<1>10. Reached(c)'
  <2>1. PICK i \in 1 .. t : indexed[i].contract = c /\ indexed[i].day = placed[cursor]
    BY <1>4, <1>0 DEF LegInv, TradedInv, TradedOn
  <2>2. placed[cursor] < Today
    BY <1>1, <1>4 DEF DecidedInv
  <2>3. i \in 1 .. t' /\ indexed'[i].contract = c /\ indexed'[i].day < Today'
    BY <1>3, <2>1, <2>2
  <2> QED BY <2>3 DEF Reached
<1>11. ASSUME NEW d \in Contracts, Held(d)' # 0
       PROVE  Root[d] \in Range(Roots) /\ Abs(Held(d)') <= largest'[Root[d]] /\ Reached(d)'
  <2>1. CASE d = c
    BY <1>8, <1>9, <1>10, <2>1
  <2>2. CASE d # c
    <3>1. Held(d)' = Held(d)
      BY <1>0, <2>2, FillHeld
    <3> QED BY <1>2, <1>11, <3>1, CapKept
  <2> QED BY <2>1, <2>2
<1>12. ASSUME NEW id \in Ids, filled'[id] = 0, Today' < Target[orders'[id].contract]
       PROVE  OpenCapped(id)'
  <2>1. id # cursor /\ filled[id] = 0
    BY <1>4, <1>5, <1>12
  <2>2. PICK d \in Contracts : d = orders[id].contract
    BY PlacedFacts
  <2>3. d # c
    BY <1>1, <1>4, <1>0, <1>6, <2>1, <2>2, OneOpen
  <2>4. Held(d)' = Held(d)
    BY <1>0, <2>3, FillHeld
  <2> QED BY <1>1, <1>2, <1>12, <2>1, <2>2, <2>4, OpenKept
<1> QED BY <1>3, <1>11, <1>12 DEF CapInv

LEMMA CapRoll ==
    ASSUME AnyQuantity, PortInv, DecidedInv, LeftInv, LegInv, CapInv, Aligned,
           [PortfolioNext]_allVars, NEW ff \in RollFills, NEW bf \in RollFills, ExecuteRoll(ff, bf),
           RollPosition(Head(rolls).old, Head(rolls).new, ff, bf)
    PROVE  CapInv'
<1>1. PICK f \in rollEvents : f = Head(rolls)
  BY RollEffect
<1>2. /\ f.day = Today /\ ff \in Int /\ bf \in Int /\ phase = "roll"
      /\ orders' = orders /\ filled' = filled /\ RollPosition(f.old, f.new, ff, bf)
  BY <1>1, RollEffect
<1>3. SameDate /\ largest' = largest /\ t > 0
  BY <1>2 DEF ExecuteRoll, SameDate, PortInv, LoopInv
<1>4. Today' = Today /\ t' = t /\ indexed' = indexed /\ Ids' = Ids /\ rollEvents' = rollEvents
  BY <1>2, <1>3, SameDateFacts DEF Ids
<1>5. /\ f.old \in Contracts /\ f.new \in Contracts /\ f.old # f.new /\ Root[f.old] = Root[f.new]
      /\ Today \in Nat /\ f.day = Target[f.old]
      /\ \A i \in 1 .. Len(indexed) : indexed[i].contract = f.new => f.day <= indexed[i].day
  BY <1>3, PortFacts DEF AreRolls
<1>6. /\ Held(f.old)' = 0 /\ Held(f.new)' = Held(f.new) + Held(f.old)
      /\ \A d \in Contracts : d # f.old /\ d # f.new => Held(d)' = Held(d)
  BY <1>1, <1>2, RollHeld DEF Held
<1>7. Held(f.old) # 0
  BY <1>2 DEF RollPosition, RollOpens, Held
<1>8. \A x \in Contracts : Held(x) # 0 => Reached(x)
  BY DEF CapInv
<1>9. Held(f.new) = 0
  BY <1>3, <1>5, <1>7, <1>8, OneContract
<1>10. Held(f.old) \in Int
  BY <1>5, PortFacts DEF Books, Positions, Held
<1>11. Held(f.new)' = Held(f.old)
  BY <1>6, <1>9, <1>10
<1>12. ASSUME NEW d \in Contracts, Held(d)' # 0
       PROVE  Root[d] \in Range(Roots) /\ Abs(Held(d)') <= largest'[Root[d]] /\ Reached(d)'
  <2>1. CASE d = f.old
    BY <1>6, <1>12, <2>1
  <2>2. CASE d = f.new
    <3>1. Root[d] \in Range(Roots) /\ Abs(Held(d)') <= largest'[Root[d]]
      BY <1>3, <1>5, <1>7, <1>11, <2>2 DEF CapInv
    <3>2. f \in rollEvents' /\ f.new = d /\ f.day <= Today' /\ Held(f.old)' = 0
      BY <1>2, <1>4, <1>5, <1>6, <2>2
    <3>3. Reached(d)'
      BY <3>2 DEF Reached
    <3> QED BY <3>1, <3>3
  <2>3. CASE d # f.old /\ d # f.new
    <3>1. Held(d)' = Held(d)
      BY <1>6, <2>3
    <3> QED BY <1>3, <1>12, <3>1, CapKept
  <2> QED BY <2>1, <2>2, <2>3
<1>13. ASSUME NEW id \in Ids, filled'[id] = 0, Today' < Target[orders'[id].contract]
       PROVE  OpenCapped(id)'
  <2>1. PICK c \in Contracts : c = orders[id].contract
    BY PlacedFacts
  <2>2. placed[id] \in Nat /\ placed[id] < Today
    BY <1>2, PlacedFacts DEF DecidedInv
  <2>3. c # f.old
    BY <1>2, <1>4, <1>5, <1>13, <2>1
  <2>4. c # f.new
    <3> SUFFICES ASSUME c = f.new PROVE FALSE
      OBVIOUS
    <3>1. PICK i \in 1 .. t : indexed[i].contract = f.new /\ indexed[i].day = placed[id]
      BY <2>1 DEF LegInv, TradedInv, TradedOn
    <3>2. i \in 1 .. Len(indexed)
      BY PortFacts
    <3>3. Today <= placed[id]
      BY <1>2, <1>5, <3>1, <3>2
    <3> QED BY <1>5, <2>2, <3>3
  <2>5. Held(c)' = Held(c)
    BY <1>6, <2>3, <2>4
  <2> QED BY <1>2, <1>3, <1>13, <2>1, <2>5, OpenKept
<1> QED BY <1>4, <1>12, <1>13 DEF CapInv

LEMMA CapPlaced ==
    ASSUME AnyQuantity, TargetPosition, PortInv, LegInv, CapInv, [PortfolioNext]_allVars, PlaceLeg
    PROVE  CapInv'
<1>1. PICK leg \in Legs : leg = Head(legs) /\ leg = legs[1]
  BY LegEffect
<1>2. PICK size \in Nat : size = SizeOf(leg) /\ size <= largest'[Root[leg.contract]] /\ phase = "place"
  BY <1>1, LegEffect
<1>3. PICK c \in Contracts, dir \in {-1, 0, 1} : c = leg.contract /\ dir = leg.dir /\ Root[c] \in Range(Roots)
  BY DEF Legs
<1>4. SameDate /\ t > 0
  BY <1>2 DEF PlaceLeg, SameDate, PortInv, LoopInv
<1>5. Today' = Today
  BY <1>4, SameDateFacts
<1>6. PICK q \in Int : q = Held(c)
  BY PortFacts DEF Books, Positions, Held
<1>7. PICK delta \in Int : delta = dir * size - q
  BY TargetSize
<1>8. ResolveOrder(leg, size) = delta
  BY <1>3, <1>6, <1>7 DEF ResolveOrder
<1>9. /\ book' = book
      /\ \/ orders' = orders /\ filled' = filled
         \/ \E o : Placed(o) /\ o.contract = c /\ o.qty = Abs(delta)
                   /\ o.side = (IF delta > 0 THEN "BUY" ELSE "SELL")
  <2> DEFINE o == [contract |-> leg.contract, qty |-> Abs(delta), type |-> "MKT",
                   side |-> IF delta > 0 THEN "BUY" ELSE "SELL", price |-> 0]
  <2>1. UNCHANGED <<orders, filled, placed, cancelled, cursor, book>> \/ Placed(o)
    BY <1>1, <1>2, <1>8, LegPlaces
  <2>2. o.contract = c /\ o.qty = Abs(delta) /\ o.side = (IF delta > 0 THEN "BUY" ELSE "SELL")
    BY <1>3
  <2>3. Placed(o) => book' = book
    BY DEF Placed
  <2> HIDE DEF o
  <2> QED BY <2>1, <2>2, <2>3
<1>10. \A d : Held(d)' = Held(d)
  BY <1>9 DEF Held
<1>11. \A d \in Contracts : Held(d)' # 0 =>
          Root[d] \in Range(Roots) /\ Abs(Held(d)') <= largest'[Root[d]] /\ Reached(d)'
  BY <1>4, <1>10, CapKept
<1>12. ASSUME NEW id \in Ids, filled[id] = 0, orders'[id] = orders[id],
              Today' < Target[orders'[id].contract]
       PROVE  OpenCapped(id)'
  <2>1. PICK d \in Contracts : d = orders[id].contract
    BY PlacedFacts
  <2> QED BY <1>4, <1>10, <1>12, <2>1, OpenKept
<1>13. CASE orders' = orders /\ filled' = filled
  <2>1. Ids' = Ids
    BY <1>13 DEF Ids
  <2>2. \A id \in Ids' : filled'[id] = 0 /\ Today' < Target[orders'[id].contract] => OpenCapped(id)'
    BY <1>12, <1>13, <2>1
  <2> QED BY <1>11, <2>2 DEF CapInv
<1>14. CASE \E o : Placed(o) /\ o.contract = c /\ o.qty = Abs(delta)
                   /\ o.side = (IF delta > 0 THEN "BUY" ELSE "SELL")
  <2>1. PICK o : Placed(o) /\ o.contract = c /\ o.qty = Abs(delta)
                 /\ o.side = (IF delta > 0 THEN "BUY" ELSE "SELL")
    BY <1>14
  <2>2. PICK n \in Nat : /\ \A id \in Ids' : id \in Ids \/ id = n
                         /\ orders'[n] = o
                         /\ \A id \in Ids : orders'[id] = orders[id] /\ filled'[id] = filled[id]
    BY <2>1 DEF Placed
  <2>3. OpenCapped(n)'
    <3>1. q + Signed(o.side, o.qty) = dir * size /\ Abs(dir * size) <= size
      <4> DEFINE w == dir * size - q
      <4>1. /\ q + Signed(IF w > 0 THEN "BUY" ELSE "SELL", Abs(w)) = dir * size
            /\ Abs(dir * size) <= size
        BY TargetSize
      <4> HIDE DEF w
      <4>2. w = delta
        BY <1>7 DEF w
      <4> QED BY <2>1, <4>1, <4>2
    <3>2. Held(orders[n].contract)' = q
      BY <1>6, <1>10, <2>1, <2>2 DEF Held
    <3>3. dir * size \in Int
      BY TargetSize
    <3>4. Abs(dir * size) \in Int
      BY <3>3 DEF Abs
    <3>5. largest'[Root[c]] \in Nat
      BY <1>3, LargestGrows
    <3>6. Abs(q + Signed(o.side, o.qty)) <= largest'[Root[c]]
      BY <1>2, <1>3, <3>1, <3>4, <3>5
    <3> QED BY <2>1, <2>2, <3>2, <3>6 DEF OpenCapped
  <2>4. \A id \in Ids' : filled'[id] = 0 /\ Today' < Target[orders'[id].contract] => OpenCapped(id)'
    BY <1>12, <2>2, <2>3
  <2> QED BY <1>11, <2>4 DEF CapInv
<1> QED BY <1>9, <1>13, <1>14

LEMMA CapStep ==
    ASSUME AnyQuantity, TargetPosition, EngineSound, LegInv, CapInv, Aligned, [PortfolioNext]_allVars
    PROVE  CapInv'
<1>1. PortInv /\ DecidedInv /\ LeftInv /\ KnownInv
  BY DEF EngineSound
<1>2. CASE UNCHANGED <<orders, filled, book>> /\ largest' = largest
  <2>1. Ids' = Ids /\ \A d : Held(d)' = Held(d)
    BY <1>2 DEF Ids, Held
  <2>2. CASE t = 0
    <3>1. Ids = {} /\ \A d \in Contracts : Held(d) = 0
      BY <1>1, <2>2 DEF DecidedInv, KnownInv, Ids
    <3> QED BY <2>1, <3>1 DEF CapInv
  <2>3. CASE t > 0
    <3>1. \A d \in Contracts : Held(d)' # 0 =>
             Root[d] \in Range(Roots) /\ Abs(Held(d)') <= largest'[Root[d]] /\ Reached(d)'
      BY <1>1, <2>1, <2>3, CapKept
    <3>2. ASSUME NEW id \in Ids, filled[id] = 0, Today' < Target[orders'[id].contract]
          PROVE  OpenCapped(id)'
      <4>1. PICK d \in Contracts : d = orders[id].contract
        BY <1>1, PlacedFacts
      <4> QED BY <1>1, <1>2, <2>1, <2>3, <3>2, <4>1, OpenKept
    <3> QED BY <1>2, <2>1, <3>1, <3>2 DEF CapInv
  <2> QED BY <1>1, <2>2, <2>3, PortFacts
<1>3. CASE Advance
  <2>1. CASE AdvanceFill
    BY <1>1, <1>3, <2>1, CapFill
  <2>2. CASE AdvanceSkip
    BY <1>2, <1>3, <2>2 DEF Advance, AdvanceSkip
  <2> QED BY <1>3, <2>1, <2>2 DEF Advance
<1>4. ASSUME NEW ff \in RollFills, NEW bf \in RollFills, ExecuteRoll(ff, bf) PROVE CapInv'
  <2>1. CASE RollPosition(Head(rolls).old, Head(rolls).new, ff, bf)
    BY <1>1, <1>4, <2>1, CapRoll
  <2>2. CASE UNCHANGED vars
    BY <1>2, <1>4, <2>2 DEF ExecuteRoll, vars
  <2> QED BY <1>4, <2>1, <2>2 DEF ExecuteRoll
<1>5. CASE PlaceLeg
  BY <1>1, <1>5, CapPlaced
<1>6. CASE SeeClose \/ Mark \/ GenerateSignals \/ NextDate \/ Over \/ UNCHANGED allVars
  <2>1. UNCHANGED <<orders, filled, book>> /\ largest' = largest
    BY <1>6 DEF SeeClose, Mark, GenerateSignals, NextDate, Over, vars, allVars, loopVars
  <2> QED BY <1>2, <2>1
<1>7. ASSUME NEW b \in Bars, NEW px \in Closes[Root[b.contract]], NextBar(b, px) PROVE CapInv'
  <2>1. UNCHANGED <<orders, filled, book>> /\ largest' = largest
    BY <1>7 DEF NextBar, AdvanceStart
  <2> QED BY <1>2, <2>1
<1> QED BY <1>3, <1>4, <1>5, <1>6, <1>7 DEF PortfolioNext

\* What alignment adds to the invariant.
AlignedInv == Aligned /\ TargetPosition => LegInv /\ CapInv

LEMMA AlignedInit == PortfolioInit => AlignedInv
<1> SUFFICES ASSUME PortfolioInit PROVE LegInv /\ CapInv
  BY DEF AlignedInv
<1>1. orders = <<>> /\ legs = <<>> /\ cancelled = {} /\ book = EmptyBook
  BY DEF PortfolioInit, Init
<1>2. Ids = {} /\ DOMAIN legs = {}
  BY <1>1 DEF Ids
<1>3. \A c \in Contracts : Held(c) = 0
  BY <1>1 DEF Held, EmptyBook, FlatPosition
<1>4. LegInv
  BY <1>1, <1>2 DEF LegInv, MarketInv, TradedInv, FilledInv, OnceInv
<1> QED BY <1>2, <1>3, <1>4 DEF CapInv

LEMMA AlignedStep ==
    ASSUME AnyQuantity, EngineSound, AlignedInv, [PortfolioNext]_allVars
    PROVE  AlignedInv'
<1> SUFFICES ASSUME Aligned', TargetPosition PROVE LegInv' /\ CapInv'
  BY DEF AlignedInv
<1>1. Aligned
  BY DataKept DEF Aligned
<1>2. LegInv /\ CapInv /\ PortInv /\ DecidedInv
  BY <1>1 DEF AlignedInv, EngineSound
<1> QED BY <1>1, <1>2, LegStep, CapStep

\* One position per root: its size is the exposure of the leg.
LEMMA ExposureOfOne ==
    ASSUME EngineSound, Aligned, CapInv, NEW r \in Range(Roots)
    PROVE  SumFunction([c \in {d \in Contracts : Root[d] = r} |-> Abs(Held(c))]) <= largest[r]
<1> DEFINE S == {d \in Contracts : Root[d] = r}
           f == [c \in S |-> Abs(Held(c))]
           z == [c \in S |-> 0]
<1>1. PortInv /\ LeftInv /\ KnownInv /\ book \in Books /\ IsFiniteSet(Contracts) /\ largest[r] \in Nat
  BY PortFacts, DataFacts DEF EngineSound, PortInv, LoopTyped
<1>2. IsFiniteSet(S)
  BY <1>1, FS_Subset
<1>3. f \in [S -> Int]
  <2>1. \A c \in Contracts : Held(c) \in Int
    BY <1>1 DEF Books, Positions, Held
  <2> QED BY <2>1 DEF Abs
<1>4. CASE \A c \in S : Held(c) = 0
  <2>1. \A c \in S : f[c] = 0
    BY <1>4 DEF Abs
  <2> HIDE DEF f, S
  <2>2. SumFunction(f) = 0
    BY <1>2, <1>3, <2>1, TotalOfZeros
  <2> QED BY <1>1, <2>2 DEF f, S
<1>5. ASSUME NEW c \in S, Held(c) # 0 PROVE SumFunction(f) <= largest[r]
  <2>1. t > 0
    BY <1>1, <1>5, PortFacts DEF KnownInv
  <2>2. \A d \in S : d # c => Held(d) = 0
    <3>1. \A x \in Contracts : Held(x) # 0 => Reached(x)
      BY DEF CapInv
    <3> QED BY <1>1, <1>5, <2>1, <3>1, OneContract
  <2>3. \A d \in S \ {c} : f[d] = z[d]
    BY <2>2 DEF Abs
  <2>4. f[c] <= largest[r] /\ f[c] \in Int /\ z[c] = 0 /\ z \in [S -> Int]
    BY <1>3, <1>5 DEF CapInv
  <2>5. \A d \in S : z[d] = 0
    OBVIOUS
  <2> HIDE DEF f, S, z
  <2>6. SumFunction(z) = 0
    BY <1>2, <2>4, <2>5, TotalOfZeros
  <2>7. SumFunction(f) = SumFunction(z) + (f[c] - z[c])
    BY <1>2, <1>3, <2>3, <2>4, TotalChanges
  <2> QED BY <2>4, <2>6, <2>7
<1> QED BY <1>4, <1>5

\* With target positions, aligned streams and every roll on a date of the run, the
\* exposure of a leg over its contracts never exceeds the largest size a decision
\* allowed: pending orders, fills at the next open, flips and rolls into the next
\* contract add up to no more (portfolio_backtest.py, run, _resolve_order and
\* _execute_rolls; mock_broker.py, advance and roll_position).
THEOREM LegsAreCapped ==
    ASSUME AnyQuantity
    PROVE  PortfolioSpec => []LegCapped
<1>1. EngineSound /\ AlignedInv => LegCapped
  <2> SUFFICES ASSUME EngineSound, AlignedInv, Aligned, TargetPosition, NEW r \in Range(Roots)
               PROVE  SumFunction([c \in {d \in Contracts : Root[d] = r} |-> Abs(Held(c))]) <= largest[r]
    BY DEF LegCapped
  <2> QED BY ExposureOfOne DEF AlignedInv
<1>2. EngineSound /\ AlignedInv /\ [PortfolioNext]_allVars => AlignedInv'
  BY AlignedStep
<1>3. PortfolioSpec => []EngineSound
  BY EngineInvariant
<1> QED BY <1>1, <1>2, <1>3, AlignedInit, PTL DEF PortfolioSpec
====
