------------------------ MODULE ReferenceData_proofs ------------------------
(***************************************************************************)
(* Theorems about the reference data.  The point-in-time sources, for every *)
(* calendar, lookback and set of figures and any number of late reports,    *)
(* revisions and voids; and the Bitcoin reference rate, for every           *)
(* deployment, window and market.                                           *)
(***************************************************************************)
EXTENDS PointInTime, BrrReconstructor, SumTheorems, FunctionTheorems

-----------------------------------------------------------------------------
(* The point-in-time sources *)

\* The numbers of the calendar.
LEMMA Calendar ==
    /\ WeekLength \in Nat /\ WeekLength >= 4 /\ Friday \in Nat /\ Friday >= 1
    /\ MonthLength \in Nat \ {0} /\ ReleaseDay \in Nat /\ ReleaseDay < MonthLength
    /\ MaxDay \in Nat /\ Month(MaxDay) \in Nat
BY PointInTimeAssumption DEF Friday, Month

LEMMA MomentFacts ==
    ASSUME NEW t \in Nat
    PROVE  /\ Day(t) \in Nat
           /\ t = 2 * Day(t) \/ t = AtRelease(Day(t))
           /\ \A d \in Int : AtRelease(d) <= t => d <= Day(t)
           /\ \A d \in Int : d < Day(t) => AtRelease(d) <= t
           /\ \A d \in Int : d <= Day(t) /\ AtRelease(d) > t => d = Day(t)
BY DEF Day, AtRelease

LEMMA DueFacts ==
    ASSUME NEW m \in Nat
    PROVE  /\ Due(m) \in Nat /\ Due(m) >= m
           /\ Due(m) <= (m + 2) * MonthLength - 1 /\ (m + 2) * MonthLength - 1 \in Nat
<1> DEFINE p == (m + 1) * MonthLength
<1>1. p \in Nat /\ p >= m + 1
  <2>1. \A x \in Nat, y \in Nat \ {0} : x * y \in Nat /\ x * y >= x
    <3> TAKE x \in Nat, y \in Nat \ {0}
    <3>1. PICK z \in Nat : y = z + 1
      <4>1. y - 1 \in Nat /\ y = (y - 1) + 1
        OBVIOUS
      <4> QED
        BY <4>1
    <3>2. x * y = x * z + x /\ x * z \in Nat
      BY <3>1
    <3> QED
      BY <3>2
  <2>2. m + 1 \in Nat /\ MonthLength \in Nat \ {0}
    BY Calendar
  <2> QED
    BY <2>1, <2>2
<1>2. (m + 2) * MonthLength = p + MonthLength
  BY Calendar
<1>3. Due(m) = p + ReleaseDay
  BY DEF Due
<1> HIDE DEF p
<1> QED
  BY <1>1, <1>2, <1>3, Calendar

\* A bounded set of naturals that is not empty has a greatest element.
LEMMA GreatestNatural ==
    ASSUME NEW N \in SUBSET Nat, N # {}, NEW bound \in Nat, \A n \in N : n <= bound
    PROVE  \E n \in N : \A m \in N : m <= n
<1> DEFINE U == {k \in Nat : \A n \in N : n <= k}
<1>1. U \in SUBSET Nat /\ U # {}
  OBVIOUS
<1>2. PICK g \in U : \A k \in U : g <= k
  BY <1>1, LeastNatural
<1>3. \A n \in N : n <= g
  BY <1>2
<1>4. g \in N
  <2> SUFFICES ASSUME g \notin N PROVE FALSE
    OBVIOUS
  <2>1. PICK n \in N : n \in Nat
    OBVIOUS
  <2>2. \A k \in N : k \in Nat /\ k < g
    BY <1>2, <1>3
  <2>3. g - 1 \in Nat /\ \A k \in N : k <= g - 1
    BY <2>1, <2>2
  <2>4. g - 1 \in U
    BY <2>3
  <2> QED
    BY <1>2, <2>4
<1> QED
  BY <1>3, <1>4

-----------------------------------------------------------------------------
(* FRED over a set of vintages                                               *)

\* The sets of vintages that occur: one figure a month and day, and a figure
\* that follows another one of its month is a number.
Vintages(V) ==
    /\ IsFiniteSet(V)
    /\ \A v \in V : /\ v.month \in 0 .. Month(MaxDay) /\ v.day \in 0 .. MaxDay
                    /\ v.value \in Values \cup {Missing}
    /\ \A v, w \in V : v.month = w.month /\ v.day = w.day => v = w
    /\ \A v, w \in V : v.month = w.month /\ v.day < w.day => w.value # Missing

CurrentOf(V) == {v \in V : \A w \in V : w.month = v.month => w.day <= v.day}
Above(V, m) == {w \in CurrentOf(V) : w.month > m}
ObservationsOf(V) == {v \in CurrentOf(V) : Cardinality(Above(V, v.month)) < Lookback}
NumbersOf(V) == {v \in ObservationsOf(V) : v.value # Missing}
FredRecord(v) == [month |-> v.month, value |-> v.value, knownAt |-> FredKnownAt(v)]
FredOf(V, asOf) ==
    IF Series \notin FredSeries \/ NumbersOf(V) = {} THEN None
    ELSE EnforcePitGate(FredRecord(Newest(NumbersOf(V))), asOf)

UpToDay(d) == {v \in vintages : v.day <= d}

LEMMA FredIsFredOf ==
    ASSUME NEW asOf
    PROVE  /\ FredFetchValue(asOf) = FredOf(UpToDay(Day(asOf)), asOf)
           /\ Observations(Day(asOf)) = ObservationsOf(UpToDay(Day(asOf)))
<1> DEFINE d == Day(asOf)
           current == {v \in vintages : /\ v.day <= d
                                        /\ \A w \in vintages : w.month = v.month /\ w.day <= d
                                                               => w.day <= v.day}
<1>1. current = CurrentOf(UpToDay(d))
  BY DEF CurrentOf, UpToDay
<1> HIDE DEF current, d
<1>2. Observations(d) = {v \in current : Cardinality({w \in current : w.month > v.month}) < Lookback}
  BY DEF Observations, current
<1>3. Observations(d) = ObservationsOf(UpToDay(d))
  BY <1>1, <1>2 DEF ObservationsOf, Above
<1>4. FredNumbers(d) = NumbersOf(UpToDay(d))
  BY <1>3 DEF FredNumbers, NumbersOf
<1> QED
  BY <1>3, <1>4 DEF FredFetchValue, FredOf, FredRecord, d

\* Records, none and an error are told apart.
LEMMA Kinds ==
    /\ Raised # None /\ Raised \notin MacroValues /\ None \notin MacroValues
    /\ \A m, x, k : [month |-> m, value |-> x, knownAt |-> k] # None
<1>1. DOMAIN Raised = {"raised"} /\ DOMAIN None = {"none"}
  BY DEF Raised, None
<1>2. \A r \in MacroValues : DOMAIN r = {"month", "value", "knownAt"}
  BY DEF MacroValues
<1>3. \A m, x, k : DOMAIN [month |-> m, value |-> x, knownAt |-> k]
                     = {"month", "value", "knownAt"}
  OBVIOUS
<1>4. "raised" # "none" /\ "raised" # "month" /\ "none" # "month"
  OBVIOUS
<1>5. "month" \notin {"raised"} /\ "month" \notin {"none"} /\ "raised" \notin {"none"}
      /\ "month" \in {"month", "value", "knownAt"} /\ "raised" \in {"raised"}
  OBVIOUS
<1>6. Raised # None
  BY <1>1, <1>5
<1>7. Raised \notin MacroValues /\ None \notin MacroValues
  BY <1>1, <1>2, <1>5
<1>8. ASSUME NEW m, NEW x, NEW k PROVE [month |-> m, value |-> x, knownAt |-> k] # None
  BY <1>1, <1>3, <1>5
<1> QED
  BY <1>6, <1>7, <1>8

LEMMA VintageTypes ==
    ASSUME NEW V, Vintages(V), NEW v \in V
    PROVE  v.month \in Nat /\ v.day \in Nat /\ v.day <= MaxDay /\ v.value \in Values \cup {Missing}
BY Calendar DEF Vintages

LEMMA SubVintages ==
    ASSUME NEW V, Vintages(V), NEW W \in SUBSET V
    PROVE  Vintages(W)
<1>1. IsFiniteSet(W)
  BY FS_Subset DEF Vintages
<1> QED
  BY <1>1 DEF Vintages

\* Every month with a figure has exactly one current figure.
LEMMA CurrentExists ==
    ASSUME NEW V, Vintages(V), NEW v \in V
    PROVE  \E u \in CurrentOf(V) : u.month = v.month /\ v.day <= u.day
<1> DEFINE M == {w \in V : w.month = v.month}
           N == {w.day : w \in M}
<1>1. N \in SUBSET Nat /\ v.day \in N /\ \A n \in N : n <= MaxDay
  BY VintageTypes
<1>2. PICK n \in N : \A m \in N : m <= n
  <2>1. N # {} /\ MaxDay \in Nat
    BY <1>1, Calendar
  <2> QED
    BY <1>1, <2>1, GreatestNatural
<1>3. PICK u \in M : u.day = n
  OBVIOUS
<1>4. \A w \in V : w.month = u.month => w.day \in N
  BY <1>3
<1>5. u \in CurrentOf(V)
  BY <1>2, <1>3, <1>4 DEF CurrentOf
<1> QED
  BY <1>1, <1>2, <1>3, <1>5

LEMMA CurrentUnique ==
    ASSUME NEW V, Vintages(V), NEW u \in CurrentOf(V), NEW w \in CurrentOf(V),
           u.month = w.month
    PROVE  u = w
<1>1. u \in V /\ w \in V /\ u.day <= w.day /\ w.day <= u.day
  BY DEF CurrentOf
<1>2. u.day \in Nat /\ w.day \in Nat
  BY <1>1, VintageTypes
<1>3. u.day = w.day
  BY <1>1, <1>2
<1> QED
  BY <1>1, <1>3 DEF Vintages

\* With more vintages no fewer months lie above a month.
LEMMA AboveMonotone ==
    ASSUME NEW V, Vintages(V), NEW W \in SUBSET V, NEW m \in Nat
    PROVE  /\ Cardinality(Above(W, m)) \in Nat /\ Cardinality(Above(V, m)) \in Nat
           /\ Cardinality(Above(W, m)) <= Cardinality(Above(V, m))
<1> DEFINE A == Above(W, m)
           B == Above(V, m)
           f == [w \in A |-> CHOOSE u \in B : u.month = w.month]
<1>1. Vintages(W)
  BY SubVintages
<1>2. IsFiniteSet(A) /\ IsFiniteSet(B)
  <2>1. A \subseteq W /\ B \subseteq V
    BY DEF Above, CurrentOf
  <2> QED
    BY <1>1, <2>1, FS_Subset DEF Vintages
<1>3. ASSUME NEW w \in A PROVE \E u \in B : u.month = w.month
  <2>1. w \in V /\ w.month > m
    BY DEF Above, CurrentOf
  <2>2. PICK u \in CurrentOf(V) : u.month = w.month
    BY <2>1, CurrentExists
  <2> QED
    BY <2>1, <2>2 DEF Above
<1>4. \A w \in A : f[w] \in B /\ f[w].month = w.month
  BY <1>3
<1>5. \A w, x \in A : w.month = x.month => w = x
  BY <1>1, CurrentUnique DEF Above
<1>6. f \in [A -> B]
  BY <1>4
<1> HIDE DEF f, A, B
<1>7. f \in Injection(A, B)
  <2>1. \A w, x \in A : f[w] = f[x] => w = x
    BY <1>4, <1>5
  <2> QED
    BY <1>6, <2>1, Fun_IsInj
<1>8. Cardinality(A) <= Cardinality(B)
  BY <1>2, <1>7, FS_Injection
<1>9. Cardinality(A) \in Nat /\ Cardinality(B) \in Nat
  BY <1>2, FS_CardinalityType
<1> QED
  BY <1>8, <1>9 DEF A, B

LEMMA NewestIs ==
    ASSUME NEW V, Vintages(V), NEW P \in SUBSET CurrentOf(V), NEW v \in P,
           \A w \in P : w.month <= v.month
    PROVE  Newest(P) = v
<1> DEFINE n == CHOOSE x \in P : \A w \in P : w.month <= x.month
<1>1. n \in P /\ \A w \in P : w.month <= n.month
  OBVIOUS
<1>2. Newest(P) = n
  BY DEF Newest
<1> HIDE DEF n
<1>3. n \in CurrentOf(V) /\ v \in CurrentOf(V)
  BY <1>1
<1>4. n.month \in Nat /\ v.month \in Nat
  BY <1>3, VintageTypes DEF CurrentOf
<1>5. n.month = v.month
  BY <1>1, <1>4
<1>6. n = v
  BY <1>3, <1>5, CurrentUnique
<1> QED
  BY <1>2, <1>6

LEMMA NewestFacts ==
    ASSUME NEW V, Vintages(V), NumbersOf(V) # {}
    PROVE  /\ Newest(NumbersOf(V)) \in NumbersOf(V)
           /\ \A w \in NumbersOf(V) : w.month <= Newest(NumbersOf(V)).month
<1> DEFINE P == NumbersOf(V)
           N == {w.month : w \in P}
<1>1. \A w \in P : w \in V
  BY DEF NumbersOf, ObservationsOf, CurrentOf
<1> HIDE DEF P
<1>2. N \in SUBSET Nat /\ N # {} /\ \A n \in N : n <= Month(MaxDay)
  <2>1. \A w \in P : w.month \in 0 .. Month(MaxDay)
    BY <1>1 DEF Vintages
  <2>2. P # {} /\ Month(MaxDay) \in Nat
    BY Calendar DEF P
  <2> QED
    BY <2>1, <2>2
<1>3. PICK n \in N : \A m \in N : m <= n
  BY <1>2, Calendar, GreatestNatural
<1>4. PICK v \in P : v.month = n
  OBVIOUS
<1>5. \A w \in P : w.month <= v.month
  BY <1>3, <1>4
<1>6. Newest(P) = v
  <2>1. P \in SUBSET CurrentOf(V)
    BY DEF P, NumbersOf, ObservationsOf
  <2> QED
    BY <1>5, <2>1, NewestIs
<1> QED
  BY <1>5, <1>6 DEF P

\* A later month than one FRED looks at is looked at as well.
LEMMA UpwardClosed ==
    ASSUME NEW V, Vintages(V), NEW v \in ObservationsOf(V), NEW x \in CurrentOf(V),
           x.month >= v.month
    PROVE  x \in ObservationsOf(V)
<1>1. /\ v.month \in Nat /\ x.month \in Nat /\ Lookback \in Nat
      /\ Cardinality(Above(V, v.month)) < Lookback
  BY VintageTypes, PointInTimeAssumption DEF ObservationsOf, CurrentOf
<1>2. Above(V, x.month) \subseteq Above(V, v.month)
  <2> SUFFICES ASSUME NEW w \in Above(V, x.month) PROVE w \in Above(V, v.month)
    OBVIOUS
  <2>1. w \in CurrentOf(V) /\ w.month > x.month
    BY DEF Above
  <2>2. w.month \in Nat
    BY <2>1, VintageTypes DEF CurrentOf
  <2>3. w.month > v.month
    BY <1>1, <2>1, <2>2
  <2> QED
    BY <2>1, <2>3 DEF Above
<1>3. IsFiniteSet(Above(V, v.month))
  <2>1. Above(V, v.month) \subseteq V
    BY DEF Above, CurrentOf
  <2> QED
    BY <2>1, FS_Subset DEF Vintages
<1>4. /\ IsFiniteSet(Above(V, x.month))
      /\ Cardinality(Above(V, x.month)) <= Cardinality(Above(V, v.month))
  BY <1>2, <1>3, FS_Subset
<1>5. Cardinality(Above(V, x.month)) \in Nat /\ Cardinality(Above(V, v.month)) \in Nat
  BY <1>3, <1>4, FS_CardinalityType
<1>6. Cardinality(Above(V, x.month)) < Lookback
  BY <1>1, <1>4, <1>5
<1> QED
  BY <1>6 DEF ObservationsOf

\* What FRED says at t over all vintages of the day is what the vintages visible
\* at t say, or nothing.
LEMMA FredPointInTime ==
    ASSUME NEW V, Vintages(V), NEW t \in Nat,
           NEW W, W = {v \in V : AtRelease(v.day) <= t}
    PROVE  FredOf(V, t) \in {FredOf(W, t), None}
<1> SUFFICES ASSUME FredOf(V, t) # None PROVE FredOf(V, t) = FredOf(W, t)
  OBVIOUS
<1> DEFINE v == Newest(NumbersOf(V))
<1>1. Series \in FredSeries /\ NumbersOf(V) # {} /\ FredOf(V, t) = EnforcePitGate(FredRecord(v), t)
  BY DEF FredOf
<1>2. v \in NumbersOf(V) /\ \A w \in NumbersOf(V) : w.month <= v.month
  BY <1>1, NewestFacts
<1> HIDE DEF v
<1>3. v \in V /\ v \in CurrentOf(V) /\ Cardinality(Above(V, v.month)) < Lookback
      /\ v.value # Missing
  BY <1>2 DEF NumbersOf, ObservationsOf, CurrentOf
<1>4. v \in W
  <2>1. FredRecord(v).knownAt = AtRelease(v.day) /\ AtRelease(v.day) \in Int
    BY <1>3, VintageTypes DEF FredRecord, FredKnownAt, AtRelease
  <2>2. FredRecord(v) # None
    BY Kinds DEF FredRecord
  <2>3. ~(FredRecord(v).knownAt > t)
    BY <1>1, <2>2 DEF EnforcePitGate
  <2> QED
    BY <1>3, <2>1, <2>3
<1>5. W \in SUBSET V /\ Vintages(W)
  <2>1. W \in SUBSET V
    OBVIOUS
  <2> QED
    BY <2>1, SubVintages
<1>6. v.month \in Nat /\ Lookback \in Nat
  BY <1>3, VintageTypes, PointInTimeAssumption
<1>7. v \in NumbersOf(W)
  <2>1. v \in CurrentOf(W)
    BY <1>3, <1>4, <1>5 DEF CurrentOf
  <2>2. Cardinality(Above(W, v.month)) < Lookback
    BY <1>3, <1>5, <1>6, AboveMonotone
  <2> QED
    BY <1>3, <2>1, <2>2 DEF NumbersOf, ObservationsOf
<1>8. ASSUME NEW u \in NumbersOf(W) PROVE u.month <= v.month
  <2>1. u \in V /\ u.value # Missing /\ u.month \in Nat
    BY <1>5, VintageTypes DEF NumbersOf, ObservationsOf, CurrentOf
  <2> SUFFICES ASSUME u.month > v.month PROVE FALSE
    BY <1>6, <2>1
  <2>2. PICK x \in CurrentOf(V) : x.month = u.month /\ u.day <= x.day
    BY <2>1, CurrentExists
  <2>3. x.value # Missing
    <3>1. x \in V /\ x.day \in Nat /\ u.day \in Nat
      BY <2>1, <2>2, VintageTypes DEF CurrentOf
    <3>2. CASE u.day = x.day
      BY <2>1, <2>2, <3>1, <3>2 DEF Vintages
    <3>3. CASE u.day < x.day
      BY <2>1, <2>2, <3>1, <3>3 DEF Vintages
    <3> QED
      BY <2>2, <3>1, <3>2, <3>3
  <2>4. x \in ObservationsOf(V)
    <3>1. v \in ObservationsOf(V) /\ x.month >= v.month
      BY <1>2, <1>6, <2>1, <2>2 DEF NumbersOf
    <3> QED
      BY <2>2, <3>1, UpwardClosed
  <2>5. x \in NumbersOf(V)
    BY <2>3, <2>4 DEF NumbersOf
  <2> QED
    BY <1>2, <1>6, <2>1, <2>2, <2>5
<1>9. Newest(NumbersOf(W)) = v
  <2>1. NumbersOf(W) \in SUBSET CurrentOf(W)
    BY DEF NumbersOf, ObservationsOf
  <2> QED
    BY <1>5, <1>7, <1>8, <2>1, NewestIs
<1> QED
  BY <1>1, <1>7, <1>9 DEF FredOf, v

-----------------------------------------------------------------------------
(* The publishers                                                            *)

\* A day of the week after the start of week w is in week w.
LEMMA WeekOf ==
    ASSUME NEW w \in Nat, NEW day \in {0, 1}
    PROVE  (w * WeekLength + day) \div WeekLength = w
<1> DEFINE a == w * WeekLength + day
           q == a \div WeekLength
           r == a % WeekLength
<1>1. WeekLength \in Nat /\ WeekLength >= 4 /\ w * WeekLength \in Nat
  BY Calendar
<1>2. a \in Nat /\ a = w * WeekLength + day
  BY <1>1
<1> HIDE DEF a
<1>3. q \in Int /\ r \in 0 .. WeekLength - 1 /\ a = WeekLength * q + r
  BY <1>1, <1>2
<1> HIDE DEF q, r
<1> DEFINE k == q - w
<1>4. k \in Int /\ q = w + k /\ WeekLength * q = w * WeekLength + k * WeekLength
  BY <1>1, <1>3
<1>5. k * WeekLength \in Int /\ k * WeekLength = day - r
  BY <1>1, <1>2, <1>3, <1>4
<1>6. /\ k >= 1 => k * WeekLength >= WeekLength
      /\ k <= -1 => k * WeekLength <= -WeekLength
  <2>1. \A x \in Nat, y \in Nat : x * y \in Nat
    OBVIOUS
  <2>2. ASSUME k >= 1 PROVE k * WeekLength >= WeekLength
    <3>1. k - 1 \in Nat /\ k * WeekLength = (k - 1) * WeekLength + WeekLength
      BY <1>1, <1>4, <2>2
    <3>2. (k - 1) * WeekLength \in Nat
      BY <1>1, <2>1, <3>1
    <3> QED
      BY <1>1, <3>1, <3>2
  <2>3. ASSUME k <= -1 PROVE k * WeekLength <= -WeekLength
    <3>1. -k - 1 \in Nat /\ k * WeekLength = -((-k - 1) * WeekLength) - WeekLength
      BY <1>1, <1>4, <2>3
    <3>2. (-k - 1) * WeekLength \in Nat
      BY <1>1, <2>1, <3>1
    <3> QED
      BY <1>1, <3>1, <3>2
  <2> QED
    BY <2>2, <2>3
<1>7. k = 0
  BY <1>1, <1>3, <1>4, <1>5, <1>6
<1>8. q = w
  BY <1>4, <1>7
<1> QED
  BY <1>8 DEF q, a

\* The Friday of the week of a snapshot, counted from the snapshot.
LEMMA FridayOf ==
    ASSUME NEW d \in Nat
    PROVE  /\ ValueKnownAtForReport(d) = AtRelease((d \div WeekLength) * WeekLength + Friday)
           /\ (d \div WeekLength) * WeekLength + Friday \in Int
<1>1. WeekLength \in Nat /\ WeekLength >= 4 /\ Friday \in Nat
  BY Calendar
<1> DEFINE q == d \div WeekLength
           r == d % WeekLength
<1>2. q \in Int /\ r \in Int /\ d = WeekLength * q + r
  BY <1>1
<1> HIDE DEF q, r
<1>3. WeekLength * q = q * WeekLength /\ q * WeekLength \in Int
  BY <1>1, <1>2
<1>4. d + Friday - r = q * WeekLength + Friday
  BY <1>1, <1>2, <1>3
<1>5. q * WeekLength + Friday \in Int
  BY <1>1, <1>3
<1>6. ValueKnownAtForReport(d) = AtRelease(d + Friday - r)
  BY DEF ValueKnownAtForReport, Weekday, r
<1> QED
  BY <1>4, <1>5, <1>6 DEF q

\* A figure that comes out now.
Fresh(v) ==
    /\ v.month \in 0 .. Month(MaxDay) /\ v.day \in 0 .. MaxDay
    /\ v.value \in Values \cup {Missing}
    /\ AtRelease(v.day) = clock + 1

\* What a tick publishes: at most one report, of a week that has none, at most
\* one first print and at most one revision, which is a number.
Publishes(out, print, revision) ==
    /\ reports' = reports \cup out
    /\ vintages' = vintages \cup print \cup revision
    /\ \A r \in out : r \in Reports /\ r.at = clock + 1 /\ ~Reported(r.date \div WeekLength)
    /\ \A r, q \in out : r = q
    /\ IsFiniteSet(print) /\ IsFiniteSet(revision)
    /\ \A v \in print : Fresh(v) /\ ~Printed(v.month)
    /\ \A v, w \in print : v = w
    /\ \A v \in revision : Fresh(v) /\ Printed(v.month) /\ v.value \in Values
    /\ \A v, w \in revision : v = w

LEMMA OneOrNone ==
    ASSUME NEW S, S = {} \/ \E x : S = {x}
    PROVE  IsFiniteSet(S) /\ \A x, y \in S : x = y
BY FS_EmptySet, FS_Singleton

LEMMA ReportsOnFacts ==
    ASSUME NEW d \in 0 .. MaxDay, NEW out \in ReportsOn(d)
    PROVE  /\ out = {} \/ \E x : out = {x}
           /\ \A r \in out : /\ r \in Reports /\ r.at = AtRelease(d)
                             /\ ~Reported(r.date \div WeekLength)
<1>1. CASE out = {}
  BY <1>1
<1>2. CASE out # {}
  <2>1. PICK w \in Weeks, day \in {0, 1} :
            /\ ~Reported(w) /\ d >= w * WeekLength + Friday
            /\ out = {[date |-> w * WeekLength + day, at |-> AtRelease(d)]}
    <3>1. PICK w \in {w \in Weeks : /\ ~Reported(w)
                                    /\ \/ d = w * WeekLength + Friday
                                       \/ MayBeLate /\ d > w * WeekLength + Friday},
               day \in {0, 1} :
              out = {[date |-> w * WeekLength + day, at |-> AtRelease(d)]}
      BY <1>2 DEF ReportsOn
    <3>2. w \in Nat /\ w * WeekLength + Friday \in Nat /\ d \in Nat
      <4>1. w \in Nat
        BY <3>1 DEF Weeks
      <4> QED
        BY <4>1, Calendar
    <3> QED
      BY <3>1, <3>2
  <2>2. w \in Nat /\ w * WeekLength \in Nat
    <3>1. w \in Nat
      BY DEF Weeks
    <3> QED
      BY <3>1, Calendar
  <2> DEFINE r == [date |-> w * WeekLength + day, at |-> AtRelease(d)]
  <2>3. w * WeekLength + day \in Days /\ AtRelease(d) \in Moments
    BY <2>1, <2>2, Calendar DEF Days, Moments, AtRelease
  <2>4. r \in Reports /\ r.at = AtRelease(d) /\ r.date = w * WeekLength + day
    BY <2>3 DEF Reports
  <2>5. ~Reported(r.date \div WeekLength)
    BY <2>1, <2>2, <2>4, WeekOf
  <2> HIDE DEF r
  <2>6. out = {r}
    BY <2>1 DEF r
  <2> QED
    BY <2>4, <2>5, <2>6
<1> QED
  BY <1>1, <1>2

LEMMA FiguresOnFacts ==
    ASSUME NEW d \in 0 .. MaxDay, NEW print \in PrintsOn(d), NEW revision \in RevisionsOn(d),
           clock + 1 = AtRelease(d)
    PROVE  /\ print = {} \/ \E x : print = {x}
           /\ revision = {} \/ \E x : revision = {x}
           /\ \A v \in print : Fresh(v) /\ ~Printed(v.month)
           /\ \A v \in revision : Fresh(v) /\ Printed(v.month) /\ v.value \in Values
<1> DEFINE Figure(m, x) == [month |-> m, day |-> d, value |-> x]
<1>1. ASSUME NEW m \in 0 .. Month(MaxDay), NEW x \in Values \cup {Missing}
      PROVE  Fresh(Figure(m, x)) /\ Figure(m, x).month = m /\ Figure(m, x).value = x
  BY DEF Fresh
<1>2. print = {} \/ \E m \in 0 .. Month(MaxDay), x \in Values \cup {Missing} :
                        ~Printed(m) /\ print = {Figure(m, x)}
  BY DEF PrintsOn
<1>3. revision = {} \/ \E m \in 0 .. Month(MaxDay), x \in Values :
                           Printed(m) /\ revision = {Figure(m, x)}
  BY DEF RevisionsOn
<1> HIDE DEF Figure
<1>4. /\ print = {} \/ \E x : print = {x}
      /\ \A v \in print : Fresh(v) /\ ~Printed(v.month)
  BY <1>1, <1>2
<1>5. /\ revision = {} \/ \E x : revision = {x}
      /\ \A v \in revision : Fresh(v) /\ Printed(v.month) /\ v.value \in Values
  BY <1>1, <1>3
<1> QED
  BY <1>4, <1>5

LEMMA TickPublishes ==
    ASSUME clock \in Moments, Tick
    PROVE  \E out, print, revision : Publishes(out, print, revision)
<1>1. clock + 1 \in Moments /\ clock' = clock + 1
  BY DEF Tick
<1>2. CASE clock' = AtRelease(Day(clock'))
  <2> DEFINE d == Day(clock + 1)
  <2>1. d \in 0 .. MaxDay /\ clock + 1 = AtRelease(d)
    <3>1. clock + 1 \in 0 .. 2 * MaxDay + 1 /\ MaxDay \in Nat
      BY <1>1, Calendar DEF Moments
    <3>2. d \in 0 .. MaxDay
      BY <3>1 DEF Day
    <3> QED
      BY <1>1, <1>2, <3>2
  <2>2. PICK out \in ReportsOn(d), print \in PrintsOn(d), revision \in RevisionsOn(d) :
            reports' = reports \cup out /\ vintages' = vintages \cup print \cup revision
    BY <1>1, <1>2 DEF Tick
  <2> HIDE DEF d
  <2>3. Publishes(out, print, revision)
    <3>1. /\ out = {} \/ \E x : out = {x}
          /\ \A r \in out : /\ r \in Reports /\ r.at = AtRelease(d)
                            /\ ~Reported(r.date \div WeekLength)
      BY <2>1, ReportsOnFacts
    <3>2. /\ print = {} \/ \E x : print = {x}
          /\ revision = {} \/ \E x : revision = {x}
          /\ \A v \in print : Fresh(v) /\ ~Printed(v.month)
          /\ \A v \in revision : Fresh(v) /\ Printed(v.month) /\ v.value \in Values
      BY <2>1, FiguresOnFacts
    <3>3. \A r, q \in out : r = q
      BY <3>1, OneOrNone, Zenon
    <3>4. IsFiniteSet(print) /\ \A v, w \in print : v = w
      BY <3>2, OneOrNone, Zenon
    <3>5. IsFiniteSet(revision) /\ \A v, w \in revision : v = w
      BY <3>2, OneOrNone, Zenon
    <3> QED
      BY <2>1, <2>2, <3>1, <3>2, <3>3, <3>4, <3>5 DEF Publishes
  <2> QED
    BY <2>3
<1>3. CASE clock' # AtRelease(Day(clock'))
  <2>1. Publishes({}, {}, {})
    BY <1>3, FS_EmptySet DEF Tick, Publishes
  <2> QED
    BY <2>1
<1> QED
  BY <1>2, <1>3

-----------------------------------------------------------------------------
(* The inductive invariant                                                   *)

Visible(t) == {v \in vintages : AtRelease(v.day) <= t}

\* Reports and figures as they are published, none of them from the future.
Published ==
    /\ clock \in Moments
    /\ reports \subseteq Reports /\ \A r \in reports : r.at \in Past
    /\ \A r, q \in reports : r.date \div WeekLength = q.date \div WeekLength => r = q
    /\ Vintages(vintages) /\ \A v \in vintages : AtRelease(v.day) \in Past

\* An answer given live: what was visible at its moment decided it.
Live(a) ==
    /\ a.asOf \in Past
    /\ a.cot \subseteq reports \cup {Raised}
    /\ {a.fred, a.bls} \subseteq MacroValues \cup {None, Raised}
    /\ a.cot # {Raised} => a.cot = {r \in ReportsKnownAt(reports, a.asOf) : r.at <= a.asOf}
    /\ a.fred # Raised => a.fred = FredOf(Visible(a.asOf), a.asOf)
    /\ {a.fred, a.bls} \subseteq MacroValues =>
         a.bls.month = a.fred.month /\ a.bls.value = a.fred.value

AllLive == \A a \in asked : Live(a)

LEMMA ClockFacts ==
    ASSUME Published
    PROVE  /\ clock \in Nat
           /\ \A v \in vintages : v.day \in Nat /\ AtRelease(v.day) \in Int
                                  /\ AtRelease(v.day) <= clock
           /\ \A r \in reports : r.at \in Int /\ r.at <= clock /\ r.date \in Nat
<1>1. clock \in Nat
  BY Calendar DEF Published, Moments
<1>2. \A v \in vintages : v.day \in Nat
  BY VintageTypes DEF Published
<1>3. \A r \in reports : r.date \in Nat
  BY Calendar DEF Published, Reports, Days
<1> QED
  BY <1>1, <1>2, <1>3 DEF Published, Past, AtRelease

LEMMA TickVintages ==
    ASSUME Published, NEW out, NEW print, NEW revision, Publishes(out, print, revision)
    PROVE  /\ Vintages(vintages')
           /\ \A v \in vintages' : v \in vintages \/ AtRelease(v.day) = clock + 1
<1>1. vintages' = vintages \cup print \cup revision
  BY DEF Publishes
<1>2. IsFiniteSet(vintages')
  <2>1. IsFiniteSet(vintages) /\ IsFiniteSet(print) /\ IsFiniteSet(revision)
    BY DEF Publishes, Published, Vintages
  <2>2. IsFiniteSet(vintages \cup print)
    BY <2>1, FS_Union
  <2> QED
    BY <1>1, <2>1, <2>2, FS_Union
<1>3. \A v \in print \cup revision : Fresh(v)
  BY DEF Publishes
<1>4. \A v \in vintages' : /\ v.month \in 0 .. Month(MaxDay) /\ v.day \in 0 .. MaxDay
                           /\ v.value \in Values \cup {Missing}
  <2>1. \A v \in vintages : /\ v.month \in 0 .. Month(MaxDay) /\ v.day \in 0 .. MaxDay
                            /\ v.value \in Values \cup {Missing}
    BY DEF Published, Vintages
  <2> QED
    BY <1>1, <1>3, <2>1 DEF Fresh
<1>5. ASSUME NEW v \in vintages, NEW w \in print \cup revision PROVE v.day < w.day
  <2>1. clock \in Nat /\ v.day \in Nat /\ AtRelease(v.day) <= clock
    BY ClockFacts
  <2>2. w.day \in Nat /\ AtRelease(w.day) = clock + 1
    BY <1>3 DEF Fresh
  <2> QED
    BY <2>1, <2>2 DEF AtRelease
<1>6. \A v, w \in print \cup revision : v.month = w.month => v = w
  BY DEF Publishes
<1>7. \A v, w \in print \cup revision : ~(v.day < w.day)
  BY <1>3 DEF Fresh, AtRelease
<1>8. \A v, w \in vintages' : v.month = w.month /\ v.day = w.day => v = w
  <2> SUFFICES ASSUME NEW v \in vintages', NEW w \in vintages',
                      v.month = w.month, v.day = w.day
               PROVE  v = w
    OBVIOUS
  <2>1. v.day \in Nat /\ w.day \in Nat
    BY <1>4
  <2>2. CASE v \in vintages /\ w \in vintages
    BY <2>2 DEF Published, Vintages
  <2>3. CASE v \in print \cup revision /\ w \in print \cup revision
    BY <1>6, <2>3
  <2> QED
    BY <1>1, <1>5, <2>1, <2>2, <2>3
<1>9. \A v, w \in vintages' : v.month = w.month /\ v.day < w.day => w.value # Missing
  <2> SUFFICES ASSUME NEW v \in vintages', NEW w \in vintages',
                      v.month = w.month, v.day < w.day
               PROVE  w.value # Missing
    OBVIOUS
  <2>1. v.day \in Nat /\ w.day \in Nat
    BY <1>4
  <2>2. CASE w \in vintages
    <3>1. v \in vintages
      BY <1>1, <1>5, <2>1, <2>2
    <3> QED
      BY <2>2, <3>1 DEF Published, Vintages
  <2>3. CASE w \in print \cup revision
    <3>1. v \in vintages
      BY <1>1, <1>7, <2>3
    <3>2. Printed(w.month)
      BY <3>1 DEF Printed
    <3>3. w \in revision
      BY <2>3, <3>2 DEF Publishes
    <3> QED
      BY <3>3, PointInTimeAssumption DEF Publishes
  <2> QED
    BY <1>1, <2>2, <2>3
<1>10. \A v \in vintages' : v \in vintages \/ AtRelease(v.day) = clock + 1
  BY <1>1, <1>3 DEF Fresh
<1> QED
  BY <1>2, <1>4, <1>8, <1>9, <1>10 DEF Vintages

LEMMA TickPublished ==
    ASSUME Published, Tick
    PROVE  Published'
<1>1. PICK out, print, revision : Publishes(out, print, revision)
  BY TickPublishes DEF Published
<1>2. clock' = clock + 1 /\ clock' \in Moments /\ clock \in Nat
  BY ClockFacts DEF Tick
<1>3. Past' = 0 .. clock + 1
  BY <1>2 DEF Past
<1>4. Vintages(vintages') /\ \A v \in vintages' : AtRelease(v.day) \in Past'
  <2>1. /\ Vintages(vintages')
        /\ \A v \in vintages' : v \in vintages \/ AtRelease(v.day) = clock + 1
    BY <1>1, TickVintages
  <2>2. \A v \in vintages : AtRelease(v.day) \in 0 .. clock
    BY DEF Published, Past
  <2>3. clock + 1 \in 0 .. clock + 1 /\ 0 .. clock \subseteq 0 .. clock + 1
    BY <1>2
  <2> QED
    BY <1>3, <2>1, <2>2, <2>3
<1>5. /\ reports' = reports \cup out
      /\ \A r \in out : r \in Reports /\ r.at = clock + 1 /\ ~Reported(r.date \div WeekLength)
      /\ \A r, q \in out : r = q
  BY <1>1 DEF Publishes
<1>6. reports' \subseteq Reports /\ \A r \in reports' : r.at \in Past'
  BY <1>2, <1>3, <1>5 DEF Published, Past
<1>7. \A r, q \in reports' : r.date \div WeekLength = q.date \div WeekLength => r = q
  <2>1. \A r \in reports, q \in out : r.date \div WeekLength # q.date \div WeekLength
    BY <1>5 DEF Reported
  <2>2. \A r, q \in reports : r.date \div WeekLength = q.date \div WeekLength => r = q
    BY DEF Published
  <2> QED
    BY <1>5, <2>1, <2>2
<1>8. Published' = (/\ clock' \in Moments
                    /\ reports' \subseteq Reports /\ \A r \in reports' : r.at \in Past'
                    /\ \A r, q \in reports' :
                          r.date \div WeekLength = q.date \div WeekLength => r = q
                    /\ Vintages(vintages') /\ \A v \in vintages' : AtRelease(v.day) \in Past')
  BY DEF Published, Vintages
<1> QED
  BY <1>2, <1>4, <1>6, <1>7, <1>8

\* Nothing that is published later is visible at an earlier moment.
LEMMA TickKeepsPast ==
    ASSUME Published, Tick, NEW t \in Past
    PROVE  /\ Visible(t)' = Visible(t)
           /\ t \in Past' /\ reports \subseteq reports'
           /\ {r \in ReportsKnownAt(reports', t) : r.at <= t}
                = {r \in ReportsKnownAt(reports, t) : r.at <= t}
<1>1. PICK out, print, revision : Publishes(out, print, revision)
  BY TickPublishes DEF Published
<1>2. clock \in Nat /\ clock' = clock + 1 /\ t \in 0 .. clock
  BY ClockFacts DEF Tick, Past
<1>3. vintages \subseteq vintages' /\ reports' = reports \cup out
  BY <1>1 DEF Publishes
<1>4. \A v \in vintages' : v \in vintages \/ AtRelease(v.day) = clock + 1
  BY <1>1, TickVintages
<1>5. ~(clock + 1 <= t)
  BY <1>2
<1>6. Visible(t)' = {v \in vintages' : AtRelease(v.day) <= t}
  BY DEF Visible
<1>7. Visible(t)' = Visible(t)
  BY <1>3, <1>4, <1>5, <1>6 DEF Visible
<1>8. \A r \in out : ~(r.at <= t)
  BY <1>1, <1>5 DEF Publishes
<1>9. {r \in ReportsKnownAt(reports', t) : r.at <= t}
        = {r \in ReportsKnownAt(reports, t) : r.at <= t}
  BY <1>3, <1>8 DEF ReportsKnownAt, FetchReports
<1>10. t \in Past'
  BY <1>2 DEF Past
<1> QED
  BY <1>3, <1>7, <1>9, <1>10

LEMMA TickLive ==
    ASSUME Published, AllLive, Tick
    PROVE  AllLive'
<1>1. asked' = asked
  BY DEF Tick
<1>2. SUFFICES ASSUME NEW a \in asked PROVE Live(a)'
  BY <1>1 DEF AllLive
<1> DEFINE t == a.asOf
<1>3. Live(a) /\ t \in Past
  BY DEF AllLive, Live
<1> HIDE DEF t
<1>4. /\ Visible(t)' = Visible(t)
      /\ t \in Past' /\ reports \subseteq reports'
      /\ {r \in ReportsKnownAt(reports', t) : r.at <= t}
           = {r \in ReportsKnownAt(reports, t) : r.at <= t}
  BY <1>3, TickKeepsPast
<1>5. /\ a.cot \subseteq reports' \cup {Raised}
      /\ a.cot # {Raised} => a.cot = {r \in ReportsKnownAt(reports', t) : r.at <= t}
  BY <1>3, <1>4 DEF Live, t
<1>6. a.fred # Raised => a.fred = FredOf(Visible(t)', t)
  BY <1>3, <1>4 DEF Live, t
<1> QED
  BY <1>3, <1>4, <1>5, <1>6 DEF Live, t

\* Live, everything published is visible.
LEMMA AllVisible ==
    ASSUME Published
    PROVE  Visible(clock) = vintages /\ UpToDay(Day(clock)) = vintages
<1>1. clock \in Nat /\ \A v \in vintages : v.day \in Nat /\ AtRelease(v.day) <= clock
  BY ClockFacts
<1>2. \A v \in vintages : v.day <= Day(clock)
  BY <1>1, MomentFacts
<1> QED
  BY <1>1, <1>2 DEF Visible, UpToDay

\* What FRED answers is none or the newest number it looks at.
LEMMA FredOfFacts ==
    ASSUME NEW V, Vintages(V), NEW t \in Moments, FredOf(V, t) # None
    PROVE  \E v \in NumbersOf(V) : /\ FredOf(V, t) = FredRecord(v)
                                   /\ \A w \in NumbersOf(V) : w.month <= v.month
                                   /\ FredRecord(v) \in MacroValues
<1> DEFINE v == Newest(NumbersOf(V))
<1>1. NumbersOf(V) # {} /\ FredOf(V, t) = EnforcePitGate(FredRecord(v), t)
  BY DEF FredOf
<1>2. v \in NumbersOf(V) /\ \A w \in NumbersOf(V) : w.month <= v.month
  BY <1>1, NewestFacts
<1> HIDE DEF v
<1>3. FredRecord(v) # None /\ FredRecord(v).knownAt = AtRelease(v.day)
  BY Kinds DEF FredRecord, FredKnownAt
<1>4. FredOf(V, t) = FredRecord(v) /\ ~(AtRelease(v.day) > t)
  BY <1>1, <1>3 DEF EnforcePitGate
<1>5. v \in V /\ v.value # Missing
  BY <1>2 DEF NumbersOf, ObservationsOf, CurrentOf
<1>6. v.month \in 0 .. Month(MaxDay) /\ v.day \in Nat /\ v.value \in Values
  BY <1>5, VintageTypes DEF Vintages
<1>7. AtRelease(v.day) \in Moments
  BY <1>4, <1>6, Calendar DEF AtRelease, Moments
<1>8. FredRecord(v) \in MacroValues
  BY <1>6, <1>7 DEF FredRecord, FredKnownAt, MacroValues
<1> QED
  BY <1>2, <1>4, <1>8

\* What BLS answers is none or the newest number of all, and not before its
\* release by the calendar.
LEMMA BlsFacts ==
    ASSUME Published, NEW t \in Moments, NEW lookup \in BOOLEAN, BlsFetchValue(t, lookup) # None
    PROVE  \E v \in CurrentOf(vintages) :
              /\ v.value # Missing
              /\ \A w \in CurrentOf(vintages) : w.value # Missing => w.month <= v.month
              /\ BlsFetchValue(t, lookup).month = v.month
              /\ BlsFetchValue(t, lookup).value = v.value
              /\ AtRelease(Due(v.month)) <= t
              /\ BlsFetchValue(t, lookup) \in MacroValues
<1> DEFINE P == {v \in Timeseries : v.value # Missing}
           v == Newest(P)
           N == {w.month : w \in P}
           known == IF lookup THEN AtRelease(Due(v.month))
                    ELSE ConservativePublicationBound(v.month)
           rec == [month |-> v.month, value |-> v.value, knownAt |-> known]
<1>1. Timeseries = CurrentOf(vintages) /\ Vintages(vintages)
  BY DEF Timeseries, CurrentOf, Published
<1>2. P # {} /\ BlsFetchValue(t, lookup) = EnforcePitGate(rec, t)
  BY DEF BlsFetchValue, LatestMonthlyPoint
<1>3. P \in SUBSET CurrentOf(vintages)
  BY <1>1
<1>a. v = Newest(P)
  OBVIOUS
<1> HIDE DEF v
<1>4. \A w \in P : w \in vintages /\ w.month \in 0 .. Month(MaxDay)
  BY <1>1, <1>3 DEF CurrentOf, Vintages
<1> HIDE DEF P
<1>5. PICK x \in P : \A w \in P : w.month <= x.month
  <2>1. N \in SUBSET Nat /\ N # {} /\ \A n \in N : n <= Month(MaxDay)
    BY <1>2, <1>4, Calendar
  <2>2. PICK n \in N : \A m \in N : m <= n
    BY <2>1, Calendar, GreatestNatural
  <2>3. PICK x \in P : x.month = n
    OBVIOUS
  <2> QED
    BY <2>2, <2>3
<1>6. v = x
  BY <1>1, <1>3, <1>5, <1>a, NewestIs
<1>7. v \in P /\ \A w \in P : w.month <= v.month
  BY <1>5, <1>6
<1>8. v.month \in Nat /\ v.month \in 0 .. Month(MaxDay) /\ v.value \in Values
  <2>1. v \in vintages /\ v.value # Missing
    BY <1>4, <1>7 DEF P
  <2> QED
    BY <1>1, <1>4, <1>7, <2>1, VintageTypes
<1>9. Due(v.month) \in Nat /\ known \in Nat /\ AtRelease(Due(v.month)) <= known
  <2>1. /\ Due(v.month) \in Nat /\ (v.month + 2) * MonthLength - 1 \in Nat
        /\ Due(v.month) <= (v.month + 2) * MonthLength - 1
    BY <1>8, DueFacts
  <2>2. ConservativePublicationBound(v.month) = 2 * ((v.month + 2) * MonthLength - 1) + 1
    BY DEF ConservativePublicationBound, AtRelease
  <2>3. AtRelease(Due(v.month)) = 2 * Due(v.month) + 1
    BY DEF AtRelease
  <2> QED
    BY <2>1, <2>2, <2>3
<1>10. rec # None /\ rec.knownAt = known /\ rec.month = v.month /\ rec.value = v.value
  BY Kinds
<1> HIDE DEF rec, known
<1>11. BlsFetchValue(t, lookup) = rec /\ ~(known > t)
  BY <1>2, <1>10 DEF EnforcePitGate
<1>12. t \in Nat /\ known \in Moments
  BY <1>9, <1>11, Calendar DEF Moments
<1>13. rec \in MacroValues
  BY <1>8, <1>12 DEF rec, MacroValues
<1>14. AtRelease(Due(v.month)) <= t
  BY <1>9, <1>11, <1>12 DEF AtRelease
<1>15. v \in CurrentOf(vintages) /\ v.value # Missing
  BY <1>3, <1>7 DEF P
<1>16. \A w \in CurrentOf(vintages) : w.value # Missing => w.month <= v.month
  BY <1>1, <1>7 DEF P
<1> QED
  BY <1>10, <1>11, <1>13, <1>14, <1>15, <1>16

LEMMA AskLive ==
    ASSUME Published, AllLive, Ask
    PROVE  AllLive'
<1>1. PICK cot \in CotAnswers(clock), fred \in FredAnswers(clock), bls \in BlsAnswers(clock, TRUE) :
          asked' = asked \cup {[asOf |-> clock, cot |-> cot, fred |-> fred, bls |-> bls]}
  BY DEF Ask
<1>2. UNCHANGED <<clock, reports, vintages>>
  BY DEF Ask
<1>3. \A a : Live(a)' = Live(a)
  BY <1>2 DEF Live, Past, Visible
<1> DEFINE a == [asOf |-> clock, cot |-> cot, fred |-> fred, bls |-> bls]
<1>4. a.asOf = clock /\ a.cot = cot /\ a.fred = fred /\ a.bls = bls
  OBVIOUS
<1> HIDE DEF a
<1>5. clock \in Nat /\ clock \in Past /\ clock \in Moments
  BY ClockFacts DEF Past, Published
<1>6. cot # {Raised} => cot = {r \in ReportsKnownAt(reports, clock) : r.at <= clock}
  <2>1. cot # {Raised} => cot = ReportsKnownAt(reports, clock)
    BY DEF CotAnswers
  <2>2. \A r \in ReportsKnownAt(reports, clock) : r.at <= clock
    BY ClockFacts DEF ReportsKnownAt, FetchReports
  <2> QED
    BY <2>1, <2>2
<1>7. cot \subseteq reports \cup {Raised}
  BY DEF CotAnswers, ReportsKnownAt, FetchReports
<1>8. Vintages(vintages) /\ Visible(clock) = vintages /\ UpToDay(Day(clock)) = vintages
  BY AllVisible DEF Published
<1>9. fred # Raised => fred = FredOf(vintages, clock)
  BY <1>8, FredIsFredOf DEF FredAnswers
<1>10. bls # Raised => bls = BlsFetchValue(clock, TRUE)
  BY DEF BlsAnswers
<1>11. fred \in MacroValues \cup {None, Raised}
  BY <1>5, <1>8, <1>9, FredOfFacts
<1>12. bls \in MacroValues \cup {None, Raised}
  BY <1>5, <1>10, BlsFacts
<1>13. ASSUME fred \in MacroValues, bls \in MacroValues
       PROVE  bls.month = fred.month /\ bls.value = fred.value
  <2>1. /\ fred = FredOf(vintages, clock) /\ bls = BlsFetchValue(clock, TRUE)
        /\ fred # None /\ bls # None
    BY <1>9, <1>10, <1>13, Kinds
  <2>2. PICK v \in NumbersOf(vintages) :
            /\ fred = FredRecord(v)
            /\ \A w \in NumbersOf(vintages) : w.month <= v.month
    BY <1>5, <1>8, <2>1, FredOfFacts
  <2>3. PICK x \in CurrentOf(vintages) :
            /\ x.value # Missing
            /\ \A w \in CurrentOf(vintages) : w.value # Missing => w.month <= x.month
            /\ bls.month = x.month /\ bls.value = x.value
    BY <1>5, <2>1, BlsFacts
  <2>4. v \in CurrentOf(vintages) /\ v \in ObservationsOf(vintages) /\ v.value # Missing
    BY DEF NumbersOf, ObservationsOf
  <2>5. v.month <= x.month /\ v.month \in Nat /\ x.month \in Nat
    BY <1>8, <2>3, <2>4, VintageTypes DEF CurrentOf
  <2>6. x \in ObservationsOf(vintages)
    <3>1. x.month >= v.month
      BY <2>5
    <3> QED
      BY <1>8, <2>3, <2>4, <3>1, UpwardClosed
  <2>7. x.month <= v.month
    BY <2>2, <2>3, <2>6 DEF NumbersOf
  <2>8. x = v
    <3>1. x.month = v.month
      BY <2>5, <2>7
    <3> QED
      BY <1>8, <2>3, <2>4, <3>1, CurrentUnique
  <2>9. fred.month = v.month /\ fred.value = v.value
    BY <2>2 DEF FredRecord
  <2> QED
    BY <2>3, <2>8, <2>9
<1>14. Live(a)
  BY <1>4, <1>5, <1>6, <1>7, <1>8, <1>9, <1>11, <1>12, <1>13 DEF Live
<1>15. \A b \in asked' : Live(b)
  BY <1>1, <1>14 DEF AllLive, a
<1> QED
  BY <1>3, <1>15 DEF AllLive

LEMMA LiveInductive ==
    /\ Init => Published /\ AllLive
    /\ Published /\ AllLive /\ [Next]_vars => (Published /\ AllLive)'
<1>1. Init => Published /\ AllLive
  <2> SUFFICES ASSUME Init PROVE Published /\ AllLive
    OBVIOUS
  <2>1. clock = 0 /\ reports = {} /\ vintages = {} /\ asked = {}
    BY DEF Init
  <2>2. 0 \in Moments /\ IsFiniteSet({})
    BY Calendar, FS_EmptySet DEF Moments
  <2> QED
    BY <2>1, <2>2 DEF Published, Vintages, AllLive
<1>2. ASSUME Published, AllLive, Tick PROVE (Published /\ AllLive)'
  BY <1>2, TickPublished, TickLive
<1>3. ASSUME Published, AllLive, Ask PROVE (Published /\ AllLive)'
  <2>1. UNCHANGED <<clock, reports, vintages>>
    BY <1>3 DEF Ask
  <2>2. Published'
    BY <1>3, <2>1 DEF Published, Past, Vintages
  <2> QED
    BY <1>3, <2>2, AskLive
<1>4. ASSUME Published, AllLive, UNCHANGED vars PROVE (Published /\ AllLive)'
  BY <1>4 DEF vars, Published, Past, Vintages, AllLive, Live, Visible
<1> QED
  BY <1>1, <1>2, <1>3, <1>4 DEF Next

\* A past moment as the property sees it: FRED over the figures of its day.
LEMMA FredAsked ==
    ASSUME Published, NEW t \in Past
    PROVE  FredFetchValue(t) \in {FredOf(Visible(t), t), None}
<1>1. t \in Nat /\ Vintages(vintages)
  BY ClockFacts DEF Past, Published
<1> DEFINE V == UpToDay(Day(t))
<1>2. Vintages(V)
  BY <1>1, SubVintages DEF UpToDay
<1>3. Visible(t) = {v \in V : AtRelease(v.day) <= t}
  <2>1. \A v \in vintages : v.day \in Nat
    BY <1>1, VintageTypes
  <2>2. \A v \in vintages : AtRelease(v.day) <= t => v.day <= Day(t)
    BY <1>1, <2>1, MomentFacts
  <2> QED
    BY <2>2 DEF Visible, UpToDay
<1> HIDE DEF V
<1>4. FredOf(V, t) \in {FredOf(Visible(t), t), None}
  BY <1>1, <1>2, <1>3, FredPointInTime
<1> QED
  BY <1>4, FredIsFredOf DEF V

LEMMA CotAsked ==
    ASSUME Published, NEW a \in asked, Live(a), a.cot # {Raised}
    PROVE  LET now == ReportsKnownAt(reports, a.asOf)
           IN  a.cot \subseteq now /\ now \ a.cot \subseteq {r \in now : LateReport(r)}
<1> DEFINE t == a.asOf
           now == ReportsKnownAt(reports, t)
<1>1. a.cot = {r \in now : r.at <= t} /\ t \in Nat
  BY ClockFacts DEF Live, Past
<1>2. ASSUME NEW r \in now, r \notin a.cot PROVE LateReport(r)
  <2>1. r \in reports /\ ValueKnownAtForReport(r.date) <= t
    BY DEF ReportsKnownAt, FetchReports, EnforceCotPitGate
  <2>2. r.at \in Int /\ r.date \in Nat /\ r.at > t
    BY <1>1, <1>2, <2>1, ClockFacts
  <2> DEFINE f == (r.date \div WeekLength) * WeekLength + Friday
  <2>3. ValueKnownAtForReport(r.date) = AtRelease(f) /\ f \in Int
    BY <2>2, FridayOf
  <2> HIDE DEF f
  <2>4. r.at > AtRelease(f)
    BY <1>1, <2>1, <2>2, <2>3 DEF AtRelease
  <2> QED
    BY <2>4 DEF LateReport, f
<1> QED
  BY <1>1, <1>2

\* A backtest decides on what the live run decided on: asked later about the
\* moment of a live decision, the COT source shows the same reports but for the
\* ones that came late, FRED the same figure or nothing, whatever was revised,
\* delayed or voided since, and FRED and BLS never told two figures
\* (cot_source.py, cftc.py, fred_macro.py, bls_macro.py).
THEOREM BacktestLive == Spec => []BacktestIsLive
<1>1. Published /\ AllLive => BacktestIsLive
  <2> SUFFICES ASSUME Published, AllLive PROVE BacktestIsLive
    OBVIOUS
  <2>1. TypeOK
    <3>1. \A v \in vintages : v.month \in 0 .. Month(MaxDay) /\ v.value \in Values \cup {Missing}
      BY DEF Published, Vintages
    <3>2. \A v, w \in vintages : v.month = w.month /\ v.day = w.day => v = w
      BY DEF Published, Vintages
    <3> QED
      BY <3>1, <3>2 DEF TypeOK, Published, AllLive, Live
  <2>2. CotBacktestIsLive
    BY CotAsked DEF CotBacktestIsLive, AllLive
  <2>3. FredBacktestIsLive
    <3> SUFFICES ASSUME NEW a \in asked, a.fred # Raised
                 PROVE  FredFetchValue(a.asOf) \in {a.fred, None}
      BY DEF FredBacktestIsLive
    <3>1. a.asOf \in Past /\ a.fred = FredOf(Visible(a.asOf), a.asOf)
      BY DEF AllLive, Live
    <3> QED
      BY <3>1, FredAsked
  <2>4. SourcesAgreeLive
    BY DEF SourcesAgreeLive, AllLive, Live
  <2> QED
    BY <2>1, <2>2, <2>3, <2>4 DEF BacktestIsLive
<1> QED
  BY <1>1, LiveInductive, PTL DEF Spec

-----------------------------------------------------------------------------
(* Nothing is early                                                          *)

LEMMA BlsIsNotEarly ==
    ASSUME Published
    PROVE  BlsNoLookAhead
<1> SUFFICES ASSUME NEW t \in Past, NEW lookup \in BOOLEAN, BlsFetchValue(t, lookup) # None,
                    ~LatePrint(BlsFetchValue(t, lookup).month)
             PROVE  AtRelease(FirstPrint(BlsFetchValue(t, lookup).month)) <= t
  BY DEF BlsNoLookAhead
<1> DEFINE m == BlsFetchValue(t, lookup).month
           D == {v.day : v \in {v \in vintages : v.month = m}}
<1>1. t \in Nat /\ t \in Moments /\ Vintages(vintages)
  <2>1. clock \in Nat /\ clock \in 0 .. 2 * MaxDay + 1 /\ MaxDay \in Nat
    BY ClockFacts, Calendar DEF Published, Moments
  <2>2. t \in 0 .. clock
    BY DEF Past
  <2> QED
    BY <2>1, <2>2 DEF Moments, Published
<1>2. PICK v \in CurrentOf(vintages) : m = v.month /\ AtRelease(Due(v.month)) <= t
  BY <1>1, BlsFacts
<1> HIDE DEF m
<1>3. m \in Nat /\ v \in vintages /\ v.day \in D
  BY <1>1, <1>2, VintageTypes DEF CurrentOf
<1>4. D \in SUBSET Nat /\ D # {}
  BY <1>1, <1>3, VintageTypes
<1>5. FirstPrint(m) \in Nat
  <2>1. PICK n \in D : \A k \in D : n <= k
    BY <1>4, LeastNatural
  <2>2. Min(D) \in D
    BY <2>1 DEF Min
  <2> QED
    BY <1>4, <2>2 DEF FirstPrint
<1>6. ~(FirstPrint(m) > Due(m)) /\ Due(m) \in Nat
  BY <1>3, DueFacts DEF LatePrint, m
<1>7. AtRelease(FirstPrint(m)) <= t
  BY <1>1, <1>2, <1>5, <1>6 DEF AtRelease
<1> QED
  BY <1>7 DEF m

LEMMA FredWithholdsLittle ==
    ASSUME Published, Series \in FredSeries
    PROVE  FredWithholds
<1> SUFFICES ASSUME NEW t \in Past, FredFetchValue(t) = None
             PROVE  \/ \E v \in vintages : v.day = Day(t) /\ AtRelease(v.day) > t
                    \/ \A v \in Observations(Day(t)) : v.value = Missing
  BY DEF FredWithholds
<1> DEFINE V == UpToDay(Day(t))
<1>1. t \in Nat /\ Vintages(vintages)
  BY ClockFacts DEF Past, Published
<1>2. Vintages(V)
  BY <1>1, SubVintages DEF UpToDay
<1>3. FredOf(V, t) = None /\ Observations(Day(t)) = ObservationsOf(V)
  BY FredIsFredOf
<1> HIDE DEF V
<1>4. CASE NumbersOf(V) = {}
  BY <1>3, <1>4 DEF NumbersOf
<1>5. CASE NumbersOf(V) # {}
  <2> DEFINE v == Newest(NumbersOf(V))
  <2>1. v \in NumbersOf(V)
    BY <1>2, <1>5, NewestFacts
  <2>2. EnforcePitGate(FredRecord(v), t) = None
    BY <1>3, <1>5 DEF FredOf
  <2> HIDE DEF v
  <2>3. FredRecord(v) # None /\ FredRecord(v).knownAt = AtRelease(v.day)
    BY Kinds DEF FredRecord, FredKnownAt
  <2>4. AtRelease(v.day) > t
    BY <2>2, <2>3 DEF EnforcePitGate
  <2>5. v \in V
    BY <2>1 DEF NumbersOf, ObservationsOf, CurrentOf
  <2>6. v \in vintages /\ v.day <= Day(t)
    BY <2>5 DEF V, UpToDay
  <2>7. v.day \in Nat
    BY <1>1, <2>6, VintageTypes
  <2>8. v.day = Day(t)
    BY <1>1, <2>4, <2>6, <2>7, MomentFacts
  <2> QED
    BY <2>4, <2>6, <2>8
<1> QED
  BY <1>4, <1>5

\* The releases of a window, by their months.
Releases(start, end) ==
    {m \in 0 .. Month(MaxDay) : Due(m) \in Day(start) .. Day(end)
                                /\ InWindow(AtRelease(Due(m)), start, end)}

LEMMA ReleasesInWindow ==
    ASSUME NEW start \in Nat, NEW end \in Nat
    PROVE  Releases(start, end) = {m \in 0 .. Month(MaxDay) :
                                      start <= AtRelease(Due(m)) /\ AtRelease(Due(m)) < end}
<1> SUFFICES ASSUME NEW m \in 0 .. Month(MaxDay),
                    start <= AtRelease(Due(m)), AtRelease(Due(m)) < end
             PROVE  Due(m) \in Day(start) .. Day(end)
  BY DEF Releases, InWindow
<1>1. Due(m) \in Nat
  BY Calendar, DueFacts
<1> QED
  BY <1>1 DEF Day, AtRelease

LEMMA WindowsTile ==
    ASSUME Published
    PROVE  CalendarTiles
<1> DEFINE When(m) == AtRelease(Due(m))
           Image(S) == {When(m) : m \in S}
<1>1. \A start, end : UpcomingEvents(start, end) = Image(Releases(start, end))
  BY DEF UpcomingEvents, Releases
<1>2. SUFFICES ASSUME NEW t \in 1 .. clock - 1
               PROVE  /\ UpcomingEvents(0, t) \cup UpcomingEvents(t, clock)
                           = UpcomingEvents(0, clock)
                      /\ UpcomingEvents(0, t) \cap UpcomingEvents(t, clock) = {}
  BY DEF CalendarTiles
<1>3. clock \in Nat /\ t \in Nat /\ 0 \in Nat /\ t < clock
  BY ClockFacts
<1>4. \A m \in 0 .. Month(MaxDay) : When(m) \in Nat
  BY Calendar, DueFacts DEF AtRelease
<1>5. /\ Releases(0, t) = {m \in 0 .. Month(MaxDay) : 0 <= When(m) /\ When(m) < t}
      /\ Releases(t, clock) = {m \in 0 .. Month(MaxDay) : t <= When(m) /\ When(m) < clock}
      /\ Releases(0, clock) = {m \in 0 .. Month(MaxDay) : 0 <= When(m) /\ When(m) < clock}
  BY <1>3, ReleasesInWindow
<1> HIDE DEF When
<1>6. Releases(0, t) \cup Releases(t, clock) = Releases(0, clock)
  BY <1>3, <1>4, <1>5
<1>7. \A m \in Releases(0, t), k \in Releases(t, clock) : When(m) # When(k)
  BY <1>3, <1>4, <1>5
<1>8. Image(Releases(0, t)) \cup Image(Releases(t, clock)) = Image(Releases(0, clock))
  BY <1>6
<1>9. Image(Releases(0, t)) \cap Image(Releases(t, clock)) = {}
  BY <1>7
<1> QED
  BY <1>1, <1>8, <1>9

\* BLS shows no month before its first print, with the release calendar or with
\* the conservative bound, unless that print was delayed; FRED withholds a figure
\* only for one that comes out later the same day or when all it looks at is void;
\* consecutive windows of upcoming_events tile time (bls_macro.py,
\* _conservative_publication_bound; fred_macro.py, fetch_value).
THEOREM NothingEarly ==
    ASSUME Series \in FredSeries
    PROVE  Spec => []NothingIsEarly
<1>1. Published => NothingIsEarly
  BY BlsIsNotEarly, FredWithholdsLittle, WindowsTile DEF NothingIsEarly
<1> QED
  BY <1>1, LiveInductive, PTL DEF Spec

-----------------------------------------------------------------------------
(* The Bitcoin reference rate *)

(* The venues *)

LEMMA DeploymentFinite == IsFiniteSet(Deployment) /\ Cardinality(Deployment) \in Nat
<1> DEFINE n == 5
           ids == {SourceOrder[i] : i \in 1 .. n}
           f == [i \in 1 .. n |-> SourceOrder[i]]
<1>1. n \in Int /\ DOMAIN SourceOrder = 1 .. n
  BY DEF SourceOrder
<1> HIDE DEF n
<1>2. IsFiniteSet(1 .. n)
  BY <1>1, FS_Interval
<1>3. f \in Surjection(1 .. n, ids)
  BY DEF Surjection
<1>4. IsFiniteSet(ids)
  BY <1>2, <1>3, FS_Surjection
<1>5. Deployment \in SUBSET ids
  BY <1>1, VenueAssumption DEF SymbolMap
<1> QED BY <1>4, <1>5, FS_Subset, FS_CardinalityType

\* sorted(): every deployed venue is asked, and no other.
LEMMA AllAsked ==
    /\ Len(SortedSources) = Cardinality(Deployment) /\ Len(SortedSources) \in Nat
    /\ \A i \in 1 .. Len(SortedSources) : SortedSources[i] \in Deployment
    /\ \A v \in Deployment : \E i \in 1 .. Len(SortedSources) : SortedSources[i] = v
<1> DEFINE S == Deployment
           R == {p \in S \X S : IdRank(p[1]) < IdRank(p[2])}
<1>1. \A v \in S : \E i \in DOMAIN SourceOrder : SourceOrder[i] = v
  BY VenueAssumption DEF SymbolMap
<1>2. \A v \in S : IdRank(v) \in DOMAIN SourceOrder /\ SourceOrder[IdRank(v)] = v
  BY <1>1 DEF IdRank
<1>3. \A v \in S : IdRank(v) \in Int
  BY <1>2 DEF SourceOrder
<1>4. \A x, y \in S : <<x, y>> \in R <=> IdRank(x) < IdRank(y)
  OBVIOUS
<1> HIDE DEF R
<1>5. StrictOrder(S, R)
  <2>1. \A x, y \in S : x = y \/ IdRank(x) # IdRank(y)
    BY <1>2
  <2> QED BY <1>3, <1>4, <2>1, DeploymentFinite DEF StrictOrder
<1>6. \A v \in S : RankBy(S, R, v) = Cardinality({u \in S : IdRank(u) < IdRank(v)})
  <2> SUFFICES ASSUME NEW v \in S
               PROVE  RankBy(S, R, v) = Cardinality({u \in S : IdRank(u) < IdRank(v)})
    OBVIOUS
  <2>1. Under(S, R, v) = {u \in S : IdRank(u) < IdRank(v)}
    BY <1>4 DEF Under
  <2> QED BY <2>1 DEF RankBy
<1>7. SortedSources = Arranged(S, R)
  BY <1>6 DEF SortedSources, Arranged
<1>8. /\ Len(Arranged(S, R)) = Cardinality(S) /\ Cardinality(S) \in Nat
      /\ \A i \in 1 .. Cardinality(S) : Arranged(S, R)[i] \in S
      /\ \A v \in S : \E i \in 1 .. Cardinality(S) : Arranged(S, R)[i] = v
  BY <1>5, ArrangedFacts
<1> QED BY <1>7, <1>8, Zenon

-----------------------------------------------------------------------------
(* Means *)

\* The sum of a constant.
LEMMA TotalOfSame ==
    ASSUME NEW I, IsFiniteSet(I), NEW g, NEW m \in Int, \A x \in I : g[x] = m
    PROVE  SumFunctionOnSet(g, I) = Cardinality(I) * m
<1> DEFINE S(T) == SumFunctionOnSet(g, T)
           Good == {T \in SUBSET I : S(T) = Cardinality(T) * m}
<1>1. \A T \in SUBSET I : IsFiniteSet(T) /\ Cardinality(T) \in Nat
  BY FS_Subset, FS_CardinalityType
<1>2. ASSUME NEW T \in SUBSET I, \A x \in T : T \ {x} \in Good
      PROVE  T \in Good
  <2>1. CASE T = {}
    BY <2>1, SumOfNone, FS_EmptySet
  <2>2. CASE T # {}
    <3>1. PICK x \in T : TRUE
      BY <2>2
    <3>2. S(T) = g[x] + S(T \ {x})
      BY <1>1, <3>1, SumTakes
    <3>3. Cardinality(T \ {x}) = Cardinality(T) - 1
      BY <1>1, FS_RemoveElement
    <3>4. S(T \ {x}) = (Cardinality(T) - 1) * m /\ g[x] = m
      BY <1>2, <3>1, <3>3
    <3> DEFINE k == Cardinality(T)
    <3>5. k \in Nat /\ S(T) = m + (k - 1) * m
      BY <1>1, <3>2, <3>4
    <3> HIDE DEF k
    <3>6. m + (k - 1) * m = k * m
      BY <3>5
    <3> QED BY <3>5, <3>6 DEF k
  <2> QED BY <2>1, <2>2
<1> HIDE DEF Good
<1>3. \A T \in SUBSET I : (\A x \in T : T \ {x} \in Good) => T \in Good
  BY <1>2
<1>4. I \in SUBSET I
  OBVIOUS
<1>5. I \in Good
  BY <1>3, <1>4, SubsetInduction
<1> QED BY <1>5 DEF Good

\* The mean of integers lies between some of them.
LEMMA MeanBetween ==
    ASSUME NEW I, IsFiniteSet(I), I # {}, NEW f \in [I -> Int]
    PROVE  /\ ArithmeticMean(f) \in Int
           /\ \E x \in I : f[x] <= ArithmeticMean(f)
           /\ \E x \in I : ArithmeticMean(f) <= f[x]
           /\ \A m \in Int : (\A x \in I : m <= f[x]) => m <= ArithmeticMean(f)
<1> DEFINE n == Cardinality(I)
           s == SumFunctionOnSet(f, I)
           q == s \div n
<1>1. n \in Nat /\ n > 0
  BY FS_CardinalityType, FS_EmptySet
<1>2. s \in Int
  BY SumIsInt
<1>3. ArithmeticMean(f) = q
  BY DEF ArithmeticMean, SumFunction
<1>4. ASSUME NEW m \in Int, \A x \in I : m <= f[x]
      PROVE  m <= q
  <2> DEFINE g == [x \in I |-> m]
  <2>1. SumFunctionOnSet(g, I) = n * m
    BY TotalOfSame
  <2>2. SumFunctionOnSet(g, I) <= s
    <3>1. \A x \in I : g[x] \in Int /\ f[x] \in Int /\ g[x] <= f[x]
      BY <1>4
    <3> HIDE DEF g
    <3> QED BY <3>1, SumIsMonotone
  <2>3. n * m <= s
    BY <2>1, <2>2
  <2> HIDE DEF n, s
  <2> QED BY <1>1, <1>2, <2>3
<1>5. ASSUME NEW m \in Int, \A x \in I : f[x] <= m
      PROVE  q <= m
  <2> DEFINE g == [x \in I |-> m]
  <2>1. SumFunctionOnSet(g, I) = n * m
    BY TotalOfSame
  <2>2. s <= SumFunctionOnSet(g, I)
    <3>1. \A x \in I : g[x] \in Int /\ f[x] \in Int /\ f[x] <= g[x]
      BY <1>5
    <3> HIDE DEF g
    <3> QED BY <3>1, SumIsMonotone
  <2>3. s <= n * m
    BY <2>1, <2>2
  <2> HIDE DEF n, s
  <2> QED BY <1>1, <1>2, <2>3
<1>6. q \in Int
  <2> HIDE DEF n, s
  <2> QED BY <1>1, <1>2
<1> HIDE DEF q
<1>7. \E x \in I : f[x] <= q
  <2> SUFFICES ASSUME \A x \in I : ~(f[x] <= q) PROVE FALSE
    OBVIOUS
  <2>1. \A x \in I : q + 1 <= f[x]
    BY <1>6
  <2>2. q + 1 <= q
    BY <1>4, <1>6, <2>1
  <2> QED BY <1>6, <2>2
<1>8. \E x \in I : q <= f[x]
  <2> SUFFICES ASSUME \A x \in I : ~(q <= f[x]) PROVE FALSE
    OBVIOUS
  <2>1. \A x \in I : f[x] <= q - 1
    BY <1>6
  <2>2. q <= q - 1
    BY <1>5, <1>6, <2>1
  <2> QED BY <1>6, <2>2
<1> QED BY <1>3, <1>4, <1>6, <1>7, <1>8

------------------------------------------------------------------------------
(* What the venues answered *)

VenueBars == [ts : Times, close : Prices]

Market == [Deployment -> [Contracts -> [Times -> Prices \cup {NoRow}]]]

\* London's partitions are the bars of the window, one by one.
LEMMA WindowFacts ==
    ASSUME summer \subseteq FixDates, NEW d \in FixDates
    PROVE  /\ LondonWindowUtc(d).start \in Nat
           /\ LondonWindowUtc(d).end = LondonWindowUtc(d).start + NumPartitions
           /\ \A i \in 0 .. NumPartitions - 1 :
                 LondonBar(d, i) = LondonWindowUtc(d).start + i /\ PartitionStart(d, i) = LondonBar(d, i)
<1> DEFINE base == DayLength * d
           shift == IF d \in summer THEN NumPartitions ELSE 0
           start == base + WindowStart - shift
<1>1. d \in Nat /\ DayLength \in Nat /\ WindowStart \in Nat /\ NumPartitions \in Nat \ {0}
  BY BrrAssumption
<1>2. base \in Nat /\ DayLength * (d + 1) = base + DayLength
  BY <1>1
<1>3. shift \in Nat /\ shift <= NumPartitions
  BY <1>1
<1>4. WindowStart >= NumPartitions /\ WindowStart + NumPartitions <= DayLength
  BY BrrAssumption
<1>5. LondonWindowUtc(d).start = start /\ LondonWindowUtc(d).end = start + NumPartitions
  BY DEF LondonWindowUtc
<1>6. ASSUME NEW i \in 0 .. NumPartitions - 1
      PROVE  LondonBar(d, i) = start + i
  <2> DEFINE top == DayLength * (d + 1)
             day == base .. top - 1
  <2>1. LondonBar(d, i) = CHOOSE t \in day : t + shift = base + WindowStart + i
    BY DEF LondonBar
  <2>2. top = base + DayLength
    BY <1>2
  <2> HIDE DEF base, shift, top
  <2>3. start + i \in day /\ (start + i) + shift = base + WindowStart + i
    BY <1>1, <1>2, <1>3, <1>4, <2>2
  <2>4. \A t \in day : t + shift = base + WindowStart + i => t = start + i
    BY <1>1, <1>2, <1>3, <2>2
  <2> HIDE DEF start
  <2> QED BY <2>1, <2>3, <2>4
<1>7. start \in Nat
  <2> HIDE DEF base, shift
  <2> QED BY <1>1, <1>2, <1>3, <1>4
<1> HIDE DEF start
<1> QED BY <1>5, <1>6, <1>7 DEF PartitionStart

\* A venue's answer to a call: rows of the window, final where the bar was over
\* when the call began, and all of those if the answer was not cut short.
Answered(v, bars, c, d, begun, whole) ==
    LET w == LondonWindowUtc(d)
    IN  /\ bars \subseteq VenueBars
        /\ \A b \in bars : /\ w.start <= b.ts /\ b.ts < w.end
                           /\ Traded(v, c, b.ts)
                           /\ b.ts < begun => b.close = rows[v][c][b.ts]
        /\ whole => \A t \in Times :
              w.start <= t /\ t < w.end /\ t < begun /\ Traded(v, c, t)
              => [ts |-> t, close |-> rows[v][c][t]] \in bars

Answers == UNION {[D -> SUBSET VenueBars] : D \in SUBSET Deployment}

LEMMA AnswersOf ==
    ASSUME NEW D \in SUBSET Deployment, NEW f \in [D -> SUBSET VenueBars]
    PROVE  f \in Answers
BY DEF Answers

Asked == {SortedSources[i] : i \in 1 .. call.asked}

MarketInv ==
    /\ venueClock \in Times /\ summer \subseteq FixDates /\ rows \in Market
    /\ \A v \in Deployment, c \in Contracts, t \in Times : t > venueClock => ~Traded(v, c, t)

CallInv ==
    /\ call \in [active : BOOLEAN, contract : Contracts \cup {""}, day : FixDates \cup {0}, begun : Times,
                 asked : 0 .. Len(SortedSources),
                 bars : Answers, whole : BOOLEAN]
    /\ DOMAIN call.bars = Asked
    /\ call.active => /\ call.contract \in Contracts /\ call.day \in FixDates
                      /\ call.begun <= venueClock
                      /\ \A v \in Asked : Answered(v, call.bars[v], call.contract, call.day,
                                                   call.begun, call.whole)

\* A fix is the reconstruction from some answers of all venues.
Explained(x, c, d, bars) ==
    /\ x.fix = Reconstruction(c, d, bars) /\ x.fix.valid # 0
    /\ x.begun \in Times /\ x.begun <= venueClock /\ x.whole \in BOOLEAN
    /\ \A v \in Deployment : Answered(v, bars[v], c, d, x.begun, x.whole)

FixesInv ==
    \A x \in fixes : \E c \in Contracts, d \in FixDates, bars \in [Deployment -> SUBSET VenueBars] :
        Explained(x, c, d, bars)

(* The inductive invariant: what was answered is what the market says now,     *)
(* where the bar was over, however much was traded since.                      *)
BrrInv == MarketInv /\ CallInv /\ FixesInv

\* Time passes and trades are made: rows of past bars stay, traded bars stay so.
MarketMoves ==
    /\ venueClock' \in Times /\ venueClock <= venueClock' /\ rows' \in Market
    /\ \A v \in Deployment, c \in Contracts, t \in Times :
          /\ Traded(v, c, t) => Traded(v, c, t)'
          /\ t < venueClock => rows'[v][c][t] = rows[v][c][t]

LEMMA AnsweredStays ==
    ASSUME MarketInv, MarketMoves, summer' = summer,
           NEW v \in Deployment, NEW c \in Contracts, NEW d, NEW begun \in Times, begun <= venueClock,
           NEW whole \in BOOLEAN, NEW bars, Answered(v, bars, c, d, begun, whole)
    PROVE  Answered(v, bars, c, d, begun, whole)'
<1> DEFINE w == LondonWindowUtc(d)
<1>1. LondonWindowUtc(d)' = w
  BY DEF LondonWindowUtc
<1>2. venueClock \in Int /\ begun \in Int /\ \A t \in Times : t \in Int
  BY VenueAssumption DEF MarketInv, Times
<1>3. \A b \in bars : /\ b.ts \in Times /\ w.start <= b.ts /\ b.ts < w.end /\ Traded(v, c, b.ts)
                      /\ b.ts < begun => b.close = rows[v][c][b.ts]
  BY DEF Answered, VenueBars
<1>4. bars \subseteq VenueBars
  BY DEF Answered
<1>5. \A t \in Times : t < begun => rows'[v][c][t] = rows[v][c][t] /\ (Traded(v, c, t)' <=> Traded(v, c, t))
  <2>1. \A t \in Times : t < begun => t < venueClock
    BY <1>2
  <2>2. \A t \in Times : t < begun => rows'[v][c][t] = rows[v][c][t]
    BY <2>1 DEF MarketMoves
  <2> QED BY <2>2 DEF Traded
<1>6. \A b \in bars : /\ w.start <= b.ts /\ b.ts < w.end /\ Traded(v, c, b.ts)'
                      /\ b.ts < begun => b.close = rows'[v][c][b.ts]
  BY <1>3, <1>5 DEF MarketMoves
<1>7. whole => \A t \in Times :
          w.start <= t /\ t < w.end /\ t < begun /\ Traded(v, c, t)'
          => [ts |-> t, close |-> rows'[v][c][t]] \in bars
  BY <1>5 DEF Answered
<1> HIDE DEF w
<1> QED BY <1>1, <1>4, <1>6, <1>7 DEF Answered

LEMMA ReconstructionStays ==
    ASSUME summer' = summer, NEW c, NEW d, NEW bars
    PROVE  Reconstruction(c, d, bars)' = Reconstruction(c, d, bars)
BY DEF Reconstruction, PartitionAggregate, Hits, PartitionStart, LondonWindowUtc, LastClose,
       ArithmeticMean, ContentSha

LEMMA BrrInvInit == BrrInit => BrrInv
<1> SUFFICES ASSUME BrrInit PROVE BrrInv
  OBVIOUS
<1> USE DEF BrrInit, VenueInit
<1>1. 0 \in Times
  BY VenueAssumption DEF Times
<1>2. rows \in Market /\ \A v \in Deployment, c \in Contracts, t \in Times : ~Traded(v, c, t)
  BY DEF Market, Traded
<1>3. MarketInv
  BY <1>1, <1>2 DEF MarketInv
<1>4. call.asked = 0 /\ ~call.active /\ DOMAIN call.bars = {} /\ call.bars \in [{} -> SUBSET VenueBars]
  BY DEF NoCall, Nobody
<1>5. Asked = {}
  BY <1>4 DEF Asked
<1>6. call.bars \in Answers /\ 0 \in 0 .. Len(SortedSources)
  <2>1. {} \in SUBSET Deployment
    OBVIOUS
  <2>2. Len(SortedSources) \in Nat
    BY AllAsked
  <2>3. 0 \in 0 .. Len(SortedSources)
    BY <2>2
  <2> QED BY <1>4, <2>1, <2>3, AnswersOf
<1>7. CallInv
  BY <1>1, <1>4, <1>5, <1>6 DEF CallInv, NoCall
<1>8. FixesInv
  BY DEF FixesInv
<1> QED BY <1>3, <1>7, <1>8 DEF BrrInv

LEMMA TimesAreNumbers == MaxTime \in Nat /\ \A t \in Times : t \in Nat /\ t <= MaxTime
BY VenueAssumption DEF Times

LEMMA TradeMoves ==
    ASSUME MarketInv, summer' = summer, NEW v \in Deployment, NEW c \in Contracts, NEW p \in Prices,
           Trade(v, c, p)
    PROVE  MarketMoves /\ MarketInv'
<1>1. p # NoRow /\ p \in Prices
  BY VenueAssumption DEF NoRow
<1>2. /\ rows' = [rows EXCEPT ![v][c][venueClock] = p] /\ venueClock' = venueClock /\ venueClock \in Times /\ venueClock \in Nat
      /\ rows \in Market
  BY TimesAreNumbers DEF Trade, MarketInv
<1>3. rows' \in Market
  BY <1>1, <1>2 DEF Market
<1>4. ASSUME NEW u \in Deployment, NEW k \in Contracts, NEW t \in Times
      PROVE  rows'[u][k][t] = IF u = v /\ k = c /\ t = venueClock THEN p ELSE rows[u][k][t]
  BY <1>2 DEF Market
<1>5. \A u \in Deployment, k \in Contracts, t \in Times :
          /\ Traded(u, k, t) => Traded(u, k, t)'
          /\ t < venueClock => rows'[u][k][t] = rows[u][k][t]
          /\ t > venueClock => ~Traded(u, k, t)'
  BY <1>1, <1>2, <1>4 DEF Traded, MarketInv
<1> QED BY <1>2, <1>3, <1>5 DEF MarketMoves, MarketInv

LEMMA TickMoves ==
    ASSUME MarketInv, VenueTick, summer' = summer
    PROVE  MarketMoves /\ MarketInv'
<1>1. venueClock' = venueClock + 1 /\ venueClock < MaxTime /\ rows' = rows /\ venueClock \in Nat /\ MaxTime \in Nat
  BY TimesAreNumbers DEF VenueTick, MarketInv
<1>2. venueClock' \in Times
  BY <1>1 DEF Times
<1>3. \A v \in Deployment, c \in Contracts, t \in Times : t > venueClock' => ~Traded(v, c, t)'
  BY <1>1, TimesAreNumbers DEF MarketInv, Traded
<1>4. /\ venueClock <= venueClock' /\ rows' \in Market
      /\ \A v \in Deployment, c \in Contracts, t \in Times :
            Traded(v, c, t)' = Traded(v, c, t) /\ rows'[v][c][t] = rows[v][c][t]
  BY <1>1 DEF MarketInv, Traded
<1> QED BY <1>2, <1>3, <1>4 DEF MarketMoves, MarketInv

LEMMA AskedDeployed ==
    ASSUME call.asked \in 0 .. Len(SortedSources)
    PROVE  Asked \subseteq Deployment
<1>1. \A i \in 1 .. call.asked : i \in 1 .. Len(SortedSources)
  BY AllAsked
<1> QED BY <1>1, AllAsked DEF Asked

\* Whatever the market does, the answers given stay true to it.
LEMMA WorldStep ==
    ASSUME BrrInv, MarketMoves, MarketInv', UNCHANGED <<summer, call, fixes>>
    PROVE  BrrInv'
<1>1. CallInv'
  <2>1. Asked' = Asked
    BY DEF Asked
  <2>2. venueClock \in Nat /\ venueClock' \in Nat /\ venueClock <= venueClock'
    BY TimesAreNumbers DEF BrrInv, MarketInv, MarketMoves
  <2>3. ASSUME call.active
        PROVE  /\ call.begun <= venueClock'
               /\ \A v \in Asked : Answered(v, call.bars[v], call.contract, call.day,
                                            call.begun, call.whole)'
    <3>1. /\ call.begun \in Times /\ call.begun <= venueClock /\ call.contract \in Contracts
          /\ call.whole \in BOOLEAN
          /\ \A v \in Asked : Answered(v, call.bars[v], call.contract, call.day, call.begun, call.whole)
      BY <2>3 DEF BrrInv, CallInv
    <3>2. Asked \subseteq Deployment
      BY AskedDeployed DEF BrrInv, CallInv
    <3>3. ASSUME NEW v \in Asked
          PROVE  Answered(v, call.bars[v], call.contract, call.day, call.begun, call.whole)'
      <4> DEFINE c == call.contract
                 d == call.day
                 begun == call.begun
                 whole == call.whole
                 bars == call.bars[v]
      <4>1. /\ v \in Deployment /\ c \in Contracts /\ begun \in Times /\ begun <= venueClock
            /\ whole \in BOOLEAN /\ Answered(v, bars, c, d, begun, whole)
            /\ c' = c /\ d' = d /\ begun' = begun /\ whole' = whole /\ bars' = bars
        BY <3>1, <3>2
      <4> QED BY <4>1, AnsweredStays DEF BrrInv
    <3>4. call.begun \in Nat
      BY <3>1, TimesAreNumbers
    <3> QED BY <2>2, <3>1, <3>3, <3>4
  <2> QED BY <2>1, <2>3 DEF BrrInv, CallInv
<1>2. FixesInv'
  <2> SUFFICES ASSUME NEW x \in fixes
               PROVE  \E c \in Contracts, d \in FixDates, bars \in [Deployment -> SUBSET VenueBars] :
                          Explained(x, c, d, bars)'
    BY DEF FixesInv
  <2>1. PICK c \in Contracts, d \in FixDates, bars \in [Deployment -> SUBSET VenueBars] : Explained(x, c, d, bars)
    BY DEF BrrInv, FixesInv
  <2>2. x.begun \in Times /\ x.begun <= venueClock /\ x.whole \in BOOLEAN
    BY <2>1 DEF Explained
  <2>3. x.begun <= venueClock'
    BY <2>2, TimesAreNumbers DEF MarketMoves, BrrInv, MarketInv
  <2>4. ASSUME NEW v \in Deployment
        PROVE  Answered(v, bars[v], c, d, x.begun, x.whole)'
    <3>1. Answered(v, bars[v], c, d, x.begun, x.whole)
      BY <2>1 DEF Explained
    <3> QED BY <2>2, <3>1, AnsweredStays DEF BrrInv
  <2>5. Reconstruction(c, d, bars)' = Reconstruction(c, d, bars)
    BY ReconstructionStays
  <2> QED BY <2>1, <2>2, <2>3, <2>4, <2>5 DEF Explained
<1> QED BY <1>1, <1>2 DEF BrrInv

\* A step of the call alone leaves what was fixed explained.
LEMMA FixesStay ==
    ASSUME FixesInv, UNCHANGED <<venueVars, summer>>, NEW x \in fixes
    PROVE  \E c \in Contracts, d \in FixDates, bars \in [Deployment -> SUBSET VenueBars] :
               Explained(x, c, d, bars)'
<1>1. PICK c \in Contracts, d \in FixDates, bars \in [Deployment -> SUBSET VenueBars] : Explained(x, c, d, bars)
  BY DEF FixesInv
<1>2. Reconstruction(c, d, bars)' = Reconstruction(c, d, bars)
  BY ReconstructionStays
<1>3. LondonWindowUtc(d)' = LondonWindowUtc(d) /\ venueClock' = venueClock /\ rows' = rows
  BY DEF LondonWindowUtc, venueVars
<1>4. Explained(x, c, d, bars)'
  BY <1>1, <1>2, <1>3 DEF Explained, Answered, Traded
<1> QED BY <1>4

LEMMA BrrInvReconstruct ==
    ASSUME BrrInv, NEW c \in Contracts, NEW d \in FixDates, Reconstruct(c, d)
    PROVE  BrrInv'
<1>1. /\ venueClock' = venueClock /\ rows' = rows /\ summer' = summer /\ fixes' = fixes
      /\ call' = [NoCall EXCEPT !.active = TRUE, !.contract = c, !.day = d, !.begun = venueClock]
  BY DEF Reconstruct, venueVars
<1>2. MarketInv'
  BY <1>1 DEF BrrInv, MarketInv, Traded
<1>3. /\ call' = [active |-> TRUE, contract |-> c, day |-> d, begun |-> venueClock, asked |-> 0,
                  bars |-> Nobody, whole |-> TRUE]
  BY <1>1 DEF NoCall
<1>4. Asked' = {} /\ DOMAIN Nobody = {} /\ Nobody \in [{} -> SUBSET VenueBars]
  BY <1>3 DEF Asked, Nobody
<1>5. Nobody \in Answers /\ 0 \in 0 .. Len(SortedSources)
  <2>1. {} \in SUBSET Deployment
    OBVIOUS
  <2>2. Len(SortedSources) \in Nat
    BY AllAsked
  <2>3. 0 \in 0 .. Len(SortedSources)
    BY <2>2
  <2> QED BY <1>4, <2>1, <2>3, AnswersOf
<1>6. venueClock \in Times /\ venueClock \in Nat
  BY TimesAreNumbers DEF BrrInv, MarketInv
<1>7. CallInv'
  <2>1. call' \in [active : BOOLEAN, contract : Contracts \cup {""}, day : FixDates \cup {0}, begun : Times,
                   asked : 0 .. Len(SortedSources), bars : Answers, whole : BOOLEAN]
    BY <1>3, <1>5, <1>6
  <2>2. DOMAIN call'.bars = Asked' /\ call'.contract \in Contracts /\ call'.day \in FixDates
        /\ call'.begun <= venueClock'
    <3>1. call'.bars = Nobody /\ call'.contract = c /\ call'.day = d /\ call'.begun = venueClock
      BY <1>3
    <3>2. venueClock <= venueClock'
      BY <1>1, <1>6
    <3>3. DOMAIN call'.bars = Asked'
      BY <1>4, <3>1, Zenon
    <3> QED BY <3>1, <3>2, <3>3
  <2> QED BY <1>4, <2>1, <2>2 DEF CallInv
<1>8. FixesInv'
  BY <1>1, FixesStay DEF BrrInv, FixesInv, venueVars
<1> QED BY <1>2, <1>7, <1>8 DEF BrrInv

\* get_bars: the rows of the answer that lie in the window.
LEMMA GotBars ==
    ASSUME NEW v \in Deployment, NEW c \in Contracts, NEW from, NEW start, NEW end
    PROVE  GetBars(FetchOhlcv(v, c, from), start, end)
               = {[ts |-> t, close |-> rows[v][c][t]] :
                     t \in {u \in Times : u >= from /\ Traded(v, c, u) /\ start <= u /\ u < end}}
<1> DEFINE answer == FetchOhlcv(v, c, from)
           Wanted(u) == u >= from /\ Traded(v, c, u) /\ start <= u /\ u < end
           rec(u) == [ts |-> u, close |-> rows[v][c][u]]
<1>1. \A r \in answer : \E u \in Times : r = <<u, rows[v][c][u]>> /\ u >= from /\ Traded(v, c, u)
  BY DEF FetchOhlcv
<1>2. \A u \in Times : u >= from /\ Traded(v, c, u) => <<u, rows[v][c][u]>> \in answer
  BY DEF FetchOhlcv
<1> HIDE DEF answer
<1>3. ASSUME NEW b \in GetBars(answer, start, end)
      PROVE  \E u \in Times : Wanted(u) /\ b = rec(u)
  <2>1. PICK r \in answer : RowInWindow(r, start, end) /\ b = OhlcvRowToRawBar(r)
    BY DEF GetBars
  <2>2. PICK u \in Times : r = <<u, rows[v][c][u]>> /\ u >= from /\ Traded(v, c, u)
    BY <1>1
  <2>3. r[1] = u /\ r[2] = rows[v][c][u]
    BY <2>2
  <2>4. Wanted(u) /\ b = rec(u)
    BY <2>1, <2>2, <2>3 DEF RowInWindow, OhlcvRowToRawBar
  <2> QED BY <2>4
<1>4. ASSUME NEW u \in Times, Wanted(u)
      PROVE  rec(u) \in GetBars(answer, start, end)
  <2> DEFINE r == <<u, rows[v][c][u]>>
  <2>1. r \in answer /\ r[1] = u /\ r[2] = rows[v][c][u]
    BY <1>2, <1>4
  <2> HIDE DEF r
  <2>2. RowInWindow(r, start, end) /\ OhlcvRowToRawBar(r) = rec(u)
    BY <1>4, <2>1 DEF RowInWindow, OhlcvRowToRawBar
  <2> QED BY <2>1, <2>2 DEF GetBars
<1> HIDE DEF rec
<1>5. GetBars(answer, start, end) = {rec(u) : u \in {t \in Times : Wanted(t)}}
  BY <1>3, <1>4
<1> QED BY <1>5 DEF answer, rec

LEMMA BrrInvAnswers ==
    ASSUME BrrInv, NEW from \in Starts, VenueAnswers(from)
    PROVE  BrrInv'
<1> DEFINE c == call.contract
           d == call.day
           w == LondonWindowUtc(d)
           v == NextVenue
           got == GetBars(FetchOhlcv(v, c, from), w.start, w.end)
           kept == {b \in got : w.start <= b.ts /\ b.ts < w.end}
           k == call.asked + 1
<1>1. /\ call.active /\ call.asked < Len(SortedSources)
      /\ venueClock' = venueClock /\ rows' = rows /\ summer' = summer /\ fixes' = fixes
      /\ call' = [call EXCEPT !.asked = @ + 1,
                              !.bars = [u \in DOMAIN @ \cup {v} |-> IF u = v THEN kept ELSE @[u]],
                              !.whole = @ /\ from <= w.start]
  BY DEF VenueAnswers, Asking, venueVars
<1>2. /\ call \in [active : BOOLEAN, contract : Contracts \cup {""}, day : FixDates \cup {0}, begun : Times,
                   asked : 0 .. Len(SortedSources),
                   bars : Answers, whole : BOOLEAN]
      /\ DOMAIN call.bars = Asked /\ c \in Contracts /\ d \in FixDates /\ call.begun <= venueClock
      /\ \A u \in Asked : Answered(u, call.bars[u], c, d, call.begun, call.whole)
  BY <1>1 DEF BrrInv, CallInv
<1>3. MarketInv' /\ MarketInv
  BY <1>1 DEF BrrInv, MarketInv, Traded
<1>4. /\ call.asked \in Nat /\ k \in 1 .. Len(SortedSources) /\ v = SortedSources[k]
      /\ v \in Deployment
  <2>1. call.asked \in Nat /\ Len(SortedSources) \in Nat
    <3>1. Len(SortedSources) \in Nat
      BY AllAsked
    <3>2. call.asked \in 0 .. Len(SortedSources)
      BY <1>2
    <3> QED BY <3>1, <3>2
  <2>2. k \in 1 .. Len(SortedSources)
    BY <1>1, <2>1
  <2> QED BY <2>1, <2>2, AllAsked DEF NextVenue
<1>5. w.start \in Nat /\ w.end \in Int
  <2>1. summer \subseteq FixDates /\ d \in FixDates
    BY <1>2, <1>3 DEF MarketInv
  <2>2. NumPartitions \in Nat
    BY BrrAssumption
  <2> HIDE DEF d
  <2> QED BY <2>1, <2>2, WindowFacts
<1> HIDE DEF d, c, v, w
<1>6. kept = {[ts |-> t, close |-> rows[v][c][t]] :
                 t \in {u \in Times : u >= from /\ Traded(v, c, u) /\ w.start <= u /\ u < w.end}}
  <2>1. got = {[ts |-> t, close |-> rows[v][c][t]] :
                 t \in {u \in Times : u >= from /\ Traded(v, c, u) /\ w.start <= u /\ u < w.end}}
    <3>1. c \in Contracts /\ v \in Deployment
      BY <1>2, <1>4
    <3> QED BY <3>1, GotBars
  <2> HIDE DEF got
  <2> QED BY <2>1
<1>7. kept \subseteq VenueBars
  <2>1. \A t \in Times : Traded(v, c, t) => rows[v][c][t] \in Prices
    <3>1. c \in Contracts /\ v \in Deployment /\ rows \in Market
      BY <1>2, <1>3, <1>4 DEF MarketInv
    <3> QED BY <3>1 DEF Market, Traded
  <2> HIDE DEF kept
  <2> QED BY <1>6, <2>1 DEF VenueBars
<1>8. from \in Nat /\ call.begun \in Nat /\ venueClock \in Nat
  <2>1. from \in {0, w.start, w.start + 1}
    BY DEF Starts, w, d
  <2>2. call.begun \in Times /\ venueClock \in Times
    BY <1>2, <1>3 DEF MarketInv
  <2> QED BY <1>5, <2>1, <2>2, TimesAreNumbers
<1>9. Answered(v, kept, c, d, call.begun, call.whole /\ from <= w.start)
  <2>1. \A b \in kept : /\ w.start <= b.ts /\ b.ts < w.end
                        /\ Traded(v, c, b.ts) /\ b.close = rows[v][c][b.ts]
    <3> HIDE DEF kept
    <3> QED BY <1>6
  <2>2. ASSUME from <= w.start, NEW t \in Times, w.start <= t, t < w.end, Traded(v, c, t)
        PROVE  [ts |-> t, close |-> rows[v][c][t]] \in kept
    <3>1. t >= from
      BY <1>5, <1>8, <2>2, TimesAreNumbers
    <3> HIDE DEF kept
    <3> QED BY <1>6, <2>2, <3>1
  <2> HIDE DEF kept
  <2> QED BY <1>7, <2>1, <2>2 DEF Answered, w
<1> HIDE DEF kept
<1>10. Asked' = Asked \cup {v}
  <2>1. call'.asked = call.asked + 1
    BY <1>1, <1>2
  <2>2. 1 .. call'.asked = (1 .. call.asked) \cup {k}
    BY <1>4, <2>1
  <2> QED BY <1>4, <2>2 DEF Asked
<1>11. /\ call'.asked = call.asked + 1 /\ call'.whole = (call.whole /\ from <= w.start)
       /\ call'.active = call.active /\ call'.contract = c /\ call'.day = d /\ call'.begun = call.begun
       /\ call'.bars = [u \in Asked \cup {v} |-> IF u = v THEN kept ELSE call.bars[u]]
  BY <1>1, <1>2 DEF c, d
<1>12. \A u \in Asked : call.bars[u] \subseteq VenueBars
  BY <1>2 DEF Answered
<1>13. Asked \cup {v} \in SUBSET Deployment
  BY <1>2, <1>4, AskedDeployed
<1>14. call'.bars \in [Asked \cup {v} -> SUBSET VenueBars]
  BY <1>7, <1>11, <1>12
<1>15. call' \in [active : BOOLEAN, contract : Contracts \cup {""}, day : FixDates \cup {0}, begun : Times,
                  asked : 0 .. Len(SortedSources),
                  bars : Answers, whole : BOOLEAN]
  <2>1. call'.bars \in Answers
    BY <1>13, <1>14, AnswersOf
  <2>2. call'.asked \in 0 .. Len(SortedSources)
    BY <1>4, <1>11, AllAsked
  <2>3. call' = [call EXCEPT !.asked = call'.asked, !.bars = call'.bars, !.whole = call'.whole]
    BY <1>1, <1>2
  <2>4. call'.whole \in BOOLEAN
    BY <1>2, <1>11
  <2> QED BY <1>2, <2>1, <2>2, <2>3, <2>4
<1>16. ASSUME NEW u \in Asked \cup {v}
       PROVE  Answered(u, call'.bars[u], c, d, call.begun, call'.whole)
  <2>1. CASE u = v
    <3>1. call'.bars[u] = kept
      BY <1>11, <2>1
    <3> QED BY <1>9, <1>11, <2>1, <3>1
  <2>2. CASE u # v
    <3>1. u \in Asked /\ call'.bars[u] = call.bars[u]
      BY <1>11, <2>2
    <3>2. Answered(u, call.bars[u], c, d, call.begun, call.whole)
      BY <1>2, <3>1 DEF c, d
    <3> QED BY <1>11, <3>1, <3>2 DEF Answered
  <2> QED BY <2>1, <2>2
<1>17. ASSUME NEW u \in Asked \cup {v}
       PROVE  Answered(u, call.bars[u], call.contract, call.day, call.begun, call.whole)'
  <2>1. LondonWindowUtc(d)' = LondonWindowUtc(d)
    BY <1>1 DEF LondonWindowUtc, d
  <2>2. LondonWindowUtc(call.day)' = LondonWindowUtc(d)
    BY <1>1, <1>11 DEF LondonWindowUtc
  <2> QED BY <1>1, <1>11, <1>16, <2>2 DEF Answered, Traded
<1>18. CallInv'
  <2>1. DOMAIN call'.bars = Asked'
    BY <1>10, <1>11
  <2> QED BY <1>1, <1>2, <1>10, <1>11, <1>15, <1>17, <2>1 DEF CallInv, c, d
<1>19. FixesInv'
  BY <1>1, FixesStay DEF BrrInv, FixesInv, venueVars
<1> QED BY <1>3, <1>18, <1>19 DEF BrrInv

LEMMA NoCallInv ==
    ASSUME BrrInv, call' = NoCall, venueClock' = venueClock
    PROVE  CallInv'
<1>1. Asked' = {} /\ DOMAIN Nobody = {} /\ Nobody \in [{} -> SUBSET VenueBars]
  <2>1. call'.asked = 0
    BY DEF NoCall
  <2> QED BY <2>1 DEF Asked, Nobody
<1>2. {} \in SUBSET Deployment /\ Len(SortedSources) \in Nat
  BY AllAsked
<1>3. Nobody \in Answers /\ 0 \in 0 .. Len(SortedSources) /\ 0 \in Times
  <2>1. 0 \in 0 .. Len(SortedSources)
    BY <1>2
  <2>2. 0 \in Times
    BY VenueAssumption DEF Times
  <2>3. Nobody \in Answers
    BY <1>1, <1>2, AnswersOf
  <2> QED BY <2>1, <2>2, <2>3
<1>4. call' \in [active : BOOLEAN, contract : Contracts \cup {""}, day : FixDates \cup {0}, begun : Times,
                 asked : 0 .. Len(SortedSources), bars : Answers, whole : BOOLEAN]
  BY <1>3 DEF NoCall
<1>5. call'.bars = Nobody /\ ~call'.active
  BY DEF NoCall
<1> QED BY <1>1, <1>4, <1>5 DEF CallInv

LEMMA BrrInvFinish ==
    ASSUME BrrInv, Finish
    PROVE  BrrInv'
<1> DEFINE fix == Reconstruction(call.contract, call.day, call.bars)
           x == [fix |-> fix, begun |-> call.begun, whole |-> call.whole]
<1>1. /\ venueClock' = venueClock /\ rows' = rows /\ summer' = summer /\ call' = NoCall
      /\ call.active /\ ~(call.asked < Len(SortedSources))
      /\ fixes' = IF fix.valid = 0 THEN fixes ELSE fixes \cup {x}
  BY DEF Finish, Asking, venueVars
<1>2. MarketInv'
  BY <1>1 DEF BrrInv, MarketInv, Traded
<1>3. CallInv'
  BY <1>1, NoCallInv
<1>4. Asked = Deployment
  <2>1. call.asked \in 0 .. Len(SortedSources) /\ Len(SortedSources) \in Nat
    BY AllAsked DEF BrrInv, CallInv
  <2>2. call.asked = Len(SortedSources)
    BY <1>1, <2>1
  <2> QED BY <2>1, <2>2, AllAsked DEF Asked
<1> DEFINE c == call.contract
           d == call.day
           bars == call.bars
<1>5. /\ c \in Contracts /\ d \in FixDates /\ call.begun \in Times /\ call.begun <= venueClock
      /\ call.whole \in BOOLEAN /\ DOMAIN bars = Deployment /\ bars \in Answers
      /\ \A v \in Deployment : Answered(v, bars[v], c, d, call.begun, call.whole)
  BY <1>1, <1>4 DEF BrrInv, CallInv
<1>6. bars \in [Deployment -> SUBSET VenueBars]
  BY <1>5 DEF Answers
<1> HIDE DEF c, d, bars
<1>7. ASSUME fix.valid # 0, NEW y, y = x, NEW C, C = c, NEW D, D = d, NEW B, B = bars
      PROVE  Explained(y, C, D, B)'
  <2>1. y.fix = Reconstruction(C, D, B) /\ y.fix.valid # 0
    BY <1>7 DEF c, d, bars
  <2>2. y.begun = call.begun /\ y.whole = call.whole
    BY <1>7
  <2> HIDE DEF x
  <2>3. Explained(y, C, D, B)
    BY <1>5, <1>7, <2>1, <2>2 DEF Explained
  <2>4. Reconstruction(C, D, B)' = Reconstruction(C, D, B)
    BY <1>1, ReconstructionStays
  <2>5. LondonWindowUtc(D)' = LondonWindowUtc(D)
    BY <1>1 DEF LondonWindowUtc
  <2> QED BY <1>1, <2>3, <2>4, <2>5 DEF Explained, Answered, Traded
<1>8. FixesInv'
  <2> SUFFICES ASSUME NEW y \in fixes'
               PROVE  \E C \in Contracts, D \in FixDates, B \in [Deployment -> SUBSET VenueBars] :
                          Explained(y, C, D, B)'
    BY DEF FixesInv
  <2>1. CASE y \in fixes
    BY <1>1, <2>1, FixesStay DEF BrrInv, venueVars
  <2>2. CASE y \notin fixes
    <3>1. fix.valid # 0 /\ y = x
      BY <1>1, <2>2
    <3>2. PICK C, D, B : C = c /\ D = d /\ B = bars
      OBVIOUS
    <3>3. Explained(y, C, D, B)'
      BY <1>7, <3>1, <3>2
    <3> QED BY <1>5, <1>6, <3>2, <3>3
  <2> QED BY <2>1, <2>2
<1> QED BY <1>2, <1>3, <1>8 DEF BrrInv

LEMMA BrrInvNext == BrrInv /\ [BrrNext]_brrVars => BrrInv'
<1> SUFFICES ASSUME BrrInv, [BrrNext]_brrVars PROVE BrrInv'
  OBVIOUS
<1>1. CASE World
  <2>1. summer' = summer /\ call' = call /\ fixes' = fixes
    BY <1>1 DEF World
  <2>2. MarketInv
    BY DEF BrrInv
  <2>3. MarketMoves /\ MarketInv'
    BY <1>1, <2>1, <2>2, TickMoves, TradeMoves DEF World
  <2> QED BY <2>1, <2>3, WorldStep
<1>2. ASSUME NEW c \in Contracts, NEW d \in FixDates, Reconstruct(c, d)
      PROVE  BrrInv'
  BY <1>2, BrrInvReconstruct
<1>3. ASSUME NEW from \in Starts, VenueAnswers(from)
      PROVE  BrrInv'
  BY <1>3, BrrInvAnswers
<1>4. CASE VenueRaises
  <2>1. /\ venueClock' = venueClock /\ rows' = rows /\ summer' = summer /\ fixes' = fixes /\ call' = NoCall
    BY <1>4 DEF VenueRaises, venueVars
  <2>2. MarketInv'
    BY <2>1 DEF BrrInv, MarketInv, Traded
  <2>3. FixesInv'
    BY <2>1, FixesStay DEF BrrInv, FixesInv, venueVars
  <2> QED BY <2>1, <2>2, <2>3, NoCallInv DEF BrrInv
<1>5. CASE Finish
  BY <1>5, BrrInvFinish
<1>6. CASE UNCHANGED brrVars
  <2>1. venueClock' = venueClock /\ rows' = rows /\ summer' = summer /\ call' = call /\ fixes' = fixes
    BY <1>6 DEF brrVars, venueVars
  <2>2. MarketInv' /\ venueClock \in Nat
    BY <2>1, TimesAreNumbers DEF BrrInv, MarketInv, Traded
  <2>3. MarketMoves
    BY <2>1, <2>2 DEF MarketMoves, Traded, BrrInv, MarketInv
  <2> QED BY <2>1, <2>2, <2>3, WorldStep
<1> QED BY <1>1, <1>2, <1>3, <1>4, <1>5, <1>6 DEF BrrNext

------------------------------------------------------------------------------
(* What a fix says *)

\* The hits of a partition are the rows of its bar, and the last close is a price.
LEMMA HitsOf ==
    ASSUME MarketInv, NEW v \in Deployment, NEW c \in Contracts, NEW d \in FixDates, NEW begun, NEW whole,
           NEW bars, Answered(v, bars, c, d, begun, whole), NEW i \in 0 .. NumPartitions - 1
    PROVE  /\ Hits(bars, d, i) = {b \in bars : b.ts = LondonBar(d, i)}
           /\ Hits(bars, d, i) # {} => /\ LondonBar(d, i) \in Times /\ Traded(v, c, LondonBar(d, i))
                                       /\ LastClose(Hits(bars, d, i)) \in Prices
<1> DEFINE t == LondonBar(d, i)
           hits == Hits(bars, d, i)
<1>1. t \in Int /\ PartitionStart(d, i) = t
  <2>1. summer \subseteq FixDates
    BY DEF MarketInv
  <2> QED BY <2>1, WindowFacts, BrrAssumption
<1>2. \A b \in bars : b \in VenueBars /\ b.ts \in Int /\ b.ts \in Times /\ b.close \in Prices
  BY TimesAreNumbers DEF Answered, VenueBars
<1> HIDE DEF t
<1>3. hits = {b \in bars : b.ts = t}
  BY <1>1, <1>2 DEF Hits
<1> HIDE DEF hits
<1>4. ASSUME hits # {}
      PROVE  t \in Times /\ Traded(v, c, t) /\ LastClose(hits) \in Prices
  <2>1. PICK b \in hits : TRUE
    BY <1>4
  <2>2. b \in bars /\ b.ts = t
    BY <1>3, <2>1
  <2>3. t \in Times /\ Traded(v, c, t)
    BY <1>2, <2>2 DEF Answered
  <2>4. \A x \in hits : x.ts <= b.ts
    BY <1>1, <1>3, <2>2
  <2>5. LastClose(hits) = (CHOOSE y \in hits : \A x \in hits : x.ts <= y.ts).close
    BY DEF LastClose
  <2>6. (CHOOSE y \in hits : \A x \in hits : x.ts <= y.ts) \in hits
    BY <2>1, <2>4
  <2>7. \A y \in hits : y.close \in Prices
    BY <1>2, <1>3
  <2> QED BY <2>3, <2>5, <2>6, <2>7
<1> QED BY <1>3, <1>4 DEF t, hits

\* A partition counts with two venues that traded in its bar, and is positive.
LEMMA PartitionCounts ==
    ASSUME MarketInv, NEW c \in Contracts, NEW d \in FixDates, NEW begun, NEW whole,
           NEW bars \in [Deployment -> SUBSET VenueBars],
           \A v \in Deployment : Answered(v, bars[v], c, d, begun, whole),
           NEW i \in 0 .. NumPartitions - 1
    PROVE  /\ PartitionAggregate(bars, d, i) \in Nat
           /\ PartitionAggregate(bars, d, i) # NoValue =>
                 Cardinality({v \in Deployment : Traded(v, c, LondonBar(d, i))}) >= MinVenues
<1> DEFINE hit == {v \in DOMAIN bars : Hits(bars[v], d, i) # {}}
           f == [v \in hit |-> LastClose(Hits(bars[v], d, i))]
           quoted == {v \in Deployment : Traded(v, c, LondonBar(d, i))}
<1>1. /\ PartitionAggregate(bars, d, i) = IF Cardinality(hit) < MinVenues THEN NoValue ELSE ArithmeticMean(f)
  BY DEF PartitionAggregate
<1>2. hit \in SUBSET quoted /\ \A v \in hit : f[v] \in Prices
  BY HitsOf
<1>3. quoted \in SUBSET Deployment
  OBVIOUS
<1> HIDE DEF quoted, hit
<1>4. IsFiniteSet(quoted)
  BY <1>3, DeploymentFinite, FS_Subset
<1>5. IsFiniteSet(hit) /\ Cardinality(hit) <= Cardinality(quoted)
  BY <1>2, <1>4, FS_Subset
<1>6. Cardinality(hit) \in Nat /\ Cardinality(quoted) \in Nat
  BY <1>4, <1>5, FS_CardinalityType
<1>7. CASE Cardinality(hit) < MinVenues
  BY <1>1, <1>7 DEF NoValue
<1>8. CASE ~(Cardinality(hit) < MinVenues)
  <2>1. hit # {}
    BY <1>8, FS_EmptySet DEF MinVenues
  <2>2. f \in [hit -> Int] /\ \A v \in hit : 1 <= f[v]
    <3>1. \A p \in Prices : p \in Int /\ 1 <= p
      BY VenueAssumption
    <3>2. \A v \in hit : f[v] \in Int /\ 1 <= f[v]
      BY <1>2, <3>1
    <3> QED BY <3>2
  <2> HIDE DEF f
  <2>3. ArithmeticMean(f) \in Int /\ 1 <= ArithmeticMean(f)
    BY <1>5, <2>1, <2>2, MeanBetween
  <2>4. Cardinality(quoted) >= MinVenues
    BY <1>5, <1>6, <1>8 DEF MinVenues
  <2> QED BY <1>1, <1>8, <2>3, <2>4 DEF quoted
<1> QED BY <1>7, <1>8

\* What a reconstruction records.
LEMMA FixFields ==
    ASSUME NEW c, NEW d, NEW bars, NEW fix, fix = Reconstruction(c, d, bars)
    PROVE  LET valid == {i \in 0 .. NumPartitions - 1 : PartitionAggregate(bars, d, i) # NoValue}
           IN  /\ fix.contract = c /\ fix.day = d
               /\ DOMAIN fix.values = 0 .. NumPartitions - 1
               /\ \A i \in 0 .. NumPartitions - 1 : fix.values[i] = PartitionAggregate(bars, d, i)
               /\ fix.valid = Cardinality(valid)
               /\ valid # {} => fix.value = ArithmeticMean([i \in valid |-> PartitionAggregate(bars, d, i)])
<1> DEFINE values == [i \in 0 .. NumPartitions - 1 |-> PartitionAggregate(bars, d, i)]
           valid == {i \in DOMAIN values : values[i] # NoValue}
           ours == {i \in 0 .. NumPartitions - 1 : PartitionAggregate(bars, d, i) # NoValue}
<1>1. fix = [contract |-> c, day |-> d, values |-> values, valid |-> Cardinality(valid),
             value |-> IF valid = {} THEN NoValue ELSE ArithmeticMean([i \in valid |-> values[i]]),
             sha |-> ContentSha(c, d, bars)]
  BY DEF Reconstruction
<1>2. valid = ours
  OBVIOUS
<1>3. [i \in valid |-> values[i]] = [i \in ours |-> PartitionAggregate(bars, d, i)]
  BY <1>2
<1>4. /\ fix.contract = c /\ fix.day = d /\ fix.values = values /\ fix.valid = Cardinality(valid)
      /\ fix.value = IF valid = {} THEN NoValue ELSE ArithmeticMean([i \in valid |-> values[i]])
  <2> HIDE DEF values, valid
  <2> QED BY <1>1
<1>5. fix.valid = Cardinality(ours)
  BY <1>2, <1>4
<1>6. ours # {} => fix.value = ArithmeticMean([i \in ours |-> PartitionAggregate(bars, d, i)])
  <2> HIDE DEF values, valid, ours
  <2> QED BY <1>2, <1>3, <1>4
<1>7. DOMAIN fix.values = 0 .. NumPartitions - 1
      /\ \A i \in 0 .. NumPartitions - 1 : fix.values[i] = PartitionAggregate(bars, d, i)
  BY <1>4
<1> QED BY <1>4, <1>5, <1>6, <1>7

LEMMA BrrTyped == BrrInv => BrrTypeOK
<1> SUFFICES ASSUME BrrInv PROVE BrrTypeOK
  OBVIOUS
<1>1. /\ venueClock \in Times /\ summer \subseteq FixDates
      /\ \A v \in Deployment, c \in Contracts, t \in Times :
            rows[v][c][t] \in Prices \cup {0} /\ (t > venueClock => ~Traded(v, c, t))
  BY DEF BrrInv, MarketInv, Market, NoRow
<1>2. call.asked \in 0 .. Len(SortedSources) /\ DOMAIN call.bars = {SortedSources[i] : i \in 1 .. call.asked}
  BY DEF BrrInv, CallInv, Asked
<1>3. ASSUME NEW x \in fixes
      PROVE  x.fix.value > 0 /\ x.fix.valid \in 1 .. NumPartitions
  <2>1. PICK c \in Contracts, d \in FixDates, bars \in [Deployment -> SUBSET VenueBars] : Explained(x, c, d, bars)
    BY DEF BrrInv, FixesInv
  <2> DEFINE n == NumPartitions
             P(i) == PartitionAggregate(bars, d, i)
             valid == {i \in 0 .. n - 1 : P(i) # NoValue}
             f == [i \in valid |-> P(i)]
  <2>2. /\ x.fix.valid = Cardinality(valid) /\ x.fix.valid # 0
        /\ valid # {} => x.fix.value = ArithmeticMean(f)
    <3> DEFINE fix == x.fix
    <3>1. fix = Reconstruction(c, d, bars) /\ fix.valid # 0
      BY <2>1 DEF Explained
    <3> HIDE DEF fix
    <3>2. /\ fix.valid = Cardinality(valid)
          /\ valid # {} => fix.value = ArithmeticMean(f)
      BY <3>1, FixFields
    <3> QED BY <3>1, <3>2 DEF fix
  <2>3. \A i \in 0 .. n - 1 : P(i) \in Nat
    BY <2>1, PartitionCounts DEF Explained, BrrInv
  <2> HIDE DEF P
  <2>4. n \in Nat \ {0} /\ valid \in SUBSET (0 .. n - 1)
    BY BrrAssumption
  <2>5. f \in [valid -> Int] /\ \A i \in valid : 1 <= f[i]
    <3>1. \A i \in valid : P(i) \in Int /\ 1 <= P(i)
      BY <2>3 DEF NoValue
    <3> QED BY <3>1
  <2> HIDE DEF valid, f, n
  <2>6. IsFiniteSet(0 .. n - 1) /\ Cardinality(0 .. n - 1) = n
    <3>1. 0 \in Int /\ n - 1 \in Int
      BY <2>4
    <3>2. /\ IsFiniteSet(0 .. n - 1)
          /\ Cardinality(0 .. n - 1) = IF 0 > n - 1 THEN 0 ELSE (n - 1) - 0 + 1
      BY <3>1, FS_Interval
    <3> QED BY <2>4, <3>2
  <2>7. IsFiniteSet(valid) /\ Cardinality(valid) \in Nat /\ Cardinality(valid) <= n
    BY <2>4, <2>6, FS_Subset, FS_CardinalityType
  <2>8. valid # {}
    BY <2>2, FS_EmptySet
  <2>9. ArithmeticMean(f) \in Int /\ 1 <= ArithmeticMean(f)
    BY <2>5, <2>7, <2>8, MeanBetween
  <2> QED BY <2>2, <2>4, <2>7, <2>8, <2>9 DEF n
<1> QED BY <1>1, <1>2, <1>3 DEF BrrTypeOK

LEMMA FixValues ==
    ASSUME NEW x, NEW c, NEW d, NEW bars, Explained(x, c, d, bars)
    PROVE  /\ x.fix.contract = c /\ x.fix.day = d /\ DOMAIN x.fix.values = 0 .. NumPartitions - 1
           /\ \A k \in 0 .. NumPartitions - 1 : x.fix.values[k] = PartitionAggregate(bars, d, k)
<1> DEFINE values == [i \in 0 .. NumPartitions - 1 |-> PartitionAggregate(bars, d, i)]
<1>1. x.fix = Reconstruction(c, d, bars)
  BY DEF Explained
<1>2. x.fix.contract = c /\ x.fix.day = d /\ x.fix.values = values
  BY <1>1 DEF Reconstruction
<1> QED BY <1>2

LEMMA BrrTwoVenues == BrrInv => TwoVenuesEach
<1> SUFFICES ASSUME BrrInv, NEW x \in fixes, NEW i \in DOMAIN x.fix.values, x.fix.values[i] # NoValue
             PROVE  Cardinality({v \in Deployment : Traded(v, x.fix.contract, LondonBar(x.fix.day, i))})
                        >= MinVenues
  BY DEF TwoVenuesEach
<1>1. PICK c \in Contracts, d \in FixDates, bars \in [Deployment -> SUBSET VenueBars] : Explained(x, c, d, bars)
  BY DEF BrrInv, FixesInv
<1>2. /\ x.fix.contract = c /\ x.fix.day = d /\ DOMAIN x.fix.values = 0 .. NumPartitions - 1
      /\ \A k \in 0 .. NumPartitions - 1 : x.fix.values[k] = PartitionAggregate(bars, d, k)
  BY <1>1, FixValues
<1>3. i \in 0 .. NumPartitions - 1 /\ PartitionAggregate(bars, d, i) # NoValue
  BY <1>2
<1>4. Cardinality({v \in Deployment : Traded(v, c, LondonBar(d, i))}) >= MinVenues
  BY <1>1, <1>3, PartitionCounts DEF Explained, BrrInv
<1> QED BY <1>2, <1>4

\* A bar that was over when the call began: whole answers hold its final rows.
LEMMA FinalHits ==
    ASSUME MarketInv, NEW c \in Contracts, NEW d \in FixDates, NEW begun \in Times, begun <= venueClock,
           NEW whole, NEW bars \in [Deployment -> SUBSET VenueBars],
           \A v \in Deployment : Answered(v, bars[v], c, d, begun, whole),
           \A v \in Deployment, t \in Times :
               LondonWindowUtc(d).start <= t /\ t < LondonWindowUtc(d).end /\ t < begun /\ Traded(v, c, t)
               => [ts |-> t, close |-> rows[v][c][t]] \in bars[v],
           NEW i \in 0 .. NumPartitions - 1, LondonBar(d, i) < begun
    PROVE  PartitionAggregate(bars, d, i) = MarketMean(c, LondonBar(d, i))
<1> DEFINE t == LondonBar(d, i)
           w == LondonWindowUtc(d)
           hit == {v \in DOMAIN bars : Hits(bars[v], d, i) # {}}
           quoted == {v \in Deployment : Traded(v, c, t)}
<1>1. /\ t \in Times /\ t \in Nat /\ w.start <= t /\ t < w.end /\ begun \in Nat
  <2>1. summer \subseteq FixDates /\ NumPartitions \in Nat
    BY BrrAssumption DEF MarketInv
  <2>2. w.start \in Nat /\ w.end = w.start + NumPartitions /\ t = w.start + i
    BY <2>1, WindowFacts
  <2>3. begun \in Nat /\ begun <= MaxTime /\ MaxTime \in Nat
    BY TimesAreNumbers
  <2> QED BY <2>1, <2>2, <2>3 DEF Times
<1>2. ASSUME NEW v \in Deployment
      PROVE  Hits(bars[v], d, i) = IF Traded(v, c, t) THEN {[ts |-> t, close |-> rows[v][c][t]]} ELSE {}
  <2>1. Hits(bars[v], d, i) = {b \in bars[v] : b.ts = t}
    BY HitsOf
  <2>2. ASSUME NEW b \in bars[v], b.ts = t
        PROVE  b = [ts |-> t, close |-> rows[v][c][t]] /\ Traded(v, c, t)
    BY <2>2 DEF Answered, VenueBars
  <2>3. Traded(v, c, t) => [ts |-> t, close |-> rows[v][c][t]] \in bars[v]
    BY <1>1
  <2> HIDE DEF t
  <2> QED BY <2>1, <2>2, <2>3
<1> HIDE DEF t
<1>3. hit = quoted
  BY <1>2
<1>4. ASSUME NEW v \in quoted
      PROVE  LastClose(Hits(bars[v], d, i)) = rows[v][c][t]
  <2> DEFINE b == [ts |-> t, close |-> rows[v][c][t]]
  <2>1. Hits(bars[v], d, i) = {b}
    BY <1>2, <1>4
  <2>2. b.ts = t /\ b.close = rows[v][c][t]
    OBVIOUS
  <2> HIDE DEF b
  <2>3. LastClose({b}) = b.close
    <3>1. \A x \in {b} : x.ts <= b.ts
      BY <1>1, <2>2
    <3>2. (CHOOSE y \in {b} : \A x \in {b} : x.ts <= y.ts) = b
      BY <3>1
    <3> QED BY <3>2 DEF LastClose
  <2> QED BY <2>1, <2>2, <2>3
<1>5. [v \in hit |-> LastClose(Hits(bars[v], d, i))] = [v \in quoted |-> rows[v][c][t]]
  BY <1>3, <1>4
<1>6. PartitionAggregate(bars, d, i) =
          IF Cardinality(hit) < MinVenues THEN NoValue
          ELSE ArithmeticMean([v \in hit |-> LastClose(Hits(bars[v], d, i))])
  BY DEF PartitionAggregate
<1>7. MarketMean(c, t) = IF Cardinality(quoted) < MinVenues THEN NoValue
                         ELSE ArithmeticMean([v \in quoted |-> rows[v][c][t]])
  BY DEF MarketMean
<1> HIDE DEF hit, quoted
<1> QED BY <1>3, <1>5, <1>6, <1>7 DEF t

LEMMA BrrIsMarket == BrrInv => FixIsMarket
<1> SUFFICES ASSUME BrrInv, NEW x \in fixes, x.whole
             PROVE  /\ \A i \in DOMAIN x.fix.values :
                          LondonBar(x.fix.day, i) < x.begun
                          => x.fix.values[i] = MarketMean(x.fix.contract, LondonBar(x.fix.day, i))
                    /\ \E low, high \in DOMAIN x.fix.values :
                          /\ x.fix.values[low] # NoValue /\ x.fix.values[high] # NoValue
                          /\ x.fix.values[low] <= x.fix.value /\ x.fix.value <= x.fix.values[high]
  BY DEF FixIsMarket
<1>1. PICK c \in Contracts, d \in FixDates, bars \in [Deployment -> SUBSET VenueBars] : Explained(x, c, d, bars)
  BY DEF BrrInv, FixesInv
<1>2. /\ x.fix.contract = c /\ x.fix.day = d /\ DOMAIN x.fix.values = 0 .. NumPartitions - 1
      /\ \A k \in 0 .. NumPartitions - 1 : x.fix.values[k] = PartitionAggregate(bars, d, k)
  BY <1>1, FixValues
<1>3. /\ MarketInv /\ x.begun \in Times /\ x.begun <= venueClock
      /\ \A v \in Deployment : Answered(v, bars[v], c, d, x.begun, x.whole)
  BY <1>1 DEF Explained, BrrInv
<1>4. \A v \in Deployment, t \in Times :
          LondonWindowUtc(d).start <= t /\ t < LondonWindowUtc(d).end /\ t < x.begun /\ Traded(v, c, t)
          => [ts |-> t, close |-> rows[v][c][t]] \in bars[v]
  BY <1>3 DEF Answered
<1>5. ASSUME NEW i \in 0 .. NumPartitions - 1, LondonBar(d, i) < x.begun
      PROVE  PartitionAggregate(bars, d, i) = MarketMean(c, LondonBar(d, i))
  BY <1>3, <1>4, <1>5, FinalHits
<1>6. \A i \in DOMAIN x.fix.values :
          LondonBar(x.fix.day, i) < x.begun
          => x.fix.values[i] = MarketMean(x.fix.contract, LondonBar(x.fix.day, i))
  BY <1>2, <1>5
<1>7. \E low, high \in 0 .. NumPartitions - 1 :
          /\ PartitionAggregate(bars, d, low) # NoValue /\ PartitionAggregate(bars, d, high) # NoValue
          /\ PartitionAggregate(bars, d, low) <= x.fix.value
          /\ x.fix.value <= PartitionAggregate(bars, d, high)
  <2> DEFINE n == NumPartitions
             P(i) == PartitionAggregate(bars, d, i)
             valid == {i \in 0 .. n - 1 : P(i) # NoValue}
             f == [i \in valid |-> P(i)]
  <2>1. /\ x.fix.valid = Cardinality(valid) /\ x.fix.valid # 0
        /\ valid # {} => x.fix.value = ArithmeticMean(f)
    <3> DEFINE fix == x.fix
    <3>1. fix = Reconstruction(c, d, bars) /\ fix.valid # 0
      BY <1>1 DEF Explained
    <3> HIDE DEF fix
    <3>2. /\ fix.valid = Cardinality(valid)
          /\ valid # {} => fix.value = ArithmeticMean(f)
      BY <3>1, FixFields
    <3> QED BY <3>1, <3>2 DEF fix
  <2>2. \A i \in 0 .. n - 1 : P(i) \in Nat
    BY <1>3, PartitionCounts
  <2> HIDE DEF P
  <2>3. f \in [valid -> Int] /\ \A i \in valid : i \in 0 .. n - 1 /\ P(i) # NoValue /\ f[i] = P(i)
    BY <2>2
  <2>4. n \in Nat /\ valid \in SUBSET (0 .. n - 1)
    BY BrrAssumption
  <2>5. IsFiniteSet(valid)
    <3>1. 0 \in Int /\ n - 1 \in Int
      BY <2>4
    <3>2. IsFiniteSet(0 .. n - 1)
      BY <3>1, FS_Interval
    <3> QED BY <2>4, <3>2, FS_Subset
  <2> HIDE DEF valid, f, n
  <2>6. valid # {}
    BY <2>1, FS_EmptySet
  <2>7. /\ \E i \in valid : f[i] <= ArithmeticMean(f)
        /\ \E i \in valid : ArithmeticMean(f) <= f[i]
    BY <2>3, <2>5, <2>6, MeanBetween
  <2>8. PICK low \in valid : f[low] <= x.fix.value
    BY <2>1, <2>6, <2>7
  <2>9. PICK high \in valid : x.fix.value <= f[high]
    BY <2>1, <2>6, <2>7
  <2> QED BY <2>3, <2>8, <2>9 DEF n, P
<1>8. \E low, high \in DOMAIN x.fix.values :
          /\ x.fix.values[low] # NoValue /\ x.fix.values[high] # NoValue
          /\ x.fix.values[low] <= x.fix.value /\ x.fix.value <= x.fix.values[high]
  <2>1. PICK low \in 0 .. NumPartitions - 1, high \in 0 .. NumPartitions - 1 :
          /\ PartitionAggregate(bars, d, low) # NoValue /\ PartitionAggregate(bars, d, high) # NoValue
          /\ PartitionAggregate(bars, d, low) <= x.fix.value
          /\ x.fix.value <= PartitionAggregate(bars, d, high)
    BY <1>7
  <2> QED BY <1>2, <2>1
<1> QED BY <1>6, <1>8

LEMMA BrrReproducible == BrrInv => Reproducible
<1> SUFFICES ASSUME BrrInv, NEW x \in fixes, x.whole,
                    LondonBar(x.fix.day, NumPartitions - 1) < x.begun
             PROVE  x.fix = Again(x.fix.contract, x.fix.day)
  BY DEF Reproducible
<1>1. PICK c \in Contracts, d \in FixDates, bars \in [Deployment -> SUBSET VenueBars] : Explained(x, c, d, bars)
  BY DEF BrrInv, FixesInv
<1>2. x.fix.contract = c /\ x.fix.day = d /\ x.fix = Reconstruction(c, d, bars)
  BY <1>1, FixValues DEF Explained
<1> DEFINE w == LondonWindowUtc(d)
           again == [v \in Deployment |-> GetBars(FetchOhlcv(v, c, w.start), w.start, w.end)]
<1>3. /\ MarketInv /\ x.begun \in Times /\ x.begun <= venueClock
      /\ \A v \in Deployment : Answered(v, bars[v], c, d, x.begun, x.whole)
  BY <1>1 DEF Explained, BrrInv
<1>4. w.start \in Nat /\ w.end \in Nat /\ w.end <= x.begun
  <2>1. summer \subseteq FixDates /\ NumPartitions \in Nat \ {0}
    BY <1>3, BrrAssumption DEF MarketInv
  <2>2. NumPartitions - 1 \in 0 .. NumPartitions - 1
    BY <2>1
  <2>3. w.start \in Nat /\ w.end = w.start + NumPartitions
        /\ LondonBar(d, NumPartitions - 1) = w.start + (NumPartitions - 1)
    BY <2>1, <2>2, WindowFacts
  <2>4. LondonBar(d, NumPartitions - 1) < x.begun /\ x.begun \in Nat
    BY <1>2, <1>3, TimesAreNumbers
  <2> HIDE DEF w
  <2> QED BY <2>1, <2>3, <2>4
<1>5. ASSUME NEW v \in Deployment
      PROVE  bars[v] = GetBars(FetchOhlcv(v, c, w.start), w.start, w.end)
  <2> DEFINE rec(u) == [ts |-> u, close |-> rows[v][c][u]]
             all == {rec(t) : t \in {u \in Times :
                        u >= w.start /\ Traded(v, c, u) /\ w.start <= u /\ u < w.end}}
  <2>1. GetBars(FetchOhlcv(v, c, w.start), w.start, w.end) = all
    BY GotBars
  <2>2. ASSUME NEW b \in bars[v]
        PROVE  /\ b.ts \in Times /\ w.start <= b.ts /\ b.ts < w.end /\ Traded(v, c, b.ts)
               /\ b = rec(b.ts) /\ b.ts >= w.start
    <3>1. b \in VenueBars /\ w.start <= b.ts /\ b.ts < w.end /\ Traded(v, c, b.ts)
          /\ (b.ts < x.begun => b.close = rows[v][c][b.ts])
      BY <1>3 DEF Answered
    <3>2. b.ts \in Times /\ b = [ts |-> b.ts, close |-> b.close]
      BY <3>1 DEF VenueBars
    <3>3. b.ts \in Nat /\ x.begun \in Nat
      BY <1>3, <3>2, TimesAreNumbers
    <3> HIDE DEF w
    <3>4. b.ts < x.begun /\ b.ts >= w.start
      BY <1>4, <3>1, <3>3
    <3> QED BY <3>1, <3>2, <3>4
  <2>3. ASSUME NEW t \in Times, w.start <= t, t < w.end, Traded(v, c, t)
        PROVE  rec(t) \in bars[v]
    <3>1. t < x.begun
      <4>1. t \in Nat /\ x.begun \in Nat
        BY <1>3, TimesAreNumbers
      <4> HIDE DEF w
      <4> QED BY <1>4, <2>3, <4>1
    <3> QED BY <1>3, <2>3, <3>1 DEF Answered
  <2> HIDE DEF w, rec
  <2>4. bars[v] = all
    BY <2>2, <2>3
  <2> QED BY <2>1, <2>4
<1> HIDE DEF w
<1>6. bars = again
  BY <1>5
<1>7. Again(c, d) = Reconstruction(c, d, again)
  BY DEF Again, w
<1> QED BY <1>2, <1>6, <1>7

(* The fix tells the market: a partition rests on two venues that traded in its *)
(* bar, a bar that was over when reconstruct was called carries the mean of the *)
(* final closes, summer and winter, and the fix lies between its partitions.    *)
THEOREM FixTellsMarket == BrrSpec => []FixIsSound
<1>1. BrrInit => BrrInv
  BY BrrInvInit
<1>2. BrrInv /\ [BrrNext]_brrVars => BrrInv'
  BY BrrInvNext
<1>3. BrrInv => FixIsSound
  BY BrrTyped, BrrTwoVenues, BrrIsMarket DEF FixIsSound
<1> QED BY <1>1, <1>2, <1>3, PTL DEF BrrSpec

(* Same inputs, same record: a fix from whole answers after the hour is         *)
(* returned again, with the same content hash, at any later time.               *)
THEOREM FixIsReproducible == BrrSpec => []Reproducible
<1>1. BrrInit => BrrInv
  BY BrrInvInit
<1>2. BrrInv /\ [BrrNext]_brrVars => BrrInv'
  BY BrrInvNext
<1>3. BrrInv => Reproducible
  BY BrrReproducible
<1> QED BY <1>1, <1>2, <1>3, PTL DEF BrrSpec
=============================================================================
