----------------------------- MODULE SumTheorems -----------------------------
(***************************************************************************)
(* Sums of integers over a finite set, as SumFunctionOnSet computes them:  *)
(* what the totals of the broker and of the engines rest on.               *)
(*                                                                         *)
(* The sum is a recursive function over the subsets of the index set.  That*)
(* it exists, and everything about it, is proved by induction over those   *)
(* subsets (SubsetInduction), which a smallest counterexample justifies.   *)
(***************************************************************************)
EXTENDS Integers, Sequences, FiniteSets, Functions, FiniteSetTheorems, NaturalsInduction,
        WellFoundedInduction, SequenceTheorems, TLAPS

\* A set of naturals that is not empty has a least element.
LEMMA LeastNatural ==
    ASSUME NEW N \in SUBSET Nat, N # {}
    PROVE  \E n \in N : \A m \in N : n <= m
  <1>1. IsWellFoundedOn(OpToRel(<, Nat), Nat)
    BY NatLessThanWellFounded
  <1>2. PICK n \in N : \A m \in N : ~(<<m, n>> \in OpToRel(<, Nat))
    BY <1>1, WFMin
  <1>3. \A m \in N : ~(m < n)
    BY <1>2 DEF OpToRel
  <1> QED BY <1>3

\* Induction over the subsets of a finite set: what holds of T whenever it holds
\* of T without any one of its elements holds of them all.
LEMMA SubsetInduction ==
    ASSUME NEW I, IsFiniteSet(I), NEW Good,
           \A T \in SUBSET I : (\A x \in T : T \ {x} \in Good) => T \in Good
    PROVE  \A T \in SUBSET I : T \in Good
  <1> SUFFICES ASSUME NEW T \in SUBSET I, T \notin Good PROVE FALSE
    OBVIOUS
  <1> DEFINE Bad == {U \in SUBSET I : U \notin Good}
             Sizes == {n \in Nat : \E U \in Bad : Cardinality(U) = n}
  <1>1. \A U \in SUBSET I : IsFiniteSet(U) /\ Cardinality(U) \in Nat
    BY FS_Subset, FS_CardinalityType
  <1>2. Cardinality(T) \in Sizes
    BY <1>1
  <1>3. PICK n \in Sizes : \A m \in Sizes : n <= m
    BY <1>2, LeastNatural
  <1>4. PICK U \in Bad : Cardinality(U) = n
    BY <1>3
  <1>5. PICK x \in U : U \ {x} \notin Good
    BY <1>4
  <1>6. Cardinality(U \ {x}) = Cardinality(U) - 1
    BY <1>1, <1>4, <1>5, FS_RemoveElement
  <1>7. U \ {x} \in Bad
    BY <1>4, <1>5
  <1>8. Cardinality(U \ {x}) \in Sizes
    BY <1>1, <1>7
  <1>9. n \in Nat /\ n <= Cardinality(U \ {x})
    BY <1>3, <1>8
  <1> HIDE DEF Bad, Sizes
  <1>10. n <= n - 1
    BY <1>4, <1>6, <1>9
  <1> QED BY <1>9, <1>10

\* A finite set of naturals that is not empty has a largest element.
LEMMA LargestNatural ==
    ASSUME NEW s, \A x \in s : x \in Nat, IsFiniteSet(s), s # {}
    PROVE  \E m \in s : \A x \in s : x <= m
<1> DEFINE Good == {T \in SUBSET s : T # {} => \E m \in T : \A x \in T : x <= m}
<1>1. ASSUME NEW T \in SUBSET s, \A x \in T : T \ {x} \in Good PROVE T \in Good
  <2> SUFFICES ASSUME T # {} PROVE \E m \in T : \A x \in T : x <= m
    OBVIOUS
  <2>1. PICK y \in T : TRUE
    OBVIOUS
  <2>2. T \ {y} \in Good /\ y \in Nat
    BY <1>1
  <2>3. CASE T \ {y} = {}
    <3>1. \A x \in T : x = y
      BY <2>3
    <3>2. y <= y
      BY <2>2
    <3> QED BY <3>1, <3>2
  <2>4. CASE T \ {y} # {}
    <3>1. PICK m \in T \ {y} : \A x \in T \ {y} : x <= m
      BY <2>2, <2>4
    <3>2. m \in Nat /\ m \in T
      OBVIOUS
    <3>3. CASE y <= m
      BY <3>1, <3>2, <3>3
    <3>4. CASE ~(y <= m)
      <4>1. \A x \in T : x \in Nat
        OBVIOUS
      <4>2. \A x \in T : x <= y
        BY <2>2, <3>1, <3>2, <3>4, <4>1
      <4> QED BY <4>2
    <3> QED BY <3>3, <3>4
  <2> QED BY <2>3, <2>4
<1> HIDE DEF Good
<1>2. \A T \in SUBSET s : T \in Good
  BY <1>1, SubsetInduction
<1> QED BY <1>2 DEF Good

-----------------------------------------------------------------------------
(* Sums.  SumFunctionOnSet is a recursive function over the subsets of the   *)
(* index set, which takes the elements in the order CHOOSE gives them.       *)

Pick(s) == CHOOSE x \in s : TRUE

\* f is the recursive function that sums g over the subsets of I.
Sums(g, I, f) ==
    f = [s \in SUBSET I |-> IF s = {} THEN 0 ELSE g[Pick(s)] + f[s \ {Pick(s)}]]

LEMMA PickIsIn ==
    ASSUME NEW s, s # {} PROVE Pick(s) \in s
  BY DEF Pick

\* Such a function, one subset at a time.
LEMMA SumsAt ==
    ASSUME NEW g, NEW I, NEW f, Sums(g, I, f), NEW s \in SUBSET I
    PROVE  f[s] = IF s = {} THEN 0 ELSE g[Pick(s)] + f[s \ {Pick(s)}]
  <1> DEFINE body(u) == IF u = {} THEN 0 ELSE g[Pick(u)] + f[u \ {Pick(u)}]
  <1>1. f = [u \in SUBSET I |-> body(u)]
    BY DEF Sums
  <1> HIDE DEF body
  <1>2. f[s] = body(s)
    BY <1>1
  <1> QED BY <1>2 DEF body

\* Two such functions agree where both are defined.
LEMMA SumsAgree ==
    ASSUME NEW g, NEW I, IsFiniteSet(I), NEW J, NEW f, NEW h,
           Sums(g, I, f), Sums(g, J, h), NEW U \in SUBSET I, U \in SUBSET J
    PROVE  f[U] = h[U]
  <1> DEFINE Good == {T \in SUBSET I : T \in SUBSET J => f[T] = h[T]}
  <1>1. ASSUME NEW T \in SUBSET I, \A x \in T : T \ {x} \in Good
        PROVE  T \in Good
    <2> SUFFICES ASSUME T \in SUBSET J PROVE f[T] = h[T]
      OBVIOUS
    <2>1. /\ f[T] = IF T = {} THEN 0 ELSE g[Pick(T)] + f[T \ {Pick(T)}]
          /\ h[T] = IF T = {} THEN 0 ELSE g[Pick(T)] + h[T \ {Pick(T)}]
      BY SumsAt
    <2>2. CASE T = {}
      BY <2>1, <2>2
    <2>3. CASE T # {}
      <3>1. T \ {Pick(T)} \in Good
        BY <1>1, <2>3, PickIsIn
      <3>2. f[T \ {Pick(T)}] = h[T \ {Pick(T)}]
        BY <3>1
      <3> QED BY <2>1, <2>3, <3>2
    <2> QED BY <2>2, <2>3
  <1> HIDE DEF Good
  <1>2. \A T \in SUBSET I : T \in Good
    BY <1>1, SubsetInduction
  <1> QED BY <1>2 DEF Good

\* The recursive function exists.
LEMMA SumsExist ==
    ASSUME NEW g, NEW I, IsFiniteSet(I)
    PROVE  \E f : Sums(g, I, f)
  <1> DEFINE Good == {T \in SUBSET I : \A V \in SUBSET T : \E f : Sums(g, V, f)}
             F(V) == CHOOSE f : Sums(g, V, f)
  <1>1. ASSUME NEW T \in SUBSET I, \A x \in T : T \ {x} \in Good
        PROVE  T \in Good
    <2>1. \A V \in SUBSET T : V # T => Sums(g, V, F(V))
      <3> SUFFICES ASSUME NEW V \in SUBSET T, V # T PROVE Sums(g, V, F(V))
        OBVIOUS
      <3>1. PICK x \in T : x \notin V
        OBVIOUS
      <3>2. T \ {x} \in Good /\ V \in SUBSET (T \ {x})
        BY <1>1, <3>1
      <3>3. \E f : Sums(g, V, f)
        BY <3>2
      <3> QED BY <3>3
    <2>2. \A V \in SUBSET T : IsFiniteSet(V)
      BY FS_Subset
    <2> HIDE DEF F
    <2> DEFINE value(s) == IF s = {} THEN 0 ELSE g[Pick(s)] + F(s \ {Pick(s)})[s \ {Pick(s)}]
               h == [s \in SUBSET T |-> value(s)]
    <2>3. \A V \in SUBSET T : h[V] = value(V)
      OBVIOUS
    <2> HIDE DEF h
    <2>4. ASSUME NEW V \in SUBSET T, V # T PROVE h[V] = F(V)[V]
      <3>1. Sums(g, V, F(V)) /\ IsFiniteSet(V)
        BY <2>1, <2>2, <2>4
      <3>2. F(V)[V] = IF V = {} THEN 0 ELSE g[Pick(V)] + F(V)[V \ {Pick(V)}]
        BY <3>1, SumsAt
      <3>3. CASE V = {}
        BY <2>3, <3>2, <3>3
      <3>4. CASE V # {}
        <4> DEFINE W == V \ {Pick(V)}
        <4>1. W \in SUBSET T /\ W # T /\ W \in SUBSET V
          BY <2>4
        <4>2. Sums(g, W, F(W))
          BY <2>1, <4>1
        <4>3. F(V)[W] = F(W)[W]
          BY <3>1, <4>1, <4>2, SumsAgree
        <4> QED BY <2>3, <3>2, <3>4, <4>3
      <3> QED BY <3>3, <3>4
    <2>5. ASSUME NEW s \in SUBSET T
          PROVE  value(s) = IF s = {} THEN 0 ELSE g[Pick(s)] + h[s \ {Pick(s)}]
      <3>1. CASE s = {}
        BY <3>1
      <3>2. CASE s # {}
        <4>1. s \ {Pick(s)} \in SUBSET T /\ s \ {Pick(s)} # T
          BY <3>2, PickIsIn
        <4>2. h[s \ {Pick(s)}] = F(s \ {Pick(s)})[s \ {Pick(s)}]
          BY <2>4, <4>1
        <4> QED BY <3>2, <4>2
      <3> QED BY <3>1, <3>2
    <2>6. Sums(g, T, h)
      <3>1. h = [s \in SUBSET T |-> value(s)]
        BY DEF h
      <3> HIDE DEF value
      <3> QED BY <2>5, <3>1 DEF Sums
    <2>7. ASSUME NEW V \in SUBSET T PROVE \E f : Sums(g, V, f)
      BY <2>1, <2>6
    <2> QED BY <2>7
  <1> HIDE DEF Good
  <1>2. \A T \in SUBSET I : T \in Good
    BY <1>1, SubsetInduction
  <1> QED BY <1>2 DEF Good

\* A sum is what that function says.
LEMMA SumIs ==
    ASSUME NEW g, NEW I, IsFiniteSet(I), NEW f, Sums(g, I, f)
    PROVE  SumFunctionOnSet(g, I) = f[I]
  <1> DEFINE it == CHOOSE h : Sums(g, I, h)
  <1>1. SumFunctionOnSet(g, I) = it[I]
    BY DEF SumFunctionOnSet, FoldFunctionOnSet, MapThenFoldSet, Sums, Pick
  <1>2. Sums(g, I, it)
    OBVIOUS
  <1> HIDE DEF it
  <1> QED BY <1>1, <1>2, SumsAgree

LEMMA SumOfNone ==
    ASSUME NEW g PROVE SumFunctionOnSet(g, {}) = 0
  <1>1. IsFiniteSet({})
    BY FS_EmptySet
  <1>2. PICK f : Sums(g, {}, f)
    BY <1>1, SumsExist
  <1> QED BY <1>1, <1>2, SumIs, SumsAt

LEMMA SumPicks ==
    ASSUME NEW g, NEW I, IsFiniteSet(I), I # {}
    PROVE  SumFunctionOnSet(g, I) = g[Pick(I)] + SumFunctionOnSet(g, I \ {Pick(I)})
  <1> DEFINE J == I \ {Pick(I)}
  <1>1. IsFiniteSet(J) /\ J \in SUBSET I
    BY FS_Subset
  <1>2. PICK f : Sums(g, I, f)
    BY SumsExist
  <1>3. PICK h : Sums(g, J, h)
    BY <1>1, SumsExist
  <1>4. f[I] = g[Pick(I)] + f[J]
    BY <1>2, SumsAt
  <1>5. f[J] = h[J]
    BY <1>1, <1>2, <1>3, SumsAgree
  <1>6. SumFunctionOnSet(g, I) = f[I] /\ SumFunctionOnSet(g, J) = h[J]
    BY <1>1, <1>2, <1>3, SumIs
  <1> QED BY <1>4, <1>5, <1>6

\* A sum of integers is an integer.
LEMMA SumIsInt ==
    ASSUME NEW g, NEW I, IsFiniteSet(I), \A x \in I : g[x] \in Int
    PROVE  \A T \in SUBSET I : SumFunctionOnSet(g, T) \in Int
  <1> DEFINE Good == {T \in SUBSET I : SumFunctionOnSet(g, T) \in Int}
  <1>1. ASSUME NEW T \in SUBSET I, \A x \in T : T \ {x} \in Good
        PROVE  T \in Good
    <2>1. CASE T = {}
      BY <2>1, SumOfNone
    <2>2. CASE T # {}
      <3>1. Pick(T) \in T /\ g[Pick(T)] \in Int /\ SumFunctionOnSet(g, T \ {Pick(T)}) \in Int
        BY <1>1, <2>2, PickIsIn
      <3>2. SumFunctionOnSet(g, T) = g[Pick(T)] + SumFunctionOnSet(g, T \ {Pick(T)})
        BY <2>2, FS_Subset, SumPicks
      <3> QED BY <3>1, <3>2
    <2> QED BY <2>1, <2>2
  <1> HIDE DEF Good
  <1>2. \A T \in SUBSET I : T \in Good
    BY <1>1, SubsetInduction
  <1> QED BY <1>2 DEF Good

\* Its elements can be taken in any order.
LEMMA SumTakes ==
    ASSUME NEW g, NEW I, IsFiniteSet(I), \A x \in I : g[x] \in Int, NEW y \in I
    PROVE  SumFunctionOnSet(g, I) = g[y] + SumFunctionOnSet(g, I \ {y})
  <1> DEFINE S(T) == SumFunctionOnSet(g, T)
             Good == {T \in SUBSET I : \A x \in T : S(T) = g[x] + S(T \ {x})}
  <1>0. \A T \in SUBSET I : S(T) \in Int
    BY SumIsInt
  <1>1. ASSUME NEW T \in SUBSET I, \A x \in T : T \ {x} \in Good
        PROVE  T \in Good
    <2> SUFFICES ASSUME NEW x \in T PROVE S(T) = g[x] + S(T \ {x})
      OBVIOUS
    <2> DEFINE p == Pick(T)
    <2>1. p \in T
      BY PickIsIn
    <2>2. S(T) = g[p] + S(T \ {p})
      BY FS_Subset, SumPicks
    <2> HIDE DEF S, p
    <2>3. CASE x = p
      BY <2>2, <2>3
    <2>4. CASE x # p
      <3>1. x \in T \ {p} /\ p \in T \ {x} /\ T \ {x} \in Good /\ T \ {p} \in Good
        BY <1>1, <2>1, <2>4
      <3>2. (T \ {p}) \ {x} = (T \ {x}) \ {p}
        OBVIOUS
      <3>3. S(T \ {p}) = g[x] + S((T \ {p}) \ {x})
        BY <3>1
      <3>4. S(T \ {x}) = g[p] + S((T \ {x}) \ {p})
        BY <3>1
      <3>5. g[x] \in Int /\ g[p] \in Int /\ S((T \ {x}) \ {p}) \in Int
        BY <1>0, <2>1
      <3> HIDE DEF Good
      <3>6. S(T \ {p}) = g[x] + S((T \ {x}) \ {p})
        BY <3>2, <3>3
      <3>7. \A a, b, c \in Int : a + (b + c) = b + (a + c)
        OBVIOUS
      <3>8. g[p] + (g[x] + S((T \ {x}) \ {p})) = g[x] + (g[p] + S((T \ {x}) \ {p}))
        BY <3>5, <3>7
      <3> QED BY <2>2, <3>4, <3>6, <3>8
    <2> QED BY <2>3, <2>4
  <1> HIDE DEF Good
  <1>2. \A T \in SUBSET I : T \in Good
    BY <1>1, SubsetInduction
  <1> QED BY <1>2 DEF Good

\* Functions that agree have the same sum.
LEMMA SumSame ==
    ASSUME NEW g, NEW h, NEW I, IsFiniteSet(I), \A x \in I : g[x] = h[x]
    PROVE  SumFunctionOnSet(g, I) = SumFunctionOnSet(h, I)
  <1> DEFINE Good == {T \in SUBSET I : SumFunctionOnSet(g, T) = SumFunctionOnSet(h, T)}
  <1>1. ASSUME NEW T \in SUBSET I, \A x \in T : T \ {x} \in Good
        PROVE  T \in Good
    <2>1. CASE T = {}
      BY <2>1, SumOfNone
    <2>2. CASE T # {}
      <3>1. /\ g[Pick(T)] = h[Pick(T)]
            /\ SumFunctionOnSet(g, T \ {Pick(T)}) = SumFunctionOnSet(h, T \ {Pick(T)})
        BY <1>1, <2>2, PickIsIn
      <3>2. /\ SumFunctionOnSet(g, T) = g[Pick(T)] + SumFunctionOnSet(g, T \ {Pick(T)})
            /\ SumFunctionOnSet(h, T) = h[Pick(T)] + SumFunctionOnSet(h, T \ {Pick(T)})
        BY <2>2, FS_Subset, SumPicks
      <3> QED BY <3>1, <3>2
    <2> QED BY <2>1, <2>2
  <1> HIDE DEF Good
  <1>2. \A T \in SUBSET I : T \in Good
    BY <1>1, SubsetInduction
  <1> QED BY <1>2 DEF Good

\* Terms that are 0 can be left out.
LEMMA SumSkipsZeros ==
    ASSUME NEW g, NEW I, IsFiniteSet(I), \A x \in I : g[x] \in Int,
           NEW J \in SUBSET I, \A x \in I \ J : g[x] = 0
    PROVE  SumFunctionOnSet(g, I) = SumFunctionOnSet(g, J)
  <1> DEFINE S(T) == SumFunctionOnSet(g, T)
             Good == {T \in SUBSET I : S(T) = S(T \cap J)}
  <1>1. ASSUME NEW T \in SUBSET I, \A x \in T : T \ {x} \in Good
        PROVE  T \in Good
    <2>1. CASE T \in SUBSET J
      <3>1. T \cap J = T
        BY <2>1
      <3> QED BY <3>1
    <2>2. CASE T \notin SUBSET J
      <3>1. PICK x \in T : x \notin J
        BY <2>2
      <3>2. S(T) = g[x] + S(T \ {x}) /\ S(T \ {x}) \in Int
        BY FS_Subset, SumTakes, SumIsInt
      <3>3. S(T \ {x}) = S((T \ {x}) \cap J)
        BY <1>1
      <3>4. (T \ {x}) \cap J = T \cap J
        BY <3>1
      <3>5. g[x] = 0
        BY <3>1
      <3> HIDE DEF S
      <3>6. S(T) = S(T \ {x})
        BY <3>2, <3>5
      <3> QED BY <3>3, <3>4, <3>6
    <2> QED BY <2>1, <2>2
  <1>2. \A T \in SUBSET I : (\A x \in T : T \ {x} \in Good) => T \in Good
    BY <1>1
  <1>3. I \cap J = J
    OBVIOUS
  <1> HIDE DEF Good
  <1>4. \A T \in SUBSET I : T \in Good
    BY <1>2, SubsetInduction
  <1>5. I \in Good
    BY <1>4
  <1> QED BY <1>3, <1>5 DEF Good

\* The sum of sums.
LEMMA SumAdds ==
    ASSUME NEW g, NEW h, NEW k, NEW I, IsFiniteSet(I),
           \A x \in I : g[x] \in Int /\ h[x] \in Int /\ k[x] = g[x] + h[x]
    PROVE  SumFunctionOnSet(k, I) = SumFunctionOnSet(g, I) + SumFunctionOnSet(h, I)
  <1> DEFINE G(T) == SumFunctionOnSet(g, T)
             H(T) == SumFunctionOnSet(h, T)
             K(T) == SumFunctionOnSet(k, T)
             Good == {T \in SUBSET I : K(T) = G(T) + H(T)}
  <1>0. \A T \in SUBSET I : G(T) \in Int /\ H(T) \in Int
    BY SumIsInt
  <1>1. ASSUME NEW T \in SUBSET I, \A x \in T : T \ {x} \in Good
        PROVE  T \in Good
    <2>1. CASE T = {}
      <3>1. K(T) = 0 /\ G(T) = 0 /\ H(T) = 0
        BY <2>1, SumOfNone
      <3> HIDE DEF K, G, H
      <3> QED BY <3>1
    <2>2. CASE T # {}
      <3> DEFINE p == Pick(T)
      <3>1. p \in T
        BY <2>2, PickIsIn
      <3>2. /\ G(T) = g[p] + G(T \ {p})
            /\ H(T) = h[p] + H(T \ {p})
            /\ K(T) = k[p] + K(T \ {p})
        BY <2>2, FS_Subset, SumPicks
      <3> HIDE DEF K, G, H, p
      <3>3. K(T \ {p}) = G(T \ {p}) + H(T \ {p})
        BY <1>1, <3>1
      <3>4. g[p] \in Int /\ h[p] \in Int /\ k[p] = g[p] + h[p]
        BY <3>1
      <3>5. G(T \ {p}) \in Int /\ H(T \ {p}) \in Int
        BY <1>0
      <3> QED BY <3>2, <3>3, <3>4, <3>5
    <2> QED BY <2>1, <2>2
  <1>2. \A T \in SUBSET I : (\A x \in T : T \ {x} \in Good) => T \in Good
    BY <1>1
  <1> HIDE DEF Good
  <1>3. \A T \in SUBSET I : T \in Good
    BY <1>2, SubsetInduction
  <1>4. I \in Good
    BY <1>3
  <1> QED BY <1>4 DEF Good

\* One term changes.
LEMMA SumChanges ==
    ASSUME NEW g, NEW h, NEW I, IsFiniteSet(I),
           \A x \in I : g[x] \in Int /\ h[x] \in Int,
           NEW y \in I, \A x \in I \ {y} : h[x] = g[x]
    PROVE  SumFunctionOnSet(h, I) = SumFunctionOnSet(g, I) + (h[y] - g[y])
  <1>1. /\ SumFunctionOnSet(g, I) = g[y] + SumFunctionOnSet(g, I \ {y})
        /\ SumFunctionOnSet(h, I) = h[y] + SumFunctionOnSet(h, I \ {y})
    BY SumTakes
  <1>2. SumFunctionOnSet(h, I \ {y}) = SumFunctionOnSet(g, I \ {y})
    BY FS_Subset, SumSame
  <1>3. SumFunctionOnSet(g, I \ {y}) \in Int
    BY SumIsInt
  <1> QED BY <1>1, <1>2, <1>3

\* One term is added.
LEMMA SumGrows ==
    ASSUME NEW g, NEW h, NEW I, IsFiniteSet(I), NEW y, y \notin I,
           \A x \in I : g[x] \in Int /\ h[x] = g[x], h[y] \in Int
    PROVE  SumFunctionOnSet(h, I \cup {y}) = SumFunctionOnSet(g, I) + h[y]
  <1>1. IsFiniteSet(I \cup {y}) /\ (I \cup {y}) \ {y} = I
    BY FS_AddElement
  <1>2. SumFunctionOnSet(h, I \cup {y}) = h[y] + SumFunctionOnSet(h, (I \cup {y}) \ {y})
    BY <1>1, SumTakes
  <1>3. SumFunctionOnSet(h, I) = SumFunctionOnSet(g, I)
    BY SumSame
  <1>4. SumFunctionOnSet(g, I) \in Int
    BY SumIsInt
  <1>5. SumFunctionOnSet(h, I \cup {y}) = h[y] + SumFunctionOnSet(h, I)
    BY <1>1, <1>2
  <1> QED BY <1>3, <1>4, <1>5

\* No term is smaller.
LEMMA SumIsMonotone ==
    ASSUME NEW g, NEW h, NEW I, IsFiniteSet(I),
           \A x \in I : g[x] \in Int /\ h[x] \in Int /\ g[x] <= h[x]
    PROVE  SumFunctionOnSet(g, I) <= SumFunctionOnSet(h, I)
  <1> DEFINE G(T) == SumFunctionOnSet(g, T)
             H(T) == SumFunctionOnSet(h, T)
             Good == {T \in SUBSET I : G(T) <= H(T)}
  <1>0. \A T \in SUBSET I : G(T) \in Int /\ H(T) \in Int
    BY SumIsInt
  <1>1. ASSUME NEW T \in SUBSET I, \A x \in T : T \ {x} \in Good
        PROVE  T \in Good
    <2>1. CASE T = {}
      <3>1. G(T) = 0 /\ H(T) = 0
        BY <2>1, SumOfNone
      <3> HIDE DEF G, H
      <3> QED BY <3>1
    <2>2. CASE T # {}
      <3> DEFINE p == Pick(T)
      <3>1. p \in T
        BY <2>2, PickIsIn
      <3>2. /\ G(T) = g[p] + G(T \ {p})
            /\ H(T) = h[p] + H(T \ {p})
        BY <2>2, FS_Subset, SumPicks
      <3> HIDE DEF G, H, p
      <3>3. G(T \ {p}) <= H(T \ {p})
        BY <1>1, <3>1
      <3>4. g[p] \in Int /\ h[p] \in Int /\ g[p] <= h[p]
        BY <3>1
      <3>5. G(T \ {p}) \in Int /\ H(T \ {p}) \in Int
        BY <1>0
      <3> QED BY <3>2, <3>3, <3>4, <3>5
    <2> QED BY <2>1, <2>2
  <1>2. \A T \in SUBSET I : (\A x \in T : T \ {x} \in Good) => T \in Good
    BY <1>1
  <1> HIDE DEF Good
  <1>3. \A T \in SUBSET I : T \in Good
    BY <1>2, SubsetInduction
  <1>4. I \in Good
    BY <1>3
  <1> QED BY <1>4 DEF Good

-----------------------------------------------------------------------------
(* Totals: the sum of all values of a function                               *)

LEMMA TotalIsInt ==
    ASSUME NEW I, IsFiniteSet(I), NEW f \in [I -> Int]
    PROVE  SumFunction(f) \in Int
  <1>1. \A x \in I : f[x] \in Int
    OBVIOUS
  <1>2. SumFunctionOnSet(f, I) \in Int
    BY <1>1, SumIsInt
  <1> QED BY <1>2 DEF SumFunction

\* One value is replaced.
LEMMA TotalUpdated ==
    ASSUME NEW I, IsFiniteSet(I), NEW f \in [I -> Int], NEW i \in I, NEW v \in Int
    PROVE  SumFunction([f EXCEPT ![i] = v]) = SumFunction(f) + (v - f[i])
  <1> DEFINE h == [f EXCEPT ![i] = v]
  <1>1. /\ \A x \in I : f[x] \in Int /\ h[x] \in Int
        /\ h[i] = v /\ \A x \in I \ {i} : h[x] = f[x]
        /\ DOMAIN h = I /\ DOMAIN f = I
    OBVIOUS
  <1> HIDE DEF h
  <1>2. SumFunctionOnSet(h, I) = SumFunctionOnSet(f, I) + (h[i] - f[i])
    BY <1>1, SumChanges
  <1>3. SumFunction(h) = SumFunction(f) + (v - f[i])
    BY <1>1, <1>2 DEF SumFunction
  <1> QED BY <1>3 DEF h

\* A function changes in one value only.
LEMMA TotalChanges ==
    ASSUME NEW I, IsFiniteSet(I), NEW f \in [I -> Int], NEW h \in [I -> Int], NEW i \in I,
           \A x \in I \ {i} : h[x] = f[x]
    PROVE  SumFunction(h) = SumFunction(f) + (h[i] - f[i])
  <1>1. \A x \in I : f[x] \in Int /\ h[x] \in Int
    OBVIOUS
  <1>2. SumFunctionOnSet(h, I) = SumFunctionOnSet(f, I) + (h[i] - f[i])
    BY <1>1, SumChanges
  <1>3. DOMAIN h = I /\ DOMAIN f = I
    OBVIOUS
  <1> QED BY <1>2, <1>3 DEF SumFunction

\* A sequence grows.
LEMMA TotalAppended ==
    ASSUME NEW s \in Seq(Int), NEW v \in Int
    PROVE  SumFunction(Append(s, v)) = SumFunction(s) + v
  <1> DEFINE n == Len(s)
             h == Append(s, v)
  <1>1. /\ n \in Nat /\ DOMAIN s = 1 .. n /\ DOMAIN h = 1 .. (n + 1)
        /\ \A x \in 1 .. n : s[x] \in Int /\ h[x] = s[x]
        /\ h[n + 1] = v
    OBVIOUS
  <1> HIDE DEF n, h
  <1>2. IsFiniteSet(1 .. n)
    BY <1>1, FS_Interval
  <1>3. n + 1 \notin 1 .. n /\ 1 .. (n + 1) = (1 .. n) \cup {n + 1}
    BY <1>1
  <1>4. SumFunctionOnSet(h, (1 .. n) \cup {n + 1}) = SumFunctionOnSet(s, 1 .. n) + h[n + 1]
    <2> DEFINE I == 1 .. n
               y == n + 1
    <2>1. /\ IsFiniteSet(I) /\ y \notin I /\ h[y] \in Int
          /\ \A x \in I : s[x] \in Int /\ h[x] = s[x]
      BY <1>1, <1>2, <1>3
    <2> HIDE DEF I, y
    <2>2. SumFunctionOnSet(h, I \cup {y}) = SumFunctionOnSet(s, I) + h[y]
      BY <2>1, SumGrows
    <2> QED BY <2>2 DEF I, y
  <1>5. SumFunction(h) = SumFunction(s) + v
    BY <1>1, <1>3, <1>4 DEF SumFunction
  <1> QED BY <1>5 DEF h

LEMMA TotalOfSeqIsInt ==
    ASSUME NEW s \in Seq(Int)
    PROVE  SumFunction(s) \in Int
  <1>1. s \in [1 .. Len(s) -> Int] /\ Len(s) \in Nat
    OBVIOUS
  <1>2. IsFiniteSet(1 .. Len(s))
    BY <1>1, FS_Interval
  <1> QED BY <1>1, <1>2, TotalIsInt

LEMMA TotalOfZeros ==
    ASSUME NEW I, IsFiniteSet(I), NEW f \in [I -> Int], \A x \in I : f[x] = 0
    PROVE  SumFunction(f) = 0
  <1>1. \A x \in I : f[x] \in Int
    OBVIOUS
  <1>2. SumFunctionOnSet(f, I) = SumFunctionOnSet(f, {})
    BY <1>1, SumSkipsZeros
  <1>3. SumFunctionOnSet(f, I) = 0
    BY <1>2, SumOfNone
  <1> QED BY <1>3 DEF SumFunction

-----------------------------------------------------------------------------
(* Sums of a part of a sequence                                              *)

\* Induction over the naturals, for a set of good numbers.
LEMMA NaturalsInductive ==
    ASSUME NEW Good, 0 \in Good, \A n \in Nat : n \in Good => n + 1 \in Good
    PROVE  \A n \in Nat : n \in Good
  <1> SUFFICES ASSUME NEW k \in Nat, k \notin Good PROVE FALSE
    OBVIOUS
  <1> DEFINE Bad == {n \in Nat : n \notin Good}
  <1>1. PICK n \in Bad : \A m \in Bad : n <= m
    <2>1. Bad \in SUBSET Nat /\ Bad # {}
      OBVIOUS
    <2> QED BY <2>1, LeastNatural
  <1>2. n \in Nat /\ n # 0 /\ n \notin Good
    BY <1>1
  <1>3. n - 1 \in Nat /\ ~(n <= n - 1)
    BY <1>2
  <1>4. n - 1 \notin Bad
    BY <1>1, <1>3
  <1>5. n - 1 \in Good /\ (n - 1) + 1 = n
    BY <1>2, <1>3, <1>4
  <1> QED BY <1>2, <1>3, <1>5

\* The sum of the first i elements.
Upto(s, i) == SumFunctionOnSet(s, 1 .. i)

LEMMA UptoFacts ==
    ASSUME NEW s \in Seq(Int)
    PROVE  /\ Upto(s, 0) = 0
           /\ \A i \in 0 .. Len(s) : Upto(s, i) \in Int
           /\ \A i \in 0 .. Len(s) - 1 : Upto(s, i + 1) = Upto(s, i) + s[i + 1]
           /\ SumFunction(s) = Upto(s, Len(s))
  <1>1. Len(s) \in Nat /\ DOMAIN s = 1 .. Len(s) /\ \A i \in 1 .. Len(s) : s[i] \in Int
    OBVIOUS
  <1>2. Upto(s, 0) = 0
    <2>1. 1 .. 0 = {}
      OBVIOUS
    <2> QED BY <2>1, SumOfNone DEF Upto
  <1>3. ASSUME NEW i \in 0 .. Len(s) PROVE Upto(s, i) \in Int
    <2> DEFINE I == 1 .. i
    <2>1. IsFiniteSet(I) /\ \A x \in I : s[x] \in Int
      BY <1>1, FS_Interval
    <2> HIDE DEF I
    <2>2. SumFunctionOnSet(s, I) \in Int
      BY <2>1, SumIsInt
    <2> QED BY <2>2 DEF I, Upto
  <1>4. ASSUME NEW i \in 0 .. Len(s) - 1 PROVE Upto(s, i + 1) = Upto(s, i) + s[i + 1]
    <2> DEFINE I == 1 .. i
               y == i + 1
    <2>1. /\ y \notin I /\ s[y] \in Int /\ 1 .. y = I \cup {y}
          /\ \A x \in I : s[x] \in Int
      BY <1>1
    <2>2. IsFiniteSet(I)
      BY <1>1, FS_Interval
    <2> HIDE DEF I, y
    <2>3. SumFunctionOnSet(s, I \cup {y}) = SumFunctionOnSet(s, I) + s[y]
      BY <2>1, <2>2, SumGrows
    <2> QED BY <2>1, <2>3 DEF I, y, Upto
  <1>5. SumFunction(s) = Upto(s, Len(s))
    BY <1>1 DEF SumFunction, Upto
  <1> QED BY <1>2, <1>3, <1>4, <1>5

\* The sum of a slice is the difference of two sums from the start.
LEMMA TotalOfSlice ==
    ASSUME NEW s \in Seq(Int), NEW a \in 0 .. Len(s), NEW b \in a .. Len(s)
    PROVE  SumFunction(SubSeq(s, a + 1, b)) = Upto(s, b) - Upto(s, a)
  <1> DEFINE Slice(m) == SubSeq(s, a + 1, a + m)
             Good == {m \in Nat : a + m <= Len(s) =>
                          SumFunction(Slice(m)) = Upto(s, a + m) - Upto(s, a)}
  <1>1. Len(s) \in Nat /\ \A i \in 1 .. Len(s) : s[i] \in Int
    OBVIOUS
  <1>2. 0 \in Good
    <2>1. Slice(0) = << >> /\ a + 0 = a
      OBVIOUS
    <2>2. SumFunction(<< >>) = 0
      <3>1. DOMAIN << >> = {}
        OBVIOUS
      <3> QED BY <3>1, SumOfNone DEF SumFunction
    <2>3. Upto(s, a) \in Int
      BY UptoFacts
    <2> HIDE DEF Slice
    <2>4. SumFunction(Slice(0)) = Upto(s, a + 0) - Upto(s, a)
      BY <2>1, <2>2, <2>3
    <2> QED BY <2>4
  <1>3. ASSUME NEW m \in Nat, m \in Good PROVE m + 1 \in Good
    <2> SUFFICES ASSUME a + (m + 1) <= Len(s)
                 PROVE  SumFunction(Slice(m + 1)) = Upto(s, a + (m + 1)) - Upto(s, a)
      OBVIOUS
    <2>1. /\ a + m \in 0 .. Len(s) - 1 /\ a + m \in 0 .. Len(s) /\ a + (m + 1) = (a + m) + 1
          /\ s[(a + m) + 1] \in Int /\ a + 1 \in 1 .. Len(s) + 1
      BY <1>1
    <2>2. SumFunction(Slice(m)) = Upto(s, a + m) - Upto(s, a)
      BY <1>3, <2>1
    <2>3. Slice(m) \in Seq(Int) /\ Slice(m + 1) = Append(Slice(m), s[(a + m) + 1])
      <3>1. /\ Slice(m) \in Seq(Int) /\ Len(Slice(m)) = m
            /\ \A i \in 1 .. m : Slice(m)[i] = s[a + i]
        BY <1>1, <2>1
      <3>2. /\ Slice(m + 1) \in Seq(Int) /\ Len(Slice(m + 1)) = m + 1
            /\ \A i \in 1 .. m + 1 : Slice(m + 1)[i] = s[a + i]
        BY <1>1, <2>1
      <3> HIDE DEF Slice
      <3> DEFINE part == Slice(m)
                 more == Append(part, s[(a + m) + 1])
      <3>3. part \in Seq(Int) /\ Len(part) = m /\ \A i \in 1 .. m : part[i] = s[a + i]
        BY <3>1
      <3> HIDE DEF part
      <3>4. /\ more \in Seq(Int) /\ Len(more) = m + 1 /\ more[m + 1] = s[(a + m) + 1]
            /\ \A i \in 1 .. m : more[i] = part[i]
        BY <2>1, <3>3, AppendProperties
      <3> HIDE DEF more
      <3>5. \A i \in 1 .. m + 1 : more[i] = s[a + i]
        <4> SUFFICES ASSUME NEW i \in 1 .. m + 1 PROVE more[i] = s[a + i]
          OBVIOUS
        <4>1. CASE i = m + 1
          <5>1. a + i = (a + m) + 1
            BY <4>1
          <5> QED BY <3>4, <4>1, <5>1
        <4>2. CASE i # m + 1
          <5>1. i \in 1 .. m
            BY <4>2
          <5> QED BY <3>3, <3>4, <5>1
        <4> QED BY <4>1, <4>2
      <3>6. Slice(m + 1) = more
        <4>1. \A i \in 1 .. m + 1 : Slice(m + 1)[i] = more[i]
          BY <3>2, <3>5
        <4> QED BY <3>2, <3>4, <4>1, SeqEqual
      <3> QED BY <3>1, <3>6 DEF more, part
    <2>4. SumFunction(Slice(m + 1)) = SumFunction(Slice(m)) + s[(a + m) + 1]
      BY <2>1, <2>3, TotalAppended
    <2>5. /\ Upto(s, (a + m) + 1) = Upto(s, a + m) + s[(a + m) + 1]
          /\ Upto(s, a + m) \in Int /\ Upto(s, a) \in Int
      BY <2>1, UptoFacts
    <2> HIDE DEF Slice
    <2> QED BY <2>1, <2>2, <2>4, <2>5
  <1> HIDE DEF Good
  <1>4. \A m \in Nat : m \in Good
    BY <1>2, <1>3, NaturalsInductive
  <1>5. b - a \in Good /\ a + (b - a) = b /\ b <= Len(s)
    BY <1>1, <1>4
  <1> QED BY <1>5 DEF Good

-----------------------------------------------------------------------------
(* Sorting.  What is sorted is put at the rank that the order R, a set of    *)
(* pairs, gives it.                                                          *)

StrictOrder(S, R) ==
    /\ IsFiniteSet(S)
    /\ \A x \in S : <<x, x>> \notin R
    /\ \A x, y \in S : x = y \/ <<x, y>> \in R \/ <<y, x>> \in R
    /\ \A x, y, z \in S : <<x, y>> \in R /\ <<y, z>> \in R => <<x, z>> \in R

Under(S, R, x) == {y \in S : <<y, x>> \in R}
RankBy(S, R, x) == Cardinality(Under(S, R, x))
Arranged(S, R) == [i \in 1 .. Cardinality(S) |-> CHOOSE x \in S : RankBy(S, R, x) = i - 1]

\* Ranks rise with the order, so no two are alike and every one is taken.
LEMMA RanksTaken ==
    ASSUME NEW S, NEW R, StrictOrder(S, R)
    PROVE  /\ Cardinality(S) \in Nat
           /\ \A x \in S : RankBy(S, R, x) \in 0 .. Cardinality(S) - 1
           /\ \A x, y \in S : <<x, y>> \in R => RankBy(S, R, x) < RankBy(S, R, y)
           /\ \A x, y \in S : RankBy(S, R, x) = RankBy(S, R, y) => x = y
           /\ \A k \in 0 .. Cardinality(S) - 1 : \E x \in S : RankBy(S, R, x) = k
<1> DEFINE n == Cardinality(S)
<1>1. IsFiniteSet(S) /\ n \in Nat
  BY FS_CardinalityType DEF StrictOrder
<1>2. \A x \in S : Under(S, R, x) \in SUBSET (S \ {x})
  BY DEF Under, StrictOrder
<1>3. \A x \in S : IsFiniteSet(S \ {x}) /\ Cardinality(S \ {x}) = n - 1
  BY <1>1, FS_RemoveElement
<1>4. \A x \in S : /\ IsFiniteSet(Under(S, R, x)) /\ Cardinality(Under(S, R, x)) <= Cardinality(S \ {x})
                   /\ Cardinality(Under(S, R, x)) \in Nat
  BY <1>2, <1>3, FS_Subset, FS_CardinalityType
<1>5. \A x \in S : RankBy(S, R, x) \in Nat /\ RankBy(S, R, x) <= n - 1
  BY <1>3, <1>4 DEF RankBy
<1>6. ASSUME NEW x \in S, NEW y \in S, <<x, y>> \in R
      PROVE  RankBy(S, R, x) < RankBy(S, R, y)
  <2>1. Under(S, R, x) \in SUBSET Under(S, R, y)
    BY <1>6 DEF Under, StrictOrder
  <2>2. x \in Under(S, R, y) /\ x \notin Under(S, R, x)
    BY <1>6 DEF Under, StrictOrder
  <2>3. Under(S, R, y) # Under(S, R, x)
    BY <2>2
  <2>4. /\ Cardinality(Under(S, R, x)) <= Cardinality(Under(S, R, y))
        /\ Cardinality(Under(S, R, y)) = Cardinality(Under(S, R, x)) => Under(S, R, y) = Under(S, R, x)
    BY <1>4, <2>1, FS_Subset
  <2>5. RankBy(S, R, x) <= RankBy(S, R, y) /\ RankBy(S, R, x) # RankBy(S, R, y)
    BY <2>3, <2>4 DEF RankBy
  <2> QED BY <1>5, <2>5
<1>7. ASSUME NEW x \in S, NEW y \in S, RankBy(S, R, x) = RankBy(S, R, y)
      PROVE  x = y
  <2>1. CASE <<x, y>> \in R
    BY <1>5, <1>6, <1>7, <2>1
  <2>2. CASE <<y, x>> \in R
    BY <1>5, <1>6, <1>7, <2>2
  <2> QED BY <2>1, <2>2 DEF StrictOrder
<1> DEFINE ranks == 0 .. n - 1
           f == [x \in S |-> RankBy(S, R, x)]
<1>8. \A x \in S : RankBy(S, R, x) \in ranks
  BY <1>1, <1>5
<1>9. IsFiniteSet(ranks) /\ Cardinality(ranks) = n
  <2>1. 0 \in Int /\ n - 1 \in Int
    BY <1>1
  <2>2. /\ IsFiniteSet(0 .. n - 1)
        /\ Cardinality(0 .. n - 1) = IF 0 > n - 1 THEN 0 ELSE (n - 1) - 0 + 1
    BY <2>1, FS_Interval
  <2> QED BY <1>1, <2>2
<1> HIDE DEF ranks
<1>10. f \in Injection(S, ranks)
  BY <1>7, <1>8 DEF Injection, IsInjective
<1> HIDE DEF f
<1>11. f \in Surjection(S, ranks)
  BY <1>1, <1>9, <1>10, FS_Injection
<1>12. \A k \in ranks : \E x \in S : RankBy(S, R, x) = k
  BY <1>11 DEF Surjection, f
<1> QED BY <1>1, <1>6, <1>7, <1>8, <1>12 DEF ranks

\* Sorted: every element once, and one after the other in the order.
LEMMA ArrangedFacts ==
    ASSUME NEW S, NEW R, StrictOrder(S, R)
    PROVE  /\ Arranged(S, R) \in Seq(S) /\ Len(Arranged(S, R)) = Cardinality(S)
           /\ Cardinality(S) \in Nat
           /\ \A i \in 1 .. Cardinality(S) :
                 Arranged(S, R)[i] \in S /\ RankBy(S, R, Arranged(S, R)[i]) = i - 1
           /\ \A i \in 1 .. Cardinality(S), x \in S : RankBy(S, R, x) = i - 1 => Arranged(S, R)[i] = x
           /\ \A x \in S : \E i \in 1 .. Cardinality(S) : Arranged(S, R)[i] = x
           /\ \A i, j \in 1 .. Cardinality(S) : i < j => <<Arranged(S, R)[i], Arranged(S, R)[j]>> \in R
<1> DEFINE n == Cardinality(S)
           At(i) == CHOOSE x \in S : RankBy(S, R, x) = i - 1
<1>1. /\ n \in Nat
      /\ \A x \in S : RankBy(S, R, x) \in 0 .. n - 1
      /\ \A x, y \in S : RankBy(S, R, x) = RankBy(S, R, y) => x = y
      /\ \A x, y \in S : <<x, y>> \in R => RankBy(S, R, x) < RankBy(S, R, y)
      /\ \A k \in 0 .. n - 1 : \E x \in S : RankBy(S, R, x) = k
  BY RanksTaken
<1>2. Arranged(S, R) = [i \in 1 .. n |-> At(i)]
  BY DEF Arranged
<1>3. ASSUME NEW i \in 1 .. n
      PROVE  At(i) \in S /\ RankBy(S, R, At(i)) = i - 1
  <2>1. i - 1 \in 0 .. n - 1
    BY <1>1
  <2>2. \E x \in S : RankBy(S, R, x) = i - 1
    BY <1>1, <2>1
  <2> QED BY <2>2
<1> HIDE DEF At
<1>4. \A i \in 1 .. n : Arranged(S, R)[i] = At(i)
  BY <1>2
<1>5. Arranged(S, R) \in Seq(S) /\ Len(Arranged(S, R)) = n
  BY <1>1, <1>2, <1>3
<1>6. ASSUME NEW x \in S
      PROVE  \E i \in 1 .. n : At(i) = x
  <2> DEFINE k == RankBy(S, R, x)
  <2>1. k \in 0 .. n - 1
    BY <1>1
  <2> HIDE DEF k
  <2>2. k + 1 \in 1 .. n /\ (k + 1) - 1 = k
    BY <1>1, <2>1
  <2>3. At(k + 1) = x
    BY <1>1, <1>3, <2>2 DEF k
  <2> QED BY <2>2, <2>3
<1>7. ASSUME NEW i \in 1 .. n, NEW j \in 1 .. n, i < j
      PROVE  <<At(i), At(j)>> \in R
  <2>1. At(i) \in S /\ At(j) \in S /\ RankBy(S, R, At(i)) = i - 1 /\ RankBy(S, R, At(j)) = j - 1
    BY <1>3
  <2>2. At(i) # At(j)
    BY <1>7, <2>1
  <2>3. CASE <<At(j), At(i)>> \in R
    BY <1>1, <1>7, <2>1, <2>3
  <2> QED BY <2>1, <2>2, <2>3 DEF StrictOrder
<1> QED BY <1>1, <1>3, <1>4, <1>5, <1>6, <1>7


\* Everything has a place, and the places follow the order.
LEMMA ArrangedInOrder ==
    ASSUME NEW S, NEW R, StrictOrder(S, R)
    PROVE  /\ \A x \in S : \E i \in 1 .. Cardinality(S) : Arranged(S, R)[i] = x
           /\ \A i, j \in 1 .. Cardinality(S) :
                 i < j => <<Arranged(S, R)[i], Arranged(S, R)[j]>> \in R
<1> DEFINE n == Cardinality(S)
           s == Arranged(S, R)
<1>1. /\ n \in Nat
      /\ \A i \in 1 .. n : s[i] \in S /\ RankBy(S, R, s[i]) = i - 1
      /\ \A i \in 1 .. n, x \in S : RankBy(S, R, x) = i - 1 => s[i] = x
  BY ArrangedFacts
<1>2. /\ \A x \in S : RankBy(S, R, x) \in 0 .. n - 1
      /\ \A x, y \in S : <<x, y>> \in R => RankBy(S, R, x) < RankBy(S, R, y)
  BY RanksTaken
<1>3. \A x, y \in S : x = y \/ <<x, y>> \in R \/ <<y, x>> \in R
  BY DEF StrictOrder
<1> HIDE DEF n, s
<1>4. ASSUME NEW x \in S PROVE \E i \in 1 .. n : s[i] = x
  <2>1. RankBy(S, R, x) + 1 \in 1 .. n /\ RankBy(S, R, x) = (RankBy(S, R, x) + 1) - 1
    BY <1>1, <1>2
  <2> QED BY <1>1, <2>1
<1>5. ASSUME NEW i \in 1 .. n, NEW j \in 1 .. n, i < j PROVE <<s[i], s[j]>> \in R
  <2> DEFINE x == s[i]
             y == s[j]
  <2>1. x \in S /\ y \in S /\ RankBy(S, R, x) = i - 1 /\ RankBy(S, R, y) = j - 1
    BY <1>1
  <2>2. i \in Int /\ j \in Int
    BY <1>1
  <2> HIDE DEF x, y
  <2>3. x # y
    BY <1>5, <2>1, <2>2
  <2>4. <<y, x>> \notin R
    BY <1>2, <1>5, <2>1, <2>2
  <2>5. <<x, y>> \in R
    BY <1>3, <2>1, <2>3, <2>4
  <2> QED BY <2>5 DEF x, y
<1> QED BY <1>4, <1>5 DEF n, s
=============================================================================
