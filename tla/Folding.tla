-------------------------------- MODULE Folding --------------------------------
(* Facts about folds over sequences, for an operator Op(c, acc, x) with a      *)
(* parameter c, and induction over numbers in the form of sets.  A module that *)
(* proves something about a fold instantiates this one with its operator.      *)
EXTENDS SequencesExt, FiniteSetTheorems, WellFoundedInduction, TLAPS

CONSTANT Op(_, _, _)

Folded(c, base, s) == FoldLeft(LAMBDA acc, x : Op(c, acc, x), base, s)

-------------------------------------------------------------------------------
(* Induction.                                                                  *)

\* A set of numbers has a least one, since no chain of ever smaller intervals
\* goes on for ever.
LEMMA LeastNatural ==
    ASSUME NEW S \in SUBSET Nat, S # {}
    PROVE  \E n \in S : \A m \in S : n <= m
  <1> DEFINE Upto == {0..k : k \in S}
  <1>1. Upto \subseteq FiniteSubsetsOf(Nat) /\ Upto # {}
    <2>1. ASSUME NEW k \in S PROVE 0..k \subseteq Nat /\ IsFiniteSet(0..k)
      BY FS_Interval
    <2> QED
      BY <2>1 DEF FiniteSubsetsOf
  <1>2. PICK I \in Upto : \A J \in Upto : ~(<<J, I>> \in StrictSubsetOrdering(Nat))
    <2> HIDE DEF Upto
    <2> QED
      BY <1>1, FS_StrictSubsetOrderingWellFounded, WFMin
  <1>3. PICK k \in S : I = 0..k
    OBVIOUS
  <1>4. ASSUME NEW m \in S, ~(k <= m) PROVE FALSE
    <2>1. k \in Nat /\ m \in Nat /\ m < k
      BY <1>4
    <2>2. k \in 0..k /\ k \notin 0..m
      BY <2>1
    <2>3. 0..m \subseteq 0..k /\ 0..m # 0..k
      BY <2>1, <2>2
    <2>4. <<0..m, 0..k>> \in StrictSubsetOrdering(Nat)
      <3>1. 0..m \in SUBSET Nat /\ 0..k \in SUBSET Nat
        BY <2>1
      <3> QED
        BY <2>3, <3>1 DEF StrictSubsetOrdering
    <2> QED
      BY <1>2, <1>3, <2>4
  <1> QED
    BY <1>4

\* Induction over a set of numbers.
LEMMA SetInduction ==
    ASSUME NEW S, 0 \in S, \A n \in Nat : n \in S => n + 1 \in S
    PROVE  \A n \in Nat : n \in S
  <1> SUFFICES ASSUME Nat \ S # {} PROVE FALSE
    OBVIOUS
  <1>1. PICK n \in Nat \ S : \A m \in Nat \ S : n <= m
    BY LeastNatural
  <1>2. n # 0
    BY <1>1
  <1>3. n - 1 \in Nat /\ (n - 1) + 1 = n /\ ~(n <= n - 1)
    BY <1>2
  <1>4. n - 1 \in S
    BY <1>1, <1>3
  <1> QED
    BY <1>1, <1>3, <1>4

\* A set of numbers with a bound has a greatest one.
LEMMA GreatestNatural ==
    ASSUME NEW n \in Nat, NEW S \in SUBSET (0..n), S # {}
    PROVE  \E k \in S : \A m \in S : m <= k
  <1> DEFINE T == {n - k : k \in S}
  <1>1. T \in SUBSET Nat /\ T # {}
    <2>1. \A k \in S : n - k \in Nat
      OBVIOUS
    <2>2. PICK k \in S : TRUE
      OBVIOUS
    <2> QED
      BY <2>1, <2>2
  <1>2. PICK t \in T : \A u \in T : t <= u
    <2> HIDE DEF T
    <2> QED
      BY <1>1, LeastNatural
  <1>3. PICK k \in S : t = n - k
    OBVIOUS
  <1>4. ASSUME NEW m \in S PROVE m <= k
    <2>1. n - m \in T
      OBVIOUS
    <2>2. n - k <= n - m
      BY <1>2, <1>3, <2>1
    <2> QED
      BY <2>2
  <1> QED
    BY <1>4

-------------------------------------------------------------------------------
(* A fold goes from left to right.                                             *)

LEMMA MaxIsLast ==
    ASSUME NEW k \in Nat, NEW S \in SUBSET (1..(k + 1)), k + 1 \in S
    PROVE  Max(S) = k + 1
  <1>1. \A x \in S : (\A y \in S : x >= y) <=> x = k + 1
    OBVIOUS
  <1> QED
    BY <1>1 DEF Max

\* The states of a fold: f[k] is what the first k elements make of the base.
LEMMA FoldSteps ==
    ASSUME NEW c, NEW base, NEW s, NEW n \in Nat, DOMAIN s = 1..n
    PROVE  \E f : /\ f[0] = base
                  /\ \A k \in 0..(n - 1) : f[k + 1] = Op(c, f[k], s[k + 1])
                  /\ Folded(c, base, s) = f[n]
  <1> DEFINE R(g, S) == IF S = {} THEN base ELSE Op(c, g[S \ {Max(S)}], s[Max(S)])
             Defined(g, k) == g = [S \in SUBSET (1..k) |-> R(g, S)]
             Ks == {k \in Nat : \E g : Defined(g, k)}
  <1>1. 0 \in Ks
    <2> DEFINE g == [S \in SUBSET (1..0) |-> base]
    <2>1. \A S \in SUBSET (1..0) : S = {}
      OBVIOUS
    <2>2. Defined(g, 0)
      BY <2>1
    <2> QED
      BY <2>2
  <1>2. ASSUME NEW k \in Nat, k \in Ks PROVE k + 1 \in Ks
    <2>1. PICK g : Defined(g, k)
      BY <1>2
    <2> DEFINE h == [S \in SUBSET (1..(k + 1)) |->
                        IF k + 1 \in S THEN Op(c, g[S \ {k + 1}], s[k + 1]) ELSE g[S]]
    <2>2. \A S \in SUBSET (1..(k + 1)) : k + 1 \notin S => S \in SUBSET (1..k)
      OBVIOUS
    <2>3. \A S \in SUBSET (1..k) : h[S] = g[S] /\ g[S] = R(g, S)
      <3>1. \A S \in SUBSET (1..k) : S \in SUBSET (1..(k + 1)) /\ k + 1 \notin S
        OBVIOUS
      <3>2. \A S \in SUBSET (1..k) : h[S] = g[S]
        BY <3>1
      <3>3. \A S \in SUBSET (1..k) : g[S] = R(g, S)
        <4> HIDE DEF R
        <4> QED
          BY <2>1
      <3> QED
        BY <3>2, <3>3
    <2>4. ASSUME NEW S \in SUBSET (1..(k + 1)) PROVE h[S] = R(h, S)
      <3>1. CASE k + 1 \in S
        <4>1. Max(S) = k + 1 /\ S # {}
          BY <3>1, MaxIsLast
        <4>2. S \ {k + 1} \in SUBSET (1..k)
          OBVIOUS
        <4>3. h[S \ {k + 1}] = g[S \ {k + 1}]
          BY <2>3, <4>2
        <4>4. h[S] = Op(c, g[S \ {k + 1}], s[k + 1])
          BY <3>1
        <4> HIDE DEF h
        <4> QED
          BY <4>1, <4>3, <4>4
      <3>2. CASE k + 1 \notin S
        <4>1. S \in SUBSET (1..k) /\ S \ {Max(S)} \in SUBSET (1..k)
          BY <3>2, <2>2
        <4>2. h[S] = R(g, S) /\ h[S \ {Max(S)}] = g[S \ {Max(S)}]
          BY <2>3, <4>1
        <4> HIDE DEF h
        <4> QED
          BY <4>2
      <3> QED
        BY <3>1, <3>2
    <2>5. Defined(h, k + 1)
      <3>1. h = [S \in SUBSET (1..(k + 1)) |-> h[S]]
        OBVIOUS
      <3> HIDE DEF h, R
      <3> QED
        BY <3>1, <2>4
    <2>6. \E j : Defined(j, k + 1)
      <3> HIDE DEF h, Defined
      <3> QED
        BY <2>5
    <2> HIDE DEF Defined
    <2> QED
      BY <2>6
  <1>3. \A k \in Nat : k \in Ks
    <2> HIDE DEF Ks
    <2> QED
      BY <1>1, <1>2, SetInduction
  <1> DEFINE iter == CHOOSE g : Defined(g, n)
  <1>4. Defined(iter, n)
    <2>1. \E g : Defined(g, n)
      BY <1>3
    <2> HIDE DEF Defined
    <2> QED
      BY <2>1
  <1>5. Folded(c, base, s) = iter[1..n]
    BY DEF Folded, FoldLeft, MapThenFoldSet
  <1> HIDE DEF iter
  <1> DEFINE f == [k \in 0..n |-> iter[1..k]]
  <1>6. \A S \in SUBSET (1..n) : iter[S] = R(iter, S)
    <2> HIDE DEF R
    <2> QED
      BY <1>4
  <1>7. f[0] = base
    <2>1. 1..0 = {} /\ 1..0 \in SUBSET (1..n) /\ 0 \in 0..n
      OBVIOUS
    <2> QED
      BY <1>6, <2>1
  <1>8. ASSUME NEW k \in 0..(n - 1) PROVE f[k + 1] = Op(c, f[k], s[k + 1])
    <2>1. k \in Nat /\ 1..(k + 1) \in SUBSET (1..n) /\ k + 1 \in 1..(k + 1)
      OBVIOUS
    <2>2. Max(1..(k + 1)) = k + 1 /\ (1..(k + 1)) \ {k + 1} = 1..k
      BY <2>1, MaxIsLast
    <2>3. iter[1..(k + 1)] = Op(c, iter[1..k], s[k + 1])
      BY <1>6, <2>1, <2>2
    <2>4. f[k] = iter[1..k] /\ f[k + 1] = iter[1..(k + 1)]
      OBVIOUS
    <2> QED
      BY <2>3, <2>4
  <1>9. f[n] = iter[1..n]
    OBVIOUS
  <1> QED
    BY <1>5, <1>7, <1>8, <1>9
===============================================================================
