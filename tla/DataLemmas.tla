----------------------------- MODULE DataLemmas -----------------------------
(***************************************************************************)
(* Induction, for the proofs that need it, with sets in place of           *)
(* predicates; and what follows for largest elements and for sums.         *)
(***************************************************************************)
EXTENDS Integers, Functions, FiniteSetTheorems, WellFoundedInduction, TLAPS

(* A set of naturals has a least element.                                  *)
LEMMA LeastExists ==
  ASSUME NEW T, T \subseteq Nat, T # {}
  PROVE  \E n \in T : \A m \in T : n <= m
<1> DEFINE R == OpToRel(<, Nat)
<1>1. IsWellFoundedOn(R, Nat)
  BY NatLessThanWellFounded
<1>2. \A a, b \in Nat : a < b => <<a, b>> \in R
  BY DEF OpToRel
<1> HIDE DEF R
<1>3. PICK n \in T : \A m \in T : ~(<<m, n>> \in R)
  BY <1>1, WFMin
<1>4. ASSUME NEW m \in T PROVE n <= m
  <2>1. n \in Nat /\ m \in Nat /\ ~(m < n)
    BY <1>2, <1>3
  <2> QED BY <2>1
<1> QED BY <1>4

(* A set that contains 0 and, with a number, the next, contains them all.  *)
LEMMA SetInduction ==
  ASSUME NEW P, 0 \in P, \A n \in Nat : n \in P => n + 1 \in P
  PROVE  Nat \subseteq P
<1> DEFINE T == Nat \ P
<1>1. SUFFICES ASSUME T # {} PROVE FALSE
  OBVIOUS
<1>2. PICK n \in T : \A m \in T : n <= m
  BY <1>1, LeastExists
<1>3. n \in Nat /\ n # 0
  BY <1>2
<1>4. n - 1 \in Nat /\ n - 1 \notin T
  <2>1. n - 1 \in Nat /\ ~(n <= n - 1)
    BY <1>3
  <2> QED BY <1>2, <2>1
<1>5. (n - 1) + 1 \in P
  BY <1>4
<1>6. (n - 1) + 1 = n
  BY <1>3
<1> QED BY <1>2, <1>5, <1>6

(* A set of numbers that has a bound has a largest one.                    *)
LEMMA LargestExists ==
  ASSUME NEW n \in Nat, NEW S, S \subseteq 1 .. n, S # {}
  PROVE  \E x \in S : \A y \in S : x >= y
<1> DEFINE T == {n - x : x \in S}
<1>1. T \subseteq Nat /\ T # {}
  <2>1. \A x \in S : n - x \in Nat
    OBVIOUS
  <2>2. \A t \in T : \E x \in S : t = n - x
    OBVIOUS
  <2>3. PICK x \in S : TRUE
    OBVIOUS
  <2>4. n - x \in T
    OBVIOUS
  <2> HIDE DEF T
  <2> QED BY <2>1, <2>2, <2>4
<1> HIDE DEF T
<1>2. PICK t \in T : \A u \in T : t <= u
  BY <1>1, LeastExists
<1>3. PICK x \in S : t = n - x
  BY DEF T
<1>4. ASSUME NEW y \in S PROVE x >= y
  <2>1. n - y \in T
    BY DEF T
  <2>2. n - x <= n - y
    BY <1>2, <1>3, <2>1
  <2>3. x \in Int /\ y \in Int
    OBVIOUS
  <2> QED BY <2>2, <2>3
<1> QED BY <1>4
-----------------------------------------------------------------------------
(* SumFunctionOnSet takes one element after the other out of the set.  g   *)
(* is a table of the sums of f over the sets in D.                         *)
Picked(s) == CHOOSE x \in s : TRUE
Sums(f, D, g) == g = [s \in D |-> IF s = {} THEN 0 ELSE f[Picked(s)] + g[s \ {Picked(s)}]]

LEMMA SumIs ==
  ASSUME NEW f, NEW S
  PROVE  SumFunctionOnSet(f, S) = (CHOOSE g : Sums(f, SUBSET S, g))[S]
BY DEF SumFunctionOnSet, FoldFunctionOnSet, MapThenFoldSet, Sums, Picked

(* Subsets of S of at most n elements.                                     *)
Small(S, n) == {s \in SUBSET S : Cardinality(s) <= n}

LEMMA PickedIs ==
  ASSUME NEW S, IsFiniteSet(S), NEW s \in SUBSET S, s # {}
  PROVE  /\ Picked(s) \in s
         /\ IsFiniteSet(s) /\ s \ {Picked(s)} \in SUBSET S
         /\ Cardinality(s) \in Nat /\ Cardinality(s \ {Picked(s)}) = Cardinality(s) - 1
<1>1. Picked(s) \in s
  BY DEF Picked
<1>2. IsFiniteSet(s)
  BY FS_Subset
<1>3. Cardinality(s \ {Picked(s)}) = Cardinality(s) - 1
  BY <1>1, <1>2, FS_RemoveElement
<1>4. Cardinality(s) \in Nat
  BY <1>2, FS_CardinalityType
<1> QED BY <1>1, <1>2, <1>3, <1>4

LEMMA SmallSets ==
  ASSUME NEW S, IsFiniteSet(S)
  PROVE  /\ \A s \in Small(S, 0) : s = {}
         /\ \A n \in Nat : \A s \in Small(S, n + 1) : s # {} => s \ {Picked(s)} \in Small(S, n)
<1>1. ASSUME NEW s \in Small(S, 0) PROVE s = {}
  <2>1. s \in SUBSET S /\ Cardinality(s) <= 0
    BY DEF Small
  <2>2. IsFiniteSet(s)
    BY <2>1, FS_Subset
  <2>3. Cardinality(s) \in Nat
    BY <2>2, FS_CardinalityType
  <2>4. Cardinality(s) = 0
    BY <2>1, <2>3
  <2> QED BY <2>2, <2>4, FS_EmptySet
<1>2. ASSUME NEW n \in Nat, NEW s \in Small(S, n + 1), s # {}
      PROVE  s \ {Picked(s)} \in Small(S, n)
  <2>1. s \in SUBSET S /\ Cardinality(s) <= n + 1
    BY DEF Small
  <2>2. /\ s \ {Picked(s)} \in SUBSET S /\ Cardinality(s) \in Nat
        /\ Cardinality(s \ {Picked(s)}) = Cardinality(s) - 1
    BY <1>2, <2>1, PickedIs
  <2>3. Cardinality(s \ {Picked(s)}) <= n
    BY <2>1, <2>2
  <2> QED BY <2>2, <2>3 DEF Small
<1> QED BY <1>1, <1>2

(* A table of the sums over the subsets of a finite set exists.            *)
LEMMA SumsExist ==
  ASSUME NEW f, NEW S, IsFiniteSet(S)
  PROVE  \E g : Sums(f, SUBSET S, g)
<1> DEFINE P == {n \in Nat : \E g : Sums(f, Small(S, n), g)}
<1>1. 0 \in P
  <2> DEFINE g == [s \in Small(S, 0) |-> 0]
  <2>1. \A s \in Small(S, 0) : s = {}
    BY SmallSets
  <2>2. Sums(f, Small(S, 0), g)
    BY <2>1 DEF Sums
  <2> QED BY <2>2
<1>2. ASSUME NEW n \in Nat, n \in P PROVE n + 1 \in P
  <2>1. PICK g : Sums(f, Small(S, n), g)
    BY <1>2
  <2> DEFINE val(s) == IF s = {} THEN 0 ELSE f[Picked(s)] + g[s \ {Picked(s)}]
             h == [s \in Small(S, n + 1) |-> val(s)]
  <2>2. \A s \in Small(S, n) : g[s] = val(s)
    BY <2>1 DEF Sums
  <2>3. Small(S, n) \subseteq Small(S, n + 1)
    <3>1. ASSUME NEW s \in Small(S, n) PROVE s \in Small(S, n + 1)
      <4>1. s \in SUBSET S /\ Cardinality(s) <= n
        BY DEF Small
      <4>2. Cardinality(s) \in Nat
        BY <4>1, FS_Subset, FS_CardinalityType
      <4>3. Cardinality(s) <= n + 1
        BY <4>1, <4>2
      <4> QED BY <4>1, <4>3 DEF Small
    <3> QED BY <3>1
  <2>4. \A s \in Small(S, n) : h[s] = g[s]
    BY <2>2, <2>3
  <2>5. \A s \in Small(S, n + 1) : s # {} => s \ {Picked(s)} \in Small(S, n)
    BY SmallSets
  <2>6. \A s \in Small(S, n + 1) :
          h[s] = IF s = {} THEN 0 ELSE f[Picked(s)] + h[s \ {Picked(s)}]
    <3>1. \A s \in Small(S, n + 1) : h[s] = val(s)
      OBVIOUS
    <3> HIDE DEF h
    <3> QED BY <2>4, <2>5, <3>1
  <2>7. h = [s \in Small(S, n + 1) |-> IF s = {} THEN 0 ELSE f[Picked(s)] + h[s \ {Picked(s)}]]
    <3>1. h = [s \in Small(S, n + 1) |-> h[s]]
      OBVIOUS
    <3> HIDE DEF h
    <3> QED BY <2>6, <3>1
  <2>8. Sums(f, Small(S, n + 1), h)
    BY <2>7 DEF Sums
  <2> QED BY <2>8
<1> HIDE DEF P
<1>3. Nat \subseteq P
  BY <1>1, <1>2, SetInduction
<1>4. Cardinality(S) \in P
  BY <1>3, FS_CardinalityType
<1>5. Small(S, Cardinality(S)) = SUBSET S
  BY FS_Subset DEF Small
<1> QED BY <1>4, <1>5 DEF P

(* The sums of f and of h, where h differs from f by d at x only.          *)
LEMMA SumOfChanged ==
  ASSUME NEW S, IsFiniteSet(S), NEW f, NEW h, NEW x, NEW d \in Int,
         \A y \in S : f[y] \in Int,
         \A y \in S : h[y] = IF y = x THEN f[y] + d ELSE f[y]
  PROVE  /\ SumFunctionOnSet(f, S) \in Int
         /\ SumFunctionOnSet(h, S) =
              IF x \in S THEN SumFunctionOnSet(f, S) + d ELSE SumFunctionOnSet(f, S)
<1> DEFINE F == CHOOSE g : Sums(f, SUBSET S, g)
           H == CHOOSE g : Sums(h, SUBSET S, g)
           Changed(s) == F[s] \in Int /\ H[s] = IF x \in s THEN F[s] + d ELSE F[s]
           P == {n \in Nat : \A s \in Small(S, n) : Changed(s)}
<1>1. Sums(f, SUBSET S, F) /\ Sums(h, SUBSET S, H)
  <2>1. (\E g : Sums(f, SUBSET S, g)) /\ \E g : Sums(h, SUBSET S, g)
    BY SumsExist
  <2> QED BY <2>1, Zenon
<1> HIDE DEF F, H
<1>2. \A s \in SUBSET S :
        /\ F[s] = IF s = {} THEN 0 ELSE f[Picked(s)] + F[s \ {Picked(s)}]
        /\ H[s] = IF s = {} THEN 0 ELSE h[Picked(s)] + H[s \ {Picked(s)}]
  BY <1>1 DEF Sums
<1>3. Changed({})
  <2>1. {} \in SUBSET S /\ x \notin {}
    OBVIOUS
  <2>2. F[{}] = 0 /\ H[{}] = 0
    BY <1>2, <2>1
  <2> QED BY <2>1, <2>2
<1>4. ASSUME NEW s \in SUBSET S, s # {}, Changed(s \ {Picked(s)}) PROVE Changed(s)
  <2>1. Picked(s) \in s /\ Picked(s) \in S
    BY <1>4, PickedIs
  <2>2. PICK a : a = Picked(s)
    OBVIOUS
  <2>3. F[s] = f[a] + F[s \ {a}] /\ H[s] = h[a] + H[s \ {a}]
    BY <1>2, <1>4, <2>2
  <2>4. f[a] \in Int /\ h[a] = IF a = x THEN f[a] + d ELSE f[a]
    BY <2>1, <2>2
  <2>5. F[s \ {a}] \in Int /\ H[s \ {a}] = IF x \in s \ {a} THEN F[s \ {a}] + d ELSE F[s \ {a}]
    BY <1>4, <2>2
  <2>6. CASE a = x
    BY <2>1, <2>2, <2>3, <2>4, <2>5, <2>6
  <2>7. CASE a # x
    <3>1. x \in s \ {a} <=> x \in s
      BY <2>7
    <3> QED BY <2>3, <2>4, <2>5, <2>7, <3>1
  <2> QED BY <2>6, <2>7
<1> HIDE DEF Changed
<1>5. 0 \in P
  BY <1>3, SmallSets
<1>6. ASSUME NEW n \in Nat, n \in P PROVE n + 1 \in P
  <2>1. ASSUME NEW s \in Small(S, n + 1) PROVE Changed(s)
    <3>1. s \in SUBSET S
      BY DEF Small
    <3>2. CASE s # {}
      <4>1. s \ {Picked(s)} \in Small(S, n)
        BY <3>2, SmallSets
      <4> QED BY <1>4, <1>6, <3>1, <3>2, <4>1
    <3> QED BY <1>3, <3>2
  <2> QED BY <2>1
<1>7. Nat \subseteq P
  <2> HIDE DEF P
  <2> QED BY <1>5, <1>6, SetInduction
<1>8. Changed(S)
  <2>1. Cardinality(S) \in Nat
    BY FS_CardinalityType
  <2>2. S \in Small(S, Cardinality(S))
    BY <2>1 DEF Small
  <2> QED BY <1>7, <2>1, <2>2
<1> QED BY <1>8, SumIs DEF Changed, F, H

LEMMA SumTyped ==
  ASSUME NEW S, IsFiniteSet(S), NEW f, \A y \in S : f[y] \in Int
  PROVE  SumFunctionOnSet(f, S) \in Int
<1>1. PICK d \in Int : d = 0
  OBVIOUS
<1>2. PICK h : h = f
  OBVIOUS
<1>3. PICK x : x = S
  OBVIOUS
<1>4. \A y \in S : h[y] = IF y = x THEN f[y] + d ELSE f[y]
  BY <1>1, <1>2
<1> QED BY <1>4, SumOfChanged

(* Adding up zeros.                                                        *)
LEMMA SumOfZeros ==
  ASSUME NEW S, IsFiniteSet(S), NEW f, \A y \in S : f[y] = 0
  PROVE  SumFunctionOnSet(f, S) = 0
<1> DEFINE F == CHOOSE g : Sums(f, SUBSET S, g)
           P == {n \in Nat : \A s \in Small(S, n) : F[s] = 0}
<1>1. Sums(f, SUBSET S, F)
  <2>1. \E g : Sums(f, SUBSET S, g)
    BY SumsExist
  <2> QED BY <2>1, Zenon
<1> HIDE DEF F
<1>2. \A s \in SUBSET S : F[s] = IF s = {} THEN 0 ELSE f[Picked(s)] + F[s \ {Picked(s)}]
  BY <1>1 DEF Sums
<1>3. F[{}] = 0
  <2>1. {} \in SUBSET S
    OBVIOUS
  <2> QED BY <1>2, <2>1
<1>4. 0 \in P
  BY <1>3, SmallSets
<1>5. ASSUME NEW n \in Nat, n \in P PROVE n + 1 \in P
  <2>1. ASSUME NEW s \in Small(S, n + 1), s # {} PROVE F[s] = 0
    <3>1. s \in SUBSET S /\ s \ {Picked(s)} \in Small(S, n)
      BY <2>1, SmallSets DEF Small
    <3>2. Picked(s) \in S
      BY <2>1, <3>1, PickedIs
    <3>3. f[Picked(s)] = 0 /\ F[s \ {Picked(s)}] = 0
      BY <1>5, <3>1, <3>2
    <3> QED BY <1>2, <2>1, <3>1, <3>3
  <2> QED BY <1>3, <2>1
<1>6. Nat \subseteq P
  <2> HIDE DEF P
  <2> QED BY <1>4, <1>5, SetInduction
<1>7. F[S] = 0
  <2>1. Cardinality(S) \in Nat
    BY FS_CardinalityType
  <2>2. S \in Small(S, Cardinality(S))
    BY <2>1 DEF Small
  <2> QED BY <1>6, <2>1, <2>2
<1> QED BY <1>7, SumIs DEF F
=============================================================================
