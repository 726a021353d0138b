----------------------------- MODULE OrderLemmas -----------------------------
(***************************************************************************)
(* Smallest and largest elements: what the ledgers' searches of a stripe   *)
(* (first entry of a key, least recently used entry) rest on.              *)
(***************************************************************************)
EXTENDS Integers, FiniteSetsExt, FiniteSetTheorems, WellFoundedInduction, TLAPS

\* The only element of a set is its minimum.
LEMMA MinOfOne ==
    ASSUME NEW x \in Int
    PROVE  Min({x}) = x
  <1>1. \E y \in {x} : \A z \in {x} : y =< z
    OBVIOUS
  <1>2. Min({x}) \in {x}
    BY <1>1 DEF Min
  <1> QED
    BY <1>2

LEMMA MaxOfTwo ==
    ASSUME NEW a \in Nat, NEW b \in Nat
    PROVE  /\ Max({a, b}) \in Nat
           /\ Max({a, b}) >= a /\ Max({a, b}) >= b
           /\ Max({a, b}) \in {a, b}
  <1>1. \E y \in {a, b} : \A z \in {a, b} : y >= z
    OBVIOUS
  <1>2. Max({a, b}) \in {a, b} /\ \A z \in {a, b} : Max({a, b}) >= z
    BY <1>1 DEF Max
  <1> QED
    BY <1>2

\* A nonempty set of naturals has a smallest element.
LEMMA SmallestExists ==
    ASSUME NEW S \in SUBSET Nat, S # {}
    PROVE  \E m \in S : \A n \in S : m <= n
  <1> DEFINE T == {0..x : x \in S}
  <1>1. \A x \in S : IsFiniteSet(0..x) /\ 0..x \in SUBSET Nat
    BY FS_Interval
  <1>2. T \subseteq FiniteSubsetsOf(Nat) /\ T # {}
    BY <1>1 DEF FiniteSubsetsOf
  <1> HIDE DEF T
  <1>3. PICK X \in T : \A Y \in T : ~(<<Y, X>> \in StrictSubsetOrdering(Nat))
    BY <1>2, FS_StrictSubsetOrderingWellFounded, WFMin
  <1>4. PICK m \in S : X = 0..m
    BY <1>3 DEF T
  <1>5. ASSUME NEW n \in S, n < m PROVE FALSE
    <2>1. 0..n \in T
      BY DEF T
    <2>2. 0..n \subseteq 0..m /\ m \in 0..m /\ m \notin 0..n
      BY <1>5
    <2>3. <<0..n, 0..m>> \in StrictSubsetOrdering(Nat)
      BY <2>2 DEF StrictSubsetOrdering
    <2> QED
      BY <1>3, <1>4, <2>1, <2>3
  <1> QED
    BY <1>5

LEMMA MinIsLeast ==
    ASSUME NEW S \in SUBSET Nat, S # {}
    PROVE  Min(S) \in S /\ \A n \in S : Min(S) <= n
  <1>1. \E m \in S : \A n \in S : m <= n
    BY SmallestExists
  <1> QED
    BY <1>1 DEF Min
=============================================================================
