--------------------------- MODULE NaturalBounds ---------------------------
(***************************************************************************)
(* Bounds of sets of natural numbers, for the proofs about counters and    *)
(* times: induction over them in a form the provers can use, which the     *)
(* well-foundedness of strict inclusion between finite sets gives.         *)
(***************************************************************************)
EXTENDS Naturals, FiniteSetTheorems, WellFoundedInduction, TLAPS

\* The intervals below the elements of a set are finite; the smallest of them ends at
\* the least element.
LEMMA Least ==
  ASSUME NEW S \in SUBSET Nat, S # {}
  PROVE  \E m \in S : \A n \in S : m <= n
<1> DEFINE Below == {0 .. n : n \in S}
<1>1. Below \subseteq FiniteSubsetsOf(Nat) /\ Below # {}
  <2>1. \A n \in Nat : IsFiniteSet(0 .. n) /\ 0 .. n \subseteq Nat
    BY FS_Interval
  <2> QED BY <2>1 DEF FiniteSubsetsOf
<1>2. PICK x \in Below : \A y \in Below : ~(<<y, x>> \in StrictSubsetOrdering(Nat))
  <2> HIDE DEF Below
  <2> QED BY <1>1, WFMin, FS_StrictSubsetOrderingWellFounded
<1>3. PICK m \in S : x = 0 .. m
  OBVIOUS
<1>4. ASSUME NEW n \in S, n < m PROVE FALSE
  <2>1. 0 .. n \subseteq 0 .. m /\ m \notin 0 .. n /\ m \in 0 .. m
    BY <1>4
  <2>2. <<0 .. n, 0 .. m>> \in StrictSubsetOrdering(Nat)
    <3>1. 0 .. n \in SUBSET Nat /\ 0 .. m \in SUBSET Nat /\ 0 .. n # 0 .. m
      BY <2>1
    <3> QED BY <2>1, <3>1 DEF StrictSubsetOrdering
  <2> QED BY <1>2, <1>3, <2>2
<1> QED BY <1>4

\* The bounds of a set have a least one, and it is in the set.
LEMMA Greatest ==
  ASSUME NEW S \in SUBSET Nat, S # {}, NEW bound \in Nat, \A n \in S : n <= bound
  PROVE  \E m \in S : \A n \in S : n <= m
<1> DEFINE Above == {u \in Nat : \A n \in S : n <= u}
<1>1. Above \in SUBSET Nat /\ Above # {}
  <2>1. bound \in Above
    OBVIOUS
  <2> QED BY <2>1
<1>2. PICK u \in Above : \A v \in Above : u <= v
  <2> HIDE DEF Above
  <2> QED BY <1>1, Least
<1>3. u \in S
  <2> SUFFICES ASSUME u \notin S PROVE FALSE
    OBVIOUS
  <2>1. u \in Nat /\ \A n \in S : n \in Nat /\ n < u
    OBVIOUS
  <2>2. u - 1 \in Nat /\ \A n \in S : n <= u - 1
    <3>1. PICK n \in S : TRUE
      OBVIOUS
    <3> QED BY <2>1, <3>1
  <2>3. u - 1 \in Above
    BY <2>2
  <2> HIDE DEF Above
  <2> QED BY <1>2, <2>1, <2>3
<1> QED BY <1>2, <1>3

\* What a finite set has above k is the smallest, for some k; then it is empty.
LEMMA Bounded ==
  ASSUME NEW S \in SUBSET Nat, IsFiniteSet(S)
  PROVE  \E k \in Nat : \A n \in S : n <= k
<1> DEFINE Above(k) == {n \in S : n > k}
           Tails == {Above(k) : k \in Nat}
<1>1. Tails \subseteq FiniteSubsetsOf(Nat) /\ Tails # {}
  <2>1. ASSUME NEW k \in Nat PROVE IsFiniteSet(Above(k)) /\ Above(k) \in SUBSET Nat
    <3>1. Above(k) \subseteq S
      OBVIOUS
    <3> QED BY <3>1, FS_Subset
  <2>2. Above(0) \in Tails
    OBVIOUS
  <2> HIDE DEF Above
  <2> QED BY <2>1, <2>2 DEF FiniteSubsetsOf
<1>2. PICK T \in Tails : \A U \in Tails : ~(<<U, T>> \in StrictSubsetOrdering(Nat))
  <2> HIDE DEF Tails
  <2> QED BY <1>1, WFMin, FS_StrictSubsetOrderingWellFounded
<1>3. PICK k \in Nat : T = Above(k)
  OBVIOUS
<1>4. ASSUME NEW n \in S, n > k PROVE FALSE
  <2>1. Above(n) \subseteq T /\ n \in T /\ n \notin Above(n)
    <3> HIDE DEF Tails
    <3>1. n \in Nat /\ ~(n > n) /\ \A i \in S : i \in Nat /\ (i > n => i > k)
      BY <1>4
    <3> QED BY <1>3, <1>4, <3>1
  <2>2. <<Above(n), T>> \in StrictSubsetOrdering(Nat)
    <3>1. Above(n) \in SUBSET Nat /\ T \in SUBSET Nat /\ Above(n) # T
      BY <1>3, <2>1
    <3> HIDE DEF Above, Tails
    <3> QED BY <2>1, <3>1 DEF StrictSubsetOrdering
  <2>3. Above(n) \in Tails
    OBVIOUS
  <2> QED BY <1>2, <2>2, <2>3
<1> QED BY <1>4
=============================================================================
