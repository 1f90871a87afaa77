--------------------------- MODULE ExtremaLemmas ---------------------------
(***************************************************************************)
(* The minima and maxima of sets of naturals that the models pick with Min *)
(* and Max: the estimate of a sketch, the first rule that trips, the last  *)
(* record of a key, the frames a replay consumes, the largest fence.       *)
(***************************************************************************)
EXTENDS FiniteSetsExt, FiniteSetTheorems, WellFoundedInduction, TLAPS

\* A non-empty set of naturals has the minimum that Min picks.
LEMMA MinProperty ==
    ASSUME NEW S \in SUBSET Nat, S # {}
    PROVE  Min(S) \in S /\ \A x \in S : Min(S) <= x
<1>1. PICK m \in S : \A n \in S : ~ (<<n, m>> \in OpToRel(<, Nat))
  <2>1. S \subseteq Nat /\ S # {}
    OBVIOUS
  <2>2. QED
    BY <2>1, NatLessThanWellFounded, WFMin
<1>2. \A n \in S : m <= n
  <2>1. \A n \in S : ~ (n < m)
    BY <1>1 DEF OpToRel
  <2>2. QED
    BY <2>1
<1>3. \E x \in S : \A y \in S : x =< y
  BY <1>2
<1>4. QED
  BY <1>3 DEF Min

\* A bounded non-empty set of naturals has the maximum that Max picks.
LEMMA MaxProperty ==
    ASSUME NEW S \in SUBSET Nat, S # {},
           NEW b \in Nat, \A x \in S : x <= b
    PROVE  Max(S) \in S /\ \A x \in S : x <= Max(S)
<1> DEFINE Bounds == {m \in Nat : \A x \in S : x <= m}
<1>1. PICK m \in Bounds : \A n \in Bounds : ~ (<<n, m>> \in OpToRel(<, Nat))
  <2>1. b \in Bounds
    OBVIOUS
  <2>2. Bounds \subseteq Nat /\ Bounds # {}
    BY <2>1
  <2> HIDE DEF Bounds
  <2>3. QED
    BY <2>2, NatLessThanWellFounded, WFMin
<1>2. \A n \in Bounds : ~ (n < m)
  BY <1>1 DEF OpToRel
<1>3. m \in S
  <2>1. PICK x \in S : TRUE
    OBVIOUS
  <2>2. SUFFICES ASSUME m \notin S PROVE FALSE
    OBVIOUS
  <2>3. m # 0 /\ m - 1 \in Bounds
    BY <2>1, <2>2
  <2>4. QED
    BY <2>3, <1>2
<1>4. \E x \in S : \A y \in S : x >= y
  BY <1>3
<1>5. QED
  BY <1>4 DEF Max

\* A finite set of naturals is bounded: a smallest unbounded subset would have
\* an element, and would be unbounded without it.
LEMMA FiniteIsBounded ==
    ASSUME NEW S \in SUBSET Nat, IsFiniteSet(S)
    PROVE  \E b \in Nat : \A x \in S : x <= b
<1> DEFINE Bounded(T) == \E b \in Nat : \A x \in T : x <= b
           Sizes == {n \in Nat : \E T \in SUBSET S : Cardinality(T) = n /\ ~ Bounded(T)}
<1>1. SUFFICES ASSUME ~ Bounded(S) PROVE FALSE
  OBVIOUS
<1>2. PICK n \in Sizes : \A m \in Sizes : ~ (<<m, n>> \in OpToRel(<, Nat))
  <2>1. Cardinality(S) \in Nat
    BY FS_CardinalityType
  <2>2. Cardinality(S) \in Sizes
    BY <1>1, <2>1
  <2>3. Sizes \subseteq Nat /\ Sizes # {}
    BY <2>2
  <2> HIDE DEF Sizes
  <2>4. QED
    BY <2>3, NatLessThanWellFounded, WFMin
<1>3. \A m \in Sizes : ~ (m < n)
  BY <1>2 DEF OpToRel
<1>4. PICK T \in SUBSET S : Cardinality(T) = n /\ ~ Bounded(T)
  OBVIOUS
<1>5. T # {}
  BY <1>4
<1>6. PICK x \in T : TRUE
  BY <1>5
<1>7. IsFiniteSet(T)
  BY FS_Subset
<1>8. Cardinality(T \ {x}) = n - 1 /\ n \in Nat /\ n - 1 \in Nat
  <2>1. n \in Nat
    OBVIOUS
  <2>2. Cardinality(T \ {x}) = n - 1 /\ IsFiniteSet(T \ {x})
    BY <1>4, <1>6, <1>7, FS_RemoveElement
  <2>3. Cardinality(T \ {x}) \in Nat
    BY <2>2, FS_CardinalityType
  <2>4. QED
    BY <2>1, <2>2, <2>3
<1>9. n - 1 \notin Sizes
  BY <1>3, <1>8
<1>10. Bounded(T \ {x})
  BY <1>8, <1>9
<1>11. PICK b \in Nat : \A y \in T \ {x} : y <= b
  BY <1>10
<1>12. x \in Nat /\ b + x \in Nat /\ \A y \in T : y \in Nat /\ y <= b + x
  BY <1>6, <1>11
<1>13. Bounded(T)
  BY <1>12
<1>14. QED
  BY <1>4, <1>13

\* A finite non-empty set of naturals has the maximum that Max picks.
LEMMA FiniteMax ==
    ASSUME NEW S \in SUBSET Nat, S # {}, IsFiniteSet(S)
    PROVE  Max(S) \in S /\ \A x \in S : x <= Max(S)
<1>1. PICK b \in Nat : \A x \in S : x <= b
  BY FiniteIsBounded
<1>2. QED
  BY <1>1, MaxProperty

=============================================================================
