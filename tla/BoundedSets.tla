----------------------------- MODULE BoundedSets -----------------------------
(* Least and greatest members of sets of numbers: what Min and Max of FiniteSetsExt, *)
(* which choose a member with the property, return when there is one.                *)
EXTENDS Naturals, FiniteSetsExt, WellFoundedInduction, TLAPS

\* The order of the natural numbers, as the set of pairs that WFMin takes.
Less == {pair \in Nat \X Nat : pair[1] < pair[2]}

\* A set of numbers that is not empty has a least one.
LEMMA MinIsIn ==
    ASSUME NEW S \in SUBSET Nat, S # {}
    PROVE  Min(S) \in S /\ \A y \in S : Min(S) <= y
<1>1. IsWellFoundedOn(Less, Nat)
  BY NatLessThanWellFounded, Zenon DEF OpToRel, Less
<1>2. PICK x \in S : \A y \in S : ~ (<<y, x>> \in Less)
  BY <1>1, WFMin
<1>3. \A y \in S : ~ (y < x)
  BY <1>2 DEF Less
<1>4. \A y \in S : x <= y
  BY <1>3
<1> QED BY <1>4 DEF Min

\* A bounded set of numbers that is not empty has a greatest one.
LEMMA MaxIsIn ==
    ASSUME NEW S \in SUBSET Nat, S # {}, NEW n \in Nat, \A x \in S : x <= n
    PROVE  Max(S) \in S
<1> DEFINE T == {d \in Nat : n - d \in S}
<1>1. IsWellFoundedOn(Less, Nat)
  BY NatLessThanWellFounded, Zenon DEF OpToRel, Less
<1>2. \A x \in S : n - x \in T
  <2> SUFFICES ASSUME NEW x \in S PROVE n - x \in T
    OBVIOUS
  <2>1. x \in Nat /\ n - x \in Nat /\ n - (n - x) = x
    OBVIOUS
  <2> QED BY <2>1
<1>3. T \subseteq Nat /\ T # {}
  BY <1>2
<1> HIDE DEF T
<1>4. PICK d \in T : \A e \in T : ~ (<<e, d>> \in Less)
  BY <1>1, <1>3, WFMin
<1>5. \A e \in T : ~ (e < d)
  BY <1>3, <1>4 DEF Less
<1>6. n - d \in S
  BY <1>4 DEF T
<1>7. \A y \in S : n - d >= y
  <2> SUFFICES ASSUME NEW y \in S PROVE n - d >= y
    OBVIOUS
  <2>1. ~ (n - y < d) /\ d \in Nat /\ y \in Nat
    BY <1>2, <1>3, <1>5
  <2> QED BY <2>1
<1> QED BY <1>6, <1>7 DEF Max

=============================================================================
