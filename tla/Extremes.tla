------------------------------ MODULE Extremes ------------------------------
(***************************************************************************)
(* Min and Max of FiniteSetsExt, for the ways of a cache line and for the  *)
(* threads in the order of the search.                                     *)
(***************************************************************************)
EXTENDS FiniteSetsExt, WellFoundedInduction, TLAPS

(* Some numbers below a bound have a least and a greatest one among them.  *)
LEMMA LeastAndGreatest ==
  ASSUME NEW n \in Nat, NEW S \in SUBSET (0 .. n - 1), S # {}
  PROVE  /\ Min(S) \in S /\ \A x \in S : Min(S) <= x
         /\ Max(S) \in S /\ \A x \in S : x <= Max(S)
<1> DEFINE R == OpToRel(<, Nat)
<1>1. ASSUME NEW T \in SUBSET Nat, T # {}
      PROVE  \E x \in T : \A y \in T : x <= y
  <2>1. PICK x \in T : \A y \in T : ~(<<y, x>> \in R)
    BY <1>1, NatLessThanWellFounded, WFMin, Zenon
  <2>2. \A y \in T : ~(y < x)
    BY <2>1 DEF OpToRel
  <2> QED  BY <2>2
<1>2. \E x \in S : \A y \in S : x <= y
  BY <1>1
<1>3. \E x \in S : \A y \in S : x >= y
  <2> DEFINE T == {n - x : x \in S}
  <2>1. T \in SUBSET Nat /\ T # {}
    <3>1. \A x \in S : n - x \in Nat
      OBVIOUS
    <3>2. PICK x \in S : TRUE
      OBVIOUS
    <3> QED  BY <3>1, <3>2
  <2>2. PICK t \in T : \A u \in T : t <= u
    BY <1>1, <2>1
  <2>3. PICK x \in S : t = n - x
    OBVIOUS
  <2>4. \A y \in S : n - x <= n - y
    BY <2>2, <2>3
  <2> QED  BY <2>4
<1> QED  BY <1>2, <1>3 DEF Min, Max
=============================================================================
