---------------------------- MODULE CountLemmas ----------------------------
(* Facts about numbers and finite sets that several proofs use. *)
EXTENDS Integers, FiniteSets, FiniteSetTheorems, WellFoundedInduction, NaturalsInduction, TLAPS

\* A nonempty set of naturals has a least element.
LEMMA LeastIndex ==
    ASSUME NEW J \in SUBSET Nat, J # {}
    PROVE  \E k \in J : \A j \in J : ~(j < k)
<1>1. IsWellFoundedOn(OpToRel(<, Nat), Nat)
  BY NatLessThanWellFounded
<1>2. \E k \in J : \A j \in J : ~(<<j, k>> \in OpToRel(<, Nat))
  BY <1>1, WFMin
<1> QED
  BY <1>2 DEF OpToRel

\* So does a nonempty set of naturals that a number bounds have a greatest.
LEMMA GreatestIndex ==
    ASSUME NEW n \in Nat, NEW J \in SUBSET (0 .. n), J # {}
    PROVE  \E k \in J : \A j \in J : j <= k
<1> DEFINE D == {n - j : j \in J}
<1>0. \A j \in J : n - j \in Nat
  OBVIOUS
<1>1. D \in SUBSET Nat /\ D # {}
  BY <1>0
<1>2. PICK d \in D : \A x \in D : ~(x < d)
  BY <1>1, LeastIndex
<1>3. PICK k \in J : d = n - k
  OBVIOUS
<1>4. \A j \in J : ~(n - j < n - k)
  BY <1>2, <1>3
<1> QED
  BY <1>4
=============================================================================
