---------------------------- MODULE NumberLemmas ----------------------------
(* Facts about numbers that the proofs about several components need.       *)
EXTENDS Naturals, WellFoundedInduction, TLAPS

(* A set of numbers has a least element: a buffer that holds a delimiter    *)
(* has a first one.                                                         *)
LEMMA LeastElement ==
  ASSUME NEW T \in SUBSET Nat, T # {}
  PROVE  \E i \in T : \A j \in T : ~(j < i)
<1> DEFINE R == {ss \in Nat \X Nat : ss[1] < ss[2]}
<1>1. IsWellFoundedOn(R, Nat)
  BY NatLessThanWellFounded, Zenon DEF OpToRel
<1> HIDE DEF R
<1>2. PICK x \in T : \A y \in T : ~(<<y, x>> \in R)
  BY <1>1, WFMin
<1>3. QED
  BY <1>2 DEF R
=============================================================================
