----------------------------- MODULE Induction -----------------------------
(***************************************************************************)
(* What the proofs of several modules need of the numbers.                 *)
(***************************************************************************)
EXTENDS Integers, FiniteSets, WellFoundedInduction, NaturalsInduction, TLAPS

\* Every set of numbers has a least one: a first counterexample is what the proofs about
\* sequences and folds of any length start from.
LEMMA LeastNumber ==
    ASSUME NEW T, T \subseteq Nat, T # {}
    PROVE  \E x \in T : \A y \in T : x <= y
<1> DEFINE R == OpToRel(<, Nat)
<1>1. IsWellFoundedOn(R, Nat)
  BY NatLessThanWellFounded, Zenon
<1>2. R = {z \in Nat \X Nat : z[1] < z[2]}
  BY DEF OpToRel
<1> HIDE DEF R
<1>3. PICK x \in T : \A y \in T : <<y, x>> \notin R
  BY <1>1, WFMin
<1>4. \A y \in T : ~(y < x)
  BY <1>2, <1>3
<1> QED
  BY <1>4
=============================================================================
