----------------------------- MODULE Induction -----------------------------
(***************************************************************************)
(* The induction behind every loop of the code: a set of numbers that is   *)
(* not empty has a least element.  A statement about every turn of a loop  *)
(* follows by looking at the first turn that would not satisfy it.         *)
(***************************************************************************)
EXTENDS Integers, FiniteSetTheorems, WellFoundedInduction, TLAPS

\* The first turn of a loop at which something is so: the intervals 0 .. n are
\* finite sets, and inclusion is well-founded on those.
LEMMA Least ==
    ASSUME NEW T, T \subseteq Nat, T # {}
    PROVE  \E x \in T : \A y \in T : x <= y
  <1> DEFINE W == {0 .. n : n \in T}
  <1>1. W \subseteq FiniteSubsetsOf(Nat) /\ W # {}
    <2>1. \A n \in Nat : IsFiniteSet(0 .. n)
      BY FS_Interval
    <2>2. \A n \in Nat : 0 .. n \subseteq Nat
      OBVIOUS
    <2>3. QED
      BY <2>1, <2>2 DEF FiniteSubsetsOf
  <1>2. PICK w \in W : \A v \in W : ~(<<v, w>> \in StrictSubsetOrdering(Nat))
    <2> HIDE DEF W
    <2>1. QED
      BY <1>1, FS_StrictSubsetOrderingWellFounded, WFMin
  <1>3. PICK x \in T : w = 0 .. x
    OBVIOUS
  <1>4. ASSUME NEW y \in T, y < x
        PROVE  FALSE
    <2>1. 0 .. y \in W
      OBVIOUS
    <2>2. 0 .. y \subseteq 0 .. x /\ 0 .. y # 0 .. x
      BY <1>4
    <2>3. 0 .. y \in SUBSET Nat /\ 0 .. x \in SUBSET Nat
      OBVIOUS
    <2>4. QED
      BY <1>2, <1>3, <2>1, <2>2, <2>3 DEF StrictSubsetOrdering
  <1>5. QED
    BY <1>4
=============================================================================
