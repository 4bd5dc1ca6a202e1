---------------------------- MODULE NumberLemmas -----------------------------
(***************************************************************************)
(* Least and greatest elements of sets of natural numbers: what stands in  *)
(* these proofs for induction over the numbers.  The library states that < *)
(* is well-founded; a set of counterexamples then has a least one.         *)
(***************************************************************************)
EXTENDS Integers, WellFoundedInduction, TLAPS

\* A set of natural numbers that is not empty has a least element.
LEMMA LeastExists ==
    ASSUME NEW T \in SUBSET Nat, T # {}
    PROVE  \E x \in T : \A y \in T : x <= y
  <1> DEFINE R == OpToRel(<, Nat)
  <1>1. IsWellFoundedOn(R, Nat)
    BY NatLessThanWellFounded
  <1>2. \A x, y \in Nat : <<y, x>> \in R <=> y < x
    BY DEF OpToRel
  <1> HIDE DEF R
  <1> PICK x \in T : \A y \in T : <<y, x>> \notin R
    BY <1>1, WFMin
  <1>3. ASSUME NEW y \in T
        PROVE  x <= y
    <2>1. x \in Nat /\ y \in Nat /\ ~(y < x)
      BY <1>2
    <2> QED
      BY <2>1
  <1> QED
    BY <1>3

\* A set that holds 0 and the successors of its members holds all of them.
LEMMA NatIn ==
    ASSUME NEW T, 0 \in T, \A n \in Nat : n \in T => n + 1 \in T
    PROVE  \A n \in Nat : n \in T
  <1> DEFINE U == Nat \ T
  <1> SUFFICES ASSUME U # {}
               PROVE  FALSE
    OBVIOUS
  <1> PICK n \in U : \A m \in U : n <= m
    BY LeastExists
  <1>1. n \in Nat \ {0} /\ n - 1 \in Nat /\ (n - 1) + 1 = n
    OBVIOUS
  <1>2. n - 1 \notin U
    BY <1>1
  <1> QED
    BY <1>1, <1>2

\* A bounded one that is not empty has a greatest element.
LEMMA GreatestExists ==
    ASSUME NEW m \in Nat, NEW T \in SUBSET (0 .. m), T # {}
    PROVE  \E x \in T : \A y \in T : y <= x
  <1> DEFINE U == {i \in Nat : m - i \in T}
  <1>1. U \in SUBSET Nat /\ U # {}
    <2> PICK x \in T : TRUE
      OBVIOUS
    <2>1. m - x \in Nat /\ m - (m - x) = x
      OBVIOUS
    <2> QED
      BY <2>1
  <1> HIDE DEF U
  <1> PICK i \in U : \A j \in U : i <= j
    BY <1>1, LeastExists
  <1> USE DEF U
  <1>2. m - i \in T
    OBVIOUS
  <1>3. ASSUME NEW y \in T
        PROVE  y <= m - i
    <2>1. m - y \in U
      <3>1. m - y \in Nat /\ m - (m - y) = y
        OBVIOUS
      <3> QED
        BY <3>1
    <2>2. i <= m - y /\ i \in Nat /\ y \in 0 .. m
      BY <2>1
    <2> QED
      BY <2>2
  <1> QED
    BY <1>2, <1>3
=============================================================================
