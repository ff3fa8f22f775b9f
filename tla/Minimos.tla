------------------------------- MODULE Minimos -------------------------------
(* The least element of a set of naturals, which the CHOOSE of a first       *)
(* position or of a first slot takes, and the greatest of a finite one.      *)
EXTENDS Naturals, TLAPS, WellFoundedInduction, FiniteSetTheorems

(* A non-empty set of naturals has a least element. *)
LEMMA MinimoNat ==
  ASSUME NEW S \in SUBSET Nat, S # {}
  PROVE  \E x \in S : \A y \in S : x <= y
<1> DEFINE R == {ss \in Nat \X Nat : ss[1] < ss[2]}
<1>1. OpToRel(<, Nat) = R
  BY Zenon DEF OpToRel
<1>2. IsWellFoundedOn(R, Nat)
  BY <1>1, NatLessThanWellFounded
<1>3. \E x \in S : \A y \in S : ~(<<y, x>> \in R)
  BY <1>2, WFMin
<1>4. \A x, y \in S : ~(<<y, x>> \in R) => x <= y
  OBVIOUS
<1>5. QED
  BY <1>3, <1>4

(* A finite set of naturals has a greatest one.                              *)
LEMMA MaximoNat ==
  ASSUME NEW S \in SUBSET Nat, IsFiniteSet(S), S # {}
  PROVE  \E x \in S : \A y \in S : y <= x
<1> DEFINE Malo(T) == T # {} /\ ~ \E x \in T : \A y \in T : y <= x
           ns == {n \in Nat : \E T \in SUBSET S : Malo(T) /\ Cardinality(T) = n}
<1>1. SUFFICES ASSUME Malo(S) PROVE FALSE
  OBVIOUS
<1>2. ns # {} /\ ns \subseteq Nat
  BY <1>1, FS_CardinalityType
<1>3. PICK n \in ns : \A m \in ns : n <= m
  <2> HIDE DEF ns
  <2>1. QED
    BY <1>2, MinimoNat
<1>4. PICK T \in SUBSET S : Malo(T) /\ Cardinality(T) = n
  BY <1>3
<1>5. PICK x \in T : TRUE
  BY <1>4
<1>6. IsFiniteSet(T) /\ IsFiniteSet(T \ {x}) /\ Cardinality(T \ {x}) = n - 1
  BY <1>4, <1>5, FS_Subset, FS_RemoveElement
<1>7. ~Malo(T \ {x})
  <2>1. SUFFICES ASSUME Malo(T \ {x}) PROVE FALSE
    OBVIOUS
  <2>2. n - 1 \in Nat
    BY <1>6, FS_CardinalityType
  <2>3. n - 1 \in ns
    BY <1>6, <2>1, <2>2
  <2>4. n \in Nat
    BY <1>3
  <2> HIDE DEF ns
  <2>5. QED
    BY <1>3, <2>3, <2>4
<1>8. CASE T \ {x} = {}
  <2>1. \A y \in T : y = x
    BY <1>8
  <2>2. QED
    BY <1>4, <1>5, <2>1
<1>9. CASE T \ {x} # {}
  <2>1. PICK m \in T \ {x} : \A y \in T \ {x} : y <= m
    BY <1>7, <1>9
  <2>2. x \in Nat /\ m \in Nat /\ T \subseteq Nat
    BY <1>5, <2>1
  <2>3. \A y \in T : y <= (IF x <= m THEN m ELSE x)
    BY <2>1, <2>2
  <2>4. QED
    BY <1>4, <1>5, <2>1, <2>3
<1>10. QED
  BY <1>8, <1>9
==============================================================================
