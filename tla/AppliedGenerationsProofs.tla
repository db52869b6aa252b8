----------------------- MODULE AppliedGenerationsProofs -----------------------
(***************************************************************************)
(* The arithmetic by which a reconciler is shown to implement              *)
(* AppliedGenerations: the last applied generation is the greatest of a    *)
(* set of generations, and the set only grows.                             *)
(***************************************************************************)
EXTENDS Integers, FiniteSetsExt, WellFoundedInduction, TLAPS

\* The greatest of the generations applied so far, 0 when there is none.
Latest(applied) == Max({0} \cup applied)

LEMMA MaxFacts ==
    ASSUME NEW n \in Nat, NEW S \in SUBSET (0..n), S # {}
    PROVE  Max(S) \in S /\ \A x \in S : x <= Max(S)
  <1> DEFINE T == {n - x : x \in S}
  <1>1. T \subseteq Nat /\ T # {}
    <2>1. \A x \in S : n - x \in Nat
      OBVIOUS
    <2>2. QED
      BY <2>1
  <1>2. PICK t \in T : \A y \in T : ~(<<y, t>> \in OpToRel(<, Nat))
    BY <1>1, NatLessThanWellFounded, WFMin
  <1>3. \A y \in T : ~(y < t)
    BY <1>1, <1>2 DEF OpToRel
  <1>4. PICK m \in S : t = n - m
    BY <1>2
  <1>5. \A x \in S : m >= x
    <2> SUFFICES ASSUME NEW x \in S PROVE m >= x
      OBVIOUS
    <2>1. ~(n - x < n - m)
      BY <1>3, <1>4
    <2>2. QED
      BY <2>1
  <1>6. \E x \in S : \A y \in S : x >= y
    BY <1>5
  <1>7. Max(S) \in S /\ \A y \in S : Max(S) >= y
    BY <1>6 DEF Max
  <1>8. QED
    BY <1>7

\* The latest of the generations up to g is one of them, or 0.
LEMMA LatestFacts ==
    ASSUME NEW g \in Nat, NEW A \in SUBSET (1..g)
    PROVE  /\ Latest(A) \in {0} \cup A
           /\ Latest(A) \in 0..g
           /\ \A x \in A : x <= Latest(A)
  <1>1. {0} \cup A \in SUBSET (0..g) /\ {0} \cup A # {}
    OBVIOUS
  <1>2. /\ Max({0} \cup A) \in {0} \cup A
        /\ \A x \in {0} \cup A : x <= Max({0} \cup A)
    BY <1>1, MaxFacts
  <1>3. Max({0} \cup A) \in 0..g
    BY <1>1, <1>2
  <1>4. QED
    BY <1>2, <1>3 DEF Latest

\* What is applied only grows: the latest stays, or moves forward.
LEMMA LatestGrows ==
    ASSUME NEW g \in Nat, NEW A \in SUBSET (1..g), NEW B \in SUBSET (1..g),
           A \subseteq B
    PROVE  Latest(B) = Latest(A) \/ Latest(B) \in (Latest(A) + 1)..g
  <1>1. /\ Latest(A) \in {0} \cup A /\ Latest(A) \in 0..g
        /\ Latest(B) \in 0..g
        /\ \A x \in B : x <= Latest(B)
    BY LatestFacts
  <1>2. Latest(A) <= Latest(B)
    BY <1>1
  <1>3. QED
    BY <1>1, <1>2

\* Of a new generation only the last one can be new among the applied ones.
LEMMA LatestEdited ==
    ASSUME NEW g \in Nat, NEW A \in SUBSET (1..g), NEW B, 
           A \subseteq B, B \subseteq A \cup {g + 1}
    PROVE  Latest(B) \in {Latest(A), g + 1}
  <1>1. CASE B = A
    BY <1>1
  <1>2. CASE g + 1 \in B
    <2>1. B \in SUBSET (1..(g + 1)) /\ g + 1 \in Nat
      OBVIOUS
    <2>2. /\ Latest(B) \in 0..(g + 1)
          /\ \A x \in B : x <= Latest(B)
      BY <2>1, LatestFacts
    <2>3. g + 1 <= Latest(B)
      BY <1>2, <2>2
    <2>4. QED
      BY <2>2, <2>3
  <1>3. QED
    BY <1>1, <1>2
===============================================================================
