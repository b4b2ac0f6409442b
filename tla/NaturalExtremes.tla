---------------------------- MODULE NaturalExtremes ----------------------------
(***************************************************************************)
(* Least and greatest elements of sets of numbers: the lowest free         *)
(* descriptor, the next session of a scan, the last packet of a session.   *)
(***************************************************************************)
EXTENDS Integers, FiniteSets, FiniteSetTheorems, WellFoundedInduction, TLAPS

\* A nonempty set of natural numbers has a least element.
LEMMA LeastOf ==
  ASSUME NEW S \in SUBSET Nat, S # {}
  PROVE  \E f \in S : \A g \in S : f <= g
<1> DEFINE R   == StrictSubsetOrdering(Nat)
           Fin == FiniteSubsetsOf(Nat)
           Up  == {0 .. f : f \in S}
<1>1. Up \subseteq Fin
  <2>1. ASSUME NEW f \in S PROVE 0 .. f \in Fin
    <3>1. 0 \in Int /\ f \in Int
      OBVIOUS
    <3>2. 0 .. f \in SUBSET Nat
      OBVIOUS
    <3> QED
      BY <3>1, <3>2, FS_Interval DEF FiniteSubsetsOf
  <2> QED
    BY <2>1
<1>2. Up # {}
  OBVIOUS
<1>3. PICK X \in Up : \A Y \in Up : ~(<<Y, X>> \in R)
  <2>1. IsWellFoundedOn(R, Fin)
    BY FS_StrictSubsetOrderingWellFounded
  <2> HIDE DEF R, Fin, Up
  <2> QED
    BY <1>1, <1>2, <2>1, WFMin
<1>4. PICK f \in S : X = 0 .. f
  BY <1>3
<1>5. ASSUME NEW g \in S, g < f PROVE FALSE
  <2>1. g \in Nat /\ f \in Nat
    OBVIOUS
  <2>2. 0 .. g \subseteq 0 .. f /\ f \in 0 .. f /\ f \notin 0 .. g
    BY <1>5, <2>1
  <2>3. <<0 .. g, 0 .. f>> \in R
    BY <2>1, <2>2 DEF StrictSubsetOrdering
  <2>4. 0 .. g \in Up
    OBVIOUS
  <2> QED
    BY <1>3, <1>4, <2>3, <2>4
<1>6. ASSUME NEW g \in S PROVE f <= g
  BY <1>5
<1> QED
  BY <1>6

\* A nonempty set of places of a queue of length n has a last one.
LEMMA GreatestOf ==
  ASSUME NEW n \in Nat, NEW S \in SUBSET (1 .. n), S # {}
  PROVE  \E f \in S : \A g \in S : g <= f
<1> DEFINE FromEnd == {n - k : k \in S}
<1>1. FromEnd \in SUBSET Nat /\ FromEnd # {}
  <2>1. \A k \in S : n - k \in Nat
    OBVIOUS
  <2> QED
    BY <2>1
<1>2. PICK d \in FromEnd : \A e \in FromEnd : d <= e
  <2> HIDE DEF FromEnd
  <2> QED
    BY <1>1, LeastOf
<1>3. PICK f \in S : d = n - f
  OBVIOUS
<1>4. \A g \in S : n - f <= n - g
  BY <1>2, <1>3
<1> QED
  BY <1>4
=============================================================================
