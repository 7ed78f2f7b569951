------------------------------ MODULE Extremes ------------------------------
(***************************************************************************)
(* What Max and Min choose, of which the models make much use: the last    *)
(* of the messages that ..., the first place where ...                     *)
(***************************************************************************)
EXTENDS Naturals, FiniteSetsExt, FiniteSetTheorems, WellFoundedInduction, TLAPS

(* Numbers that are bounded have a greatest and a least: among the sets    *)
(* of the greater (less) ones there is a smallest.                         *)
LEMMA Greatest ==
    ASSUME NEW S \in SUBSET Nat, S # {}, NEW n \in Nat, \A x \in S : x <= n
    PROVE Max(S) \in S /\ \A x \in S : x <= Max(S)
<1> DEFINE Above(x) == {y \in S : x < y}
           T == {Above(x) : x \in S}
<1>1. IsFiniteSet(S)
  BY FS_BoundedSetOfNaturals
<1>2. T \subseteq FiniteSubsetsOf(S) /\ T # {}
  <2>1. T \subseteq SUBSET S /\ T # {}
    OBVIOUS
  <2>2. FiniteSubsetsOf(S) = SUBSET S
    BY <1>1, FS_FiniteSubsetsOfFinite
  <2> HIDE DEF T
  <2> QED BY <2>1, <2>2
<1> HIDE DEF T
<1>3. PICK t \in T : \A u \in T : ~(<<u, t>> \in StrictSubsetOrdering(S))
  <2>1. IsWellFoundedOn(StrictSubsetOrdering(S), FiniteSubsetsOf(S))
    BY FS_StrictSubsetOrderingWellFounded
  <2> QED BY <1>2, <2>1, WFMin
<1> USE DEF T
<1>4. PICK x \in S : t = Above(x)
  BY <1>3
<1>5. ASSUME NEW y \in S, x < y PROVE FALSE
  <2>1. Above(y) \in T /\ Above(y) \subseteq Above(x) /\ y \in Above(x) /\ y \notin Above(y)
    <3>1. Above(y) \in T
      OBVIOUS
    <3>2. \A z \in S : y < z => x < z
      BY <1>5
    <3>3. y \in Above(x) /\ y \notin Above(y)
      BY <1>5
    <3> QED BY <3>1, <3>2, <3>3
  <2>2. <<Above(y), Above(x)>> \in StrictSubsetOrdering(S)
    <3>1. <<Above(y), Above(x)>> \in (SUBSET S) \X (SUBSET S)
      OBVIOUS
    <3>2. Above(y) \subseteq Above(x) /\ Above(y) # Above(x)
      BY <2>1
    <3> HIDE DEF Above
    <3> QED BY <3>1, <3>2 DEF StrictSubsetOrdering
  <2> QED BY <1>3, <1>4, <2>1, <2>2
<1>6. \A y \in S : y <= x
  BY <1>5
<1>7. \E z \in S : \A y \in S : z >= y
  BY <1>6
<1>8. Max(S) \in S /\ \A y \in S : Max(S) >= y
  BY <1>7 DEF Max
<1> QED BY <1>8

(* The least of any set of numbers: the greatest of the numbers below all  *)
(* of it.                                                                  *)
LEMMA Least ==
    ASSUME NEW S \in SUBSET Nat, S # {}
    PROVE Min(S) \in S /\ \A x \in S : Min(S) <= x
<1>1. PICK n \in S : TRUE
  OBVIOUS
<1> DEFINE U == {k \in 0..n : \A x \in S : k <= x}
<1>2. U \in SUBSET Nat /\ 0 \in U /\ \A k \in U : k <= n
  OBVIOUS
<1>3. Max(U) \in U /\ \A k \in U : k <= Max(U)
  BY <1>2, Greatest
<1> DEFINE m == Max(U)
<1>4. m \in Nat /\ (\A x \in S : m <= x) /\ m \in 0..n
  BY <1>3
<1>5. m \in S
  <2> SUFFICES ASSUME m \notin S PROVE FALSE
    OBVIOUS
  <2>1. \A x \in S : m + 1 <= x
    BY <1>4
  <2>2. m + 1 \in U
    BY <2>1, <1>1, <1>4
  <2> QED BY <1>3, <1>4, <2>2
<1> HIDE DEF U
<1>6. \E z \in S : \A y \in S : z <= y
  BY <1>4, <1>5
<1> QED BY <1>6 DEF Min

=============================================================================
