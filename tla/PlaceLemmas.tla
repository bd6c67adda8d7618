---------------------------- MODULE PlaceLemmas ----------------------------
(***************************************************************************)
(* Places of a sequence: that what is looked for from the front is found.  *)
(* A loop over a sequence is a CHOOSE or an \E in the models, which say     *)
(* where it stops; these lemmas show that it does stop, and only there.    *)
(***************************************************************************)
EXTENDS Integers, FiniteSetTheorems, TLAPS

(* A set of places has a first one.  The library has it of sets in general, *)
(* for an order that is well founded: of places, the order of the intervals *)
(* that end there.                                                         *)
LEMMA LeastOf ==
    ASSUME NEW n \in Nat, NEW S \in SUBSET (1 .. n), S # {}
    PROVE  \E i \in S : \A j \in S : i <= j
<1> DEFINE R == StrictSubsetOrdering(1 .. n)
           T == { 1 .. i : i \in S }
<1>1. IsWellFoundedOn(R, SUBSET (1 .. n))
  <2>1. FiniteSubsetsOf(1 .. n) = SUBSET (1 .. n)
    <3>1. IsFiniteSet(1 .. n)
      <4>1. 1 \in Int /\ n \in Int
        OBVIOUS
      <4> QED
        BY <4>1, FS_Interval, Zenon
    <3> QED
      BY <3>1, FS_FiniteSubsetsOfFinite
  <2> QED
    BY <2>1, FS_StrictSubsetOrderingWellFounded
<1>2. T \subseteq SUBSET (1 .. n) /\ T # {}
  <2>1. \A i \in S : 1 .. i \subseteq 1 .. n
    OBVIOUS
  <2> QED
    BY <2>1
<1> HIDE DEF R
<1>3. \E x \in T : \A y \in T : ~ (<< y, x >> \in R)
  <2> HIDE DEF T
  <2> QED
    BY <1>1, <1>2, WFMin
<1>4. PICK i \in S : \A j \in S : << 1 .. j, 1 .. i >> \notin R
  BY <1>3
<1>5. ASSUME NEW j \in S, ~ (i <= j) PROVE FALSE
  <2>1. j \in Nat /\ i \in Nat /\ j < i /\ i >= 1
    BY <1>5
  <2>2. (1 .. j) \subseteq 1 .. i /\ 1 .. j # 1 .. i /\ 1 .. j \in SUBSET (1 .. n) /\ 1 .. i \in SUBSET (1 .. n)
    BY <2>1
  <2>3. << 1 .. j, 1 .. i >> \in R
    BY <2>2 DEF R, StrictSubsetOrdering
  <2> QED
    BY <2>3, <1>4
<1> QED
  BY <1>4, <1>5

(* A loop that goes on while the place at the front is in P stops with k    *)
(* places taken: the next is not in P, or there is none.                   *)
StopsAt(k, n, P) == (\A i \in 1 .. k : i \in P) /\ (k < n => k + 1 \notin P)

LEMMA FrontEnds ==
    ASSUME NEW n \in Nat, NEW P
    PROVE  \E k \in 0 .. n : StopsAt(k, n, P)
<1> DEFINE S == { i \in 1 .. n : i \notin P }
<1>1. CASE S = {}
  <2>1. StopsAt(n, n, P)
    BY <1>1 DEF StopsAt
  <2> QED
    BY <2>1
<1>2. CASE S # {}
  <2>1. PICK j \in S : \A i \in S : j <= i
    <3>1. S \in SUBSET (1 .. n)
      OBVIOUS
    <3> HIDE DEF S
    <3> QED
      BY <1>2, <3>1, LeastOf
  <2>2. j - 1 \in 0 .. n /\ (j - 1) + 1 = j /\ j \in 1 .. n /\ j \notin P
    OBVIOUS
  <2>3. \A i \in 1 .. j - 1 : i \in P
    BY <2>1, <2>2
  <2>4. StopsAt(j - 1, n, P)
    BY <2>2, <2>3 DEF StopsAt
  <2> QED
    BY <2>2, <2>4
<1> QED
  BY <1>1, <1>2

LEMMA FrontEndsOnce ==
    ASSUME NEW n \in Nat, NEW P, NEW k \in 0 .. n, NEW j \in 0 .. n,
           StopsAt(k, n, P), StopsAt(j, n, P)
    PROVE  k = j
<1>1. CASE k < j
  <2>1. k + 1 \in 1 .. j /\ k < n
    BY <1>1
  <2> QED
    BY <2>1 DEF StopsAt
<1>2. CASE j < k
  <2>1. j + 1 \in 1 .. k /\ j < n
    BY <1>2
  <2> QED
    BY <2>1 DEF StopsAt
<1> QED
  BY <1>1, <1>2
=============================================================================
