------------------------------ MODULE Positions ------------------------------
(* A set of positions has a first one: what stands in for induction where  *)
(* a proof goes along a path, a batch or a list.                           *)
EXTENDS Naturals, FiniteSetTheorems, WellFoundedInduction, TLAPS

(* Every nonempty set of numbers from 1 to n has a least one.              *)
LEMMA FirstPosition ==
  ASSUME NEW n \in Nat, NEW T \in SUBSET (1..n), T # {}
  PROVE  \E x \in T : \A y \in T : x <= y
<1> DEFINE S == 1..n
           R == StrictSubsetOrdering(S)
           F == {1..i : i \in T}
<1>1. IsWellFoundedOn(R, SUBSET S)
  <2>1. IsFiniteSet(S)
    BY FS_Interval
  <2> HIDE DEF S
  <2> QED
    BY <2>1, FS_StrictSubsetOrderingWellFounded, FS_FiniteSubsetsOfFinite
<1>2. \A x \in T : 1..x \in SUBSET S
  OBVIOUS
<1>3. ASSUME NEW x \in T, NEW y \in T, y < x
      PROVE  <<1..y, 1..x>> \in R
  <2>1. 1..y \subseteq 1..x /\ x \in 1..x /\ x \notin 1..y
    BY <1>3
  <2> QED
    BY <1>2, <2>1 DEF StrictSubsetOrdering
<1>4. F \subseteq SUBSET S /\ F # {}
  <2> HIDE DEF S
  <2> QED
    BY <1>2
<1>5. T \subseteq Nat
  OBVIOUS
<1> HIDE DEF R, S
<1>6. PICK A \in F : \A B \in F : ~(<<B, A>> \in R)
  <2> HIDE DEF F
  <2> QED
    BY <1>1, <1>4, WFMin
<1>7. PICK x \in T : A = 1..x
  OBVIOUS
<1>8. \A y \in T : ~(y < x)
  BY <1>3, <1>6, <1>7
<1> QED
  BY <1>5, <1>8

(* So has every nonempty set of numbers from 0 to n.                       *)
LEMMA FirstNumber ==
  ASSUME NEW n \in Nat, NEW T \in SUBSET (0..n), T # {}
  PROVE  \E x \in T : \A y \in T : x <= y
<1> DEFINE U == {i \in 1..(n + 1) : i - 1 \in T}
<1>1. \A x \in T : x + 1 \in U /\ x \in 0..n
  OBVIOUS
<1>2. U \in SUBSET (1..(n + 1)) /\ n + 1 \in Nat
  OBVIOUS
<1>3. U # {}
  <2>1. PICK x \in T : TRUE
    OBVIOUS
  <2>2. x + 1 \in U
    BY <1>1
  <2> HIDE DEF U
  <2> QED
    BY <2>2
<1>4. PICK x \in U : \A y \in U : x <= y
  <2> HIDE DEF U
  <2> QED
    BY <1>2, <1>3, FirstPosition
<1>5. x - 1 \in T /\ x \in 1..(n + 1)
  OBVIOUS
<1>6. \A y \in T : x - 1 <= y
  BY <1>1, <1>4, <1>5
<1> QED
  BY <1>5, <1>6

=============================================================================
