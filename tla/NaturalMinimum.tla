--------------------------- MODULE NaturalMinimum ---------------------------
(***************************************************************************)
(* Min, with which the models say "the first such index", is what it says: *)
(* every nonempty set of natural numbers has a least element.              *)
(***************************************************************************)
EXTENDS FiniteSetsExt, FiniteSetTheorems, TLAPS

\* A nonempty set of natural numbers has a least element, which is its Min.  The
\* initial segments 0..k for its elements k up to one of them, n, are subsets of
\* the finite set 0..n, and strict inclusion is well founded there.
LEMMA MinIsLeast ==
    ASSUME NEW S, S \subseteq Nat, S # {}
    PROVE  Min(S) \in S /\ \A y \in S : Min(S) <= y
<1>1. PICK n \in S : TRUE
    OBVIOUS
<1> DEFINE Segments == {0..k : k \in {j \in S : j <= n}}
           R == StrictSubsetOrdering(0..n)
<1>2. Segments \subseteq FiniteSubsetsOf(0..n)
    <2>1. SUFFICES ASSUME NEW k \in S, k <= n
                   PROVE  0..k \in FiniteSubsetsOf(0..n)
        BY DEF Segments
    <2>2. IsFiniteSet(0..k) /\ 0..k \subseteq 0..n
        BY <2>1, FS_Interval
    <2> QED BY <2>2 DEF FiniteSubsetsOf
<1>3. IsWellFoundedOn(R, FiniteSubsetsOf(0..n)) /\ Segments # {}
    BY <1>1, FS_StrictSubsetOrderingWellFounded
<1>4. PICK s \in Segments : \A t \in Segments : ~(<<t, s>> \in R)
    <2> HIDE DEF Segments, R
    <2> QED BY <1>2, <1>3, WFMin
<1>5. PICK k \in S : k <= n /\ s = 0..k
    BY <1>4
<1>6. ASSUME NEW j \in S
      PROVE  k <= j
    <2>1. SUFFICES ASSUME j < k PROVE FALSE
        BY <1>5
    <2>2. 0..j \in Segments
        BY <1>5, <2>1
    <2>3. 0..j \subseteq 0..k /\ 0..j # 0..k /\ 0..k \subseteq 0..n
        <3>1. k \in 0..k /\ k \notin 0..j
            BY <2>1
        <3> QED BY <1>5, <2>1, <3>1
    <2>4. <<0..j, 0..k>> \in R
        BY <2>3 DEF StrictSubsetOrdering
    <2> QED BY <1>4, <1>5, <2>2, <2>4
<1>7. \E x \in S : \A y \in S : x <= y
    BY <1>6
<1> QED BY <1>7 DEF Min
=============================================================================
