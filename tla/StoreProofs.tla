---------------------------- MODULE StoreProofs -----------------------------
(***************************************************************************)
(* Facts about the operators of MessageStore, for the proofs about the     *)
(* modules built on it: the least and the greatest of a set of numbers,    *)
(* the backlog and its slice, and the cursor update.                       *)
(***************************************************************************)
EXTENDS MessageStore, FiniteSetTheorems, WellFoundedInduction, TLAPS

(* Every nonempty set of numbers has a least one: ORDER BY seq ASC always  *)
(* has a first row, and Min is it.                                         *)
LEMMA MinOfNaturals ==
    ASSUME NEW S \in SUBSET Nat, S # {}
    PROVE  /\ Min(S) \in S
           /\ \A y \in S : Min(S) <= y
<1>1. \E x \in S : \A y \in S : <<y, x>> \notin OpToRel(<, Nat)
  BY NatLessThanWellFounded, WFMin
<1>2. \A x, y \in Nat : x < y => <<x, y>> \in OpToRel(<, Nat)
  BY DEF OpToRel
<1>3. PICK x \in S : \A y \in S : <<y, x>> \notin OpToRel(<, Nat)
  BY <1>1
<1>4. \A y \in S : x <= y
  <2> TAKE y \in S
  <2>1. x \in Nat /\ y \in Nat /\ ~(y < x)
    BY <1>2, <1>3
  <2> QED BY <2>1
<1> QED BY <1>4 DEF Min

(* A nonempty set of numbers with an upper bound has a greatest one, and   *)
(* Max is it: the highest seq a replay or a flush has to cover.            *)
LEMMA MaxOfBounded ==
    ASSUME NEW S \in SUBSET Nat, S # {}, NEW n \in Nat, \A x \in S : x <= n
    PROVE  /\ Max(S) \in S
           /\ \A y \in S : Max(S) >= y
<1> DEFINE T == {n - x : x \in S}
<1>1. T \in SUBSET Nat /\ T # {}
  <2>1. \A x \in S : n - x \in Nat
    OBVIOUS
  <2> QED BY <2>1
<1>2. Min(T) \in T /\ \A y \in T : Min(T) <= y
  BY <1>1, MinOfNaturals
<1>3. PICK x \in S : Min(T) = n - x
  BY <1>2
<1>4. \A y \in S : n - y \in T
  OBVIOUS
<1>5. \A y \in S : x >= y
  <2> TAKE y \in S
  <2>1. n - x <= n - y
    BY <1>2, <1>3, <1>4
  <2> QED BY <2>1
<1> QED BY <1>5 DEF Max

(* Any finite set of positions has one of every rank up to its size: the   *)
(* flush finds a pending frame for each place of what it writes.           *)
LEMMA EveryRankTaken ==
    ASSUME NEW n \in Nat, NEW I \in SUBSET (1 .. n), NEW r \in 1 .. Cardinality(I)
    PROVE  \E i \in I : Cardinality({j \in I : j <= i}) = r
<1> DEFINE Upto(i) == {j \in I : j <= i}
<1>1. \A j \in I : j \in Nat /\ 1 <= j /\ j <= n
  OBVIOUS
<1>2. IsFiniteSet(I) /\ \A i : IsFiniteSet(Upto(i)) /\ Cardinality(Upto(i)) \in Nat
  <2>1. IsFiniteSet(1 .. n)
    BY FS_Interval
  <2>2. IsFiniteSet(I) /\ \A i : Upto(i) \in SUBSET I
    BY <2>1, FS_Subset
  <2> QED BY <2>2, FS_Subset, FS_CardinalityType
<1>3. r \in Nat /\ 1 <= r /\ r <= Cardinality(I)
  BY <1>2, FS_CardinalityType
<1>4. Upto(0) = {} /\ Upto(n) = I
  <2>1. \A j \in I : ~(j <= 0) /\ j <= n
    BY <1>1
  <2> QED BY <2>1, Zenon
<1>5. ASSUME NEW i \in Nat \ {0}, i \in I
      PROVE  Cardinality(Upto(i)) = Cardinality(Upto(i - 1)) + 1
  <2>1. \A j \in I : j <= i <=> j <= i - 1 \/ j = i
    BY <1>1
  <2>2. ~(i <= i - 1) /\ i <= i
    OBVIOUS
  <2>3. Upto(i) = Upto(i - 1) \cup {i} /\ i \notin Upto(i - 1)
    BY <2>1, <2>2, <1>5, Zenon
  <2> HIDE DEF Upto
  <2> QED BY <2>3, <1>2, FS_AddElement
<1>6. ASSUME NEW i \in Nat \ {0}, i \notin I
      PROVE  Upto(i) = Upto(i - 1)
  <2>1. \A j \in I : j <= i <=> j <= i - 1
    BY <1>1, <1>6
  <2> QED BY <2>1, Zenon
<1> DEFINE T == {i \in 0 .. n : Cardinality(Upto(i)) >= r}
<1>7. PICK i \in T : \A j \in T : i <= j
  <2>1. n \in T
    BY <1>3, <1>4
  <2>2. T \in SUBSET Nat
    OBVIOUS
  <2> QED BY <2>1, <2>2, MinOfNaturals
<1> HIDE DEF Upto
<1>8. i \in Nat \ {0} /\ Cardinality(Upto(i)) >= r
  <2>1. i \in 0 .. n /\ Cardinality(Upto(i)) >= r
    BY <1>7
  <2>2. Cardinality(Upto(0)) = 0
    BY <1>4, FS_EmptySet
  <2> QED BY <2>1, <2>2, <1>3
<1>9. Cardinality(Upto(i - 1)) < r
  <2>1. i - 1 \in 0 .. n /\ ~(i <= i - 1)
    BY <1>7, <1>8
  <2>2. i - 1 \notin T
    BY <2>1, <1>7
  <2> QED BY <2>1, <2>2, <1>2, <1>3
<1>10. i \in I
  BY <1>2, <1>3, <1>6, <1>8, <1>9
<1>11. Cardinality(Upto(i)) = r
  BY <1>2, <1>3, <1>5, <1>8, <1>9, <1>10
<1> QED BY <1>10, <1>11 DEF Upto
=============================================================================
