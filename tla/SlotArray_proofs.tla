--------------------------- MODULE SlotArray_proofs ---------------------------
(***************************************************************************)
(* What the searches and removals of SlotArray return, for any array.      *)
(***************************************************************************)
EXTENDS SlotArray, FiniteSets, FiniteSetTheorems, WellFoundedInduction, TLAPS

(* A set of natural numbers has a least element.                           *)
LEMMA SetHasMinimum ==
  ASSUME NEW S \in SUBSET Nat, S # {}
  PROVE  \E i \in S : \A j \in S : i <= j
<1> DEFINE R == OpToRel(<, Nat)
<1>1. IsWellFoundedOn(R, Nat)
  BY NatLessThanWellFounded
<1>2. \A i, j \in Nat : <<j, i>> \notin R => i <= j
  BY DEF OpToRel
<1> HIDE DEF R
<1>3. \E i \in S : \A j \in S : <<j, i>> \notin R
  BY <1>1, WFMin, Zenon
<1> QED BY <1>2, <1>3, Zenon

(* What findInArray returns.                                               *)
LEMMA FindProperties ==
  ASSUME NEW a, NEW n \in Nat, NEW x
  PROVE  \/ /\ Find(a, n, x) \in 0..(n - 1) /\ a[Find(a, n, x)] = x
            /\ \A j \in 0..(Find(a, n, x) - 1) : a[j] # x
         \/ /\ Find(a, n, x) = NotFound
            /\ \A i \in 0..(n - 1) : a[i] # x
<1>1. CASE \E i \in 0..(n - 1) : a[i] = x
  <2> DEFINE hits == {i \in 0..(n - 1) : a[i] = x}
  <2>1. hits \in SUBSET Nat /\ hits # {}
    BY <1>1
  <2>2. \E i \in hits : \A j \in hits : i <= j
    <3> HIDE DEF hits
    <3> QED BY <2>1, SetHasMinimum, Zenon
  <2>3. \E i \in 0..(n - 1) : a[i] = x /\ \A j \in 0..(i - 1) : a[j] # x
    BY <2>2
  <2> QED BY <1>1, <2>3 DEF Find
<1>2. CASE ~ \E i \in 0..(n - 1) : a[i] = x
  BY <1>2 DEF Find
<1> QED BY <1>1, <1>2

(* What is in use is found, and nothing before it is equal to it.          *)
LEMMA FindFirst ==
  ASSUME NEW a, NEW n \in Nat, NEW x, \E i \in 0..(n - 1) : a[i] = x
  PROVE  /\ Find(a, n, x) \in 0..(n - 1) /\ a[Find(a, n, x)] = x
         /\ \A i \in Nat : a[i] = x => Find(a, n, x) <= i
<1> DEFINE e == Find(a, n, x)
<1>1. /\ e \in 0..(n - 1) /\ a[e] = x
      /\ \A j \in 0..(e - 1) : a[j] # x
  BY FindProperties
<1> HIDE DEF e
<1>2. \A i \in Nat : a[i] = x => e <= i
  BY <1>1
<1> QED BY <1>1, <1>2 DEF e

(* A removal keeps the type of an array.                                   *)
LEMMA ShiftType ==
  ASSUME NEW N \in Nat, NEW T, NEW a \in [0..(N - 1) -> T], NEW n \in 0..N,
         NEW i \in 0..(n - 1)
  PROVE  Shift(a, n, i) \in [0..(N - 1) -> T]
<1> SUFFICES ASSUME NEW j \in 0..(N - 1)
             PROVE  (IF i <= j /\ j < n - 1 THEN a[j + 1] ELSE a[j]) \in T
  BY DEF Shift
<1>1. i <= j /\ j < n - 1 => j + 1 \in 0..(N - 1)
  OBVIOUS
<1> QED BY <1>1

(* The slots that hold an element are finitely many.                       *)
LEMMA SlotsFinite ==
  ASSUME NEW a, NEW n \in Nat, NEW x
  PROVE  IsFiniteSet(SlotsOf(a, n, x)) /\ Cardinality(SlotsOf(a, n, x)) \in Nat
<1>1. IsFiniteSet(0..(n - 1))
  BY FS_Interval
<1>2. SlotsOf(a, n, x) \in SUBSET (0..(n - 1))
  BY DEF SlotsOf
<1>3. IsFiniteSet(SlotsOf(a, n, x))
  BY <1>1, <1>2, FS_Subset
<1> QED BY <1>3, FS_CardinalityType

(* A removal leaves no more of them.                                       *)
LEMMA ShiftCount ==
  ASSUME NEW N \in Nat, NEW T, NEW a \in [0..(N - 1) -> T], NEW n \in 0..N,
         NEW i \in 0..(n - 1), NEW x
  PROVE  Cardinality(SlotsOf(Shift(a, n, i), n - 1, x)) <= Cardinality(SlotsOf(a, n, x))
<1> DEFINE old == SlotsOf(a, n, x)
           new == SlotsOf(Shift(a, n, i), n - 1, x)
           f == [j \in new |-> IF i <= j THEN j + 1 ELSE j]
<1>1. IsFiniteSet(old)
  BY SlotsFinite
<1>2. f \in [new -> old]
  <2> SUFFICES ASSUME NEW j \in new PROVE (IF i <= j THEN j + 1 ELSE j) \in old
    OBVIOUS
  <2>1. j \in 0..(n - 2) /\ j \in 0..(N - 1) /\ Shift(a, n, i)[j] = x
    BY DEF SlotsOf
  <2>2. x = IF i <= j /\ j < n - 1 THEN a[j + 1] ELSE a[j]
    BY <2>1 DEF Shift
  <2> QED BY <2>1, <2>2 DEF SlotsOf
<1>3. \A j, l \in new : f[j] = f[l] => j = l
  BY DEF SlotsOf
<1>4. f \in Injection(new, old)
  BY <1>2, <1>3 DEF Injection, IsInjective
<1> HIDE DEF f, old, new
<1>5. Cardinality(new) <= Cardinality(old)
  BY <1>1, <1>4, FS_Injection
<1> QED BY <1>5 DEF old, new

(* What a removal leaves of the other elements: each is still in use, no   *)
(* further behind than it was.                                             *)
LEMMA ShiftKeeps ==
  ASSUME NEW N \in Nat, NEW a, DOMAIN a = 0..(N - 1), NEW n \in 0..N, NEW i \in 0..(n - 1),
         NEW j \in 0..(n - 1), j # i
  PROVE  \E l \in 0..(n - 2) : l <= j /\ Shift(a, n, i)[l] = a[j]
<1>1. CASE j < i
  <2>1. j \in 0..(n - 2) /\ j \in DOMAIN a /\ ~(i <= j)
    BY <1>1
  <2> QED BY <2>1 DEF Shift
<1>2. CASE i < j
  <2>1. j - 1 \in 0..(n - 2) /\ j - 1 \in DOMAIN a /\ i <= j - 1 /\ j - 1 < n - 1
    BY <1>2
  <2>2. Shift(a, n, i)[j - 1] = a[(j - 1) + 1] /\ (j - 1) + 1 = j
    BY <2>1 DEF Shift
  <2> QED BY <2>1, <2>2
<1> QED BY <1>1, <1>2
=============================================================================
