------------------------- MODULE HttpMessage_proofs -------------------------
(***************************************************************************)
(* Proofs about HttpMessage: a message that is well formed is printed as a *)
(* text that is parsed as that message, and what is parsed, of whatever    *)
(* text, is a message that is well formed.  None of the recursion over a   *)
(* text is unfolded by induction: the lemmas take the least counterexample.*)
(***************************************************************************)
EXTENDS HttpMessage, FiniteSets, FiniteSetTheorems, SequenceTheorems,
        WellFoundedInduction, TLAPS

-----------------------------------------------------------------------------
(* Sets of numbers                                                         *)

(* A set of natural numbers has a least element.                           *)
LEMMA LeastElement ==
  ASSUME NEW S \in SUBSET Nat, S # {}
  PROVE  \E i \in S : \A j \in S : i <= j
<1> DEFINE R == OpToRel(<, Nat)
<1>1. IsWellFoundedOn(R, Nat)
  BY NatLessThanWellFounded
<1>2. \A i, j \in Nat : <<j, i>> \notin R => i <= j
  BY DEF OpToRel
<1> HIDE DEF R
<1>3. \E i \in S : \A j \in S : <<j, i>> \notin R
  BY <1>1, WFMin, Zenon
<1> QED BY <1>2, <1>3, Zenon

(* The least element of a set of numbers that is not empty.                *)
LEMMA LowestIs ==
  ASSUME NEW S \in SUBSET Nat, S # {}
  PROVE  Lowest(S) \in S /\ \A k \in S : Lowest(S) <= k
BY LeastElement DEF Lowest

LEMMA LowestEquals ==
  ASSUME NEW S \in SUBSET Nat, NEW x \in S, \A k \in S : x <= k
  PROVE  Lowest(S) = x
<1> DEFINE low == Lowest(S)
<1>1. low \in S /\ low <= x /\ low \in Nat /\ x \in Nat
  BY LowestIs
<1> HIDE DEF low
<1>2. x <= low
  BY <1>1
<1>3. low = x
  BY <1>1, <1>2
<1> QED BY <1>3 DEF low

(* The greatest element of a finite set of numbers that is not empty.      *)
LEMMA HighestIs ==
  ASSUME NEW n \in Nat, NEW S \in SUBSET (1..n), S # {}
  PROVE  Highest(S) \in S /\ \A k \in S : k <= Highest(S)
<1> DEFINE gaps == {g \in Nat : n - g \in S}
<1>1. gaps # {} /\ gaps \in SUBSET Nat
  <2>1. PICK j \in S : TRUE
    OBVIOUS
  <2>2. n - j \in Nat /\ n - (n - j) = j
    OBVIOUS
  <2> QED BY <2>1, <2>2
<1>2. PICK g \in gaps : \A h \in gaps : g <= h
  <2> HIDE DEF gaps
  <2> QED BY <1>1, LeastElement, Zenon
<1>3. ASSUME NEW k \in S PROVE k <= n - g
  <2>1. n - k \in Nat /\ n - (n - k) = k
    OBVIOUS
  <2>2. g <= n - k /\ g \in Nat
    BY <1>2, <2>1
  <2> QED BY <2>2
<1>4. \E x \in S : \A k \in S : k <= x
  BY <1>2, <1>3
<1> QED BY <1>4 DEF Highest

(* Of numbers that grow, the last is the highest.                          *)
LEMMA HighestOfRising ==
  ASSUME NEW n \in Nat, n # 0, NEW p, \A j \in 1..n : p[j] \in Nat,
         \A j \in 1..n, k \in 1..n : j < k => p[j] < p[k]
  PROVE  Highest({p[j] : j \in 1..n}) = p[n]
<1> DEFINE S == {p[j] : j \in 1..n}
           high == Highest(S)
<1>1. n \in 1..n
  OBVIOUS
<1>2. p[n] \in S
  BY <1>1
<1>3. ASSUME NEW e \in S PROVE e <= p[n] /\ e \in Nat /\ p[n] \in Nat
  <2>1. PICK j \in 1..n : e = p[j]
    OBVIOUS
  <2>2. j = n \/ j < n
    OBVIOUS
  <2>3. p[j] \in Nat /\ p[n] \in Nat /\ (j = n \/ p[j] < p[n])
    BY <1>1, <2>2
  <2> QED BY <2>1, <2>3
<1> HIDE DEF S
<1>4. high = CHOOSE j \in S : \A k \in S : k <= j
  BY DEF Highest
<1>5. high \in S /\ \A k \in S : k <= high
  BY <1>2, <1>3, <1>4
<1>6. high <= p[n] /\ p[n] <= high /\ high \in Nat /\ p[n] \in Nat
  BY <1>2, <1>3, <1>5
<1> HIDE DEF high
<1>7. high = p[n]
  BY <1>6
<1> QED BY <1>7 DEF high, S

(* In a finite set of numbers there is one before which there are k - 1:   *)
(* the least that is not among those up to the one of k - 1.               *)
LEMMA NthExists ==
  ASSUME NEW S \in SUBSET Nat, IsFiniteSet(S), NEW k \in 1..Cardinality(S)
  PROVE  \E e \in S : Cardinality({d \in S : d < e}) = k - 1
<1> DEFINE Before(e) == {d \in S : d < e}
           bad == {j \in Nat : j \in 1..Cardinality(S) /\ ~\E e \in S : Cardinality(Before(e)) = j - 1}
<1>0. Cardinality(S) \in Nat
  BY FS_CardinalityType
<1>1. SUFFICES ASSUME bad # {} PROVE FALSE
  BY <1>0
<1>2. PICK j \in bad : \A i \in bad : j <= i
  <2>1. bad \in SUBSET Nat
    OBVIOUS
  <2> HIDE DEF bad
  <2> QED BY <1>1, <2>1, LeastElement, Zenon
<1>3. PICK done \in SUBSET S : /\ Cardinality(done) = j - 1
                              /\ \A d \in done, e \in S \ done : d < e
  <2>1. CASE j = 1
    <3>1. Cardinality({}) = 0
      BY FS_EmptySet
    <3>2. \A d \in {}, e \in S \ {} : d < e
      OBVIOUS
    <3> QED BY <2>1, <3>1, <3>2
  <2>2. CASE j # 1
    <3>1. j \in Nat /\ j \in 1..Cardinality(S)
      OBVIOUS
    <3>2. j - 1 \in 1..Cardinality(S) /\ j - 1 \in Nat /\ ~(j <= j - 1)
      BY <1>0, <2>2, <3>1
    <3>3. j - 1 \notin bad
      BY <1>2, <3>2
    <3>4. PICK e \in S : Cardinality(Before(e)) = (j - 1) - 1
      BY <3>2, <3>3
    <3>5. IsFiniteSet(Before(e)) /\ e \notin Before(e)
      BY FS_Subset
    <3>6. Cardinality(Before(e) \cup {e}) = Cardinality(Before(e)) + 1
      BY <3>5, FS_AddElement
    <3>7. Cardinality(Before(e) \cup {e}) = j - 1
      BY <3>1, <3>4, <3>6
    <3>8. \A d \in Before(e) \cup {e}, c \in S \ (Before(e) \cup {e}) : d < c
      OBVIOUS
    <3> QED BY <3>7, <3>8
  <2> QED BY <2>1, <2>2
<1>4. S \ done # {}
  <2>1. j \in 1..Cardinality(S)
    OBVIOUS
  <2>2. done # S
    BY <1>0, <1>3, <2>1
  <2> QED BY <2>2
<1>5. PICK e \in S \ done : \A d \in S \ done : e <= d
  <2>1. S \ done \in SUBSET Nat
    OBVIOUS
  <2> QED BY <1>4, <2>1, LeastElement
<1>6. Before(e) = done
  <2>1. \A d \in done : d < e
    BY <1>3
  <2>2. ASSUME NEW d \in S, d < e PROVE d \in done
    <3>1. d \in Nat /\ e \in Nat
      OBVIOUS
    <3> QED BY <1>5, <2>2, <3>1
  <2> QED BY <1>3, <2>1, <2>2
<1> QED BY <1>3, <1>6

(* Nth is an element, and as many are below it as its place says.          *)
LEMMA NthIs ==
  ASSUME NEW S \in SUBSET Nat, IsFiniteSet(S), NEW k \in 1..Cardinality(S)
  PROVE  Nth(S, k) \in S /\ Cardinality({d \in S : d < Nth(S, k)}) = k - 1
<1>1. \E e \in S : Cardinality({d \in S : d < e}) = k - 1
  BY NthExists
<1> QED BY <1>1 DEF Nth

(* Numbers that grow are as many as their indices.                         *)
LEMMA RisingCardinality ==
  ASSUME NEW m \in Nat, NEW p, \A j \in 1..m : p[j] \in Nat,
         \A j \in 1..m, k \in 1..m : j < k => p[j] < p[k]
  PROVE  IsFiniteSet({p[j] : j \in 1..m}) /\ Cardinality({p[j] : j \in 1..m}) = m
<1> DEFINE T == {p[j] : j \in 1..m}
           f == [j \in 1..m |-> p[j]]
<1>1. IsFiniteSet(1..m) /\ Cardinality(1..m) = m
  <2>1. Cardinality(1..m) = IF 1 > m THEN 0 ELSE m - 1 + 1
    BY FS_Interval
  <2> QED BY <2>1, FS_Interval
<1>2. f \in Surjection(1..m, T)
  BY DEF Surjection
<1>3. ASSUME NEW j \in 1..m, NEW k \in 1..m, f[j] = f[k] PROVE j = k
  <2>1. p[j] = p[k] /\ p[j] \in Nat
    BY <1>3
  <2>2. ~(j < k) /\ ~(k < j)
    BY <2>1
  <2> QED BY <2>2
<1>4. f \in Injection(1..m, T)
  <2>1. f \in [1..m -> T]
    OBVIOUS
  <2> HIDE DEF f, T
  <2> QED BY <1>3, <2>1 DEF Injection, IsInjective
<1> HIDE DEF f, T
<1>5. IsFiniteSet(T) /\ (Cardinality(T) = Cardinality(1..m) <=> f \in Injection(1..m, T))
  BY <1>1, <1>2, FS_Surjection
<1> QED BY <1>1, <1>4, <1>5 DEF T

(* The k-th element of rising numbers is the k-th number.                  *)
LEMMA NthOfRising ==
  ASSUME NEW n \in Nat, NEW p, \A j \in 1..n : p[j] \in Nat,
         \A j \in 1..n, k \in 1..n : j < k => p[j] < p[k], NEW k \in 1..n
  PROVE  Nth({p[j] : j \in 1..n}, k) = p[k]
<1> DEFINE S == {p[j] : j \in 1..n}
           Before(e) == {d \in S : d < e}
<1>1. ASSUME NEW i \in 1..n PROVE Cardinality(Before(p[i])) = i - 1
  <2> DEFINE m == i - 1
  <2>1. m \in Nat /\ \A j \in 1..m : j \in 1..n /\ j < i
    OBVIOUS
  <2>2. Before(p[i]) = {p[j] : j \in 1..m}
    <3>1. ASSUME NEW j \in 1..m PROVE p[j] \in Before(p[i])
      BY <2>1
    <3>2. ASSUME NEW d \in Before(p[i]) PROVE \E j \in 1..m : d = p[j]
      <4>1. PICK j \in 1..n : d = p[j]
        OBVIOUS
      <4>2. p[j] < p[i] /\ p[j] \in Nat /\ p[i] \in Nat
        BY <4>1
      <4>3. j < i
        <5>1. SUFFICES ASSUME i <= j PROVE FALSE
          OBVIOUS
        <5>2. i = j \/ p[i] < p[j]
          BY <5>1
        <5> QED BY <4>2, <5>2
      <4>4. j \in 1..m
        BY <4>3
      <4> QED BY <4>1, <4>4
    <3> QED BY <3>1, <3>2
  <2>3. \A j \in 1..m : p[j] \in Nat
    BY <2>1
  <2>4. \A j \in 1..m, h \in 1..m : j < h => p[j] < p[h]
    BY <2>1
  <2> HIDE DEF m
  <2>5. Cardinality({p[j] : j \in 1..m}) = m
    BY <2>1, <2>3, <2>4, RisingCardinality
  <2> QED BY <2>2, <2>5 DEF m
<1>2. Nth(S, k) = CHOOSE e \in S : Cardinality(Before(e)) = k - 1
  BY DEF Nth
<1>3. p[k] \in S /\ Cardinality(Before(p[k])) = k - 1
  BY <1>1
<1>4. ASSUME NEW e \in S, Cardinality(Before(e)) = k - 1 PROVE e = p[k]
  <2>1. PICK i \in 1..n : e = p[i]
    OBVIOUS
  <2>2. Cardinality(Before(p[i])) = i - 1
    BY <1>1
  <2>3. i - 1 = k - 1
    BY <1>4, <2>1, <2>2
  <2> QED BY <2>1, <2>3
<1> HIDE DEF S, Before
<1> DEFINE e0 == CHOOSE e \in S : Cardinality(Before(e)) = k - 1
<1>5. e0 \in S /\ Cardinality(Before(e0)) = k - 1
  BY <1>3
<1>6. e0 = p[k]
  <2> HIDE DEF e0
  <2> QED BY <1>4, <1>5
<1> QED BY <1>2, <1>6 DEF S

-----------------------------------------------------------------------------
(* The units                                                               *)

(* Digits, codes, and what the first line puts between, are texts.         *)
LEMMA DigitIsAUnit ==
  ASSUME NEW i \in 1..10
  PROVE  Digit[i] \in Units
BY DEF Units, Digits

LEMMA CodeIsText ==
  ASSUME NEW c \in Nat
  PROVE  CodeUnits(c) \in Text
<1>1. /\ ((c \div 100) % 10) + 1 \in 1..10
      /\ ((c \div 10) % 10) + 1 \in 1..10
      /\ (c % 10) + 1 \in 1..10
  OBVIOUS
<1>2. /\ Digit[((c \div 100) % 10) + 1] \in Units
      /\ Digit[((c \div 10) % 10) + 1] \in Units
      /\ Digit[(c % 10) + 1] \in Units
  BY <1>1, DigitIsAUnit
<1> QED BY <1>2 DEF CodeUnits, Text

LEMMA UnitsAreTexts ==
  /\ <<"sp">> \in Text /\ <<":">> \in Text /\ <<"crlf">> \in Text
  /\ \A m \in Methods : <<m>> \in Text
  /\ \A v \in {9, 10, 11} : <<VersionUnit(v)>> \in Text
<1>1. "sp" \in Units /\ ":" \in Units /\ "crlf" \in Units
  BY DEF Units
<1>2. \A m \in Methods : m \in Units
  BY DEF Units, Letters
<1>3. \A v \in {9, 10, 11} : VersionUnit(v) \in Units
  BY DEF Units, VersionOf, VersionUnit
<1> QED BY <1>1, <1>2, <1>3 DEF Text

(* Units of different kinds differ.                                        *)
LEMMA DigitsAreNoLineEnds == "crlf" \notin Digits /\ "end" \notin Digits
BY DEF Digits, Digit

LEMMA EndIsNoLetter == "end" \notin Letters
<1>1. "end" \notin Words
  BY HttpMessageAssumption
<1> QED BY <1>1 DEF Letters, Methods

LEMMA CrlfIsNoLetter == "crlf" \notin Letters /\ ":" \notin Letters /\ "sp" \notin Letters
<1>1. "crlf" \notin Words /\ ":" \notin Words /\ "sp" \notin Words
  BY HttpMessageAssumption
<1> QED BY <1>1 DEF Letters, Methods

(* "end" stands for nothing that a text has.                               *)
LEMMA EndIsNoUnit == "end" \notin Units
<1>1. "end" \notin Words /\ "end" \notin Marks
  BY HttpMessageAssumption
<1>2. "end" \notin DOMAIN VersionOf /\ "end" \notin Methods
  BY DEF VersionOf, Methods
<1> QED BY <1>1, <1>2, DigitsAreNoLineEnds DEF Units, Letters

LEMMA InsideText ==
  ASSUME NEW t \in Text, NEW j \in 1..Len(t)
  PROVE  At(t, j) = t[j] /\ t[j] \in Units /\ At(t, j) # "end"
<1>1. t[j] \in Units
  BY DEF Text
<1> QED BY <1>1, EndIsNoUnit DEF At

(* Versions are printed as they are parsed.                                *)
LEMMA VersionInverts ==
  ASSUME NEW v \in {9, 10, 11}
  PROVE  VersionUnit(v) \in DOMAIN VersionOf /\ VersionOf[VersionUnit(v)] = v
<1>1. CASE v = 9
  BY <1>1 DEF VersionUnit, VersionOf
<1>2. CASE v = 10
  BY <1>2 DEF VersionUnit, VersionOf
<1>3. CASE v = 11
  BY <1>3 DEF VersionUnit, VersionOf
<1> QED BY <1>1, <1>2, <1>3

LEMMA MethodIsALetter ==
  ASSUME NEW a \in Methods
  PROVE  a \in Letters /\ a \in Units /\ a # "/"
BY DEF Methods, Letters, Units

(* A digit and its number determine each other.                            *)
LEMMA NumberOfDigit ==
  ASSUME NEW u \in Digits
  PROVE  NumberOf(u) \in 0..9 /\ Digit[NumberOf(u) + 1] = u
<1>1. \E i \in 1..10 : Digit[i] = u
  BY DEF Digits
<1> DEFINE i == CHOOSE i \in 1..10 : Digit[i] = u
<1>2. i \in 1..10 /\ Digit[i] = u
  BY <1>1
<1>3. NumberOf(u) = i - 1
  BY DEF NumberOf
<1> HIDE DEF i
<1>4. (i - 1) + 1 = i
  BY <1>2
<1> QED BY <1>2, <1>3, <1>4

LEMMA DigitsDiffer ==
  ASSUME NEW i \in 1..10, NEW j \in 1..10, Digit[i] = Digit[j]
  PROVE  i = j
BY DEF Digit

LEMMA NumberOfIs ==
  ASSUME NEW i \in 0..9
  PROVE  NumberOf(Digit[i + 1]) = i
<1>1. Digit[i + 1] \in Digits
  BY DEF Digits
<1>2. NumberOf(Digit[i + 1]) \in 0..9 /\ Digit[NumberOf(Digit[i + 1]) + 1] = Digit[i + 1]
  BY <1>1, NumberOfDigit
<1>3. NumberOf(Digit[i + 1]) + 1 = i + 1
  BY <1>2, DigitsDiffer
<1> QED BY <1>2, <1>3

(* The first digit of a status code.                                       *)
LEMMA FirstDigitIs ==
  ASSUME NEW u \in {"1", "2", "3", "4", "5"}
  PROVE  u \in Digits /\ NumberOf(u) \in 1..5
<1>1. PICK i \in 1..5 : u = Digit[i + 1]
  <2>1. /\ Digit[1 + 1] = "1" /\ Digit[2 + 1] = "2" /\ Digit[3 + 1] = "3"
        /\ Digit[4 + 1] = "4" /\ Digit[5 + 1] = "5"
    BY DEF Digit
  <2>2. 1 \in 1..5 /\ 2 \in 1..5 /\ 3 \in 1..5 /\ 4 \in 1..5 /\ 5 \in 1..5
    OBVIOUS
  <2> QED BY <2>1, <2>2
<1>2. i \in 0..9 /\ i + 1 \in 1..10
  OBVIOUS
<1>3. NumberOf(u) = i
  BY <1>1, <1>2, NumberOfIs
<1> QED BY <1>1, <1>2, <1>3 DEF Digits

-----------------------------------------------------------------------------
(* Texts that are joined, and their parts                                  *)

(* The units of a part of a text.                                          *)
LEMMA SubText ==
  ASSUME NEW t \in Text, NEW i \in Int, NEW j \in Int, i >= 1, j <= Len(t)
  PROVE  /\ SubSeq(t, i, j) \in Text
         /\ Len(SubSeq(t, i, j)) = IF i <= j THEN j - i + 1 ELSE 0
         /\ \A k \in 1..(j - i + 1) : SubSeq(t, i, j)[k] = t[i + k - 1]
<1>1. t \in Seq(Units) /\ Len(t) \in Nat
  BY DEF Text
<1>2. \A k \in i..j : t[k] \in Units
  BY <1>1
<1>3. /\ SubSeq(t, i, j) \in Seq(Units)
      /\ Len(SubSeq(t, i, j)) = IF i <= j THEN j - i + 1 ELSE 0
      /\ \A k \in 1..(j - i + 1) : SubSeq(t, i, j)[k] = t[i + k - 1]
  BY <1>2, SubSeqProperties
<1> QED BY <1>3 DEF Text

(* A part of a text.                                                       *)
LEMMA PartIs ==
  ASSUME NEW t \in Text, NEW x \in Text, NEW d \in Nat, d + Len(x) <= Len(t),
         \A j \in 1..Len(x) : t[d + j] = x[j]
  PROVE  SubSeq(t, d + 1, d + Len(x)) = x
<1> DEFINE n == Len(x)
           s == SubSeq(t, d + 1, d + n)
<1>1. n \in Nat /\ Len(t) \in Nat /\ Len(x) = n /\ x \in Seq(Units)
  BY DEF Text
<1> HIDE DEF n
<1>2. d + 1 \in Int /\ d + n \in Int /\ d + 1 >= 1 /\ d + n <= Len(t)
  BY <1>1
<1>3. /\ s \in Text
      /\ Len(s) = IF d + 1 <= d + n THEN (d + n) - (d + 1) + 1 ELSE 0
      /\ \A k \in 1..((d + n) - (d + 1) + 1) : s[k] = t[(d + 1) + k - 1]
  BY <1>2, SubText
<1> HIDE DEF s
<1>4. Len(s) = n
  BY <1>1, <1>3
<1>5. ASSUME NEW k \in 1..n PROVE s[k] = x[k]
  <2>1. k \in 1..((d + n) - (d + 1) + 1) /\ (d + 1) + k - 1 = d + k
    BY <1>1
  <2> QED BY <1>1, <1>3, <2>1
<1>6. s \in Seq(Units) /\ Len(s) = Len(x) /\ \A k \in 1..Len(s) : s[k] = x[k]
  BY <1>1, <1>3, <1>4, <1>5 DEF Text
<1>7. s = x
  BY <1>1, <1>6, SeqEqual
<1> QED BY <1>7 DEF s, n

(* The units of two texts, one behind the other.                           *)
LEMMA Joined ==
  ASSUME NEW a \in Text, NEW b \in Text
  PROVE  /\ a \o b \in Text /\ Len(a) \in Nat /\ Len(b) \in Nat /\ Len(a \o b) = Len(a) + Len(b)
         /\ \A i \in 1..Len(a) : (a \o b)[i] = a[i]
         /\ \A i \in 1..Len(b) : (a \o b)[Len(a) + i] = b[i]
<1>1. a \in Seq(Units) /\ b \in Seq(Units) /\ Len(a) \in Nat /\ Len(b) \in Nat
  BY DEF Text
<1>2. /\ a \o b \in Seq(Units) /\ Len(a \o b) = Len(a) + Len(b)
      /\ \A i \in 1..(Len(a) + Len(b)) :
           (a \o b)[i] = IF i <= Len(a) THEN a[i] ELSE b[i - Len(a)]
  BY <1>1, ConcatProperties
<1> DEFINE c == a \o b
<1> HIDE DEF c
<1>3. ASSUME NEW i \in 1..Len(a) PROVE (a \o b)[i] = a[i]
  BY <1>1, <1>2
<1>4. ASSUME NEW i \in 1..Len(b) PROVE (a \o b)[Len(a) + i] = b[i]
  <2>1. /\ Len(a) + i \in 1..(Len(a) + Len(b)) /\ ~(Len(a) + i <= Len(a))
        /\ (Len(a) + i) - Len(a) = i
    BY <1>1
  <2> QED BY <1>2, <2>1
<1> QED BY <1>1, <1>2, <1>3, <1>4 DEF Text

(* A text and one unit behind it.                                          *)
LEMMA JoinedUnit ==
  ASSUME NEW a \in Text, NEW u, <<u>> \in Text, NEW m, Len(a) = m
  PROVE  /\ a \o <<u>> \in Text /\ m \in Nat /\ Len(a \o <<u>>) = m + 1
         /\ \A i \in 1..m : (a \o <<u>>)[i] = a[i]
         /\ (a \o <<u>>)[m + 1] = u
<1>1. Len(<<u>>) = 1 /\ <<u>>[1] = u /\ 1 \in 1..1
  OBVIOUS
<1> DEFINE b == <<u>>
<1>2. b \in Text /\ Len(b) = 1 /\ b[1] = u
  BY <1>1
<1> HIDE DEF b
<1>3. /\ a \o b \in Text /\ m \in Nat /\ Len(a \o b) = m + Len(b)
      /\ \A i \in 1..m : (a \o b)[i] = a[i]
      /\ \A i \in 1..Len(b) : (a \o b)[m + i] = b[i]
  BY <1>2, Joined, Zenon
<1>4. (a \o b)[m + 1] = u
  BY <1>1, <1>2, <1>3
<1> QED BY <1>2, <1>3, <1>4 DEF b

(* A text of two units.                                                    *)
LEMMA TwoUnits ==
  ASSUME NEW a, NEW b, <<a>> \in Text, <<b>> \in Text
  PROVE  LET x == <<a>> \o <<b>>
         IN  x \in Text /\ Len(x) = 2 /\ x[1] = a /\ x[2] = b
<1> DEFINE c == <<a>>
           d == <<b>>
<1>1. c \in Text /\ d \in Text /\ Len(c) = 1 /\ Len(d) = 1 /\ c[1] = a /\ d[1] = b
  OBVIOUS
<1> HIDE DEF c, d
<1>2. /\ c \o d \in Text /\ Len(c \o d) = Len(c) + Len(d)
      /\ \A i \in 1..Len(c) : (c \o d)[i] = c[i]
      /\ \A i \in 1..Len(d) : (c \o d)[Len(c) + i] = d[i]
  BY <1>1, Joined
<1>3. 1 \in 1..Len(c) /\ 1 \in 1..Len(d) /\ Len(c) + 1 = 2 /\ Len(c) + Len(d) = 2
  BY <1>1
<1>4. (c \o d)[2] = b
  BY <1>1, <1>2, <1>3
<1> QED BY <1>1, <1>2, <1>3, <1>4 DEF c, d

-----------------------------------------------------------------------------
(* Pieces that are joined                                                  *)

(* A sequence that is not empty is one with an element at its end.         *)
LEMMA FrontAndLast ==
  ASSUME NEW S, NEW r \in Seq(S), Len(r) # 0
  PROVE  \E q \in Seq(S), a \in S : r = Append(q, a) /\ Len(q) = Len(r) - 1
<1> DEFINE n == Len(r)
           q == SubSeq(r, 1, n - 1)
<1>1. n \in Nat /\ n # 0 /\ n \in 1..n /\ r \in Seq(S)
  BY LenProperties
<1>2. r[n] \in S
  BY <1>1, ElementOfSeq
<1>3. \A i \in 1..(n - 1) : r[i] \in S
  BY <1>1
<1>4. 1 \in Int /\ n - 1 \in Int
  BY <1>1
<1>5. q \in Seq(S) /\ Len(q) = n - 1 /\ \A i \in 1..(n - 1) : q[i] = r[i]
  <2> HIDE DEF n
  <2>1. /\ q \in Seq(S) /\ Len(q) = IF 1 <= n - 1 THEN (n - 1) - 1 + 1 ELSE 0
        /\ \A i \in 1..((n - 1) - 1 + 1) : q[i] = r[1 + i - 1]
    BY <1>3, <1>4, SubSeqProperties
  <2> QED BY <1>1, <2>1
<1> DEFINE x == Append(q, r[n])
<1>6. x \in Seq(S) /\ Len(x) = n /\ x[n] = r[n] /\ \A i \in 1..(n - 1) : x[i] = q[i]
  <2> HIDE DEF n, q
  <2> QED BY <1>1, <1>2, <1>5
<1>7. r = x
  <2> HIDE DEF q, x
  <2>1. Len(r) = Len(x)
    BY <1>6
  <2>2. \A i \in 1..n : r[i] = x[i]
    <3> HIDE DEF n
    <3> QED BY <1>1, <1>5, <1>6
  <2>3. \A i \in 1..Len(r) : r[i] = x[i]
    BY <2>2
  <2> HIDE DEF n
  <2> QED BY <1>1, <1>6, <2>1, <2>3, SeqEqual
<1> DEFINE a == r[n]
<1>8. r = Append(q, a) /\ q \in Seq(S) /\ a \in S /\ Len(q) = n - 1
  BY <1>2, <1>5, <1>7
<1> HIDE DEF q, a, x
<1>9. Len(q) = Len(r) - 1
  BY <1>8 DEF n
<1> HIDE DEF n
<1> QED BY <1>8, <1>9

(* What FlattenSeq computes for the first i of the sequences of s.         *)
IsFlat(s, f) ==
  /\ DOMAIN f = 1..Len(s)
  /\ \A i \in 1..Len(s) : f[i] = IF i = 1 THEN s[i] ELSE f[i - 1] \o s[i]

LEMMA FlatIsUnique ==
  ASSUME NEW S, NEW s \in Seq(S), NEW f, NEW g, IsFlat(s, f), IsFlat(s, g),
         NEW i \in 1..Len(s)
  PROVE  f[i] = g[i]
<1> DEFINE bad == {j \in 1..Len(s) : f[j] # g[j]}
<1>1. SUFFICES ASSUME bad # {} PROVE FALSE
  OBVIOUS
<1>2. PICK j \in bad : \A k \in bad : j <= k
  <2>1. bad \in SUBSET Nat
    OBVIOUS
  <2> HIDE DEF bad
  <2> QED BY <1>1, <2>1, LeastElement, Zenon
<1>3. j \in 1..Len(s) /\ f[j] # g[j]
  OBVIOUS
<1>4. CASE j = 1
  BY <1>3, <1>4 DEF IsFlat
<1>5. CASE j # 1
  <2>1. j - 1 \in 1..Len(s) /\ j - 1 \notin bad
    BY <1>2, <1>3, <1>5
  <2>2. f[j - 1] = g[j - 1]
    BY <2>1
  <2> QED BY <1>3, <1>5, <2>2 DEF IsFlat
<1> QED BY <1>4, <1>5

(* With one sequence more, there is one text more.                         *)
LEMMA FlatGrows ==
  ASSUME NEW S, NEW s \in Seq(S), NEW a \in S, NEW f, IsFlat(s, f)
  PROVE  \E g : /\ IsFlat(Append(s, a), g)
                /\ g[Len(s) + 1] = IF s = <<>> THEN a ELSE f[Len(s)] \o a
<1> DEFINE n == Len(s)
           last == IF s = <<>> THEN a ELSE f[n] \o a
           g == [i \in 1..(n + 1) |-> IF i = n + 1 THEN last ELSE f[i]]
           r == Append(s, a)
<1>1. n \in Nat /\ Len(r) = n + 1 /\ r[n + 1] = a /\ \A i \in 1..n : r[i] = s[i]
  OBVIOUS
<1>2. s = <<>> <=> n = 0
  OBVIOUS
<1> HIDE DEF n, r
<1>3. g[n + 1] = last
  BY <1>1
<1>4. ASSUME NEW i \in 1..(n + 1)
      PROVE  g[i] = IF i = 1 THEN r[i] ELSE g[i - 1] \o r[i]
  <2>1. CASE i = n + 1 /\ n = 0
    BY <1>1, <1>2, <1>3, <2>1
  <2>2. CASE i = n + 1 /\ n # 0
    <3>1. i - 1 = n /\ n \in 1..(n + 1) /\ n # n + 1
      BY <1>1, <2>2
    <3>2. g[n] = f[n]
      BY <3>1
    <3>3. g[i] = f[n] \o a /\ r[i] = a /\ i # 1
      BY <1>1, <1>2, <1>3, <2>2
    <3> QED BY <3>1, <3>2, <3>3
  <2>3. CASE i # n + 1
    <3>0. i \in 1..n
      BY <1>1, <2>3
    <3>1. i \in 1..n /\ f[i] = IF i = 1 THEN s[i] ELSE f[i - 1] \o s[i]
      BY <3>0 DEF IsFlat, n
    <3>2. r[i] = s[i] /\ g[i] = f[i]
      BY <1>1, <3>1, <2>3
    <3>3. i # 1 => i - 1 \in 1..(n + 1) /\ i - 1 # n + 1
      BY <1>1, <3>1
    <3>4. i # 1 => g[i - 1] = f[i - 1]
      BY <3>3
    <3> QED BY <3>1, <3>2, <3>4
  <2> QED BY <2>1, <2>2, <2>3
<1>5. DOMAIN g = 1..(n + 1)
  OBVIOUS
<1> HIDE DEF g
<1>6. IsFlat(r, g)
  BY <1>1, <1>4, <1>5 DEF IsFlat
<1> QED BY <1>3, <1>6 DEF n, r

(* The partial sums of a sequence of sequences exist, and the last is what *)
(* FlattenSeq returns.                                                     *)
LEMMA FlatExists ==
  ASSUME NEW S, NEW s \in Seq(S)
  PROVE  \E f : IsFlat(s, f)
<1> DEFINE bad == {n \in Nat : \E r \in Seq(S) : Len(r) = n /\ ~\E f : IsFlat(r, f)}
<1>1. SUFFICES ASSUME bad # {} PROVE FALSE
  <2>1. Len(s) \in Nat
    OBVIOUS
  <2> QED BY <2>1
<1>2. PICK n \in bad : \A k \in bad : n <= k
  <2>1. bad \in SUBSET Nat
    OBVIOUS
  <2> HIDE DEF bad
  <2> QED BY <1>1, <2>1, LeastElement, Zenon
<1>3. PICK r \in Seq(S) : Len(r) = n /\ ~\E f : IsFlat(r, f)
  OBVIOUS
<1>4. n # 0
  <2>1. SUFFICES ASSUME n = 0 PROVE FALSE
    OBVIOUS
  <2> DEFINE f == [i \in 1..Len(r) |-> r[i]]
  <2>2. IsFlat(r, f)
    BY <1>3, <2>1 DEF IsFlat
  <2> QED BY <1>3, <2>2
<1>5. PICK q \in Seq(S), a \in S : r = Append(q, a) /\ Len(q) = n - 1
  <2> HIDE DEF bad
  <2>1. r \in Seq(S) /\ Len(r) = n /\ Len(r) # 0
    BY <1>3, <1>4
  <2>2. \E q \in Seq(S) : \E a \in S : r = Append(q, a) /\ Len(q) = Len(r) - 1
    BY <2>1, FrontAndLast
  <2> QED BY <2>1, <2>2
<1>6. n - 1 \in Nat /\ n - 1 \notin bad
  BY <1>2, <1>4
<1>7. PICK f : IsFlat(q, f)
  BY <1>5, <1>6
<1>8. \E g : IsFlat(r, g)
  BY <1>5, <1>7, FlatGrows
<1> QED BY <1>3, <1>8

LEMMA FlattenIs ==
  ASSUME NEW S, NEW s \in Seq(S), NEW f, IsFlat(s, f)
  PROVE  FlattenSeq(s) = IF s = <<>> THEN s ELSE f[Len(s)]
<1> DEFINE Step(g) == [i \in 1..Len(s) |-> IF i = 1 THEN s[i] ELSE g[i - 1] \o s[i]]
           flat == CHOOSE g : g = Step(g)
<1>1. FlattenSeq(s) = IF Len(s) = 0 THEN s ELSE flat[Len(s)]
  BY DEF FlattenSeq
<1>2. \E g : g = Step(g)
  <2> DEFINE g == [i \in 1..Len(s) |-> f[i]]
  <2>1. ASSUME NEW i \in 1..Len(s) PROVE g[i] = IF i = 1 THEN s[i] ELSE g[i - 1] \o s[i]
    <3>1. i # 1 => i - 1 \in 1..Len(s)
      OBVIOUS
    <3>2. g[i] = f[i] /\ (i # 1 => g[i - 1] = f[i - 1])
      BY <3>1
    <3> QED BY <3>2 DEF IsFlat
  <2> HIDE DEF g
  <2>2. Step(g) = [i \in 1..Len(s) |-> g[i]]
    BY <2>1
  <2>3. g = Step(g)
    BY <2>2 DEF g
  <2> QED BY <2>3
<1>3. flat = Step(flat)
  BY <1>2
<1>4. IsFlat(s, flat)
  <2> HIDE DEF flat
  <2> QED BY <1>3 DEF IsFlat
<1> HIDE DEF flat
<1>5. Len(s) \in Nat /\ (s = <<>> <=> Len(s) = 0)
  OBVIOUS
<1>6. Len(s) # 0 => flat[Len(s)] = f[Len(s)]
  <2>1. Len(s) # 0 => Len(s) \in 1..Len(s)
    BY <1>5
  <2> QED BY <1>4, <2>1, FlatIsUnique
<1> QED BY <1>1, <1>5, <1>6

(* FlattenSeq, one sequence at a time.                                     *)
LEMMA FlattenAppend ==
  ASSUME NEW T, NEW s \in Seq(Seq(T)), NEW a \in Seq(T), FlattenSeq(s) \in Seq(T)
  PROVE  FlattenSeq(Append(s, a)) = FlattenSeq(s) \o a
<1>1. PICK f : IsFlat(s, f)
  BY FlatExists
<1>2. PICK g : /\ IsFlat(Append(s, a), g)
               /\ g[Len(s) + 1] = IF s = <<>> THEN a ELSE f[Len(s)] \o a
  BY <1>1, FlatGrows
<1>3. Append(s, a) \in Seq(Seq(T)) /\ Append(s, a) # <<>> /\ Len(Append(s, a)) = Len(s) + 1
  <2> DEFINE S == Seq(T)
  <2>1. s \in Seq(S) /\ a \in S
    OBVIOUS
  <2> HIDE DEF S
  <2>2. Append(s, a) \in Seq(S)
    BY <2>1
  <2>3. Len(Append(s, a)) = Len(s) + 1 /\ Len(s) \in Nat
    BY <2>1
  <2>4. Len(<<>>) = 0
    OBVIOUS
  <2> QED BY <2>2, <2>3, <2>4 DEF S
<1>4. FlattenSeq(Append(s, a)) = g[Len(s) + 1]
  BY <1>2, <1>3, FlattenIs
<1>5. FlattenSeq(s) = IF s = <<>> THEN s ELSE f[Len(s)]
  BY <1>1, FlattenIs
<1>6. s = <<>> => s \o a = a
  OBVIOUS
<1> QED BY <1>2, <1>4, <1>5, <1>6

LEMMA FlattenEmpty == FlattenSeq(<<>>) = <<>>
BY DEF FlattenSeq

(* FlattenSeq returns a sequence, and of a concatenation the concatenation.*)
LEMMA FlattenType ==
  ASSUME NEW T, NEW s \in Seq(Seq(T))
  PROVE  FlattenSeq(s) \in Seq(T)
<1> DEFINE bad == {n \in Nat : \E r \in Seq(Seq(T)) : Len(r) = n /\ FlattenSeq(r) \notin Seq(T)}
<1>1. SUFFICES ASSUME bad # {} PROVE FALSE
  <2>1. Len(s) \in Nat
    OBVIOUS
  <2> QED BY <2>1
<1>2. PICK n \in bad : \A k \in bad : n <= k
  <2>1. bad \in SUBSET Nat
    OBVIOUS
  <2> HIDE DEF bad
  <2> QED BY <1>1, <2>1, LeastElement, Zenon
<1>3. PICK r \in Seq(Seq(T)) : Len(r) = n /\ FlattenSeq(r) \notin Seq(T)
  OBVIOUS
<1>4. n # 0
  <2>1. SUFFICES ASSUME n = 0 PROVE FALSE
    OBVIOUS
  <2>2. r = <<>>
    BY <1>3, <2>1
  <2> QED BY <1>3, <2>2, FlattenEmpty
<1>5. PICK q \in Seq(Seq(T)), a \in Seq(T) : r = Append(q, a) /\ Len(q) = n - 1
  <2> HIDE DEF bad
  <2>1. r \in Seq(Seq(T)) /\ Len(r) = n /\ Len(r) # 0
    BY <1>3, <1>4
  <2>2. \E q \in Seq(Seq(T)) : \E a \in Seq(T) : r = Append(q, a) /\ Len(q) = Len(r) - 1
    BY <2>1, FrontAndLast
  <2> QED BY <2>1, <2>2
<1>6. n - 1 \in Nat /\ n - 1 \notin bad
  BY <1>2, <1>4
<1>7. FlattenSeq(q) \in Seq(T)
  BY <1>5, <1>6
<1>8. FlattenSeq(r) = FlattenSeq(q) \o a
  BY <1>5, <1>7, FlattenAppend
<1> QED BY <1>3, <1>5, <1>7, <1>8

LEMMA FlattenConcat ==
  ASSUME NEW T, NEW s \in Seq(Seq(T)), NEW r \in Seq(Seq(T))
  PROVE  FlattenSeq(s \o r) = FlattenSeq(s) \o FlattenSeq(r)
<1>0. \A x, y, z \in Seq(T) : (x \o y) \o z = x \o (y \o z)
  BY ConcatAssociative
<1> DEFINE S == Seq(T)
           bad == {n \in Nat : \E x \in Seq(S) : /\ Len(x) = n
                                                 /\ FlattenSeq(s \o x) # FlattenSeq(s) \o FlattenSeq(x)}
<1>1. SUFFICES ASSUME bad # {} PROVE FALSE
  <2>1. Len(r) \in Nat
    OBVIOUS
  <2> QED BY <2>1
<1>2. PICK n \in bad : \A k \in bad : n <= k
  <2>1. bad \in SUBSET Nat
    OBVIOUS
  <2> HIDE DEF bad
  <2> QED BY <1>1, <2>1, LeastElement, Zenon
<1>3. PICK x \in Seq(S) : Len(x) = n /\ FlattenSeq(s \o x) # FlattenSeq(s) \o FlattenSeq(x)
  OBVIOUS
<1>4. s \in Seq(S) /\ n \in Nat
  OBVIOUS
<1>5. FlattenSeq(s) \in S
  BY FlattenType
<1>6. n # 0
  <2>1. SUFFICES ASSUME n = 0 PROVE FALSE
    OBVIOUS
  <2>2. x = <<>>
    BY <1>3, <2>1, EmptySeq
  <2>3. s \o x = s
    <3> HIDE DEF S
    <3> QED BY <1>4, <2>2, ConcatEmptySeq
  <2>4. FlattenSeq(s) \o <<>> = FlattenSeq(s)
    BY <1>5, ConcatEmptySeq
  <2> QED BY <1>3, <2>2, <2>3, <2>4, FlattenEmpty
<1>7. PICK q \in Seq(S), a \in S : x = Append(q, a) /\ Len(q) = n - 1
  <2> HIDE DEF bad, S
  <2>1. \E q \in Seq(S) : \E a \in S : x = Append(q, a) /\ Len(q) = Len(x) - 1
    BY <1>3, <1>6, FrontAndLast
  <2> QED BY <1>3, <2>1
<1>8. FlattenSeq(s \o q) = FlattenSeq(s) \o FlattenSeq(q)
  <2>1. n - 1 \in Nat /\ n - 1 \notin bad
    BY <1>2, <1>4, <1>6
  <2> QED BY <1>7, <2>1
<1> HIDE DEF bad
<1>9. s \o q \in Seq(S) /\ s \o x = Append(s \o q, a)
  <2> HIDE DEF S
  <2>1. x = q \o <<a>> /\ <<a>> \in Seq(S)
    BY <1>7, AppendIsConcat
  <2>2. s \o q \in Seq(S)
    BY <1>4, <1>7, ConcatProperties
  <2>3. s \o x = (s \o q) \o <<a>>
    BY <1>4, <1>7, <2>1, ConcatAssociative
  <2>4. Append(s \o q, a) = (s \o q) \o <<a>>
    BY <1>7, <2>2, AppendIsConcat
  <2> QED BY <2>2, <2>3, <2>4
<1>10. FlattenSeq(q) \in Seq(T) /\ FlattenSeq(s \o q) \in Seq(T) /\ a \in Seq(T)
  BY <1>7, <1>9, FlattenType
<1>11. FlattenSeq(x) = FlattenSeq(q) \o a /\ FlattenSeq(s \o x) = FlattenSeq(s \o q) \o a
  BY <1>7, <1>9, <1>10, FlattenAppend
<1>12. (FlattenSeq(s) \o FlattenSeq(q)) \o a = FlattenSeq(s) \o (FlattenSeq(q) \o a)
  <2> DEFINE x1 == FlattenSeq(s)
             x2 == FlattenSeq(q)
  <2>1. x1 \in Seq(T) /\ x2 \in Seq(T) /\ a \in Seq(T)
    BY <1>5, <1>10
  <2> HIDE DEF x1, x2
  <2>2. (x1 \o x2) \o a = x1 \o (x2 \o a)
    BY <1>0, <2>1, Zenon
  <2> QED BY <2>2 DEF x1, x2
<1> QED BY <1>3, <1>8, <1>11, <1>12

(* Short sequences, and what FlattenSeq makes of them.                     *)
LEMMA Tuples ==
  ASSUME NEW S, NEW a \in S, NEW b \in S
  PROVE  /\ <<>> \in Seq(S) /\ <<a>> \in Seq(S) /\ <<b>> \in Seq(S) /\ <<a, b>> \in Seq(S)
         /\ <<a>> = Append(<<>>, a) /\ <<a, b>> = <<a>> \o <<b>>
<1>1. <<>> \in Seq(S) /\ <<a>> \in Seq(S) /\ <<b>> \in Seq(S) /\ <<a, b>> \in Seq(S)
  OBVIOUS
<1>2. <<a>> = Append(<<>>, a)
  OBVIOUS
<1>3. <<a, b>> = <<a>> \o <<b>>
  <2>1. <<a, b>> = Append(<<a>>, b)
    OBVIOUS
  <2> QED BY <1>1, <2>1, AppendIsConcat
<1> QED BY <1>1, <1>2, <1>3

LEMMA FlattenOne ==
  ASSUME NEW T, NEW a \in Seq(T)
  PROVE  FlattenSeq(<<a>>) = a
<1>1. <<>> \in Seq(Seq(T)) /\ <<a>> = Append(<<>>, a)
  BY Tuples
<1>2. FlattenSeq(<<>>) \in Seq(T)
  <2>1. <<>> \in Seq(T)
    OBVIOUS
  <2> QED BY <2>1, FlattenEmpty
<1>3. FlattenSeq(<<a>>) = FlattenSeq(<<>>) \o a
  BY <1>1, <1>2, FlattenAppend
<1> QED BY <1>3, FlattenEmpty, ConcatEmptySeq

LEMMA FlattenTwo ==
  ASSUME NEW T, NEW a \in Seq(T), NEW b \in Seq(T)
  PROVE  FlattenSeq(<<a, b>>) = a \o b
<1>1. <<a>> \in Seq(Seq(T)) /\ <<b>> \in Seq(Seq(T)) /\ <<a, b>> = <<a>> \o <<b>>
  BY Tuples
<1>2. FlattenSeq(<<a>> \o <<b>>) = FlattenSeq(<<a>>) \o FlattenSeq(<<b>>)
  BY <1>1, FlattenConcat
<1> QED BY <1>1, <1>2, FlattenOne

LEMMA FlattenSix ==
  ASSUME NEW T, NEW s \in Seq(Seq(T)), Len(s) = 6
  PROVE  FlattenSeq(s) = (s[1] \o s[2]) \o ((s[3] \o s[4]) \o (s[5] \o s[6]))
<1> DEFINE a == s[1]
           b == s[2]
           c == s[3]
           d == s[4]
           e == s[5]
           f == s[6]
<1>0. /\ a \in Seq(T) /\ b \in Seq(T) /\ c \in Seq(T) /\ d \in Seq(T) /\ e \in Seq(T)
      /\ f \in Seq(T) /\ s = <<a, b, c, d, e, f>>
  <2> DEFINE S == Seq(T)
  <2>1. s \in Seq(S)
    OBVIOUS
  <2> HIDE DEF S
  <2>2. a \in S /\ b \in S /\ c \in S /\ d \in S /\ e \in S /\ f \in S
    <3>1. ASSUME NEW i \in 1..6 PROVE s[i] \in S
      <4>1. i \in 1..Len(s)
        OBVIOUS
      <4> QED BY <2>1, <4>1, ElementOfSeq
    <3> QED BY <3>1
  <2>3. s = <<s[1], s[2], s[3], s[4], s[5], s[6]>>
    BY <2>1
  <2> QED BY <2>2, <2>3 DEF S
<1> HIDE DEF a, b, c, d, e, f
<1>1. /\ <<a, b>> \in Seq(Seq(T)) /\ <<c, d>> \in Seq(Seq(T)) /\ <<e, f>> \in Seq(Seq(T))
  BY <1>0, Tuples
<1>2. /\ <<c, d, e, f>> \in Seq(Seq(T))
      /\ <<a, b, c, d, e, f>> = <<a, b>> \o <<c, d, e, f>>
      /\ <<c, d, e, f>> = <<c, d>> \o <<e, f>>
  <2> DEFINE S == Seq(T)
  <2>1. a \in S /\ b \in S /\ c \in S /\ d \in S /\ e \in S /\ f \in S
    BY <1>0
  <2> HIDE DEF S
  <2>2. <<c, d, e, f>> \in Seq(S)
    BY <2>1
  <2>3. <<a, b, c, d, e, f>> = <<a, b>> \o <<c, d, e, f>>
    BY <2>1
  <2>4. <<c, d, e, f>> = <<c, d>> \o <<e, f>>
    BY <2>1
  <2> QED BY <2>2, <2>3, <2>4 DEF S
<1>3. FlattenSeq(<<c, d>> \o <<e, f>>) = FlattenSeq(<<c, d>>) \o FlattenSeq(<<e, f>>)
  BY <1>1, FlattenConcat
<1>4. FlattenSeq(<<a, b>> \o <<c, d, e, f>>) = FlattenSeq(<<a, b>>) \o FlattenSeq(<<c, d, e, f>>)
  BY <1>1, <1>2, FlattenConcat
<1>5. /\ FlattenSeq(<<a, b>>) = a \o b /\ FlattenSeq(<<c, d>>) = c \o d
      /\ FlattenSeq(<<e, f>>) = e \o f
  BY <1>0, FlattenTwo
<1> QED BY <1>0, <1>2, <1>3, <1>4, <1>5 DEF a, b, c, d, e, f

-----------------------------------------------------------------------------
(* What is printed is made of texts                                        *)

(* All that the serializer appends are texts.                              *)
LEMMA FieldPiecesAreTexts ==
  ASSUME NEW fields \in Seq(Field)
  PROVE  FieldPieces(fields) \in Seq(Text)
<1> DEFINE piece(i) == LET f == fields[(i + 3) \div 4]
                       IN  CASE i % 4 = 1 -> f.name [] i % 4 = 2 -> <<":">>
                             [] i % 4 = 3 -> f.value [] OTHER -> <<"crlf">>
<1>1. Len(fields) \in Nat /\ 4 * Len(fields) \in Nat
  OBVIOUS
<1>2. ASSUME NEW i \in 1..(4 * Len(fields)) PROVE piece(i) \in Text
  <2>1. (i + 3) \div 4 \in 1..Len(fields)
    BY <1>1
  <2>2. fields[(i + 3) \div 4] \in Field
    BY <2>1
  <2>3. fields[(i + 3) \div 4].name \in Text /\ fields[(i + 3) \div 4].value \in Text
    BY <2>2 DEF Field
  <2> QED BY <2>3, UnitsAreTexts
<1>3. FieldPieces(fields) = [i \in 1..(4 * Len(fields)) |-> piece(i)]
  BY DEF FieldPieces
<1> HIDE DEF piece
<1> QED BY <1>1, <1>2, <1>3

LEMMA LineIsTexts ==
  ASSUME NEW m \in Message
  PROVE  LinePieces(m) \in Seq(Text)
<1>1. /\ m.method \in Methods /\ m.url \in Text /\ m.code \in Nat /\ m.msg \in Text
      /\ m.version \in {9, 10, 11}
  BY DEF Message
<1> QED BY <1>1, UnitsAreTexts, CodeIsText DEF LinePieces

LEMMA PiecesAreTexts ==
  ASSUME NEW m \in Message
  PROVE  Pieces(m) \in Seq(Text)
<1>1. m.head \in Header /\ m.body \in Text
  BY DEF Message
<1>2. m.head.fields \in Seq(Field) /\ m.head.text \in Text
  BY <1>1 DEF Header
<1>3. LinePieces(m) \in Seq(Text)
  BY LineIsTexts
<1>4. HeadPieces(m.head) \in Seq(Text)
  BY <1>2, FieldPiecesAreTexts DEF HeadPieces
<1> DEFINE rest == IF ~Printable(m) THEN <<>>
                   ELSE IF m.body = <<>> THEN <<<<"crlf">>>> ELSE <<<<"crlf">>, m.body>>
<1>5. rest \in Seq(Text)
  BY <1>1, UnitsAreTexts
<1>6. Pieces(m) = LinePieces(m) \o HeadPieces(m.head) \o rest
  BY DEF Pieces
<1> HIDE DEF rest
<1> QED BY <1>3, <1>4, <1>5, <1>6

LEMMA AppendedPiece ==
  ASSUME NEW s \in Seq(Text), NEW a \in Text, NEW k \in Nat, Len(s) = k
  PROVE  /\ Append(s, a) \in Seq(Text) /\ Len(Append(s, a)) = k + 1
         /\ Append(s, a)[k + 1] = a /\ \A i \in 1..k : Append(s, a)[i] = s[i]
<1> DEFINE T == Text
<1>1. s \in Seq(T) /\ a \in T
  OBVIOUS
<1> HIDE DEF T
<1> QED BY <1>1, AppendProperties DEF T

(* One field more is four pieces more.                                     *)
LEMMA FieldPiecesAppend ==
  ASSUME NEW fields \in Seq(Field), NEW f \in Field
  PROVE  FieldPieces(Append(fields, f))
           = Append(Append(Append(Append(FieldPieces(fields), f.name), <<":">>), f.value), <<"crlf">>)
<1> DEFINE n == Len(fields)
           more == Append(fields, f)
           p == FieldPieces(fields)
           q == FieldPieces(more)
           r == Append(Append(Append(Append(p, f.name), <<":">>), f.value), <<"crlf">>)
<1>1. /\ n \in Nat /\ more \in Seq(Field) /\ Len(more) = n + 1
      /\ more[n + 1] = f /\ \A i \in 1..n : more[i] = fields[i]
  OBVIOUS
<1>2. p \in Seq(Text) /\ q \in Seq(Text)
  BY <1>1, FieldPiecesAreTexts
<1>3. Len(p) = 4 * n /\ Len(q) = 4 * (n + 1)
  BY <1>1 DEF FieldPieces
<1>4. f.name \in Text /\ f.value \in Text /\ <<":">> \in Text /\ <<"crlf">> \in Text
  BY UnitsAreTexts DEF Field
<1>5. /\ r \in Seq(Text) /\ Len(r) = 4 * (n + 1)
      /\ \A i \in 1..(4 * n) : r[i] = p[i]
      /\ r[4 * n + 1] = f.name /\ r[4 * n + 2] = <<":">>
      /\ r[4 * n + 3] = f.value /\ r[4 * n + 4] = <<"crlf">>
  <2> DEFINE a == Append(p, f.name)
             b == Append(a, <<":">>)
             c == Append(b, f.value)
  <2> HIDE DEF p, n
  <2>1. /\ a \in Seq(Text) /\ Len(a) = 4 * n + 1 /\ a[4 * n + 1] = f.name
        /\ \A i \in 1..(4 * n) : a[i] = p[i]
    BY <1>1, <1>2, <1>3, <1>4, AppendedPiece
  <2> HIDE DEF a
  <2>2. /\ b \in Seq(Text) /\ Len(b) = 4 * n + 2 /\ b[4 * n + 2] = <<":">>
        /\ \A i \in 1..(4 * n + 1) : b[i] = a[i]
    BY <1>1, <1>4, <2>1, AppendedPiece
  <2> HIDE DEF b
  <2>3. /\ c \in Seq(Text) /\ Len(c) = 4 * n + 3 /\ c[4 * n + 3] = f.value
        /\ \A i \in 1..(4 * n + 2) : c[i] = b[i]
    BY <1>1, <1>4, <2>2, AppendedPiece
  <2> HIDE DEF c
  <2>4. r = Append(c, <<"crlf">>)
    BY DEF a, b, c
  <2> HIDE DEF r
  <2>5. /\ r \in Seq(Text) /\ Len(r) = 4 * n + 4 /\ r[4 * n + 4] = <<"crlf">>
        /\ \A i \in 1..(4 * n + 3) : r[i] = c[i]
    BY <1>1, <1>4, <2>3, <2>4, AppendedPiece
  <2> QED BY <1>1, <2>1, <2>2, <2>3, <2>5
<1>6. ASSUME NEW i \in 1..(4 * (n + 1)) PROVE q[i] = r[i]
  <2> DEFINE g == more[(i + 3) \div 4]
  <2>1. q[i] = CASE i % 4 = 1 -> g.name [] i % 4 = 2 -> <<":">>
                 [] i % 4 = 3 -> g.value [] OTHER -> <<"crlf">>
    BY <1>1 DEF FieldPieces
  <2>2. CASE i \in 1..(4 * n)
    <3>1. (i + 3) \div 4 \in 1..n
      BY <1>1, <2>2
    <3>2. g = fields[(i + 3) \div 4]
      BY <1>1, <3>1
    <3>3. p[i] = CASE i % 4 = 1 -> g.name [] i % 4 = 2 -> <<":">>
                   [] i % 4 = 3 -> g.value [] OTHER -> <<"crlf">>
      BY <2>2, <3>2 DEF FieldPieces
    <3> QED BY <1>5, <2>1, <2>2, <3>3
  <2>3. CASE i \notin 1..(4 * n)
    <3>1. i \in {4 * n + 1, 4 * n + 2, 4 * n + 3, 4 * n + 4}
      BY <1>1, <2>3
    <3>2. (i + 3) \div 4 = n + 1
      BY <1>1, <3>1
    <3>3. g = f
      BY <1>1, <3>2
    <3>4. /\ (4 * n + 1) % 4 = 1 /\ (4 * n + 2) % 4 = 2
          /\ (4 * n + 3) % 4 = 3 /\ (4 * n + 4) % 4 = 0
      BY <1>1
    <3> HIDE DEF n, p, q, r, g, more
    <3>5. CASE i = 4 * n + 1
      BY <1>5, <2>1, <3>3, <3>4, <3>5
    <3>6. CASE i = 4 * n + 2
      <4>1. i % 4 = 2 /\ r[i] = <<":">>
        BY <1>5, <3>4, <3>6
      <4> QED BY <2>1, <4>1
    <3>7. CASE i = 4 * n + 3
      BY <1>5, <2>1, <3>3, <3>4, <3>7
    <3>8. CASE i = 4 * n + 4
      <4>1. i % 4 = 0 /\ r[i] = <<"crlf">>
        BY <1>5, <3>4, <3>8
      <4> QED BY <2>1, <4>1
    <3> QED BY <3>1, <3>5, <3>6, <3>7, <3>8
  <2> QED BY <2>2, <2>3
<1> DEFINE T == Text
<1>7. q \in Seq(T) /\ r \in Seq(T) /\ Len(q) = Len(r) /\ \A i \in 1..Len(q) : q[i] = r[i]
  <2> HIDE DEF n, p, q, r, more
  <2> QED BY <1>1, <1>2, <1>3, <1>5, <1>6
<1> HIDE DEF n, p, q, r, T
<1>8. q = r
  BY <1>7, SeqEqual
<1> QED BY <1>8 DEF q, r, p

(* The text of one field more is the text, the name, a colon, the value and*)
(* a line end.                                                             *)
LEMMA FlattenField ==
  ASSUME NEW fields \in Seq(Field), NEW f \in Field
  PROVE  FlattenSeq(FieldPieces(Append(fields, f)))
           = (((FlattenSeq(FieldPieces(fields)) \o f.name) \o <<":">>) \o f.value) \o <<"crlf">>
<1> DEFINE p == FieldPieces(fields)
           a == Append(p, f.name)
           b == Append(a, <<":">>)
           c == Append(b, f.value)
<1>1. f.name \in Seq(Units) /\ f.value \in Seq(Units) /\ <<":">> \in Seq(Units) /\ <<"crlf">> \in Seq(Units)
  BY UnitsAreTexts DEF Field, Text
<1>2. p \in Seq(Seq(Units))
  BY FieldPiecesAreTexts DEF Text
<1>3. FieldPieces(Append(fields, f)) = Append(c, <<"crlf">>)
  BY FieldPiecesAppend
<1> HIDE DEF p
<1>4. a \in Seq(Seq(Units))
  BY <1>1, <1>2
<1>5. FlattenSeq(p) \in Seq(Units) /\ FlattenSeq(a) = FlattenSeq(p) \o f.name
  BY <1>1, <1>2, FlattenType, FlattenAppend
<1> HIDE DEF a
<1>6. b \in Seq(Seq(Units))
  BY <1>1, <1>4
<1>7. FlattenSeq(b) = FlattenSeq(a) \o <<":">>
  BY <1>1, <1>4, FlattenType, FlattenAppend
<1> HIDE DEF b
<1>8. c \in Seq(Seq(Units))
  BY <1>1, <1>6
<1>9. FlattenSeq(c) = FlattenSeq(b) \o f.value
  BY <1>1, <1>6, FlattenType, FlattenAppend
<1> HIDE DEF c
<1>10. FlattenSeq(Append(c, <<"crlf">>)) = FlattenSeq(c) \o <<"crlf">>
  BY <1>1, <1>8, FlattenType, FlattenAppend
<1> QED BY <1>3, <1>5, <1>7, <1>9, <1>10 DEF p

LEMMA NoFields == FlattenSeq(FieldPieces(<<>>)) = <<>>
<1>1. FieldPieces(<<>>) \in Seq(Text) /\ Len(FieldPieces(<<>>)) = 0
  BY FieldPiecesAreTexts DEF FieldPieces
<1>2. FieldPieces(<<>>) = <<>>
  BY <1>1, EmptySeq
<1> QED BY <1>2, FlattenEmpty

-----------------------------------------------------------------------------
(* The scans of the parser                                                 *)

(* The first unit of S from i on, or the end.                              *)
LEMMA UntilIs ==
  ASSUME NEW t \in Text, NEW i \in 1..(Len(t) + 1), NEW S
  PROVE  /\ Until(t, i, S) \in i..(Len(t) + 1)
         /\ At(t, Until(t, i, S)) \in S \cup {"end"}
         /\ \A j \in i..(Until(t, i, S) - 1) : At(t, j) \notin S
<1> DEFINE stops == {j \in i..(Len(t) + 1) : At(t, j) \in S \cup {"end"}}
<1>1. Len(t) \in Nat
  BY DEF Text
<1>2. Len(t) + 1 \in stops /\ stops \in SUBSET Nat
  BY <1>1 DEF At
<1>3. Lowest(stops) \in stops /\ \A k \in stops : Lowest(stops) <= k
  <2> HIDE DEF stops
  <2> QED BY <1>2, LowestIs
<1>4. Until(t, i, S) = Lowest(stops)
  BY DEF Until
<1>5. ASSUME NEW j \in i..(Lowest(stops) - 1) PROVE At(t, j) \notin S
  <2>1. Lowest(stops) \in i..(Len(t) + 1)
    BY <1>3
  <2>2. j \in i..(Len(t) + 1) /\ ~(Lowest(stops) <= j)
    BY <1>1, <2>1
  <2>3. j \notin stops
    BY <1>3, <2>2
  <2> QED BY <2>2, <2>3
<1> HIDE DEF stops
<1> QED BY <1>3, <1>4, <1>5 DEF stops

(* Until is the first place that has a unit of S.                          *)
LEMMA UntilEquals ==
  ASSUME NEW t \in Text, NEW i \in 1..(Len(t) + 1), NEW S, NEW x \in i..(Len(t) + 1),
         \A j \in i..(x - 1) : At(t, j) \notin S \cup {"end"}, At(t, x) \in S
  PROVE  Until(t, i, S) = x
<1> DEFINE stops == {j \in i..(Len(t) + 1) : At(t, j) \in S \cup {"end"}}
<1>1. Len(t) \in Nat
  BY DEF Text
<1>2. x \in stops /\ stops \in SUBSET Nat
  BY <1>1
<1>3. ASSUME NEW k \in stops PROVE x <= k
  <2>1. SUFFICES ASSUME k < x PROVE FALSE
    BY <1>1
  <2>2. k \in i..(x - 1)
    BY <1>1, <2>1
  <2> QED BY <2>2
<1>4. Lowest(stops) = x
  <2> HIDE DEF stops
  <2> QED BY <1>2, <1>3, LowestEquals
<1> QED BY <1>4 DEF Until

(* The units of S from i on.                                               *)
LEMMA SkipIs ==
  ASSUME NEW t \in Text, NEW i \in 1..(Len(t) + 1), NEW S, "end" \notin S
  PROVE  /\ Skip(t, i, S) \in i..(Len(t) + 1)
         /\ \A j \in i..(Skip(t, i, S) - 1) : At(t, j) \in S
<1> DEFINE stops == {j \in i..(Len(t) + 1) : At(t, j) \notin S}
<1>1. Len(t) \in Nat
  BY DEF Text
<1>2. Len(t) + 1 \in stops /\ stops \in SUBSET Nat
  BY <1>1 DEF At
<1>3. Lowest(stops) \in stops /\ \A k \in stops : Lowest(stops) <= k
  <2> HIDE DEF stops
  <2> QED BY <1>2, LowestIs
<1>4. Skip(t, i, S) = Lowest(stops)
  BY DEF Skip
<1>5. ASSUME NEW j \in i..(Lowest(stops) - 1) PROVE At(t, j) \in S
  <2>1. Lowest(stops) \in i..(Len(t) + 1)
    BY <1>3
  <2>2. j \in i..(Len(t) + 1) /\ ~(Lowest(stops) <= j)
    BY <1>1, <2>1
  <2>3. j \notin stops
    BY <1>3, <2>2
  <2> QED BY <2>2, <2>3
<1> HIDE DEF stops
<1> QED BY <1>3, <1>4, <1>5 DEF stops

(* Skip is the first place that has no unit of S.                          *)
LEMMA SkipEquals ==
  ASSUME NEW t \in Text, NEW i \in 1..(Len(t) + 1), NEW S, NEW x \in i..(Len(t) + 1),
         \A j \in i..(x - 1) : At(t, j) \in S, At(t, x) \notin S
  PROVE  Skip(t, i, S) = x
<1> DEFINE stops == {j \in i..(Len(t) + 1) : At(t, j) \notin S}
<1>1. Len(t) \in Nat
  BY DEF Text
<1>2. x \in stops /\ stops \in SUBSET Nat
  BY <1>1
<1>3. ASSUME NEW k \in stops PROVE x <= k
  <2>1. SUFFICES ASSUME k < x PROVE FALSE
    BY <1>1
  <2>2. k \in i..(x - 1)
    BY <1>1, <2>1
  <2> QED BY <2>2
<1>4. Lowest(stops) = x
  <2> HIDE DEF stops
  <2> QED BY <1>2, <1>3, LowestEquals
<1> QED BY <1>4 DEF Skip

(* Where Skip has stopped, there is no unit of S.                          *)
LEMMA SkipStops ==
  ASSUME NEW t \in Text, NEW i \in 1..(Len(t) + 1), NEW S, "end" \notin S
  PROVE  At(t, Skip(t, i, S)) \notin S
<1> DEFINE stops == {j \in i..(Len(t) + 1) : At(t, j) \notin S}
<1>1. Len(t) \in Nat
  BY DEF Text
<1>2. Len(t) + 1 \in stops /\ stops \in SUBSET Nat
  BY <1>1 DEF At
<1>3. Lowest(stops) \in stops
  <2> HIDE DEF stops
  <2> QED BY <1>2, LowestIs
<1> QED BY <1>3 DEF Skip

(* What begins the line that ends at e: no line end is between.            *)
LEMMA LineStartIs ==
  ASSUME NEW t \in Text, NEW i \in 1..(Len(t) + 1), NEW e \in LineEnds(t, i)
  PROVE  /\ LineStart(t, i, e) \in i..e
         /\ \A j \in LineStart(t, i, e)..(e - 1) : t[j] # "crlf"
<1> DEFINE ds == {d \in LineEnds(t, i) : d < e}
           S == {i} \cup {d + 1 : d \in ds}
<1>1. Len(t) \in Nat /\ e \in i..Len(t)
  BY DEF Text, LineEnds
<1>2. \A d \in ds : d \in i..(e - 1)
  BY <1>1 DEF LineEnds
<1>3. S \in SUBSET (1..Len(t)) /\ S # {}
  <2> HIDE DEF ds
  <2> QED BY <1>1, <1>2
<1>4. Highest(S) \in S /\ \A k \in S : k <= Highest(S)
  <2> HIDE DEF S
  <2> QED BY <1>1, <1>3, HighestIs
<1>5. LineStart(t, i, e) = Highest(S)
  BY DEF LineStart
<1>6. Highest(S) \in i..e
  <2> HIDE DEF ds
  <2>1. S \in SUBSET (i..e)
    BY <1>1, <1>2
  <2> HIDE DEF S
  <2> QED BY <1>4, <2>1
<1>7. ASSUME NEW j \in Highest(S)..(e - 1) PROVE t[j] # "crlf"
  <2>1. SUFFICES ASSUME t[j] = "crlf" PROVE FALSE
    OBVIOUS
  <2>2. j \in i..Len(t) /\ j < e
    <3> HIDE DEF S
    <3> QED BY <1>1, <1>6
  <2>3. j \in ds
    BY <2>1, <2>2 DEF LineEnds
  <2>4. j + 1 \in S
    BY <2>3
  <2> HIDE DEF S, ds
  <2> QED BY <1>1, <1>4, <1>6, <2>4
<1> QED BY <1>5, <1>6, <1>7

-----------------------------------------------------------------------------
(* What is parsed is well formed                                           *)

(* A field that parseHeaderField takes is one that can be printed.         *)
LEMMA FieldAtIs ==
  ASSUME NEW t \in Text, NEW s \in 1..Len(t), NEW e \in s..Len(t), t[e] = "crlf",
         \A j \in s..(e - 1) : t[j] # "crlf", GoodField(t, s, e)
  PROVE  LET f == FieldAt(t, s, e)
         IN  f \in Field /\ WellFormedField(f)
<1> DEFINE c == Skip(t, s, Letters)
           v == Skip(t, c + 1, {"sp"})
           name == SubSeq(t, s, c - 1)
           value == SubSeq(t, v, e - 1)
<1>1. Len(t) \in Nat /\ s \in 1..(Len(t) + 1) /\ "end" \notin Letters /\ "end" \notin {"sp"}
  BY EndIsNoLetter DEF Text
<1>2. c \in s..(Len(t) + 1) /\ \A j \in s..(c - 1) : At(t, j) \in Letters
  BY <1>1, SkipIs
<1>3. At(t, c) = ":"
  BY DEF GoodField
<1> HIDE DEF c
<1>4. c \in s..(e - 1)
  <2>1. c <= e
    <3>1. SUFFICES ASSUME c > e PROVE FALSE
      BY <1>1, <1>2
    <3>2. e \in s..(c - 1)
      BY <1>1, <1>2, <3>1
    <3>3. At(t, e) = "crlf"
      BY <1>1 DEF At
    <3> QED BY <1>2, <3>2, <3>3, CrlfIsNoLetter
  <2>2. c # e
    BY <1>3 DEF At
  <2> QED BY <1>1, <1>2, <2>1, <2>2
<1>5. c + 1 \in 1..(Len(t) + 1)
  BY <1>1, <1>4
<1>6. v \in (c + 1)..(Len(t) + 1) /\ \A j \in (c + 1)..(v - 1) : At(t, j) \in {"sp"}
  BY <1>1, <1>5, SkipIs
<1>7. At(t, v) # "sp"
  BY <1>1, <1>5, SkipStops
<1> HIDE DEF v
<1>8. v <= e
  <2>1. SUFFICES ASSUME v > e PROVE FALSE
    BY <1>1, <1>6
  <2>2. e \in (c + 1)..(v - 1)
    BY <1>1, <1>4, <1>6, <2>1
  <2>3. At(t, e) = "crlf"
    BY <1>1 DEF At
  <2> QED BY <1>6, <2>2, <2>3
<1>9. /\ name \in Text /\ Len(name) = c - s
      /\ \A k \in 1..(c - s) : name[k] = t[s + k - 1]
  <2>1. s \in Int /\ c - 1 \in Int /\ s >= 1 /\ c - 1 <= Len(t)
    BY <1>1, <1>4
  <2>2. /\ name \in Text /\ Len(name) = IF s <= c - 1 THEN (c - 1) - s + 1 ELSE 0
        /\ \A k \in 1..((c - 1) - s + 1) : name[k] = t[s + k - 1]
    BY <2>1, SubText
  <2> HIDE DEF name
  <2> QED BY <1>4, <2>2
<1>10. /\ value \in Text /\ Len(value) = e - v
       /\ \A k \in 1..(e - v) : value[k] = t[v + k - 1]
  <2>1. v \in Int /\ e - 1 \in Int /\ v >= 1 /\ e - 1 <= Len(t)
    BY <1>1, <1>5, <1>6
  <2>2. /\ value \in Text /\ Len(value) = IF v <= e - 1 THEN (e - 1) - v + 1 ELSE 0
        /\ \A k \in 1..((e - 1) - v + 1) : value[k] = t[v + k - 1]
    BY <2>1, SubText
  <2> HIDE DEF value
  <2> QED BY <1>5, <1>6, <1>8, <2>2
<1> HIDE DEF name, value
<1>11. WordsOnly(name)
  <2>1. DOMAIN name = 1..(c - s)
    BY <1>9 DEF Text
  <2>2. ASSUME NEW k \in 1..(c - s) PROVE name[k] \in Letters
    <3>1. s + k - 1 \in s..(c - 1) /\ s + k - 1 \in 1..Len(t)
      BY <1>1, <1>4
    <3>2. At(t, s + k - 1) = t[s + k - 1]
      BY <3>1 DEF At
    <3> QED BY <1>2, <1>9, <3>1, <3>2
  <2> QED BY <2>1, <2>2 DEF WordsOnly
<1>12. Without(value, "crlf")
  <2>1. DOMAIN value = 1..(e - v)
    BY <1>10 DEF Text
  <2>2. ASSUME NEW k \in 1..(e - v) PROVE value[k] # "crlf"
    <3>1. v + k - 1 \in s..(e - 1)
      BY <1>1, <1>4, <1>6
    <3> QED BY <1>10, <3>1
  <2> QED BY <2>1, <2>2 DEF Without
<1>13. At(value, 1) # "sp"
  <2>1. CASE v = e
    BY <1>10, <2>1 DEF At
  <2>2. CASE v # e
    <3>1. 1 \in 1..(e - v) /\ v \in 1..Len(t) /\ v + 1 - 1 = v
      BY <1>5, <1>6, <1>8, <2>2
    <3>2. value[1] = t[v] /\ At(t, v) = t[v]
      BY <1>10, <3>1 DEF At
    <3> QED BY <1>7, <1>10, <3>1, <3>2 DEF At
  <2> QED BY <2>1, <2>2
<1>14. FieldAt(t, s, e) = [name |-> name, value |-> value]
  BY DEF FieldAt, name, value, v, c
<1> QED BY <1>9, <1>10, <1>11, <1>12, <1>13, <1>14 DEF Field, WellFormedField

(* What parseHeaderStruct returns is a header that can be printed.         *)
LEMMA HeaderFieldsAre ==
  ASSUME NEW t \in Text, NEW i \in 1..Len(t), HeaderFields(t, i).outcome = "ok"
  PROVE  LET r == HeaderFields(t, i)
         IN  /\ r.next \in i..Len(t)
             /\ \E fields \in Seq(Field) :
                  /\ r.head = StructHead(fields)
                  /\ \A k \in DOMAIN fields : WellFormedField(fields[k])
<1> DEFINE ends == FieldEnds(t, i)
           next == IF ends = {} THEN i ELSE Highest(ends) + 1
           n == Cardinality(ends)
           item(k) == FieldAt(t, LineStart(t, i, Nth(ends, k)), Nth(ends, k))
           fields == [k \in 1..n |-> item(k)]
<1>1. /\ HeaderFields(t, i) = [outcome |-> "ok", head |-> StructHead(fields), next |-> next]
      /\ At(t, next) = "crlf" /\ \A e \in ends : GoodField(t, LineStart(t, i, e), e)
  BY DEF HeaderFields, Failed
<1>2. Len(t) \in Nat /\ i \in 1..(Len(t) + 1)
  BY DEF Text
<1>3. ends \in SUBSET LineEnds(t, i) /\ LineEnds(t, i) \in SUBSET (i..Len(t))
      /\ \A e \in LineEnds(t, i) : t[e] = "crlf"
  BY DEF FieldEnds, LineEnds
<1> HIDE DEF ends
<1>4. IsFiniteSet(ends) /\ ends \in SUBSET Nat /\ n \in Nat
  <2>1. ends \in SUBSET Nat /\ \A e \in ends : e <= Len(t)
    BY <1>2, <1>3
  <2> QED BY <1>2, <2>1, FS_BoundedSetOfNaturals, FS_CardinalityType
<1>5. ASSUME NEW k \in 1..n PROVE item(k) \in Field /\ WellFormedField(item(k))
  <2> DEFINE e == Nth(ends, k)
             s == LineStart(t, i, e)
  <2>1. e \in ends
    BY <1>4, NthIs
  <2> HIDE DEF e
  <2>2. e \in LineEnds(t, i) /\ e \in i..Len(t) /\ t[e] = "crlf"
    BY <1>3, <2>1
  <2>3. s \in i..e /\ \A j \in s..(e - 1) : t[j] # "crlf"
    BY <1>2, <2>2, LineStartIs
  <2>4. GoodField(t, s, e)
    BY <1>1, <2>1
  <2> HIDE DEF s
  <2>5. s \in 1..Len(t) /\ e \in s..Len(t)
    BY <1>2, <2>2, <2>3
  <2>6. FieldAt(t, s, e) \in Field /\ WellFormedField(FieldAt(t, s, e))
    BY <2>2, <2>3, <2>4, <2>5, FieldAtIs
  <2> QED BY <2>6 DEF e, s
<1> HIDE DEF item
<1>6. fields \in Seq(Field) /\ \A k \in DOMAIN fields : WellFormedField(fields[k])
  BY <1>4, <1>5
<1>7. next \in i..Len(t)
  <2>1. next \in Int /\ next >= i
    <3>1. CASE ends = {}
      BY <1>2, <3>1
    <3>2. CASE ends # {}
      <4>1. ends \in SUBSET (1..Len(t))
        BY <1>2, <1>3
      <4>2. Highest(ends) \in ends
        BY <1>2, <3>2, <4>1, HighestIs
      <4>3. Highest(ends) \in i..Len(t)
        BY <1>3, <4>2
      <4> QED BY <1>2, <3>2, <4>3
    <3> QED BY <3>1, <3>2
  <2>2. At(t, next) # "end"
    BY <1>1
  <2> HIDE DEF next
  <2> QED BY <1>2, <2>1, <2>2 DEF At
<1> HIDE DEF fields, next
<1>8. HeaderFields(t, i).next = next /\ HeaderFields(t, i).head = StructHead(fields)
  BY <1>1
<1> QED BY <1>6, <1>7, <1>8

(* The headers that the parser makes, and a message with one and a body.   *)
ParsedHeads(asStruct) ==
  {h \in Header : asStruct => /\ h = StructHead(h.fields)
                              /\ \A k \in DOMAIN h.fields : WellFormedField(h.fields[k])}
Completes(x, m, asStruct) ==
  \E h \in ParsedHeads(asStruct), b \in Text : x = [m EXCEPT !.head = h, !.body = b]

(* ParseRest fails, overruns or completes the message it was given.        *)
LEMMA RestIs ==
  ASSUME NEW t \in Text, NEW i \in Nat, i >= 1, NEW asStruct \in BOOLEAN, NEW m
  PROVE  LET r == ParseRest(t, i, asStruct, m)
         IN  \/ r \in {Failed, Overrun}
             \/ \E x : Completes(x, m, asStruct) /\ r = [outcome |-> "ok", msg |-> x]
<1> DEFINE h == IF asStruct THEN ParseHeaderStruct(t, i) ELSE ParseHeaderString(t, i)
           body == SubSeq(t, h.next + 1, Len(t))
           x == [m EXCEPT !.head = h.head, !.body = body]
<1>1. ParseRest(t, i, asStruct, m) = IF h.outcome # "ok" THEN h ELSE [outcome |-> "ok", msg |-> x]
  BY DEF ParseRest
<1>2. Len(t) \in Nat
  BY DEF Text
<1>3. h.outcome # "ok" => h \in {Failed, Overrun}
  BY DEF ParseHeaderStruct, ParseHeaderString, HeaderFields
<1>4. ASSUME h.outcome = "ok"
      PROVE  /\ h.next \in 1..Len(t) /\ h.head \in Header
             /\ asStruct => /\ h.head = StructHead(h.head.fields)
                            /\ \A k \in DOMAIN h.head.fields : WellFormedField(h.head.fields[k])
  <2>1. CASE asStruct = TRUE
    <3>1. h = HeaderFields(t, i) /\ i \in 1..Len(t)
      BY <1>2, <1>4, <2>1 DEF ParseHeaderStruct, Overrun
    <3>2. PICK fields \in Seq(Field) :
            /\ h.head = StructHead(fields) /\ \A k \in DOMAIN fields : WellFormedField(fields[k])
      BY <1>4, <3>1, HeaderFieldsAre
    <3>3. h.next \in i..Len(t)
      BY <1>4, <3>1, HeaderFieldsAre
    <3>4. StructHead(fields) \in Header /\ StructHead(fields).fields = fields
      BY DEF StructHead, Header, Text
    <3> HIDE DEF h
    <3> QED BY <1>2, <3>1, <3>2, <3>3, <3>4
  <2>2. CASE asStruct = FALSE
    <3> DEFINE S == LineEnds(t, i + 1)
    <3>1. S # {} /\ h.next = Lowest(S) /\ h.head = StringHead(<<>>)
      BY <1>4, <2>2 DEF ParseHeaderString, Overrun
    <3>2. S \in SUBSET Nat /\ S \in SUBSET (1..Len(t))
      BY <1>2 DEF LineEnds
    <3> HIDE DEF S
    <3>3. Lowest(S) \in S
      BY <3>1, <3>2, LowestIs
    <3>4. StringHead(<<>>) \in Header
      BY DEF StringHead, Header, Text
    <3> QED BY <2>2, <3>1, <3>2, <3>3, <3>4
  <2> QED BY <2>1, <2>2
<1> HIDE DEF h
<1>5. ASSUME h.outcome = "ok" PROVE Completes(x, m, asStruct)
  <2>1. h.next + 1 \in Int /\ h.next + 1 >= 1 /\ Len(t) \in Int /\ Len(t) <= Len(t)
    BY <1>2, <1>4, <1>5
  <2>2. body \in Text
    BY <2>1, SubText
  <2>3. h.head \in ParsedHeads(asStruct)
    BY <1>4, <1>5 DEF ParsedHeads
  <2> HIDE DEF body
  <2> QED BY <2>2, <2>3 DEF Completes
<1> HIDE DEF x
<1> QED BY <1>1, <1>3, <1>5

(* The message with another header and body.                               *)
LEMMA CompletedIs ==
  ASSUME NEW m \in Message, NEW asStruct \in BOOLEAN, NEW x, Completes(x, m, asStruct)
  PROVE  /\ x \in Message /\ x.kind = m.kind
         /\ x.url = m.url /\ x.code = m.code /\ x.msg = m.msg /\ x.method = m.method
         /\ asStruct => /\ x.head = StructHead(x.head.fields)
                        /\ \A k \in DOMAIN x.head.fields : WellFormedField(x.head.fields[k])
<1>0. PICK h \in ParsedHeads(asStruct), b \in Text : x = [m EXCEPT !.head = h, !.body = b]
  BY DEF Completes
<1>1. /\ h \in Header
      /\ asStruct => /\ h = StructHead(h.fields)
                     /\ \A k \in DOMAIN h.fields : WellFormedField(h.fields[k])
  BY DEF ParsedHeads
<1>2. /\ x \in Message /\ x.kind = m.kind /\ x.head = h
      /\ x.url = m.url /\ x.code = m.code /\ x.msg = m.msg /\ x.method = m.method
  BY <1>0, <1>1 DEF Message
<1> QED BY <1>1, <1>2

(* A request that is accepted is a message that can be printed.            *)
LEMMA RequestIs ==
  ASSUME NEW t \in Text, NEW asStruct \in BOOLEAN
  PROVE  LET r == ParseRequest(t, asStruct)
         IN  \/ r \in {Failed, Overrun}
             \/ \E x \in Message :
                  /\ r = [outcome |-> "ok", msg |-> x] /\ x.kind = "request"
                  /\ asStruct => WellFormed(x)
<1> DEFINE w == Skip(t, 1, Letters)
           u == Until(t, w + 1, {"sp"})
           url == SubSeq(t, w + 1, u - 1)
           m == Request(t[1], url, VersionOf[t[u + 1]])
<1>1. Len(t) \in Nat /\ 1 \in 1..(Len(t) + 1)
  BY DEF Text
<1>2. ParseSimpleRequest(t, asStruct) = Failed
  <2>1. At(t, Until(t, 1, {"sp"})) # "crlf"
    BY <1>1, UntilIs
  <2> QED BY <2>1 DEF ParseSimpleRequest
<1>3. ASSUME ParseRequest(t, asStruct) # Failed
      PROVE  /\ At(t, 1) \in Methods /\ At(t, w) = "sp" /\ u > w + 1 /\ At(t, u) = "sp"
             /\ At(t, u + 1) \in DOMAIN VersionOf
             /\ ParseRequest(t, asStruct) = ParseRest(t, u + 3, asStruct, m)
  BY <1>2, <1>3 DEF ParseRequest
<1> SUFFICES ASSUME ParseRequest(t, asStruct) # Failed
             PROVE  LET r == ParseRequest(t, asStruct)
                    IN  \/ r = Overrun \/ r = Failed
                        \/ \E x \in Message :
                             /\ r = [outcome |-> "ok", msg |-> x] /\ x.kind = "request"
                             /\ asStruct => WellFormed(x)
  OBVIOUS
<1>4. w \in 1..Len(t)
  <2>1. w \in 1..(Len(t) + 1)
    BY <1>1, EndIsNoLetter, SkipIs
  <2> HIDE DEF w
  <2> QED BY <1>3, <2>1 DEF At
<1> HIDE DEF w
<1>5. u \in (w + 1)..(Len(t) + 1) /\ \A j \in (w + 1)..(u - 1) : At(t, j) \notin {"sp"}
  <2>1. w + 1 \in 1..(Len(t) + 1)
    BY <1>1, <1>4
  <2> QED BY <2>1, UntilIs
<1> HIDE DEF u
<1>6. /\ url \in Text /\ Len(url) = u - w - 1
      /\ \A k \in 1..(u - w - 1) : url[k] = t[w + k]
  <2>1. w + 1 \in Int /\ u - 1 \in Int /\ w + 1 >= 1 /\ u - 1 <= Len(t)
    BY <1>1, <1>4, <1>5
  <2>2. /\ url \in Text /\ Len(url) = IF w + 1 <= u - 1 THEN (u - 1) - (w + 1) + 1 ELSE 0
        /\ \A k \in 1..((u - 1) - (w + 1) + 1) : url[k] = t[(w + 1) + k - 1]
    BY <2>1, SubText
  <2>3. /\ w + 1 <= u - 1 /\ (u - 1) - (w + 1) + 1 = u - w - 1
        /\ \A k \in 1..(u - w - 1) : (w + 1) + k - 1 = w + k
    BY <1>3, <1>4, <1>5
  <2> HIDE DEF url
  <2> QED BY <2>2, <2>3
<1>7. url # <<>>
  <2>1. Len(url) # 0
    BY <1>3, <1>4, <1>5, <1>6
  <2> HIDE DEF url
  <2> QED BY <2>1
<1>8. Without(url, "sp")
  <2>1. DOMAIN url = 1..(u - w - 1)
    BY <1>6 DEF Text
  <2>2. ASSUME NEW k \in 1..(u - w - 1) PROVE url[k] # "sp"
    <3>1. w + k \in (w + 1)..(u - 1) /\ w + k \in 1..Len(t)
      BY <1>1, <1>4, <1>5
    <3>2. At(t, w + k) = t[w + k] /\ At(t, w + k) # "sp"
      BY <1>5, <3>1 DEF At
    <3> QED BY <1>6, <3>2
  <2> HIDE DEF url
  <2> QED BY <2>1, <2>2 DEF Without
<1> HIDE DEF url
<1>9. t[1] \in Methods /\ VersionOf[t[u + 1]] \in {9, 10, 11}
  <2>1. "end" \notin Methods /\ "end" \notin DOMAIN VersionOf
    BY DEF Methods, VersionOf
  <2>2. At(t, 1) = t[1] /\ At(t, u + 1) = t[u + 1]
    BY <1>3, <2>1 DEF At
  <2>3. \A v \in DOMAIN VersionOf : VersionOf[v] \in {9, 10, 11}
    BY DEF VersionOf
  <2> QED BY <1>3, <2>2, <2>3
<1>10. /\ m \in Message /\ m.kind = "request" /\ m.url = url /\ m.code = 0 /\ m.msg = <<>>
  BY <1>6, <1>9 DEF Request, StructHead, Message, Header, Text
<1> HIDE DEF m
<1>11. u + 3 \in Nat /\ u + 3 >= 1
  BY <1>4, <1>5
<1>12. ASSUME NEW x, Completes(x, m, asStruct)
       PROVE  x \in Message /\ x.kind = "request" /\ (asStruct => WellFormed(x))
  BY <1>7, <1>8, <1>10, <1>12, CompletedIs DEF WellFormed
<1>13. \/ ParseRequest(t, asStruct) \in {Failed, Overrun}
       \/ \E x : /\ Completes(x, m, asStruct)
               /\ ParseRequest(t, asStruct) = [outcome |-> "ok", msg |-> x]
  BY <1>3, <1>11, RestIs
<1> QED BY <1>12, <1>13

(* So is a response.                                                       *)
LEMMA ResponseIs ==
  ASSUME NEW t \in Text, NEW asStruct \in BOOLEAN
  PROVE  LET r == ParseResponse(t, asStruct)
         IN  \/ r \in {Failed, Overrun}
             \/ \E x \in Message :
                  /\ r = [outcome |-> "ok", msg |-> x] /\ x.kind = "response"
                  /\ asStruct => WellFormed(x)
<1> DEFINE c == Skip(t, 3, Digits)
           e == Until(t, c + 1, {"crlf"})
           v == VersionOf[t[1]]
           n == 100 * NumberOf(t[3]) + 10 * NumberOf(t[4]) + NumberOf(t[5])
           phrase == SubSeq(t, 7, e - 1)
           m == Response(v, n, phrase)
<1>1. ASSUME ParseResponse(t, asStruct) # Failed
      PROVE  /\ At(t, 1) \in DOMAIN VersionOf
             /\ c = 6 /\ At(t, 3) \in {"1", "2", "3", "4", "5"} /\ At(t, 6) = "sp"
             /\ At(t, e) = "crlf"
             /\ ParseResponse(t, asStruct) = ParseRest(t, e + 1, asStruct, m)
  BY <1>1 DEF ParseResponse
<1> SUFFICES ASSUME ParseResponse(t, asStruct) # Failed
             PROVE  LET r == ParseResponse(t, asStruct)
                    IN  \/ r = Overrun \/ r = Failed
                        \/ \E x \in Message :
                             /\ r = [outcome |-> "ok", msg |-> x] /\ x.kind = "response"
                             /\ asStruct => WellFormed(x)
  OBVIOUS
<1>2. Len(t) \in Nat /\ 6 <= Len(t)
  BY <1>1 DEF At, Text
<1>3. At(t, 4) \in Digits /\ At(t, 5) \in Digits
  <2>1. 3 \in 1..(Len(t) + 1)
    BY <1>2
  <2>2. \A j \in 3..(c - 1) : At(t, j) \in Digits
    BY <2>1, SkipIs, DigitsAreNoLineEnds
  <2>3. 4 \in 3..(c - 1) /\ 5 \in 3..(c - 1)
    BY <1>1
  <2> QED BY <2>2, <2>3
<1>4. e \in 7..(Len(t) + 1) /\ \A j \in 7..(e - 1) : At(t, j) \notin {"crlf"}
  <2>1. 7 \in 1..(Len(t) + 1) /\ c + 1 = 7
    BY <1>1, <1>2
  <2> QED BY <2>1, UntilIs
<1>5. v \in {9, 10, 11}
  <2>1. t[1] \in DOMAIN VersionOf
    BY <1>1, <1>2 DEF At
  <2> QED BY <2>1 DEF VersionOf
<1>6. n \in 100..599
  <2>1. t[3] \in {"1", "2", "3", "4", "5"} /\ t[4] \in Digits /\ t[5] \in Digits
    BY <1>1, <1>2, <1>3 DEF At
  <2>2. NumberOf(t[3]) \in 1..5 /\ NumberOf(t[4]) \in 0..9 /\ NumberOf(t[5]) \in 0..9
    BY <2>1, FirstDigitIs, NumberOfDigit
  <2> QED BY <2>2
<1> HIDE DEF c, e, v, n
<1>7. /\ phrase \in Text /\ Len(phrase) = e - 7
      /\ \A k \in 1..(e - 7) : phrase[k] = t[k + 6]
  <2>1. 7 \in Int /\ e - 1 \in Int /\ 7 >= 1 /\ e - 1 <= Len(t)
    BY <1>2, <1>4
  <2>2. /\ phrase \in Text /\ Len(phrase) = IF 7 <= e - 1 THEN (e - 1) - 7 + 1 ELSE 0
        /\ \A k \in 1..((e - 1) - 7 + 1) : phrase[k] = t[7 + k - 1]
    BY <2>1, SubText
  <2>3. \A k \in 1..(e - 7) : 7 + k - 1 = k + 6
    OBVIOUS
  <2> HIDE DEF phrase
  <2> QED BY <1>4, <2>2, <2>3
<1> HIDE DEF phrase
<1>8. Without(phrase, "crlf")
  <2>1. DOMAIN phrase = 1..(e - 7)
    BY <1>7 DEF Text
  <2>2. ASSUME NEW k \in 1..(e - 7) PROVE phrase[k] # "crlf"
    <3>1. k + 6 \in 7..(e - 1) /\ k + 6 \in 1..Len(t)
      BY <1>2, <1>4
    <3>2. At(t, k + 6) = t[k + 6] /\ At(t, k + 6) # "crlf"
      BY <1>4, <3>1 DEF At
    <3> QED BY <1>7, <3>2
  <2> QED BY <2>1, <2>2 DEF Without
<1>9. /\ m \in Message /\ m.kind = "response" /\ m.code = n /\ m.msg = phrase
      /\ m.method = "GET" /\ m.url = <<>>
  <2>1. n \in Nat
    BY <1>6
  <2> QED BY <1>5, <1>7, <2>1 DEF Response, StructHead, Message, Header, Text, Methods
<1> HIDE DEF m
<1>10. e + 1 \in Nat /\ e + 1 >= 1
  BY <1>4
<1>11. ASSUME NEW x, Completes(x, m, asStruct)
       PROVE  x \in Message /\ x.kind = "response" /\ (asStruct => WellFormed(x))
  BY <1>6, <1>8, <1>9, <1>11, CompletedIs, ZenonT(40) DEF WellFormed
<1>12. \/ ParseResponse(t, asStruct) \in {Failed, Overrun}
       \/ \E x : /\ Completes(x, m, asStruct)
                 /\ ParseResponse(t, asStruct) = [outcome |-> "ok", msg |-> x]
  BY <1>1, <1>10, RestIs
<1> QED BY <1>11, <1>12

(* What is accepted is a message of the kind that was asked for, and well  *)
(* formed if its header is a struct.                                       *)
LEMMA ParseIs ==
  ASSUME NEW kind \in {"request", "response"}, NEW t \in Text, NEW asStruct \in BOOLEAN
  PROVE  LET r == Parse(kind, t, asStruct)
         IN  \/ r \in {Failed, Overrun}
             \/ \E x \in Message :
                  /\ r = [outcome |-> "ok", msg |-> x] /\ x.kind = kind
                  /\ asStruct => WellFormed(x)
<1>1. CASE kind = "request"
  <2>1. Parse(kind, t, asStruct) = ParseRequest(t, asStruct)
    BY <1>1 DEF Parse
  <2> QED BY <1>1, <2>1, RequestIs
<1>2. CASE kind = "response"
  <2>1. Parse(kind, t, asStruct) = ParseResponse(t, asStruct)
    BY <1>2 DEF Parse
  <2> QED BY <1>2, <2>1, ResponseIs
<1> QED BY <1>1, <1>2

-----------------------------------------------------------------------------
(* Where the fields of a header are                                        *)

(* One field of a text: its name from behind a, its value from behind the  *)
(* colon, and its line end at b.                                           *)
FieldLies(t, f, a, b) ==
  /\ b = a + Len(f.name) + Len(f.value) + 2
  /\ \A j \in 1..Len(f.name) : t[a + j] = f.name[j]
  /\ t[a + Len(f.name) + 1] = ":"
  /\ \A j \in 1..Len(f.value) : t[a + Len(f.name) + 1 + j] = f.value[j]
  /\ t[b] = "crlf"

(* The fields one behind the other: p gives where they end.                *)
FieldsLie(t, fields, p) ==
  /\ p \in [0..Len(fields) -> Nat]
  /\ \A k \in 1..Len(fields) : FieldLies(t, fields[k], p[k - 1], p[k])

(* Each field has a colon and a line end at least.                         *)
LEMMA PositionsGrow ==
  ASSUME NEW fields \in Seq(Field), NEW t, NEW p, FieldsLie(t, fields, p),
         NEW j \in 0..Len(fields), NEW k \in 0..Len(fields), j <= k
  PROVE  /\ p[j] \in Nat /\ p[k] \in Nat /\ p[j] <= p[k]
         /\ j < k => p[j] + 2 <= p[k]
<1> DEFINE n == Len(fields)
           bad == {i \in Nat : i \in 0..n /\ j < i /\ ~(p[j] + 2 <= p[i])}
<1>1. n \in Nat /\ p \in [0..n -> Nat]
  BY DEF FieldsLie
<1>2. bad = {}
  <2>1. SUFFICES ASSUME bad # {} PROVE FALSE
    OBVIOUS
  <2>2. PICK i \in bad : \A h \in bad : i <= h
    <3>1. bad \in SUBSET Nat
      OBVIOUS
    <3> HIDE DEF bad
    <3> QED BY <2>1, <3>1, LeastElement, Zenon
  <2>3. i \in 1..n /\ i - 1 \in 0..n /\ i - 1 \in Nat /\ j <= i - 1 /\ ~(i <= i - 1)
    BY <1>1
  <2>4. p[i] >= p[i - 1] + 2
    <3>1. fields[i] \in Field /\ FieldLies(t, fields[i], p[i - 1], p[i])
      BY <2>3 DEF FieldsLie
    <3> DEFINE a == Len(fields[i].name)
               v == Len(fields[i].value)
    <3>2. a \in Nat /\ v \in Nat
      BY <3>1 DEF Field, Text
    <3>3. p[i - 1] \in Nat /\ p[i] \in Nat
      BY <1>1, <2>3
    <3>4. p[i] = p[i - 1] + a + v + 2
      BY <3>1 DEF FieldLies
    <3> HIDE DEF a, v
    <3> QED BY <3>2, <3>3, <3>4
  <2>5. p[j] \in Nat /\ p[i - 1] \in Nat /\ p[i] \in Nat /\ i \in bad
    BY <1>1, <2>3
  <2>6. i - 1 = j \/ p[j] + 2 <= p[i - 1]
    <3>1. i - 1 \notin bad
      BY <2>2, <2>3
    <3> QED BY <2>3, <3>1
  <2> QED BY <2>4, <2>5, <2>6
<1>3. p[j] \in Nat /\ p[k] \in Nat
  BY <1>1
<1>4. j < k => p[j] + 2 <= p[k]
  BY <1>2
<1> QED BY <1>3, <1>4

(* A field behind a text lies where the text ends.                         *)
LEMMA FieldText ==
  ASSUME NEW f \in Field, NEW h \in Text
  PROVE  LET x == (((h \o f.name) \o <<":">>) \o f.value) \o <<"crlf">>
         IN  /\ x \in Text /\ Len(x) = Len(h) + Len(f.name) + Len(f.value) + 2
             /\ \A j \in 1..Len(h) : x[j] = h[j]
             /\ FieldLies(x, f, Len(h), Len(x))
<1> DEFINE x1 == h \o f.name
           x2 == x1 \o <<":">>
           x3 == x2 \o f.value
           x == x3 \o <<"crlf">>
           l == Len(h)
           n == Len(f.name)
           v == Len(f.value)
<1>1. f.name \in Text /\ f.value \in Text /\ <<":">> \in Text /\ <<"crlf">> \in Text
  BY UnitsAreTexts DEF Field
<1>2. Len(<<":">>) = 1 /\ <<":">>[1] = ":" /\ Len(<<"crlf">>) = 1 /\ <<"crlf">>[1] = "crlf"
  OBVIOUS
<1>3. /\ l \in Nat /\ n \in Nat /\ v \in Nat /\ 1 \in 1..1
      /\ Len(h) = l /\ Len(f.name) = n /\ Len(f.value) = v
  BY <1>1 DEF Text
<1> HIDE DEF l, n, v
<1>4. /\ x1 \in Text /\ Len(x1) = l + n
      /\ \A j \in 1..l : x1[j] = h[j]
      /\ \A j \in 1..n : x1[l + j] = f.name[j]
  BY <1>1, <1>3, Joined
<1> HIDE DEF x1
<1>5. /\ x2 \in Text /\ Len(x2) = l + n + 1
      /\ \A j \in 1..(l + n) : x2[j] = x1[j]
      /\ x2[l + n + 1] = ":"
  BY <1>1, <1>4, JoinedUnit
<1> HIDE DEF x2
<1>6. /\ x3 \in Text /\ Len(x3) = l + n + 1 + v
      /\ \A j \in 1..(l + n + 1) : x3[j] = x2[j]
      /\ \A j \in 1..v : x3[l + n + 1 + j] = f.value[j]
  <2> DEFINE k == l + n + 1
  <2>1. Len(x2) = k
    BY <1>5
  <2> HIDE DEF k
  <2>2. /\ x3 \in Text /\ Len(x3) = k + v
        /\ \A j \in 1..k : x3[j] = x2[j]
        /\ \A j \in 1..v : x3[k + j] = f.value[j]
    <3>1. /\ x3 \in Text /\ Len(x3) = Len(x2) + Len(f.value)
          /\ \A j \in 1..Len(x2) : x3[j] = x2[j]
          /\ \A j \in 1..Len(f.value) : x3[Len(x2) + j] = f.value[j]
      BY <1>1, <1>5, Joined
    <3> QED BY <1>3, <2>1, <3>1
  <2> QED BY <2>2 DEF k
<1> HIDE DEF x3
<1>7. /\ x \in Text /\ Len(x) = l + n + 1 + v + 1
      /\ \A j \in 1..(l + n + 1 + v) : x[j] = x3[j]
      /\ x[l + n + 1 + v + 1] = "crlf"
  BY <1>1, <1>6, JoinedUnit
<1>8. x = (((h \o f.name) \o <<":">>) \o f.value) \o <<"crlf">>
  BY DEF x1, x2, x3
<1> HIDE DEF x
<1>9. Len(x) = l + n + v + 2 /\ l + n + 1 + v + 1 = l + n + v + 2
  BY <1>3, <1>7
<1>10. /\ \A j \in 1..l : j \in 1..(l + n) /\ j \in 1..(l + n + 1) /\ j \in 1..(l + n + 1 + v)
       /\ \A j \in 1..n : l + j \in 1..(l + n) /\ l + j \in 1..(l + n + 1) /\ l + j \in 1..(l + n + 1 + v)
       /\ l + n + 1 \in 1..(l + n + 1) /\ l + n + 1 \in 1..(l + n + 1 + v)
       /\ \A j \in 1..v : l + n + 1 + j \in 1..(l + n + 1 + v)
  BY <1>3
<1>11. \A j \in 1..l : x[j] = h[j]
  BY <1>4, <1>5, <1>6, <1>7, <1>10
<1>12. ASSUME NEW j \in 1..n PROVE x[l + j] = f.name[j]
  <2>1. l + j \in 1..(l + n) /\ l + j \in 1..(l + n + 1) /\ l + j \in 1..(l + n + 1 + v)
    BY <1>10
  <2>2. x[l + j] = x3[l + j]
    BY <1>7, <2>1
  <2>3. x3[l + j] = x2[l + j]
    BY <1>6, <2>1
  <2>4. x2[l + j] = x1[l + j]
    BY <1>5, <2>1
  <2>5. x1[l + j] = f.name[j]
    BY <1>4
  <2> QED BY <2>2, <2>3, <2>4, <2>5
<1>13. x[l + n + 1] = ":"
  BY <1>5, <1>6, <1>7, <1>10
<1>14. \A j \in 1..v : x[l + n + 1 + j] = f.value[j]
  BY <1>6, <1>7, <1>10
<1>15. FieldLies(x, f, l, Len(x))
  BY <1>3, <1>7, <1>9, <1>12, <1>13, <1>14 DEF FieldLies
<1> QED BY <1>3, <1>7, <1>8, <1>9, <1>11, <1>15

(* Where the units of a text are found at other places of another one.     *)
LEMMA FieldMoves ==
  ASSUME NEW f \in Field, NEW a \in Nat, NEW b \in Nat, NEW d \in Nat, NEW t, NEW x,
         FieldLies(x, f, a, b), \A j \in 1..b : t[d + j] = x[j]
  PROVE  FieldLies(t, f, d + a, d + b)
<1> DEFINE n == Len(f.name)
           v == Len(f.value)
<1>1. n \in Nat /\ v \in Nat /\ Len(f.name) = n /\ Len(f.value) = v
  BY DEF Field, Text
<1>2. b = a + n + v + 2
  BY DEF FieldLies
<1> HIDE DEF n, v
<1>3. ASSUME NEW j \in 1..n PROVE t[d + a + j] = f.name[j]
  <2>1. a + j \in 1..b /\ d + a + j = d + (a + j)
    BY <1>1, <1>2
  <2> QED BY <1>1, <2>1 DEF FieldLies
<1>4. ASSUME NEW j \in 1..v PROVE t[d + a + n + 1 + j] = f.value[j]
  <2>1. a + n + 1 + j \in 1..b /\ d + a + n + 1 + j = d + (a + n + 1 + j)
    BY <1>1, <1>2
  <2> QED BY <1>1, <2>1 DEF FieldLies
<1>5. t[d + a + n + 1] = ":"
  <2>1. a + n + 1 \in 1..b /\ d + a + n + 1 = d + (a + n + 1)
    BY <1>1, <1>2
  <2> QED BY <1>1, <2>1 DEF FieldLies
<1>6. t[d + b] = "crlf"
  <2>1. b \in 1..b
    BY <1>1, <1>2
  <2> QED BY <1>1, <2>1 DEF FieldLies
<1>7. d + b = d + a + n + v + 2
  BY <1>1, <1>2
<1> QED BY <1>1, <1>3, <1>4, <1>5, <1>6, <1>7 DEF FieldLies

(* The fields lie in the text that is printed for them.                    *)
LEMMA PrintedFieldsLie ==
  ASSUME NEW fields \in Seq(Field)
  PROVE  LET x == FlattenSeq(FieldPieces(fields))
         IN  x \in Text /\ \E p : FieldsLie(x, fields, p) /\ p[0] = 0 /\ p[Len(fields)] = Len(x)
<1> DEFINE X(s) == FlattenSeq(FieldPieces(s))
           Lie(s) == \E p : FieldsLie(X(s), s, p) /\ p[0] = 0 /\ p[Len(s)] = Len(X(s))
           bad == {n \in Nat : \E s \in Seq(Field) : Len(s) = n /\ ~Lie(s)}
<1>1. ASSUME NEW s \in Seq(Field) PROVE X(s) \in Text
  BY FieldPiecesAreTexts, FlattenType DEF Text
<1>2. SUFFICES ASSUME bad # {} PROVE FALSE
  <2>1. Len(fields) \in Nat
    OBVIOUS
  <2>2. Lie(fields)
    BY <2>1
  <2> QED BY <1>1, <2>2
<1>3. PICK n \in bad : \A k \in bad : n <= k
  <2>1. bad \in SUBSET Nat
    OBVIOUS
  <2> HIDE DEF bad
  <2> QED BY <1>2, <2>1, LeastElement, Zenon
<1>4. PICK s \in Seq(Field) : Len(s) = n /\ ~Lie(s)
  OBVIOUS
<1>5. n # 0
  <2>1. SUFFICES ASSUME n = 0 PROVE FALSE
    OBVIOUS
  <2>2. s = <<>> /\ X(s) = <<>> /\ Len(X(s)) = 0 /\ Len(s) = 0
    BY <1>4, <2>1, EmptySeq, NoFields
  <2> DEFINE p == [k \in 0..0 |-> 0]
  <2>3. p \in [0..Len(s) -> Nat] /\ p[0] = 0
    BY <2>2
  <2> HIDE DEF p, X
  <2>4. FieldsLie(X(s), s, p)
    BY <2>2, <2>3 DEF FieldsLie
  <2> QED BY <1>4, <2>2, <2>3, <2>4
<1>6. PICK q \in Seq(Field), f \in Field : s = Append(q, f) /\ Len(q) = n - 1
  <2> HIDE DEF bad, Lie
  <2>1. \E q \in Seq(Field) : \E f \in Field : s = Append(q, f) /\ Len(q) = Len(s) - 1
    BY <1>4, <1>5, FrontAndLast
  <2> QED BY <1>4, <2>1
<1>7. Lie(q)
  <2>1. n - 1 \in Nat /\ n - 1 \notin bad
    BY <1>3, <1>5
  <2> HIDE DEF Lie
  <2> QED BY <1>6, <2>1
<1> DEFINE h == X(q)
           x == X(s)
           m == n - 1
<1>8. h \in Text /\ x = (((h \o f.name) \o <<":">>) \o f.value) \o <<"crlf">>
  BY <1>1, <1>6, FlattenField
<1> HIDE DEF bad, X
<1> HIDE DEF h, x
<1>9. /\ x \in Text /\ Len(h) \in Nat /\ Len(x) \in Nat
      /\ \A j \in 1..Len(h) : x[j] = h[j]
      /\ FieldLies(x, f, Len(h), Len(x))
  <2>1. f \in Field
    BY <1>6
  <2>2. /\ x \in Text /\ \A j \in 1..Len(h) : x[j] = h[j]
        /\ FieldLies(x, f, Len(h), Len(x))
    <3> DEFINE y == (((h \o f.name) \o <<":">>) \o f.value) \o <<"crlf">>
    <3>1. /\ y \in Text /\ \A j \in 1..Len(h) : y[j] = h[j]
          /\ FieldLies(y, f, Len(h), Len(y))
      BY <1>8, <2>1, FieldText
    <3>2. x = y
      BY <1>8
    <3> HIDE DEF y
    <3> QED BY <3>1, <3>2
  <2>3. Len(h) \in Nat
    BY <1>8 DEF Text
  <2>4. Len(x) \in Nat
    BY <2>2 DEF Text
  <2> QED BY <2>2, <2>3, <2>4
<1>10. PICK p : FieldsLie(h, q, p) /\ p[0] = 0 /\ p[m] = Len(h)
  BY <1>6, <1>7 DEF h
<1>11. m \in Nat /\ n = m + 1 /\ Len(q) = m /\ Len(s) = m + 1
       /\ s[m + 1] = f /\ \A k \in 1..m : s[k] = q[k] /\ q[k] \in Field
  BY <1>4, <1>5, <1>6
<1> HIDE DEF m
<1> DEFINE r == [k \in 0..(m + 1) |-> IF k = m + 1 THEN Len(x) ELSE p[k]]
<1>12. p \in [0..m -> Nat] /\ \A k \in 1..m : FieldLies(h, q[k], p[k - 1], p[k])
  BY <1>10, <1>11 DEF FieldsLie
<1>13. r \in [0..(m + 1) -> Nat] /\ r[m + 1] = Len(x) /\ \A k \in 0..m : r[k] = p[k]
  BY <1>9, <1>11, <1>12
<1> HIDE DEF r
<1>14. ASSUME NEW k \in 1..m PROVE FieldLies(x, s[k], r[k - 1], r[k])
  <2>1. k - 1 \in 0..m /\ k \in 0..m
    BY <1>11
  <2>2. r[k - 1] = p[k - 1] /\ r[k] = p[k] /\ p[k - 1] \in Nat /\ p[k] \in Nat
    BY <1>12, <1>13, <2>1
  <2>3. p[k] <= Len(h)
    <3>1. k \in 0..Len(q) /\ m \in 0..Len(q) /\ k <= m
      BY <1>11
    <3> QED BY <1>10, <3>1, PositionsGrow
  <2>4. ASSUME NEW j \in 1..p[k] PROVE x[0 + j] = h[j]
    <3>1. j \in 1..Len(h) /\ 0 + j = j
      BY <1>9, <2>2, <2>3
    <3> QED BY <1>9, <3>1
  <2>5. FieldLies(h, q[k], p[k - 1], p[k]) /\ q[k] \in Field /\ s[k] = q[k]
    BY <1>11, <1>12
  <2>6. FieldLies(x, q[k], 0 + p[k - 1], 0 + p[k])
    BY <2>2, <2>4, <2>5, FieldMoves
  <2> QED BY <2>2, <2>5, <2>6
<1>15. FieldLies(x, s[m + 1], r[m], r[m + 1])
  <2>1. m \in 0..m
    BY <1>11
  <2> QED BY <1>9, <1>10, <1>11, <1>13, <2>1
<1>16. FieldsLie(x, s, r)
  <2>1. ASSUME NEW k \in 1..(m + 1) PROVE FieldLies(x, s[k], r[k - 1], r[k])
    <3>1. k \in 1..m \/ (k = m + 1 /\ k - 1 = m)
      BY <1>11
    <3> QED BY <1>14, <1>15, <3>1
  <2> QED BY <1>11, <1>13, <2>1 DEF FieldsLie
<1>17. r[0] = 0 /\ r[Len(s)] = Len(x)
  <2>1. 0 \in 0..m
    BY <1>11
  <2> QED BY <1>10, <1>11, <1>13, <2>1
<1> QED BY <1>4, <1>16, <1>17 DEF x

(* A unit of the header belongs to one of the fields.                      *)
LEMMA FieldOf ==
  ASSUME NEW fields \in Seq(Field), NEW t, NEW p, FieldsLie(t, fields, p),
         NEW x \in Nat, p[0] < x, x <= p[Len(fields)]
  PROVE  \E k \in 1..Len(fields) : p[k - 1] < x /\ x <= p[k]
<1> DEFINE n == Len(fields)
           S == {k \in 0..n : x <= p[k]}
<1>1. n \in Nat /\ p \in [0..n -> Nat]
  BY DEF FieldsLie
<1>2. S # {} /\ S \in SUBSET Nat
  BY <1>1
<1>3. PICK k \in S : \A j \in S : k <= j
  <2> HIDE DEF S
  <2> QED BY <1>2, LeastElement
<1>4. k \in 0..n /\ x <= p[k] /\ k # 0
  BY <1>1
<1>5. k \in 1..n /\ k - 1 \in 0..n /\ ~(k <= k - 1)
  BY <1>1, <1>4
<1>6. k - 1 \notin S
  BY <1>3, <1>5
<1>7. p[k - 1] \in Nat /\ ~(x <= p[k - 1])
  BY <1>1, <1>5, <1>6
<1> QED BY <1>4, <1>5, <1>7

-----------------------------------------------------------------------------
(* The header is parsed as it was printed                                  *)

(* A field of one line; those of a well-formed message are.                *)
OneLine(f) == Without(f.name, "crlf") /\ Without(f.value, "crlf")

(* A name of letters has no line end in it.                                *)
LEMMA WellFormedIsOneLine ==
  ASSUME NEW f \in Field, WellFormedField(f)
  PROVE  OneLine(f)
BY CrlfIsNoLetter DEF WellFormedField, WordsOnly, OneLine, Without

(* A header: the line before it has ended, and an empty line is behind it. *)
HeaderLies(t, fields, p) ==
  /\ FieldsLie(t, fields, p)
  /\ p[0] >= 1 /\ t[p[0]] = "crlf"
  /\ p[Len(fields)] + 1 <= Len(t) /\ t[p[Len(fields)] + 1] = "crlf"
  /\ \A k \in 1..Len(fields) : OneLine(fields[k])

(* Within a field there is no line end.                                    *)

(* A unit that is neither in the name nor in the value of a field.         *)
LEMMA NotInField ==
  ASSUME NEW f \in Field, NEW u, u # ":", Without(f.name, u), Without(f.value, u),
         NEW t, NEW a \in Nat, NEW b \in Nat, FieldLies(t, f, a, b),
         NEW x \in Nat, a < x, x < b
  PROVE  t[x] # u
<1> DEFINE n == Len(f.name)
           v == Len(f.value)
<1>1. n \in Nat /\ v \in Nat /\ DOMAIN f.name = 1..n /\ DOMAIN f.value = 1..v
  BY DEF Field, Text
<1>2. b = a + n + v + 2 /\ t[a + n + 1] = ":"
  BY DEF FieldLies
<1>3. \A j \in 1..n : t[a + j] = f.name[j] /\ f.name[j] # u
  BY <1>1 DEF FieldLies, Without
<1>4. \A j \in 1..v : t[a + n + 1 + j] = f.value[j] /\ f.value[j] # u
  BY <1>1 DEF FieldLies, Without
<1> HIDE DEF n, v
<1>5. CASE x <= a + n
  <2>1. x - a \in 1..n /\ a + (x - a) = x
    BY <1>1, <1>5
  <2> QED BY <1>3, <2>1
<1>6. CASE x = a + n + 1
  BY <1>2, <1>6
<1>7. CASE x > a + n + 1
  <2>1. x - a - n - 1 \in 1..v /\ a + n + 1 + (x - a - n - 1) = x
    BY <1>1, <1>2, <1>7
  <2> QED BY <1>4, <2>1
<1> QED BY <1>1, <1>5, <1>6, <1>7

(* A field has no line end before its own.                                 *)
LEMMA NoEndInField ==
  ASSUME NEW f \in Field, OneLine(f), NEW t, NEW a \in Nat, NEW b \in Nat,
         FieldLies(t, f, a, b), NEW x \in Nat, a < x, x < b
  PROVE  t[x] # "crlf"
<1>1. Without(f.name, "crlf") /\ Without(f.value, "crlf")
  BY DEF OneLine
<1> QED BY <1>1, NotInField

(* The line ends of the header are those of its fields.                    *)
LEMMA HeaderLineEnds ==
  ASSUME NEW t \in Text, NEW fields \in Seq(Field), NEW p, HeaderLies(t, fields, p),
         NEW x \in Nat, p[0] < x, x <= p[Len(fields)]
  PROVE  t[x] = "crlf" <=> \E k \in 1..Len(fields) : x = p[k]
<1> DEFINE n == Len(fields)
<1>1. n \in Nat /\ p \in [0..n -> Nat] /\ FieldsLie(t, fields, p)
  BY DEF HeaderLies, FieldsLie
<1>2. ASSUME NEW k \in 1..n PROVE t[p[k]] = "crlf"
  BY <1>2 DEF HeaderLies, FieldsLie, FieldLies
<1>3. ASSUME t[x] = "crlf" PROVE \E k \in 1..n : x = p[k]
  <2>1. PICK k \in 1..n : p[k - 1] < x /\ x <= p[k]
    BY <1>1, FieldOf
  <2>2. /\ fields[k] \in Field /\ OneLine(fields[k])
        /\ FieldLies(t, fields[k], p[k - 1], p[k])
    BY <1>1 DEF HeaderLies, FieldsLie
  <2>3. p[k - 1] \in Nat /\ p[k] \in Nat
    BY <1>1
  <2>4. ~(x < p[k])
    BY <1>3, <2>1, <2>2, <2>3, NoEndInField
  <2> QED BY <2>1, <2>3, <2>4
<1> QED BY <1>2, <1>3

(* They are the lines that parseHeaderStruct counts.                       *)
LEMMA HeaderFieldEnds ==
  ASSUME NEW t \in Text, NEW fields \in Seq(Field), NEW p, HeaderLies(t, fields, p)
  PROVE  FieldEnds(t, p[0] + 1) = {p[k] : k \in 1..Len(fields)}
<1> DEFINE n == Len(fields)
           i == p[0] + 1
           last == p[n] + 1
<1>1. n \in Nat /\ p \in [0..n -> Nat] /\ FieldsLie(t, fields, p) /\ Len(t) \in Nat
  BY DEF HeaderLies, FieldsLie, Text
<1>2. /\ p[0] \in Nat /\ p[n] \in Nat /\ p[0] <= p[n] /\ last <= Len(t) /\ t[last] = "crlf"
      /\ t[p[0]] = "crlf" /\ p[0] >= 1
  <2>1. 0 \in 0..n /\ n \in 0..n /\ 0 <= n
    BY <1>1
  <2>2. p[0] \in Nat /\ p[n] \in Nat /\ p[0] <= p[n]
    BY <1>1, <2>1, PositionsGrow
  <2> QED BY <2>2 DEF HeaderLies
<1>3. ASSUME NEW k \in 1..n
      PROVE  p[k] \in Nat /\ p[0] + 2 <= p[k] /\ p[k] <= p[n] /\ p[k - 1] + 2 <= p[k] /\ p[k - 1] \in Nat
  <2>1. k \in 0..n /\ 0 \in 0..n /\ n \in 0..n /\ k - 1 \in 0..n /\ 0 < k /\ k <= n /\ k - 1 < k
        /\ 0 <= k /\ k - 1 <= k
    BY <1>1
  <2>2. p[k] \in Nat /\ p[0] + 2 <= p[k]
    BY <1>1, <2>1, PositionsGrow
  <2>3. p[k] <= p[n]
    BY <1>1, <2>1, PositionsGrow
  <2>4. p[k - 1] + 2 <= p[k] /\ p[k - 1] \in Nat
    BY <1>1, <2>1, PositionsGrow
  <2> QED BY <2>2, <2>3, <2>4
<1>4. last \in BlankLines(t, i)
  <2>1. last \in i..Len(t)
    BY <1>2
  <2>2. last = i \/ t[last - 1] = "crlf"
    <3>1. CASE n = 0
      BY <3>1
    <3>2. CASE n # 0
      <4>1. n \in 1..n
        BY <1>1, <3>2
      <4>2. t[p[n]] = "crlf"
        BY <1>1, <4>1 DEF FieldsLie, FieldLies
      <4>3. last - 1 = p[n]
        BY <1>2
      <4> QED BY <4>2, <4>3
    <3> QED BY <3>1, <3>2
  <2> QED BY <1>2, <2>1, <2>2 DEF BlankLines, LineEnds
<1>5. ASSUME NEW b \in BlankLines(t, i) PROVE b >= last
  <2>1. b \in i..Len(t) /\ t[b] = "crlf" /\ (b = i \/ t[b - 1] = "crlf")
    BY DEF BlankLines, LineEnds
  <2>2. SUFFICES ASSUME b < last PROVE FALSE
    BY <1>2, <2>1
  <2>3. b \in Nat /\ p[0] < b /\ b <= p[n]
    BY <1>2, <2>1, <2>2
  <2>4. PICK k \in 1..n : b = p[k]
    BY <2>1, <2>3, HeaderLineEnds
  <2>5. b - 1 \in Nat /\ p[k - 1] < b - 1 /\ b - 1 < p[k] /\ b # i
    <3>1. p[k] \in Nat /\ p[0] + 2 <= p[k] /\ p[k - 1] + 2 <= p[k] /\ p[k - 1] \in Nat
      BY <1>3
    <3>2. p[0] \in Nat
      BY <1>2
    <3> QED BY <2>4, <3>1, <3>2
  <2>6. /\ fields[k] \in Field /\ OneLine(fields[k])
        /\ FieldLies(t, fields[k], p[k - 1], p[k])
    BY <1>1 DEF HeaderLies, FieldsLie
  <2>7. t[b - 1] # "crlf"
    BY <1>3, <2>5, <2>6, NoEndInField
  <2> QED BY <2>1, <2>5, <2>7
<1> HIDE DEF i, last
<1>6. ASSUME NEW x \in FieldEnds(t, i) PROVE \E k \in 1..n : x = p[k]
  <2>1. x \in i..Len(t) /\ t[x] = "crlf" /\ x < last
    BY <1>4 DEF FieldEnds, LineEnds
  <2>2. x \in Nat /\ p[0] < x /\ x <= p[n]
    BY <1>2, <2>1 DEF i, last
  <2> QED BY <2>1, <2>2, HeaderLineEnds
<1>7. ASSUME NEW k \in 1..n PROVE p[k] \in FieldEnds(t, i)
  <2>1. p[k] \in i..Len(t) /\ p[k] < last
    BY <1>2, <1>3 DEF i, last
  <2>2. t[p[k]] = "crlf"
    BY <1>1 DEF FieldsLie, FieldLies
  <2>3. \A b \in BlankLines(t, i) : p[k] < b
    <3>1. last \in Nat /\ p[k] \in Nat
      BY <1>2, <1>3 DEF last
    <3>2. \A b \in BlankLines(t, i) : b \in Int
      BY <1>2 DEF BlankLines, LineEnds, i
    <3> QED BY <1>5, <2>1, <3>1, <3>2
  <2> QED BY <2>1, <2>2, <2>3 DEF FieldEnds, LineEnds
<1> QED BY <1>6, <1>7 DEF i

(* The line that ends at the end of a field begins behind the field before.*)
LEMMA HeaderLineStart ==
  ASSUME NEW t \in Text, NEW fields \in Seq(Field), NEW p, HeaderLies(t, fields, p),
         NEW k \in 1..Len(fields)
  PROVE  LineStart(t, p[0] + 1, p[k]) = p[k - 1] + 1
<1> DEFINE n == Len(fields)
           i == p[0] + 1
           ds == {d \in LineEnds(t, i) : d < p[k]}
           S == {i} \cup {d + 1 : d \in ds}
           s == p[k - 1] + 1
<1>1. n \in Nat /\ p \in [0..n -> Nat] /\ FieldsLie(t, fields, p) /\ Len(t) \in Nat
      /\ k - 1 \in 0..n /\ k \in 0..n
  BY DEF HeaderLies, FieldsLie, Text
<1>2. /\ p[0] \in Nat /\ p[k] \in Nat /\ p[k - 1] \in Nat /\ p[n] \in Nat
      /\ p[0] <= p[k - 1] /\ p[k - 1] + 2 <= p[k] /\ p[k] <= p[n] /\ p[n] + 1 <= Len(t)
  <2>1. 0 \in 0..n /\ n \in 0..n /\ 0 <= k - 1 /\ k - 1 <= k /\ k - 1 < k /\ k <= n
    BY <1>1
  <2>2. p[0] <= p[k - 1] /\ p[0] \in Nat /\ p[k - 1] \in Nat
    BY <1>1, <2>1, PositionsGrow
  <2>3. p[k - 1] + 2 <= p[k]
    BY <1>1, <2>1, PositionsGrow
  <2>4. p[k] <= p[n] /\ p[k] \in Nat /\ p[n] \in Nat
    BY <1>1, <2>1, PositionsGrow
  <2> QED BY <2>2, <2>3, <2>4 DEF HeaderLies
<1>3. s \in S
  <2>1. CASE k = 1
    BY <2>1
  <2>2. CASE k # 1
    <3>1. k - 1 \in 1..n
      BY <1>1, <2>2
    <3>2. t[p[k - 1]] = "crlf"
      BY <1>1, <3>1 DEF FieldsLie, FieldLies
    <3>3. p[0] + 2 <= p[k - 1]
      <4>1. 0 \in 0..n /\ 0 < k - 1 /\ 0 <= k - 1
        BY <1>1, <2>2
      <4> QED BY <1>1, <4>1, PositionsGrow
    <3>4. p[k - 1] \in LineEnds(t, i) /\ p[k - 1] < p[k]
      BY <1>1, <1>2, <3>2, <3>3 DEF LineEnds
    <3> QED BY <3>4
  <2> QED BY <2>1, <2>2
<1>4. ASSUME NEW x \in S PROVE x <= s
  <2>1. CASE x = i
    BY <1>2, <2>1
  <2>2. ASSUME NEW d \in ds, x = d + 1 PROVE x <= s
    <3>1. d \in i..Len(t) /\ t[d] = "crlf" /\ d < p[k]
      BY DEF LineEnds
    <3>2. d \in Nat /\ p[0] < d /\ d <= p[n]
      BY <1>1, <1>2, <3>1
    <3>3. PICK j \in 1..n : d = p[j]
      BY <3>1, <3>2, HeaderLineEnds
    <3>4. j <= k - 1
      <4>1. SUFFICES ASSUME k <= j PROVE FALSE
        BY <1>1
      <4>2. j \in 0..n
        BY <1>1
      <4>3. p[k] <= p[j]
        BY <1>1, <4>1, <4>2, PositionsGrow
      <4> QED BY <1>2, <3>1, <3>2, <3>3, <4>3
    <3>5. p[j] <= p[k - 1]
      <4>1. j \in 0..n
        BY <1>1
      <4> QED BY <1>1, <3>4, <4>1, PositionsGrow
    <3> QED BY <1>2, <2>2, <3>2, <3>3, <3>5
  <2> QED BY <2>1, <2>2
<1>5. S \in SUBSET (1..Len(t)) /\ S # {}
  <2>1. \A x \in S : x \in Nat /\ x >= 1
    <3>1. \A d \in ds : d \in i..Len(t)
      BY DEF LineEnds
    <3> QED BY <1>2, <3>1
  <2>2. s <= Len(t)
    BY <1>2
  <2> HIDE DEF S
  <2>3. ASSUME NEW x \in S PROVE x \in 1..Len(t)
    <3>1. x <= s /\ x \in Nat /\ x >= 1 /\ s \in Nat
      BY <1>2, <1>4, <2>1
    <3> HIDE DEF s
    <3> QED BY <1>1, <2>2, <3>1
  <2> QED BY <1>3, <2>3
<1>6. LineStart(t, i, p[k]) = Highest(S)
  BY DEF LineStart
<1> HIDE DEF S
<1>7. Highest(S) \in S /\ \A x \in S : x <= Highest(S)
  BY <1>1, <1>5, HighestIs
<1>8. Highest(S) \in Nat /\ Highest(S) <= s /\ s <= Highest(S) /\ s \in Nat
  <2>1. s \in Nat
    BY <1>2
  <2> DEFINE high == Highest(S)
  <2>2. high \in S /\ s <= high
    BY <1>3, <1>7
  <2> HIDE DEF high
  <2>3. high <= s
    BY <1>4, <2>2
  <2>4. high \in Nat
    BY <1>5, <2>2
  <2> QED BY <2>1, <2>2, <2>3, <2>4 DEF high
<1>9. Highest(S) = s
  <2> HIDE DEF s
  <2> QED BY <1>8
<1> QED BY <1>6, <1>9

(* parseHeaderField finds the field that was printed.                      *)
LEMMA FieldAtLies ==
  ASSUME NEW t \in Text, NEW f \in Field, WellFormedField(f), NEW a \in Nat, NEW b \in Nat,
         FieldLies(t, f, a, b), b + 1 <= Len(t)
  PROVE  GoodField(t, a + 1, b) /\ FieldAt(t, a + 1, b) = f
<1> DEFINE n == Len(f.name)
           v == Len(f.value)
           c == a + n + 1
<1>1. /\ n \in Nat /\ v \in Nat /\ Len(f.name) = n /\ Len(f.value) = v
      /\ f.name \in Text /\ f.value \in Text /\ Len(t) \in Nat
      /\ DOMAIN f.name = 1..n /\ DOMAIN f.value = 1..v
  BY DEF Field, Text
<1>2. b = a + n + v + 2 /\ t[c] = ":" /\ t[b] = "crlf"
  BY DEF FieldLies
<1>3. \A j \in 1..n : t[a + j] = f.name[j] /\ f.name[j] \in Letters
  BY <1>1 DEF FieldLies, WellFormedField, WordsOnly
<1>4. \A j \in 1..v : t[c + j] = f.value[j]
  BY <1>1 DEF FieldLies
<1> HIDE DEF n, v
<1>5. Skip(t, a + 1, Letters) = c
  <2>1. a + 1 \in 1..(Len(t) + 1) /\ c \in (a + 1)..(Len(t) + 1) /\ c \in 1..Len(t)
    BY <1>1, <1>2
  <2>2. ASSUME NEW j \in (a + 1)..(c - 1) PROVE At(t, j) \in Letters
    <3>1. j - a \in 1..n /\ a + (j - a) = j /\ j \in 1..Len(t)
      BY <1>1, <1>2
    <3> QED BY <1>3, <3>1 DEF At
  <2>3. At(t, c) \notin Letters
    BY <1>2, <2>1, CrlfIsNoLetter DEF At
  <2> HIDE DEF c
  <2> QED BY <2>1, <2>2, <2>3, SkipEquals
<1>6. Skip(t, c + 1, {"sp"}) = c + 1
  <2>1. c + 1 \in 1..(Len(t) + 1) /\ c + 1 \in (c + 1)..(Len(t) + 1) /\ c + 1 \in 1..Len(t)
    BY <1>1, <1>2
  <2>2. t[c + 1] # "sp"
    <3>1. CASE v = 0
      <4>1. c + 1 = b
        BY <1>1, <1>2, <3>1
      <4> QED BY <1>2, <4>1
    <3>2. CASE v # 0
      <4>1. 1 \in 1..v
        BY <1>1, <3>2
      <4>2. At(f.value, 1) = f.value[1] /\ t[c + 1] = f.value[1]
        BY <1>1, <1>4, <4>1 DEF At
      <4> QED BY <4>2 DEF WellFormedField
    <3> QED BY <3>1, <3>2
  <2>3. At(t, c + 1) \notin {"sp"}
    BY <2>1, <2>2 DEF At
  <2>4. \A j \in (c + 1)..((c + 1) - 1) : At(t, j) \in {"sp"}
    BY <1>1
  <2> HIDE DEF c
  <2> DEFINE c1 == c + 1
  <2>5. c1 \in 1..(Len(t) + 1) /\ c1 \in c1..(Len(t) + 1) /\ At(t, c1) \notin {"sp"}
        /\ \A j \in c1..(c1 - 1) : At(t, j) \in {"sp"}
    BY <2>1, <2>3, <2>4
  <2> HIDE DEF c1
  <2>6. Skip(t, c1, {"sp"}) = c1
    BY <2>5, SkipEquals
  <2> QED BY <2>6 DEF c1
<1>7. SubSeq(t, a + 1, c - 1) = f.name
  <2>1. a + Len(f.name) <= Len(t) /\ \A j \in 1..Len(f.name) : t[a + j] = f.name[j]
    BY <1>1, <1>2, <1>3
  <2>2. SubSeq(t, a + 1, a + Len(f.name)) = f.name
    BY <1>1, <2>1, PartIs
  <2>3. c - 1 = a + Len(f.name)
    BY <1>1
  <2> QED BY <2>2, <2>3
<1>8. SubSeq(t, c + 1, b - 1) = f.value
  <2>1. c \in Nat /\ c + Len(f.value) <= Len(t) /\ \A j \in 1..Len(f.value) : t[c + j] = f.value[j]
    BY <1>1, <1>2, <1>4
  <2>2. b - 1 = c + Len(f.value)
    BY <1>1, <1>2
  <2> HIDE DEF c
  <2>3. SubSeq(t, c + 1, c + Len(f.value)) = f.value
    BY <1>1, <2>1, PartIs
  <2> QED BY <2>2, <2>3
<1>9. GoodField(t, a + 1, b)
  <2>1. c \in 1..Len(t) /\ b < Len(t)
    BY <1>1, <1>2
  <2>2. At(t, c) = ":"
    BY <1>2, <2>1 DEF At
  <2> HIDE DEF c
  <2> QED BY <1>5, <2>1, <2>2 DEF GoodField
<1> HIDE DEF c
<1>10. FieldAt(t, a + 1, b) = [name |-> f.name, value |-> f.value]
  BY <1>5, <1>6, <1>7, <1>8 DEF FieldAt
<1>11. f = [name |-> f.name, value |-> f.value]
  BY DEF Field
<1> QED BY <1>9, <1>10, <1>11

(* The order and the bounds of the positions of a header.                  *)
LEMMA HeaderPositions ==
  ASSUME NEW t \in Text, NEW fields \in Seq(Field), NEW p, HeaderLies(t, fields, p)
  PROVE  /\ \A j \in 0..Len(fields) : p[j] \in Nat
         /\ \A j \in 1..Len(fields), k \in 1..Len(fields) : j < k => p[j] < p[k]
         /\ \A k \in 1..Len(fields) : p[k] + 1 <= Len(t)
         /\ Len(fields) \in Nat
<1> DEFINE n == Len(fields)
<1>1. n \in Nat /\ p \in [0..n -> Nat] /\ FieldsLie(t, fields, p) /\ Len(t) \in Nat
      /\ p[n] + 1 <= Len(t)
  BY DEF HeaderLies, FieldsLie, Text
<1>2. ASSUME NEW j \in 1..n, NEW k \in 1..n, j < k PROVE p[j] < p[k]
  <2>1. j \in 0..n /\ k \in 0..n /\ j <= k
    BY <1>2
  <2>2. p[j] \in Nat /\ p[k] \in Nat /\ p[j] + 2 <= p[k]
    BY <1>1, <1>2, <2>1, PositionsGrow
  <2> QED BY <2>2
<1>3. ASSUME NEW k \in 1..n PROVE p[k] + 1 <= Len(t)
  <2>1. k \in 0..n /\ n \in 0..n /\ k <= n
    BY <1>1
  <2>2. p[k] \in Nat /\ p[n] \in Nat /\ p[k] <= p[n]
    BY <1>1, <2>1, PositionsGrow
  <2> QED BY <1>1, <2>2
<1> QED BY <1>1, <1>2, <1>3

(* parseHeaderStruct takes the fields that lie there.                      *)
LEMMA HeaderFieldsLie ==
  ASSUME NEW t \in Text, NEW fields \in Seq(Field), NEW p, HeaderLies(t, fields, p),
         \A k \in 1..Len(fields) : WellFormedField(fields[k])
  PROVE  ParseHeaderStruct(t, p[0] + 1) =
           [outcome |-> "ok", head |-> StructHead(fields), next |-> p[Len(fields)] + 1]
<1> DEFINE n == Len(fields)
           i == p[0] + 1
           ends == FieldEnds(t, i)
           next == IF ends = {} THEN i ELSE Highest(ends) + 1
           item(k) == FieldAt(t, LineStart(t, i, Nth(ends, k)), Nth(ends, k))
           items == [k \in 1..Cardinality(ends) |-> item(k)]
<1>1. /\ n \in Nat /\ \A j \in 0..n : p[j] \in Nat
      /\ \A j \in 1..n, k \in 1..n : j < k => p[j] < p[k]
      /\ \A k \in 1..n : p[k] + 1 <= Len(t)
  BY HeaderPositions
<1>2. /\ FieldsLie(t, fields, p) /\ Len(t) \in Nat /\ p[0] \in Nat /\ p[n] \in Nat
      /\ p[n] + 1 <= Len(t) /\ t[p[n] + 1] = "crlf"
      /\ \A k \in 1..n : fields[k] \in Field /\ WellFormedField(fields[k])
  <2>1. 0 \in 0..n /\ n \in 0..n
    BY <1>1
  <2> QED BY <1>1, <2>1 DEF HeaderLies, Text
<1>3. ends = {p[k] : k \in 1..n}
  BY HeaderFieldEnds
<1>4. \A j \in 1..n : p[j] \in Nat
  BY <1>1
<1>5. Cardinality(ends) = n
  <2>1. Cardinality({p[k] : k \in 1..n}) = n
    BY <1>1, <1>4, RisingCardinality
  <2> QED BY <1>3, <2>1
<1>6. ASSUME NEW k \in 1..n PROVE Nth(ends, k) = p[k]
  <2>1. Nth({p[j] : j \in 1..n}, k) = p[k]
    BY <1>1, <1>4, NthOfRising
  <2> QED BY <1>3, <2>1
<1>7. ASSUME NEW k \in 1..n PROVE LineStart(t, i, p[k]) = p[k - 1] + 1
  BY HeaderLineStart
<1>8. ASSUME NEW k \in 1..n
      PROVE  GoodField(t, p[k - 1] + 1, p[k]) /\ FieldAt(t, p[k - 1] + 1, p[k]) = fields[k]
  <2>1. /\ FieldLies(t, fields[k], p[k - 1], p[k])
        /\ p[k - 1] \in Nat /\ p[k] \in Nat /\ p[k] + 1 <= Len(t)
    <3>1. k - 1 \in 0..n /\ k \in 0..n
      BY <1>1
    <3> QED BY <1>1, <1>2, <3>1 DEF FieldsLie
  <2> QED BY <1>2, <2>1, FieldAtLies
<1>9. next = p[n] + 1
  <2>1. CASE n = 0
    <3>1. ends = {}
      BY <1>3, <2>1
    <3> HIDE DEF ends
    <3> QED BY <2>1, <3>1
  <2>2. CASE n # 0
    <3>1. Highest({p[j] : j \in 1..n}) = p[n]
      BY <1>1, <1>4, <2>2, HighestOfRising
    <3>2. n \in 1..n
      BY <1>1, <2>2
    <3>3. ends # {}
      BY <1>3, <3>2
    <3>4. Highest(ends) = p[n]
      BY <1>3, <3>1
    <3> HIDE DEF ends
    <3> QED BY <3>3, <3>4
  <2> QED BY <2>1, <2>2
<1>10. At(t, next) = "crlf"
  <2>1. p[n] + 1 \in 1..Len(t)
    BY <1>2
  <2> HIDE DEF n, next
  <2> QED BY <1>2, <1>9, <2>1 DEF At
<1>11. ASSUME NEW e \in ends PROVE GoodField(t, LineStart(t, i, e), e)
  <2>1. PICK k \in 1..n : e = p[k]
    BY <1>3
  <2> QED BY <1>7, <1>8, <2>1
<1>12. items = fields
  <2>1. ASSUME NEW k \in 1..n PROVE item(k) = fields[k]
    BY <1>6, <1>7, <1>8
  <2>2. items = [k \in 1..n |-> fields[k]]
    BY <1>5, <2>1
  <2>3. fields = [k \in 1..n |-> fields[k]]
    OBVIOUS
  <2> QED BY <2>2, <2>3
<1>13. HeaderFields(t, i) =
         IF At(t, next) = "crlf" /\ \A e \in ends : GoodField(t, LineStart(t, i, e), e)
           THEN [outcome |-> "ok", head |-> StructHead(items), next |-> next]
           ELSE Failed
  BY DEF HeaderFields
<1>14. ~(i > Len(t))
  <2>1. p[0] <= p[n]
    <3>1. 0 \in 0..n /\ n \in 0..n /\ 0 <= n
      BY <1>1
    <3> QED BY <1>2, <3>1, PositionsGrow
  <2> QED BY <1>2, <2>1
<1> HIDE DEF i, ends, next, items
<1>15. HeaderFields(t, i) = [outcome |-> "ok", head |-> StructHead(fields), next |-> p[n] + 1]
  BY <1>9, <1>10, <1>11, <1>12, <1>13
<1> QED BY <1>14, <1>15 DEF ParseHeaderStruct, i

-----------------------------------------------------------------------------
(* The whole message is parsed as it was printed                           *)

(* The parts of a message in its text: a line, the fields, a line end and  *)
(* the body.                                                               *)
Lies(t, line, h, body) ==
  /\ Len(t) = Len(line) + Len(h) + 1 + Len(body)
  /\ \A j \in 1..Len(line) : t[j] = line[j]
  /\ \A j \in 1..Len(h) : t[Len(line) + j] = h[j]
  /\ t[Len(line) + Len(h) + 1] = "crlf"
  /\ \A j \in 1..Len(body) : t[Len(line) + Len(h) + 1 + j] = body[j]

(* A first line, a header and a body lie in the text that joins them.      *)
LEMMA JoinedLies ==
  ASSUME NEW line \in Text, NEW h \in Text, NEW body \in Text
  PROVE  LET t == (line \o h) \o (<<"crlf">> \o body)
         IN  t \in Text /\ Lies(t, line, h, body)
<1> DEFINE l == Len(line)
           n == Len(h)
           b == Len(body)
           end == <<"crlf">>
           x == line \o h
           y == end \o body
           t == x \o y
<1>1. end \in Text /\ Len(end) = 1 /\ end[1] = "crlf"
  BY UnitsAreTexts
<1> HIDE DEF end
<1>2. /\ x \in Text /\ l \in Nat /\ n \in Nat /\ Len(x) = l + n
      /\ \A i \in 1..l : x[i] = line[i]
      /\ \A i \in 1..n : x[l + i] = h[i]
  BY Joined
<1>3. /\ y \in Text /\ b \in Nat /\ Len(y) = 1 + b /\ y[1] = "crlf"
      /\ \A i \in 1..b : y[1 + i] = body[i]
  <2>1. /\ y \in Text /\ b \in Nat /\ Len(y) = Len(end) + b
        /\ \A i \in 1..Len(end) : y[i] = end[i]
        /\ \A i \in 1..b : y[Len(end) + i] = body[i]
    BY <1>1, Joined
  <2> QED BY <1>1, <2>1
<1> HIDE DEF x, y
<1>4. /\ t \in Text /\ Len(t) = Len(x) + Len(y)
      /\ \A i \in 1..Len(x) : t[i] = x[i]
      /\ \A i \in 1..Len(y) : t[Len(x) + i] = y[i]
  BY <1>2, <1>3, Joined
<1> HIDE DEF l, n, b, t
<1>5. ASSUME NEW j \in 1..l PROVE t[j] = line[j]
  <2>1. j \in 1..Len(x)
    BY <1>2
  <2> QED BY <1>2, <1>4, <2>1
<1>6. ASSUME NEW j \in 1..n PROVE t[l + j] = h[j]
  <2>1. l + j \in 1..Len(x)
    BY <1>2
  <2> QED BY <1>2, <1>4, <2>1
<1>7. t[l + n + 1] = "crlf"
  <2>1. 1 \in 1..Len(y) /\ Len(x) + 1 = l + n + 1
    BY <1>2, <1>3
  <2> QED BY <1>3, <1>4, <2>1
<1>8. ASSUME NEW j \in 1..b PROVE t[l + n + 1 + j] = body[j]
  <2>1. 1 + j \in 1..Len(y) /\ Len(x) + (1 + j) = l + n + 1 + j
    BY <1>2, <1>3
  <2> QED BY <1>3, <1>4, <2>1
<1>9. Len(t) = l + n + 1 + b
  BY <1>2, <1>3, <1>4
<1>10. t \in Text /\ Lies(t, line, h, body)
  BY <1>4, <1>5, <1>6, <1>7, <1>8, <1>9 DEF Lies, l, n, b
<1> QED BY <1>10 DEF t, x, y, end

(* The fields lie behind the first line.                                   *)
LEMMA HeaderIsThere ==
  ASSUME NEW t \in Text, NEW line \in Text, NEW body \in Text, NEW fields \in Seq(Field),
         Lies(t, line, FlattenSeq(FieldPieces(fields)), body),
         Len(line) >= 1, line[Len(line)] = "crlf",
         \A k \in 1..Len(fields) : OneLine(fields[k])
  PROVE  \E p : /\ HeaderLies(t, fields, p) /\ p[0] = Len(line)
                /\ p[Len(fields)] = Len(line) + Len(FlattenSeq(FieldPieces(fields)))
<1> DEFINE n == Len(fields)
           l == Len(line)
           h == FlattenSeq(FieldPieces(fields))
           b == Len(body)
<1>1. h \in Text /\ \E r : FieldsLie(h, fields, r) /\ r[0] = 0 /\ r[n] = Len(h)
  BY PrintedFieldsLie
<1>2. PICK r : FieldsLie(h, fields, r) /\ r[0] = 0 /\ r[n] = Len(h)
  BY <1>1
<1>3. /\ n \in Nat /\ l \in Nat /\ Len(h) \in Nat /\ b \in Nat /\ r \in [0..n -> Nat]
      /\ Lies(t, line, h, body) /\ l >= 1 /\ line[l] = "crlf"
  BY <1>1, <1>2 DEF FieldsLie, Text
<1> HIDE DEF h, l, b
<1> DEFINE q == [k \in 0..n |-> l + r[k]]
<1>4. /\ \A j \in 1..l : t[j] = line[j]
      /\ \A j \in 1..Len(h) : t[l + j] = h[j]
      /\ t[l + Len(h) + 1] = "crlf" /\ Len(t) = l + Len(h) + 1 + b
  BY <1>3 DEF Lies, l, b
<1>5. q \in [0..n -> Nat]
  BY <1>3
<1>6. ASSUME NEW k \in 1..n PROVE FieldLies(t, fields[k], q[k - 1], q[k])
  <2> DEFINE f == fields[k]
             u == r[k - 1]
             w == r[k]
  <2>1. k - 1 \in 0..n /\ k \in 0..n /\ n \in 0..n /\ k <= n
    BY <1>3
  <2>2. f \in Field /\ u \in Nat /\ w \in Nat /\ FieldLies(h, f, u, w)
    <3>1. FieldLies(h, fields[k], r[k - 1], r[k])
      BY <1>2 DEF FieldsLie
    <3>2. f \in Field /\ u \in Nat /\ w \in Nat
      BY <1>3, <2>1, SMTT(30)
    <3> QED BY <3>1, <3>2
  <2>3. w <= Len(h)
    BY <1>2, <2>1, PositionsGrow
  <2>4. q[k - 1] = l + u /\ q[k] = l + w
    BY <2>1
  <2>5. \A j \in 1..w : t[l + j] = h[j]
    BY <1>3, <1>4, <2>2, <2>3
  <2> HIDE DEF f, u, w, q
  <2>6. FieldLies(t, f, l + u, l + w)
    BY <1>3, <2>2, <2>5, FieldMoves
  <2> QED BY <2>4, <2>6 DEF f
<1>7. FieldsLie(t, fields, q)
  BY <1>5, <1>6 DEF FieldsLie
<1>8. q[0] = l /\ q[n] = l + Len(h)
  <2>1. 0 \in 0..n /\ n \in 0..n
    BY <1>3
  <2> QED BY <1>2, <1>3, <2>1
<1> HIDE DEF q
<1>9. q[0] >= 1 /\ t[q[0]] = "crlf"
  <2>1. l \in 1..l
    BY <1>3
  <2> QED BY <1>3, <1>4, <1>8, <2>1
<1>10. q[n] + 1 <= Len(t) /\ t[q[n] + 1] = "crlf"
  BY <1>3, <1>4, <1>8
<1>11. HeaderLies(t, fields, q)
  BY <1>7, <1>9, <1>10 DEF HeaderLies
<1> QED BY <1>8, <1>11 DEF l, h

(* A message of which the first line is known, with the rest.              *)
Whole(m, fields, body) == [m EXCEPT !.head = StructHead(fields), !.body = body]

(* What is parsed after the first line is what was printed there.          *)
LEMMA RestInverts ==
  ASSUME NEW t \in Text, NEW line \in Text, NEW body \in Text, NEW fields \in Seq(Field),
         Lies(t, line, FlattenSeq(FieldPieces(fields)), body),
         Len(line) >= 1, line[Len(line)] = "crlf",
         \A k \in 1..Len(fields) : WellFormedField(fields[k])
  PROVE  \A m : ParseRest(t, Len(line) + 1, TRUE, m) =
                  [outcome |-> "ok", msg |-> Whole(m, fields, body)]
<1> TAKE m
<1> DEFINE n == Len(fields)
           h == FlattenSeq(FieldPieces(fields))
           d == Len(line) + Len(h) + 1
<1>0. ASSUME NEW k \in 1..n PROVE OneLine(fields[k])
  <2>1. fields[k] \in Field /\ WellFormedField(fields[k])
    OBVIOUS
  <2> QED BY <2>1, WellFormedIsOneLine
<1>1. PICK p : /\ HeaderLies(t, fields, p) /\ p[0] = Len(line)
               /\ p[n] = Len(line) + Len(h)
  BY <1>0, HeaderIsThere
<1>2. ParseHeaderStruct(t, p[0] + 1) =
        [outcome |-> "ok", head |-> StructHead(fields), next |-> p[n] + 1]
  BY <1>1, HeaderFieldsLie
<1>3. ParseHeaderStruct(t, Len(line) + 1) =
        [outcome |-> "ok", head |-> StructHead(fields), next |-> d]
  BY <1>1, <1>2
<1>4. h \in Text
  BY PrintedFieldsLie
<1> HIDE DEF h
<1>5. d \in Nat /\ Len(t) = d + Len(body) /\ \A j \in 1..Len(body) : t[d + j] = body[j]
  <2>1. Len(line) \in Nat /\ Len(h) \in Nat /\ Len(body) \in Nat
    BY <1>4 DEF Text
  <2>2. Lies(t, line, h, body)
    BY DEF h
  <2>3. /\ Len(t) = Len(line) + Len(h) + 1 + Len(body)
        /\ \A j \in 1..Len(body) : t[Len(line) + Len(h) + 1 + j] = body[j]
    BY <2>2 DEF Lies
  <2> QED BY <2>1, <2>3 DEF d
<1> HIDE DEF d
<1>6. SubSeq(t, d + 1, d + Len(body)) = body
  <2>1. Len(t) \in Nat
    BY DEF Text
  <2>2. d + Len(body) <= Len(t)
    BY <1>5, <2>1
  <2> QED BY <1>5, <2>2, PartIs
<1> DEFINE r == IF TRUE THEN ParseHeaderStruct(t, Len(line) + 1)
                        ELSE ParseHeaderString(t, Len(line) + 1)
           whole(a, b) == [m EXCEPT !.head = a, !.body = b]
<1>7. ParseRest(t, Len(line) + 1, TRUE, m) =
        IF r.outcome # "ok" THEN r
        ELSE [outcome |-> "ok", msg |-> whole(r.head, SubSeq(t, r.next + 1, Len(t)))]
  BY DEF ParseRest
<1>8. r.outcome = "ok" /\ r.head = StructHead(fields) /\ r.next = d
  BY <1>3
<1> HIDE DEF r
<1>9. SubSeq(t, r.next + 1, Len(t)) = body
  BY <1>5, <1>6, <1>8
<1> HIDE DEF whole
<1>10. ParseRest(t, Len(line) + 1, TRUE, m) =
         [outcome |-> "ok", msg |-> whole(StructHead(fields), body)]
  BY <1>7, <1>8, <1>9
<1> QED BY <1>10 DEF whole, Whole

(* A message with a struct lies in its text.                               *)
LEMMA WholeIs ==
  ASSUME NEW m \in Message, m.head = StructHead(m.head.fields), NEW r \in Message,
         r.kind = m.kind, r.method = m.method, r.url = m.url, r.code = m.code,
         r.msg = m.msg, r.version = m.version
  PROVE  Whole(r, m.head.fields, m.body) = m
BY DEF Whole, Message

(* So do those of a message in its printed text.                           *)
LEMMA PrintedLies ==
  ASSUME NEW m \in Message, m.head.type = "struct"
  PROVE  /\ Printed(m) \in Text
         /\ FlattenSeq(LinePieces(m)) \in Text
         /\ Lies(Printed(m), FlattenSeq(LinePieces(m)),
                 FlattenSeq(FieldPieces(m.head.fields)), m.body)
<1> DEFINE line == LinePieces(m)
           fields == m.head.fields
           h == FieldPieces(fields)
           tail == IF m.body = <<>> THEN <<<<"crlf">>>> ELSE <<<<"crlf">>, m.body>>
           end == <<"crlf">>
<1>1. /\ m.head.type = "struct" /\ fields \in Seq(Field) /\ m.body \in Text
      /\ end \in Text
  BY UnitsAreTexts DEF Message, Header
<1>2. Pieces(m) = line \o h \o tail
  BY <1>1 DEF Pieces, HeadPieces, Printable
<1>3. line \in Seq(Text) /\ h \in Seq(Text)
  BY <1>1, LineIsTexts, FieldPiecesAreTexts
<1>4. tail \in Seq(Text) /\ FlattenSeq(tail) = end \o m.body
  <2> DEFINE b == m.body
  <2>0. b \in Seq(Units) /\ end \in Seq(Units) /\ b \in Text
    BY <1>1 DEF Text
  <2>1. CASE b = <<>>
    <3>1. tail = <<end>>
      BY <2>1
    <3> HIDE DEF end, tail
    <3>2. FlattenSeq(<<end>>) = end
      BY <2>0, FlattenOne
    <3>3. end \o b = end
      BY <2>0, <2>1, ConcatEmptySeq
    <3>4. <<end>> \in Seq(Text)
      BY <1>1, Tuples
    <3> QED BY <3>1, <3>2, <3>3, <3>4
  <2>2. CASE b # <<>>
    <3>1. tail = <<end, b>>
      BY <2>2
    <3> HIDE DEF end, tail, b
    <3>2. FlattenSeq(<<end, b>>) = end \o b
      BY <2>0, FlattenTwo
    <3>3. <<end, b>> \in Seq(Text)
      BY <1>1, <2>0, Tuples
    <3> QED BY <3>1, <3>2, <3>3 DEF b
  <2> QED BY <2>1, <2>2
<1> DEFINE L == FlattenSeq(line)
           H == FlattenSeq(h)
<1>5. L \in Text /\ H \in Text
  BY <1>3, FlattenType DEF Text
<1> HIDE DEF line, h, tail, end
<1>6. FlattenSeq(line \o h \o tail) = (L \o H) \o (end \o m.body)
  <2>1. line \o h \in Seq(Text)
    BY <1>3, ConcatProperties
  <2>2. FlattenSeq((line \o h) \o tail) = FlattenSeq(line \o h) \o FlattenSeq(tail)
    BY <1>4, <2>1, FlattenConcat DEF Text
  <2>3. FlattenSeq(line \o h) = L \o H
    BY <1>3, FlattenConcat DEF Text
  <2> QED BY <1>4, <2>2, <2>3
<1> HIDE DEF L, H
<1>7. Printed(m) = (L \o H) \o (end \o m.body)
  BY <1>2, <1>6 DEF Printed
<1>8. Printed(m) \in Text /\ Lies(Printed(m), L, H, m.body)
  BY <1>1, <1>5, <1>7, JoinedLies DEF end
<1> QED BY <1>5, <1>8 DEF L, H, line, h

(* The first line of a request.                                            *)
LEMMA RequestLine ==
  ASSUME NEW m \in Message, m.kind = "request"
  PROVE  LET line == FlattenSeq(LinePieces(m))
             n == Len(m.url)
         IN  /\ Len(line) = n + 5
             /\ line[1] = m.method /\ line[2] = "sp"
             /\ \A j \in 1..n : line[2 + j] = m.url[j]
             /\ line[n + 3] = "sp" /\ line[n + 4] = VersionUnit(m.version)
             /\ line[n + 5] = "crlf"
<1> DEFINE a == <<m.method>>
           s == <<"sp">>
           u == m.url
           v == <<VersionUnit(m.version)>>
           e == <<"crlf">>
           n == Len(u)
           line == FlattenSeq(LinePieces(m))
<1>1. /\ a \in Text /\ s \in Text /\ v \in Text /\ e \in Text /\ u \in Text
  BY UnitsAreTexts DEF Message
<1>2. LinePieces(m) = <<a, s, u, s, v, e>>
  BY DEF LinePieces
<1>3. /\ a \o s \in Text /\ Len(a \o s) = 2 /\ (a \o s)[1] = m.method /\ (a \o s)[2] = "sp"
  BY <1>1, TwoUnits
<1>4. /\ v \o e \in Text /\ Len(v \o e) = 2 /\ (v \o e)[1] = VersionUnit(m.version)
      /\ (v \o e)[2] = "crlf"
  BY <1>1, TwoUnits
<1>5. /\ u \o s \in Text /\ n \in Nat /\ Len(u \o s) = n + 1
      /\ \A i \in 1..n : (u \o s)[i] = u[i]
      /\ (u \o s)[n + 1] = "sp"
  BY <1>1, JoinedUnit
<1> HIDE DEF a, s, v, e, u
<1>6. line = (a \o s) \o ((u \o s) \o (v \o e))
  <2>1. a \in Seq(Units) /\ s \in Seq(Units) /\ u \in Seq(Units) /\ v \in Seq(Units)
        /\ e \in Seq(Units)
    BY <1>1 DEF Text
  <2> DEFINE six == <<a, s, u, s, v, e>>
             S == Seq(Units)
  <2>2. six \in Seq(S) /\ Len(six) = 6
    <3> HIDE DEF S
    <3>1. a \in S /\ s \in S /\ u \in S /\ v \in S /\ e \in S
      BY <2>1 DEF S
    <3> QED BY <3>1
  <2>3. /\ six[1] = a /\ six[2] = s /\ six[3] = u /\ six[4] = s /\ six[5] = v /\ six[6] = e
        /\ line = FlattenSeq(six)
    BY <1>2
  <2> HIDE DEF six
  <2>4. FlattenSeq(six) = (six[1] \o six[2]) \o ((six[3] \o six[4]) \o (six[5] \o six[6]))
    BY <2>2, FlattenSix
  <2> QED BY <2>3, <2>4
<1> DEFINE x == a \o s
           y == u \o s
           z == v \o e
           w == y \o z
<1> HIDE DEF x, y, z, w, n, line
<1>7. /\ w \in Text /\ Len(w) = n + 3
      /\ \A i \in 1..(n + 1) : w[i] = y[i]
      /\ \A i \in 1..2 : w[n + 1 + i] = z[i]
  <2>1. /\ w \in Text /\ Len(w) = Len(y) + Len(z)
        /\ \A i \in 1..Len(y) : w[i] = y[i]
        /\ \A i \in 1..Len(z) : w[Len(y) + i] = z[i]
    BY <1>4, <1>5, Joined DEF w, y, z
  <2> QED BY <1>4, <1>5, <2>1 DEF y, z
<1>8. /\ Len(line) = n + 5
      /\ \A i \in 1..2 : line[i] = x[i]
      /\ \A i \in 1..(n + 3) : line[2 + i] = w[i]
  <2>1. line = x \o w
    BY <1>6 DEF x, y, z, w
  <2>2. /\ Len(x \o w) = Len(x) + Len(w)
        /\ \A i \in 1..Len(x) : (x \o w)[i] = x[i]
        /\ \A i \in 1..Len(w) : (x \o w)[Len(x) + i] = w[i]
    BY <1>3, <1>7, Joined DEF x
  <2>3. Len(x) = 2 /\ n \in Nat
    BY <1>3, <1>5 DEF x
  <2> QED BY <1>7, <2>1, <2>2, <2>3
<1>9. line[1] = m.method /\ line[2] = "sp"
  BY <1>3, <1>8 DEF x
<1>10. ASSUME NEW j \in 1..n PROVE line[2 + j] = u[j]
  <2>1. j \in 1..(n + 3) /\ j \in 1..(n + 1)
    BY <1>5
  <2> QED BY <1>5, <1>7, <1>8, <2>1 DEF y
<1>11. line[n + 3] = "sp"
  <2>1. n + 1 \in 1..(n + 3) /\ n + 1 \in 1..(n + 1) /\ 2 + (n + 1) = n + 3
    BY <1>5
  <2>2. line[2 + (n + 1)] = w[n + 1] /\ w[n + 1] = y[n + 1]
    BY <1>7, <1>8, <2>1
  <2> QED BY <1>5, <2>1, <2>2 DEF y
<1>12. line[n + 4] = VersionUnit(m.version) /\ line[n + 5] = "crlf"
  <2>1. /\ n + 2 \in 1..(n + 3) /\ n + 3 \in 1..(n + 3) /\ 2 + (n + 2) = n + 4
        /\ 2 + (n + 3) = n + 5 /\ n + 1 + 1 = n + 2 /\ n + 1 + 2 = n + 3
    BY <1>5
  <2>2. line[2 + (n + 2)] = w[n + 2] /\ line[2 + (n + 3)] = w[n + 3]
    BY <1>8, <2>1
  <2>3. w[n + 1 + 1] = z[1] /\ w[n + 1 + 2] = z[2]
    BY <1>7
  <2> QED BY <1>4, <2>1, <2>2, <2>3 DEF z
<1> QED BY <1>8, <1>9, <1>10, <1>11, <1>12 DEF line, n, u

(* A request that is well formed is parsed as it was printed.              *)
LEMMA RequestInverts ==
  ASSUME NEW m \in Message, WellFormed(m), m.kind = "request"
  PROVE  ParseRequest(Printed(m), TRUE) = [outcome |-> "ok", msg |-> m]
<1> DEFINE t == Printed(m)
           line == FlattenSeq(LinePieces(m))
           fields == m.head.fields
           h == FlattenSeq(FieldPieces(fields))
           n == Len(m.url)
           v == VersionUnit(m.version)
<1>1. /\ m.head = StructHead(fields) /\ m.url # <<>> /\ Without(m.url, "sp")
      /\ m.code = 0 /\ m.msg = <<>>
      /\ \A i \in DOMAIN fields : WellFormedField(fields[i])
  BY DEF WellFormed
<1>2. /\ m.method \in Methods /\ m.url \in Text /\ m.version \in {9, 10, 11}
      /\ m.head \in Header /\ m.body \in Text
  BY DEF Message
<1>3. fields \in Seq(Field) /\ DOMAIN fields = 1..Len(fields)
  BY <1>2 DEF Header
<1>4. n \in Nat /\ n >= 1 /\ DOMAIN m.url = 1..n /\ m.url \in Seq(Units)
  BY <1>1, <1>2 DEF Text
<1>5. t \in Text /\ line \in Text /\ Lies(t, line, h, m.body)
  <2>1. m.head.type = "struct"
    BY <1>1 DEF StructHead
  <2> QED BY <2>1, PrintedLies
<1>6. /\ Len(line) = n + 5
      /\ line[1] = m.method /\ line[2] = "sp"
      /\ \A j \in 1..n : line[2 + j] = m.url[j]
      /\ line[n + 3] = "sp" /\ line[n + 4] = v /\ line[n + 5] = "crlf"
  BY RequestLine
<1> DEFINE r == Request(m.method, m.url, m.version)
<1>7. ParseRest(t, Len(line) + 1, TRUE, r) = [outcome |-> "ok", msg |-> Whole(r, fields, m.body)]
  <2>1. Len(line) >= 1 /\ line[Len(line)] = "crlf"
    BY <1>4, <1>6
  <2>2. \A k \in 1..Len(fields) : WellFormedField(fields[k])
    BY <1>1, <1>3
  <2>3. Lies(t, line, FlattenSeq(FieldPieces(fields)), m.body)
    BY <1>5
  <2> DEFINE b == m.body
  <2> HIDE DEF t, line, fields, b, r
  <2>4. b \in Text /\ Lies(t, line, FlattenSeq(FieldPieces(fields)), b)
    BY <1>2, <2>3 DEF b
  <2>5. \A x : ParseRest(t, Len(line) + 1, TRUE, x) = [outcome |-> "ok", msg |-> Whole(x, fields, b)]
    BY <1>3, <1>5, <2>1, <2>2, <2>4, RestInverts
  <2> QED BY <2>5 DEF b
<1>8. Whole(r, fields, m.body) = m
  <2>1. r \in Message
    BY <1>1, <1>2 DEF Message, Request, Header, StructHead, Text
  <2>2. /\ r.kind = m.kind /\ r.method = m.method /\ r.url = m.url /\ r.code = m.code
        /\ r.msg = m.msg /\ r.version = m.version
    BY <1>1 DEF Request
  <2> HIDE DEF r
  <2> QED BY <1>1, <2>1, <2>2, WholeIs
<1> HIDE DEF r
<1> HIDE DEF t, line, fields, h
<1>9. /\ Len(t) \in Nat /\ Len(t) >= n + 5
      /\ \A j \in 1..(n + 5) : t[j] = line[j]
  <2>1. Len(t) \in Nat /\ Len(h) \in Nat /\ Len(m.body) \in Nat
    <3>1. h \in Text
      BY <1>3, PrintedFieldsLie DEF h
    <3> QED BY <1>2, <1>5, <3>1 DEF Text
  <2>2. Len(t) = Len(line) + Len(h) + 1 + Len(m.body) /\ \A j \in 1..Len(line) : t[j] = line[j]
    BY <1>5 DEF Lies
  <2> DEFINE l == Len(line)
  <2>3. l = n + 5
    BY <1>6
  <2>4. /\ Len(t) = l + Len(h) + 1 + Len(m.body) /\ \A j \in 1..l : t[j] = line[j]
    BY <2>2
  <2> HIDE DEF l
  <2>5. Len(t) >= n + 5
    <3> DEFINE k == Len(t)
               i == Len(h)
               o == Len(m.body)
    <3>1. k \in Nat /\ i \in Nat /\ o \in Nat /\ n \in Nat /\ l = n + 5 /\ k = l + i + 1 + o
      BY <1>4, <2>1, <2>3, <2>4
    <3> HIDE DEF n, k, i, o
    <3>2. k >= n + 5
      BY <3>1
    <3> QED BY <3>2 DEF k
  <2>6. \A j \in 1..(n + 5) : t[j] = line[j]
    BY <2>3, <2>4
  <2> QED BY <2>1, <2>5, <2>6
<1> HIDE DEF n, v
<1>10. /\ 1 \in 1..Len(t) /\ 2 \in 1..Len(t) /\ n + 3 \in 1..Len(t)
       /\ n + 4 \in 1..Len(t) /\ n + 5 \in 1..Len(t)
       /\ t[1] = m.method /\ t[2] = "sp" /\ t[n + 3] = "sp" /\ t[n + 4] = v /\ t[n + 5] = "crlf"
  <2>1. 1 \in 1..(n + 5) /\ 2 \in 1..(n + 5) /\ n + 3 \in 1..(n + 5) /\ n + 4 \in 1..(n + 5)
        /\ n + 5 \in 1..(n + 5)
    BY <1>4
  <2> QED BY <1>4, <1>6, <1>9, <2>1
<1>11. /\ At(t, 1) = m.method /\ At(t, 2) = "sp" /\ At(t, n + 3) = "sp" /\ At(t, n + 4) = v
       /\ At(t, n + 5) = "crlf"
  BY <1>10 DEF At
<1>12. ASSUME NEW j \in 1..n
       PROVE  t[2 + j] = m.url[j] /\ At(t, 2 + j) # "sp" /\ At(t, 2 + j) # "end"
  <2>1. 2 + j \in 1..(n + 5) /\ 2 + j \in 1..Len(t)
    BY <1>4, <1>9
  <2>2. t[2 + j] = m.url[j]
    BY <1>6, <1>9, <2>1
  <2>3. m.url[j] # "sp"
    BY <1>1, <1>4 DEF Without
  <2>4. At(t, 2 + j) = t[2 + j] /\ At(t, 2 + j) # "end"
    BY <1>5, <2>1, InsideText
  <2> QED BY <2>2, <2>3, <2>4
<1>13. Skip(t, 1, Letters) = 2
  <2>1. 1 \in 1..(Len(t) + 1) /\ 2 \in 1..(Len(t) + 1)
    BY <1>9, <1>4
  <2>2. \A j \in 1..(2 - 1) : At(t, j) \in Letters
    BY <1>2, <1>11, MethodIsALetter
  <2>3. At(t, 2) \notin Letters
    BY <1>11, CrlfIsNoLetter
  <2> QED BY <1>5, <2>1, <2>2, <2>3, SkipEquals
<1>14. Until(t, 3, {"sp"}) = n + 3
  <2> DEFINE x == n + 3
  <2>1. 3 \in 1..(Len(t) + 1) /\ x \in 3..(Len(t) + 1)
    BY <1>9, <1>4
  <2>2. ASSUME NEW j \in 3..(x - 1) PROVE At(t, j) \notin {"sp"} \cup {"end"}
    <3>1. j - 2 \in 1..n /\ 2 + (j - 2) = j
      BY <1>4
    <3> QED BY <1>12, <3>1
  <2>3. At(t, x) \in {"sp"}
    BY <1>11
  <2> HIDE DEF x
  <2>5. Until(t, 3, {"sp"}) = x
    BY <1>5, <2>1, <2>2, <2>3, UntilEquals
  <2> QED BY <2>5 DEF x
<1>15. SubSeq(t, 3, n + 2) = m.url
  <2>1. 2 + Len(m.url) <= Len(t) /\ \A j \in 1..Len(m.url) : t[2 + j] = m.url[j]
    BY <1>4, <1>9, <1>12 DEF n
  <2>2. SubSeq(t, 2 + 1, 2 + Len(m.url)) = m.url
    BY <1>2, <1>5, <2>1, PartIs
  <2>3. 2 + 1 = 3 /\ 2 + Len(m.url) = n + 2
    BY <1>4 DEF n
  <2> QED BY <2>2, <2>3
<1>16. v \in DOMAIN VersionOf /\ VersionOf[v] = m.version
  BY <1>2, VersionInverts DEF v
<1>17. m.method # "/" /\ m.method \in Methods
  BY <1>2, MethodIsALetter
<1> DEFINE w == Skip(t, 1, Letters)
           u == Until(t, w + 1, {"sp"})
<1>18. ParseRequest(t, TRUE) =
         IF At(t, 1) = "/" THEN ParseSimpleRequest(t, TRUE)
         ELSE IF /\ At(t, 1) \in Methods /\ At(t, w) = "sp"
                 /\ u > w + 1 /\ At(t, u) = "sp"
                 /\ At(t, u + 1) \in DOMAIN VersionOf /\ At(t, u + 2) = "crlf"
           THEN ParseRest(t, u + 3, TRUE,
                          Request(t[1], SubSeq(t, w + 1, u - 1), VersionOf[t[u + 1]]))
           ELSE Failed
  BY DEF ParseRequest
<1>19. w = 2 /\ u = n + 3
  <2>1. w = 2
    BY <1>13
  <2> HIDE DEF w
  <2>2. w + 1 = 3
    BY <2>1
  <2> QED BY <1>14, <2>1, <2>2
<1> HIDE DEF w, u
<1>20. /\ u + 1 = n + 4 /\ u + 2 = n + 5 /\ u + 3 = Len(line) + 1 /\ w + 1 = 3 /\ u - 1 = n + 2
       /\ u > w + 1
  BY <1>4, <1>6, <1>19
<1>21. ParseRequest(t, TRUE) = ParseRest(t, u + 3, TRUE,
                          Request(t[1], SubSeq(t, w + 1, u - 1), VersionOf[t[u + 1]]))
  BY <1>11, <1>16, <1>17, <1>18, <1>19, <1>20
<1>22. /\ t[1] = m.method /\ SubSeq(t, w + 1, u - 1) = m.url /\ VersionOf[t[u + 1]] = m.version
  BY <1>10, <1>15, <1>16, <1>20
<1>23. ParseRequest(t, TRUE) = ParseRest(t, Len(line) + 1, TRUE, r)
  BY <1>20, <1>21, <1>22 DEF r
<1>24. ParseRequest(t, TRUE) = [outcome |-> "ok", msg |-> m]
  BY <1>7, <1>8, <1>23
<1> QED BY <1>24 DEF t

(* A status code is printed with three digits.                             *)
LEMMA CodeHasThreeDigits ==
  ASSUME NEW c \in Nat
  PROVE  LET x == CodeUnits(c)
         IN  x \in Text /\ Len(x) = 3 /\ \A i \in 1..3 : x[i] \in Digits
<1> DEFINE a == ((c \div 100) % 10) + 1
           b == ((c \div 10) % 10) + 1
           d == (c % 10) + 1
           x == CodeUnits(c)
<1>1. a \in 1..10 /\ b \in 1..10 /\ d \in 1..10
  OBVIOUS
<1>2. x = <<Digit[a], Digit[b], Digit[d]>>
  BY DEF CodeUnits
<1>3. x \in Text
  BY CodeIsText
<1> HIDE DEF a, b, d, x
<1>4. Len(x) = 3 /\ x[1] \in Digits /\ x[2] \in Digits /\ x[3] \in Digits
  BY <1>1, <1>2 DEF Digits
<1>5. ASSUME NEW i \in 1..3 PROVE x[i] \in Digits
  <2>1. i = 1 \/ i = 2 \/ i = 3
    OBVIOUS
  <2> QED BY <1>4, <2>1
<1> QED BY <1>3, <1>4, <1>5 DEF x

(* The digits of a status code.                                            *)
LEMMA CodeInverts ==
  ASSUME NEW c \in 100..599
  PROVE  LET x == CodeUnits(c)
         IN  /\ x \in Text /\ Len(x) = 3
             /\ \A i \in 1..3 : x[i] \in Digits
             /\ x[1] \in {"1", "2", "3", "4", "5"}
             /\ 100 * NumberOf(x[1]) + 10 * NumberOf(x[2]) + NumberOf(x[3]) = c
<1> DEFINE a == (c \div 100) % 10
           b == (c \div 10) % 10
           d == c % 10
           x == CodeUnits(c)
<1>1. a \in 1..5 /\ b \in 0..9 /\ d \in 0..9 /\ 100 * a + 10 * b + d = c
  OBVIOUS
<1>2. x = <<Digit[a + 1], Digit[b + 1], Digit[d + 1]>>
  BY DEF CodeUnits
<1>3. x \in Text
  BY CodeIsText
<1> HIDE DEF a, b, d, x
<1>4. Len(x) = 3 /\ x[1] = Digit[a + 1] /\ x[2] = Digit[b + 1] /\ x[3] = Digit[d + 1]
  BY <1>2
<1>5. x[1] \in Digits /\ x[2] \in Digits /\ x[3] \in Digits
  <2>1. a + 1 \in 1..10 /\ b + 1 \in 1..10 /\ d + 1 \in 1..10
    BY <1>1
  <2> QED BY <1>4, <2>1 DEF Digits
<1>6. NumberOf(x[1]) = a /\ NumberOf(x[2]) = b /\ NumberOf(x[3]) = d
  <2>1. a \in 0..9
    BY <1>1
  <2> QED BY <1>1, <1>4, <2>1, NumberOfIs
<1>7. x[1] \in {"1", "2", "3", "4", "5"}
  <2>1. a = 1 \/ a = 2 \/ a = 3 \/ a = 4 \/ a = 5
    BY <1>1
  <2>2. Digit[1 + 1] = "1" /\ Digit[2 + 1] = "2" /\ Digit[3 + 1] = "3" /\ Digit[4 + 1] = "4"
        /\ Digit[5 + 1] = "5"
    BY DEF Digit
  <2> QED BY <1>4, <2>1, <2>2
<1>8. 100 * NumberOf(x[1]) + 10 * NumberOf(x[2]) + NumberOf(x[3]) = c
  BY <1>1, <1>6
<1>9. \A i \in 1..3 : x[i] \in Digits
  <2>1. ASSUME NEW i \in 1..3 PROVE i = 1 \/ i = 2 \/ i = 3
    OBVIOUS
  <2> QED BY <1>5, <2>1
<1> QED BY <1>3, <1>4, <1>7, <1>8, <1>9 DEF x

(* The first line of a response.                                           *)
LEMMA ResponseLine ==
  ASSUME NEW m \in Message, m.kind = "response"
  PROVE  LET line == FlattenSeq(LinePieces(m))
             n == Len(m.msg)
             x == CodeUnits(m.code)
         IN  /\ Len(line) = n + 7
             /\ line[1] = VersionUnit(m.version) /\ line[2] = "sp"
             /\ line[3] = x[1] /\ line[4] = x[2] /\ line[5] = x[3] /\ line[6] = "sp"
             /\ \A j \in 1..n : line[6 + j] = m.msg[j]
             /\ line[n + 7] = "crlf"
<1> DEFINE v == <<VersionUnit(m.version)>>
           s == <<"sp">>
           x == CodeUnits(m.code)
           u == m.msg
           e == <<"crlf">>
           n == Len(u)
           line == FlattenSeq(LinePieces(m))
<1>1. /\ s \in Text /\ v \in Text /\ e \in Text /\ u \in Text /\ x \in Text /\ Len(x) = 3
  BY UnitsAreTexts, CodeHasThreeDigits DEF Message
<1>2. LinePieces(m) = <<v, s, x, s, u, e>>
  BY DEF LinePieces
<1>3. /\ v \o s \in Text /\ Len(v \o s) = 2 /\ (v \o s)[1] = VersionUnit(m.version)
      /\ (v \o s)[2] = "sp"
  BY <1>1, TwoUnits
<1>4. /\ u \o e \in Text /\ n \in Nat /\ Len(u \o e) = n + 1
      /\ \A i \in 1..n : (u \o e)[i] = u[i]
      /\ (u \o e)[n + 1] = "crlf"
  BY <1>1, JoinedUnit
<1> HIDE DEF v, s, x, u, e
<1>5. /\ x \o s \in Text /\ Len(x \o s) = 4
      /\ \A i \in 1..3 : (x \o s)[i] = x[i]
      /\ (x \o s)[4] = "sp"
  <2>1. Len(s) = 1 /\ s[1] = "sp"
    BY DEF s
  <2>2. /\ x \o s \in Text /\ Len(x \o s) = Len(x) + Len(s)
        /\ \A i \in 1..Len(x) : (x \o s)[i] = x[i]
        /\ \A i \in 1..Len(s) : (x \o s)[Len(x) + i] = s[i]
    BY <1>1, Joined
  <2>3. 1 \in 1..Len(s) /\ Len(x) + 1 = 4 /\ Len(x) + Len(s) = 4
    BY <1>1, <2>1
  <2>4. (x \o s)[4] = "sp"
    BY <2>1, <2>2, <2>3
  <2> QED BY <1>1, <2>2, <2>3, <2>4
<1>6. line = (v \o s) \o ((x \o s) \o (u \o e))
  <2>1. v \in Seq(Units) /\ s \in Seq(Units) /\ x \in Seq(Units) /\ u \in Seq(Units)
        /\ e \in Seq(Units)
    BY <1>1 DEF Text
  <2> DEFINE six == <<v, s, x, s, u, e>>
             S == Seq(Units)
  <2>2. six \in Seq(S) /\ Len(six) = 6
    <3> HIDE DEF S
    <3>1. v \in S /\ s \in S /\ u \in S /\ x \in S /\ e \in S
      BY <2>1 DEF S
    <3> QED BY <3>1
  <2>3. /\ six[1] = v /\ six[2] = s /\ six[3] = x /\ six[4] = s /\ six[5] = u /\ six[6] = e
        /\ line = FlattenSeq(six)
    BY <1>2
  <2> HIDE DEF six
  <2>4. FlattenSeq(six) = (six[1] \o six[2]) \o ((six[3] \o six[4]) \o (six[5] \o six[6]))
    BY <2>2, FlattenSix
  <2> QED BY <2>3, <2>4
<1> DEFINE a == v \o s
           b == x \o s
           c == u \o e
           w == b \o c
<1> HIDE DEF a, b, c, w, n, line
<1>7. /\ w \in Text /\ Len(w) = n + 5
      /\ \A i \in 1..4 : w[i] = b[i]
      /\ \A i \in 1..(n + 1) : w[4 + i] = c[i]
  <2>1. /\ w \in Text /\ Len(w) = Len(b) + Len(c)
        /\ \A i \in 1..Len(b) : w[i] = b[i]
        /\ \A i \in 1..Len(c) : w[Len(b) + i] = c[i]
    BY <1>4, <1>5, Joined DEF w, b, c
  <2>2. Len(b) = 4 /\ Len(c) = n + 1 /\ n \in Nat
    BY <1>4, <1>5 DEF b, c
  <2>3. Len(b) + Len(c) = n + 5
    BY <2>2
  <2> QED BY <2>1, <2>2, <2>3
<1>8. /\ Len(line) = n + 7
      /\ \A i \in 1..2 : line[i] = a[i]
      /\ \A i \in 1..(n + 5) : line[2 + i] = w[i]
  <2>1. line = a \o w
    BY <1>6 DEF a, b, c, w
  <2>2. /\ Len(a \o w) = Len(a) + Len(w)
        /\ \A i \in 1..Len(a) : (a \o w)[i] = a[i]
        /\ \A i \in 1..Len(w) : (a \o w)[Len(a) + i] = w[i]
    BY <1>3, <1>7, Joined DEF a
  <2>3. Len(a) = 2 /\ n \in Nat
    BY <1>3, <1>4 DEF a
  <2> QED BY <1>7, <2>1, <2>2, <2>3
<1>9. line[1] = VersionUnit(m.version) /\ line[2] = "sp"
  BY <1>3, <1>8 DEF a
<1>10. line[3] = x[1] /\ line[4] = x[2] /\ line[5] = x[3] /\ line[6] = "sp"
  <2>1. 1 \in 1..(n + 5) /\ 2 \in 1..(n + 5) /\ 3 \in 1..(n + 5) /\ 4 \in 1..(n + 5)
    BY <1>4
  <2>2. line[2 + 1] = w[1] /\ line[2 + 2] = w[2] /\ line[2 + 3] = w[3] /\ line[2 + 4] = w[4]
    BY <1>8, <2>1
  <2>3. w[1] = b[1] /\ w[2] = b[2] /\ w[3] = b[3] /\ w[4] = b[4]
    BY <1>7
  <2> QED BY <1>5, <2>2, <2>3 DEF b
<1>11. ASSUME NEW j \in 1..n PROVE line[6 + j] = u[j]
  <2>1. 4 + j \in 1..(n + 5) /\ j \in 1..(n + 1) /\ 2 + (4 + j) = 6 + j
    BY <1>4
  <2>2. line[2 + (4 + j)] = w[4 + j] /\ w[4 + j] = c[j]
    BY <1>7, <1>8, <2>1
  <2> QED BY <1>4, <2>1, <2>2 DEF c
<1>12. line[n + 7] = "crlf"
  <2>1. n + 5 \in 1..(n + 5) /\ n + 1 \in 1..(n + 1) /\ 2 + (n + 5) = n + 7 /\ 4 + (n + 1) = n + 5
    BY <1>4
  <2>2. line[2 + (n + 5)] = w[n + 5] /\ w[4 + (n + 1)] = c[n + 1]
    BY <1>7, <1>8, <2>1
  <2> QED BY <1>4, <2>1, <2>2 DEF c
<1> QED BY <1>8, <1>9, <1>10, <1>11, <1>12 DEF line, n, u, x

(* A response that is well formed is parsed as it was printed.             *)
LEMMA ResponseInverts ==
  ASSUME NEW m \in Message, WellFormed(m), m.kind = "response"
  PROVE  ParseResponse(Printed(m), TRUE) = [outcome |-> "ok", msg |-> m]
<1> DEFINE t == Printed(m)
           line == FlattenSeq(LinePieces(m))
           fields == m.head.fields
           h == FlattenSeq(FieldPieces(fields))
           n == Len(m.msg)
           v == VersionUnit(m.version)
           x == CodeUnits(m.code)
<1>1. /\ m.head = StructHead(fields) /\ m.code \in 100..599 /\ Without(m.msg, "crlf")
      /\ m.method = "GET" /\ m.url = <<>>
      /\ \A i \in DOMAIN fields : WellFormedField(fields[i])
  BY DEF WellFormed
<1>2. /\ m.msg \in Text /\ m.version \in {9, 10, 11} /\ m.head \in Header /\ m.body \in Text
  BY DEF Message
<1>3. fields \in Seq(Field) /\ DOMAIN fields = 1..Len(fields)
  BY <1>2 DEF Header
<1>4. n \in Nat /\ DOMAIN m.msg = 1..n
  BY <1>2 DEF Text
<1>5. t \in Text /\ line \in Text /\ Lies(t, line, h, m.body)
  <2>1. m.head.type = "struct"
    BY <1>1 DEF StructHead
  <2> QED BY <2>1, PrintedLies
<1>6. /\ Len(line) = n + 7
      /\ line[1] = v /\ line[2] = "sp"
      /\ line[3] = x[1] /\ line[4] = x[2] /\ line[5] = x[3] /\ line[6] = "sp"
      /\ \A j \in 1..n : line[6 + j] = m.msg[j]
      /\ line[n + 7] = "crlf"
  BY <1>1, ResponseLine
<1> DEFINE r == Response(m.version, m.code, m.msg)
<1>7. ParseRest(t, Len(line) + 1, TRUE, r) = [outcome |-> "ok", msg |-> Whole(r, fields, m.body)]
  <2>1. Len(line) >= 1 /\ line[Len(line)] = "crlf"
    BY <1>4, <1>6
  <2>2. \A k \in 1..Len(fields) : WellFormedField(fields[k])
    BY <1>1, <1>3
  <2>3. Lies(t, line, FlattenSeq(FieldPieces(fields)), m.body)
    BY <1>5
  <2> DEFINE b == m.body
  <2> HIDE DEF t, line, fields, b, r
  <2>4. b \in Text /\ Lies(t, line, FlattenSeq(FieldPieces(fields)), b)
    BY <1>2, <2>3 DEF b
  <2>5. \A z : ParseRest(t, Len(line) + 1, TRUE, z) = [outcome |-> "ok", msg |-> Whole(z, fields, b)]
    BY <1>3, <1>5, <2>1, <2>2, <2>4, RestInverts
  <2> QED BY <2>5 DEF b
<1>8. Whole(r, fields, m.body) = m
  <2>1. r \in Message
    <3>1. "GET" \in Methods /\ m.code \in Nat /\ <<>> \in Text
      <4>1. "GET" \in Methods
        BY DEF Methods
      <4>2. m.code \in Nat
        BY DEF Message
      <4>3. <<>> \in Text
        BY DEF Text
      <4> QED BY <4>1, <4>2, <4>3
    <3>2. StructHead(<<>>) \in Header
      BY <3>1 DEF Header, StructHead
    <3> QED BY <1>2, <3>1, <3>2 DEF Message, Response
  <2>2. /\ r.kind = m.kind /\ r.method = m.method /\ r.url = m.url /\ r.code = m.code
        /\ r.msg = m.msg /\ r.version = m.version
    BY <1>1 DEF Response
  <2> HIDE DEF r
  <2> QED BY <1>1, <2>1, <2>2, WholeIs
<1> HIDE DEF r
<1> HIDE DEF t, line, fields, h, x
<1>9. /\ Len(t) \in Nat /\ Len(t) >= n + 7
      /\ \A j \in 1..(n + 7) : t[j] = line[j]
  <2>1. Len(t) \in Nat /\ Len(h) \in Nat /\ Len(m.body) \in Nat
    <3>1. h \in Text
      BY <1>3, PrintedFieldsLie DEF h
    <3> QED BY <1>2, <1>5, <3>1 DEF Text
  <2>2. Len(t) = Len(line) + Len(h) + 1 + Len(m.body) /\ \A j \in 1..Len(line) : t[j] = line[j]
    BY <1>5 DEF Lies
  <2>3. Len(t) >= n + 7
    <3> DEFINE k == Len(t)
               i == Len(h)
               o == Len(m.body)
               l == Len(line)
    <3>1. k \in Nat /\ i \in Nat /\ o \in Nat /\ n \in Nat /\ l = n + 7 /\ k = l + i + 1 + o
      BY <1>4, <1>6, <2>1, <2>2
    <3> HIDE DEF n, k, i, o, l
    <3>2. k >= n + 7
      BY <3>1
    <3> QED BY <3>2 DEF k
  <2>4. \A j \in 1..(n + 7) : t[j] = line[j]
    BY <1>6, <2>2
  <2> QED BY <2>1, <2>3, <2>4
<1> HIDE DEF n, v
<1>10. /\ t[1] = v /\ t[2] = "sp" /\ t[3] = x[1] /\ t[4] = x[2] /\ t[5] = x[3] /\ t[6] = "sp"
       /\ t[n + 7] = "crlf"
  <2>1. /\ 1 \in 1..(n + 7) /\ 2 \in 1..(n + 7) /\ 3 \in 1..(n + 7) /\ 4 \in 1..(n + 7)
        /\ 5 \in 1..(n + 7) /\ 6 \in 1..(n + 7) /\ n + 7 \in 1..(n + 7)
    BY <1>4
  <2> QED BY <1>6, <1>9, <2>1
<1>11. /\ At(t, 1) = v /\ At(t, 2) = "sp" /\ At(t, 3) = x[1] /\ At(t, 4) = x[2] /\ At(t, 5) = x[3]
       /\ At(t, 6) = "sp" /\ At(t, n + 7) = "crlf"
  <2>1. /\ 1 \in 1..Len(t) /\ 2 \in 1..Len(t) /\ 3 \in 1..Len(t) /\ 4 \in 1..Len(t)
        /\ 5 \in 1..Len(t) /\ 6 \in 1..Len(t) /\ n + 7 \in 1..Len(t)
    BY <1>4, <1>9, SMTT(30)
  <2> QED BY <1>10, <2>1 DEF At
<1>12. /\ \A i \in 1..3 : x[i] \in Digits
       /\ x[1] \in {"1", "2", "3", "4", "5"}
       /\ 100 * NumberOf(x[1]) + 10 * NumberOf(x[2]) + NumberOf(x[3]) = m.code
  BY <1>1, CodeInverts DEF x
<1>13. ASSUME NEW j \in 1..n
       PROVE  t[6 + j] = m.msg[j] /\ At(t, 6 + j) # "crlf" /\ At(t, 6 + j) # "end"
  <2>1. 6 + j \in 1..(n + 7) /\ 6 + j \in 1..Len(t)
    BY <1>4, <1>9
  <2>2. t[6 + j] = m.msg[j]
    BY <1>6, <1>9, <2>1
  <2>3. m.msg[j] # "crlf"
    BY <1>1, <1>4 DEF Without
  <2>4. At(t, 6 + j) = t[6 + j] /\ At(t, 6 + j) # "end"
    BY <1>5, <2>1, InsideText
  <2> QED BY <2>2, <2>3, <2>4
<1>14. Skip(t, 3, Digits) = 6
  <2>1. 3 \in 1..(Len(t) + 1) /\ 6 \in 3..(Len(t) + 1)
    BY <1>9, <1>4
  <2>2. ASSUME NEW j \in 3..(6 - 1) PROVE At(t, j) \in Digits
    <3>1. j = 3 \/ j = 4 \/ j = 5
      OBVIOUS
    <3>2. x[1] \in Digits /\ x[2] \in Digits /\ x[3] \in Digits
      BY <1>12
    <3> QED BY <1>11, <3>1, <3>2
  <2>3. At(t, 6) \notin Digits
    <3>1. "sp" \notin Digits
      BY DEF Digits, Digit
    <3> QED BY <1>11, <3>1
  <2> QED BY <1>5, <2>1, <2>2, <2>3, SkipEquals
<1>15. Until(t, 7, {"crlf"}) = n + 7
  <2> DEFINE z == n + 7
  <2>1. 7 \in 1..(Len(t) + 1) /\ z \in 7..(Len(t) + 1)
    BY <1>9, <1>4
  <2>2. ASSUME NEW j \in 7..(z - 1) PROVE At(t, j) \notin {"crlf"} \cup {"end"}
    <3>1. j - 6 \in 1..n /\ 6 + (j - 6) = j
      BY <1>4
    <3> QED BY <1>13, <3>1
  <2>3. At(t, z) \in {"crlf"}
    BY <1>11
  <2> HIDE DEF z
  <2>4. Until(t, 7, {"crlf"}) = z
    BY <1>5, <2>1, <2>2, <2>3, UntilEquals
  <2> QED BY <2>4 DEF z
<1>16. SubSeq(t, 7, n + 6) = m.msg
  <2>1. 6 + Len(m.msg) <= Len(t) /\ \A j \in 1..Len(m.msg) : t[6 + j] = m.msg[j]
    BY <1>4, <1>9, <1>13 DEF n
  <2>2. SubSeq(t, 6 + 1, 6 + Len(m.msg)) = m.msg
    BY <1>2, <1>5, <2>1, PartIs
  <2>3. 6 + 1 = 7 /\ 6 + Len(m.msg) = n + 6
    BY <1>4 DEF n
  <2> QED BY <2>2, <2>3
<1>17. v \in DOMAIN VersionOf /\ VersionOf[v] = m.version
  BY <1>2, VersionInverts DEF v
<1> DEFINE c == Skip(t, 3, Digits)
           e == Until(t, c + 1, {"crlf"})
           number == 100 * NumberOf(t[3]) + 10 * NumberOf(t[4]) + NumberOf(t[5])
<1>18. ParseResponse(t, TRUE) =
         IF /\ At(t, 1) \in DOMAIN VersionOf /\ At(t, 2) = "sp"
            /\ c = 6 /\ At(t, 3) \in {"1", "2", "3", "4", "5"} /\ At(t, 6) = "sp"
            /\ At(t, e) = "crlf"
           THEN ParseRest(t, e + 1, TRUE, Response(VersionOf[t[1]], number, SubSeq(t, 7, e - 1)))
           ELSE Failed
  BY DEF ParseResponse
<1>19. c = 6 /\ e = n + 7
  <2>1. c = 6
    BY <1>14
  <2> HIDE DEF c
  <2>2. c + 1 = 7
    BY <2>1
  <2> QED BY <1>15, <2>1, <2>2
<1>20. number = m.code
  BY <1>10, <1>12
<1> HIDE DEF c, e, number
<1>21. e + 1 = Len(line) + 1 /\ e - 1 = n + 6
  BY <1>4, <1>6, <1>19
<1>22. ParseResponse(t, TRUE) =
         ParseRest(t, e + 1, TRUE, Response(VersionOf[t[1]], number, SubSeq(t, 7, e - 1)))
  BY <1>11, <1>12, <1>17, <1>18, <1>19
<1>23. VersionOf[t[1]] = m.version /\ SubSeq(t, 7, e - 1) = m.msg
  BY <1>10, <1>16, <1>17, <1>21
<1>24. ParseResponse(t, TRUE) = ParseRest(t, Len(line) + 1, TRUE, r)
  BY <1>20, <1>21, <1>22, <1>23 DEF r
<1> QED BY <1>7, <1>8, <1>24 DEF t

(* Printing and parsing give the same message.                             *)
LEMMA ParsingInverts ==
  ASSUME NEW m \in Message, WellFormed(m)
  PROVE  Parse(m.kind, Printed(m), TRUE) = [outcome |-> "ok", msg |-> m]
<1>1. m.kind = "request" \/ m.kind = "response"
  BY DEF Message
<1> QED BY <1>1, RequestInverts, ResponseInverts DEF Parse
=============================================================================
