---------------------------- MODULE Mcfss_proofs ----------------------------
(***************************************************************************)
(* Proofs about Mcfss, for any capacity, categories and items: the arrays  *)
(* keep their lengths, no operation adds to the duplicates of a key that a *)
(* caller has made, and the arrays behave as one list of structs.          *)
(***************************************************************************)
EXTENDS Mcfss, SlotArray_proofs, SequenceTheorems

(* What findInArray returns for a category of the set.                     *)
LEMMA IndexProperties ==
  ASSUME TypeOK, NEW c \in Categories, NEW x
  PROVE  /\ Index(c, x) # NotFound =>
              /\ Index(c, x) \in 0..(len - 1) /\ data[c][Index(c, x)] = x
              /\ \A j \in 0..(Index(c, x) - 1) : data[c][j] # x
         /\ Index(c, x) = NotFound => \A i \in 0..(len - 1) : data[c][i] # x
<1>1. len \in Nat
  BY McfssAssumption DEF TypeOK
<1> QED BY <1>1, FindProperties DEF Index, NotFound

(* TypeOK holds of the set that newMcfsSet returns.                        *)
LEMMA InitTypeOK == Init => TypeOK
BY McfssAssumption DEF Init, TypeOK, Answer

(* mcfsSetAdd, mcfsSetRemove, mcfsSetGetAssocItemPtr with what its caller  *)
(* stores, and mcfsSetDestroy keep it.                                     *)
LEMMA NextTypeOK == TypeOK /\ [Next]_vars => TypeOK'
<1> SUFFICES ASSUME TypeOK, [Next]_vars PROVE TypeOK'
  OBVIOUS
<1> USE McfssAssumption
<1>0. len \in Nat /\ cap \in Nat /\ len <= cap
  BY DEF TypeOK
<1>1. ASSUME cap = Cap, NEW r \in Row, AddNew(r) PROVE TypeOK'
  <2>1. len \in 0..(Cap - 1) /\ len' = len + 1
    BY <1>0, <1>1 DEF AddNew
  <2>2. data' \in [Categories -> [0..(Cap - 1) -> Items]]
    BY <1>1, <2>1 DEF AddNew, Row, TypeOK
  <2> QED BY <1>0, <1>1, <2>1, <2>2 DEF AddNew, TypeOK, Answer, Row
<1>2. ASSUME NEW c \in Categories, NEW x \in Items, RemovePresent(c, x) PROVE TypeOK'
  <2> DEFINE i == Index(c, x)
  <2>1. i \in 0..(len - 1) /\ len' = len - 1 /\ cap' = cap
    BY <1>2, IndexProperties DEF RemovePresent
  <2>2. len \in 0..Cap
    BY <1>0 DEF TypeOK
  <2>3. \A d \in Categories : Shift(data[d], len, i) \in [0..(Cap - 1) -> Items]
    <3> HIDE DEF i
    <3> QED BY <2>1, <2>2, ShiftType DEF TypeOK
  <2>4. data' \in [Categories -> [0..(Cap - 1) -> Items]]
    BY <1>2, <2>3 DEF RemovePresent
  <2> QED BY <1>0, <1>2, <2>1, <2>4 DEF RemovePresent, TypeOK, Answer
<1>3. ASSUME NEW c \in Categories, NEW x \in Items, NEW d \in Categories,
             NEW y \in Items, AssocStore(c, x, d, y)
      PROVE  TypeOK'
  <2> DEFINE i == Index(c, x)
  <2>1. i \in 0..(len - 1) /\ i \in 0..(Cap - 1)
    BY <1>0, <1>3, IndexProperties DEF AssocStore, TypeOK
  <2>2. data' = [data EXCEPT ![d] = [data[d] EXCEPT ![i] = y]]
    BY <1>3 DEF AssocStore
  <2> QED BY <1>0, <1>3, <2>1, <2>2 DEF AssocStore, TypeOK, Answer
<1>4. ASSUME Destroy PROVE TypeOK'
  BY <1>4 DEF Destroy, TypeOK, Answer
<1>5. ASSUME NEW r \in Row, AddFull(r) \/ AddPresent(r) PROVE TypeOK'
  BY <1>5 DEF AddFull, AddPresent, TypeOK, Answer, Row
<1>6. ASSUME NEW c \in Categories, NEW x \in Items,
             RemoveAbsent(c, x) \/ AssocAbsent(c, x)
      PROVE  TypeOK'
  BY <1>6 DEF RemoveAbsent, AssocAbsent, TypeOK, Answer
<1>7. CASE UNCHANGED vars
  BY <1>7 DEF vars, TypeOK
<1> QED BY <1>1, <1>2, <1>3, <1>4, <1>5, <1>6, <1>7 DEF Next

(* The length stays within the capacity and the arrays keep their size.    *)
THEOREM TypeCorrect == Spec => []TypeOK
BY InitTypeOK, NextTypeOK, PTL DEF Spec

-----------------------------------------------------------------------------
(* Duplicates of a key.                                                    *)

(* An addition makes the first row with its key and no other.              *)
LEMMA AddNewCopies ==
  ASSUME TypeOK, cap = Cap, NEW r \in Row, AddNew(r), NEW x \in Items
  PROVE  Copies(x)' <= Copies(x) \/ (Copies(x) = 0 /\ Copies(x)' = 1)
<1> DEFINE key == r[KeyCategory]
<1>1. /\ len \in 0..(Cap - 1) /\ len \in Nat /\ len' = len + 1
      /\ KeyCategory \in Categories
  BY McfssAssumption DEF AddNew, TypeOK
<1>2. data'[KeyCategory] = [data[KeyCategory] EXCEPT ![len] = key]
  BY <1>1 DEF AddNew
<1>3. /\ data'[KeyCategory][len] = key
      /\ \A i \in 0..(len - 1) : data'[KeyCategory][i] = data[KeyCategory][i]
  BY <1>1, <1>2 DEF TypeOK
<1>4. \A i \in 0..(len - 1) : data[KeyCategory][i] # key
  BY <1>1, IndexProperties DEF AddNew
<1>5. 0..(len' - 1) = 0..(len - 1) \cup {len}
  BY <1>1
<1>6. CASE x = key
  <2>1. SlotsOf(data[KeyCategory], len, x) = {}
    BY <1>4, <1>6 DEF SlotsOf
  <2>2. SlotsOf(data[KeyCategory], len, x)' = {len}
    BY <1>1, <1>3, <1>4, <1>5, <1>6 DEF SlotsOf
  <2> QED BY <2>1, <2>2, FS_EmptySet, FS_Singleton DEF Copies
<1>7. CASE x # key
  <2>1. SlotsOf(data[KeyCategory], len, x)' = SlotsOf(data[KeyCategory], len, x)
    BY <1>1, <1>3, <1>5, <1>7 DEF SlotsOf
  <2>2. Copies(x) \in Nat
    BY <1>1, SlotsFinite DEF Copies
  <2> QED BY <2>1, <2>2 DEF Copies
<1> QED BY <1>6, <1>7

(* Whatever keys a caller has made equal: additions, removals and the      *)
(* destruction of the set make no further row with a key that is there.    *)
THEOREM DuplicatesComeFromStores == Spec => DuplicatesAreNotAdded
<1> DEFINE Added == len' # len =>
      \A x \in Items : Copies(x)' <= Copies(x) \/ (Copies(x) = 0 /\ Copies(x)' = 1)
<1>1. TypeOK /\ [Next]_vars => [Added]_vars
  <2> SUFFICES ASSUME TypeOK, Next, len' # len, NEW x \in Items
               PROVE  Copies(x)' <= Copies(x) \/ (Copies(x) = 0 /\ Copies(x)' = 1)
    OBVIOUS
  <2>1. /\ len \in Nat /\ len \in 0..Cap /\ Cap \in Nat /\ Copies(x) \in Nat
        /\ KeyCategory \in Categories
    BY McfssAssumption, SlotsFinite DEF TypeOK, Copies
  <2>2. ASSUME NEW r \in Row, cap = Cap, AddNew(r)
        PROVE  Copies(x)' <= Copies(x) \/ (Copies(x) = 0 /\ Copies(x)' = 1)
    BY <2>2, AddNewCopies
  <2>3. ASSUME NEW c \in Categories, NEW z \in Items, RemovePresent(c, z)
        PROVE  Copies(x)' <= Copies(x)
    <3> DEFINE i == Index(c, z)
    <3>1. i \in 0..(len - 1) /\ len' = len - 1
      BY <2>3, IndexProperties DEF RemovePresent
    <3>2. data'[KeyCategory] = Shift(data[KeyCategory], len, i)
      BY <2>1, <2>3 DEF RemovePresent
    <3>3. data[KeyCategory] \in [0..(Cap - 1) -> Items]
      BY <2>1 DEF TypeOK
    <3> HIDE DEF i
    <3>4. Cardinality(SlotsOf(Shift(data[KeyCategory], len, i), len - 1, x))
            <= Cardinality(SlotsOf(data[KeyCategory], len, x))
      BY <2>1, <3>1, <3>3, ShiftCount
    <3> QED BY <3>1, <3>2, <3>4 DEF Copies
  <2>4. CASE Destroy
    <3>1. SlotsOf(data[KeyCategory], len, x)' = {}
      BY <2>4 DEF Destroy, SlotsOf
    <3> QED BY <2>1, <3>1, FS_EmptySet DEF Copies
  <2> QED BY <2>2, <2>3, <2>4
          DEF Next, AddFull, AddPresent, RemoveAbsent, AssocAbsent, AssocStore
<1> QED BY <1>1, TypeCorrect, PTL DEF Spec, DuplicatesAreNotAdded

-----------------------------------------------------------------------------
(* The parallel arrays implement a list of structs.                        *)

(* Rows reads the arrays across.                                           *)
LEMMA RowsRead ==
  ASSUME TypeOK
  PROVE  /\ len \in Nat /\ Rows \in Seq(Row) /\ Len(Rows) = len /\ DOMAIN Rows = 1..len
         /\ \A i \in 1..len : Rows[i] = [c \in Categories |-> data[c][i - 1]]
<1>1. len \in Nat /\ len <= Cap /\ Cap \in Nat
  BY McfssAssumption DEF TypeOK
<1>2. ASSUME NEW i \in 1..len PROVE [c \in Categories |-> data[c][i - 1]] \in Row
  <2>1. i - 1 \in 0..(Cap - 1)
    BY <1>1
  <2> QED BY <2>1 DEF TypeOK, Row
<1>3. Rows \in [1..len -> Row]
  BY <1>2 DEF Rows
<1>4. Rows \in Seq(Row)
  BY <1>1, <1>3, IsASeq
<1> QED BY <1>1, <1>4 DEF Rows

(* The index that findInArray returns is that of the first such row.       *)
LEMMA IndexIsFirst ==
  ASSUME TypeOK, NEW c \in Categories, NEW x
  PROVE  /\ Index(c, x) # NotFound =>
              /\ Index(c, x) + 1 \in 1..len
              /\ Assoc!IsFirst(Index(c, x) + 1, c, x) /\ Assoc!Present(c, x)
         /\ Index(c, x) = NotFound => ~Assoc!Present(c, x)
<1>1. /\ len \in Nat /\ DOMAIN Rows = 1..len
      /\ \A i \in 1..len : Rows[i][c] = data[c][i - 1]
  BY RowsRead
<1>2. ASSUME Index(c, x) # NotFound
      PROVE  /\ Index(c, x) + 1 \in 1..len
             /\ Assoc!IsFirst(Index(c, x) + 1, c, x) /\ Assoc!Present(c, x)
  <2> DEFINE k == Index(c, x)
  <2>1. k \in 0..(len - 1) /\ data[c][k] = x /\ \A j \in 0..(k - 1) : data[c][j] # x
    BY <1>2, IndexProperties
  <2> HIDE DEF k
  <2>2. k + 1 \in 1..len /\ (k + 1) - 1 = k /\ k \in Nat
    BY <1>1, <2>1
  <2>3. Rows[k + 1][c] = x
    BY <1>1, <2>1, <2>2
  <2>4. ASSUME NEW j \in 1..((k + 1) - 1) PROVE Rows[j][c] # x
    <3>1. j \in 1..len /\ j - 1 \in 0..(k - 1)
      BY <1>1, <2>1, <2>2
    <3> QED BY <1>1, <2>1, <3>1
  <2>5. Assoc!IsFirst(k + 1, c, x) /\ Assoc!Present(c, x)
    BY <1>1, <2>2, <2>3, <2>4 DEF Assoc!IsFirst, Assoc!Present
  <2> QED BY <2>2, <2>5 DEF k
<1>3. ASSUME Index(c, x) = NotFound PROVE ~Assoc!Present(c, x)
  <2>1. \A i \in 0..(len - 1) : data[c][i] # x
    BY <1>3, IndexProperties
  <2>2. ASSUME NEW i \in 1..len PROVE Rows[i][c] # x
    <3>1. i - 1 \in 0..(len - 1)
      BY <1>1
    <3> QED BY <1>1, <2>1, <3>1
  <2> QED BY <1>1, <2>2 DEF Assoc!Present
<1> QED BY <1>2, <1>3

(* mcfsSetAdd: a full set refuses, and otherwise a row appears at the end, *)
(* unless its key is there.                                                *)
LEMMA AddRefines ==
  ASSUME TypeOK, cap = Cap, NEW r \in Row, AddFull(r) \/ AddNew(r) \/ AddPresent(r)
  PROVE  Assoc!Refuse(r) \/ Assoc!Add(r)
<1>1. TypeOK /\ TypeOK'
  BY NextTypeOK DEF Next
<1>2. /\ len \in Nat /\ len <= Cap /\ Cap \in Nat
      /\ Rows \in Seq(Row) /\ Len(Rows) = len /\ DOMAIN Rows = 1..len
      /\ \A i \in 1..len : Rows[i] = [c \in Categories |-> data[c][i - 1]]
  BY <1>1, RowsRead, McfssAssumption DEF TypeOK
<1>3. KeyCategory \in Categories
  BY McfssAssumption
<1>4. ASSUME UNCHANGED <<data, len>> PROVE Rows' = Rows
  BY <1>4 DEF Rows
<1>5. CASE AddFull(r)
  BY <1>2, <1>4, <1>5 DEF AddFull, Assoc!Refuse, Answer, Assoc!Answer
<1>6. CASE AddPresent(r)
  <2>1. Assoc!Present(KeyCategory, r[KeyCategory])
    BY <1>1, <1>3, <1>6, IndexIsFirst DEF AddPresent
  <2> QED BY <1>2, <1>4, <1>6, <2>1 DEF AddPresent, Assoc!Add, Answer, Assoc!Answer
<1>7. CASE AddNew(r)
  <2>1. ~Assoc!Present(KeyCategory, r[KeyCategory])
    BY <1>1, <1>3, <1>7, IndexIsFirst DEF AddNew
  <2>2. /\ len' = len + 1
        /\ data' = [c \in Categories |-> [data[c] EXCEPT ![len] = r[c]]]
    BY <1>7 DEF AddNew
  <2>3. ASSUME NEW i \in 1..(len + 1), NEW c \in Categories
        PROVE  data'[c][i - 1] = IF i = len + 1 THEN r[c] ELSE data[c][i - 1]
    <3>1. len \in 0..(Cap - 1) /\ i - 1 \in 0..(Cap - 1) /\ (i - 1 = len <=> i = len + 1)
      BY <1>2, <1>7 DEF AddNew
    <3>2. data[c] \in [0..(Cap - 1) -> Items]
      BY <1>1 DEF TypeOK
    <3> QED BY <2>2, <3>1, <3>2
  <2>4. Append(Rows, r) \in Seq(Row) /\ Len(Append(Rows, r)) = len + 1
        /\ \A i \in 1..(len + 1) : Append(Rows, r)[i] = IF i = len + 1 THEN r ELSE Rows[i]
    BY <1>2
  <2>5. Rows' \in Seq(Row) /\ Len(Rows') = len + 1
    <3>1. Rows' = [i \in 1..(len + 1) |-> [c \in Categories |-> data'[c][i - 1]]]
      BY <2>2 DEF Rows
    <3>2. ASSUME NEW i \in 1..(len + 1) PROVE [c \in Categories |-> data'[c][i - 1]] \in Row
      <4>1. i - 1 \in 0..(Cap - 1)
        BY <1>2, <1>7 DEF AddNew
      <4> QED BY <1>1, <4>1 DEF TypeOK, Row
    <3> QED BY <1>2, <3>1, <3>2, IsASeq
  <2>6. ASSUME NEW i \in 1..(len + 1) PROVE Rows'[i] = Append(Rows, r)[i]
    <3>1. Rows'[i] = [c \in Categories |-> data'[c][i - 1]]
      BY <2>2 DEF Rows
    <3>2. CASE i = len + 1
      <4>1. Rows'[i] = [c \in Categories |-> r[c]]
        BY <2>3, <3>1, <3>2
      <4> QED BY <2>4, <3>2, <4>1 DEF Row
    <3>3. CASE i # len + 1
      <4>1. i \in 1..len
        BY <1>2, <3>3
      <4>2. Rows'[i] = [c \in Categories |-> data[c][i - 1]]
        BY <2>3, <3>1, <3>3
      <4> QED BY <1>2, <2>4, <3>3, <4>1, <4>2
    <3> QED BY <3>2, <3>3
  <2>7. Rows' = Append(Rows, r)
    BY <2>4, <2>5, <2>6, SeqEqual
  <2>8. len < Cap
    BY <1>2, <1>7 DEF AddNew
  <2> QED BY <1>2, <1>7, <2>1, <2>7, <2>8 DEF AddNew, Assoc!Add, Answer, Assoc!Answer
<1> QED BY <1>5, <1>6, <1>7

(* mcfsSetRemove: the rows behind the first one with the item move down,   *)
(* in all the arrays, and the others stay.                                 *)
LEMMA RemoveRefines ==
  ASSUME TypeOK, NEW c \in Categories, NEW x \in Items, RemovePresent(c, x)
  PROVE  Assoc!Remove(c, x)
<1> DEFINE k == Index(c, x)
<1>1. /\ TypeOK /\ len \in Nat /\ len <= Cap /\ Cap \in Nat
      /\ Len(Rows) = len /\ DOMAIN Rows = 1..len
      /\ \A i \in 1..len : Rows[i] = [d \in Categories |-> data[d][i - 1]]
  BY RowsRead, McfssAssumption DEF TypeOK
<1>2. k + 1 \in 1..len /\ Assoc!IsFirst(k + 1, c, x) /\ k \in 0..(len - 1)
  <2>1. k # NotFound
    BY DEF RemovePresent
  <2> QED BY <1>1, <2>1, IndexIsFirst, IndexProperties
<1>3. /\ data' = [d \in Categories |-> Shift(data[d], len, k)]
      /\ len' = len - 1 /\ ret' = Answer("ok", x)
  BY DEF RemovePresent
<1> HIDE DEF k
<1> DEFINE shifted == [j \in 1..(Len(Rows) - 1) |-> IF j < k + 1 THEN Rows[j] ELSE Rows[j + 1]]
<1>4. ASSUME NEW j \in 1..(len - 1), NEW d \in Categories
      PROVE  data'[d][j - 1] = IF j < k + 1 THEN data[d][j - 1] ELSE data[d][j]
  <2>1. j - 1 \in 0..(Cap - 1) /\ j - 1 < len - 1 /\ (k <= j - 1 <=> ~(j < k + 1)) /\ (j - 1) + 1 = j
    BY <1>1, <1>2
  <2>2. DOMAIN data[d] = 0..(Cap - 1)
    BY <1>1 DEF TypeOK
  <2>3. data'[d] = Shift(data[d], len, k)
    BY <1>3
  <2> QED BY <2>1, <2>2, <2>3 DEF Shift
<1>5. Rows' = [j \in 1..(len - 1) |-> [d \in Categories |-> data'[d][j - 1]]]
  BY <1>3 DEF Rows
<1>6. ASSUME NEW j \in 1..(len - 1)
      PROVE  [d \in Categories |-> data'[d][j - 1]] = IF j < k + 1 THEN Rows[j] ELSE Rows[j + 1]
  <2>1. j \in 1..len /\ j + 1 \in 1..len /\ (j + 1) - 1 = j
    BY <1>1
  <2>2. CASE j < k + 1
    <3>1. \A d \in Categories : data'[d][j - 1] = data[d][j - 1]
      BY <1>4, <2>2
    <3> QED BY <1>1, <2>1, <2>2, <3>1
  <2>3. CASE ~(j < k + 1)
    <3>1. \A d \in Categories : data'[d][j - 1] = data[d][j]
      BY <1>4, <2>3
    <3>2. Rows[j + 1] = [d \in Categories |-> data[d][j]]
      BY <1>1, <2>1
    <3> QED BY <2>3, <3>1, <3>2
  <2> QED BY <2>2, <2>3
<1>7. Rows' = shifted
  BY <1>1, <1>5, <1>6
<1>8. k + 1 \in DOMAIN Rows
  BY <1>1, <1>2
<1> QED BY <1>2, <1>3, <1>7, <1>8 DEF Assoc!Remove, Answer, Assoc!Answer

(* A store through the pointer that mcfsSetGetAssocItemPtr returns changes *)
(* one member of the first row with the item.                              *)
LEMMA StoreRefines ==
  ASSUME TypeOK, NEW c \in Categories, NEW x \in Items, NEW d \in Categories, NEW y \in Items,
         AssocStore(c, x, d, y)
  PROVE  Assoc!Update(c, x, d, y)
<1> DEFINE k == Index(c, x)
<1>1. /\ TypeOK /\ len \in Nat /\ len <= Cap /\ Cap \in Nat
      /\ Rows \in Seq(Row) /\ Len(Rows) = len /\ DOMAIN Rows = 1..len
      /\ \A i \in 1..len : Rows[i] = [e \in Categories |-> data[e][i - 1]]
  BY RowsRead, McfssAssumption DEF TypeOK
<1>2. k + 1 \in 1..len /\ Assoc!IsFirst(k + 1, c, x) /\ k \in 0..(len - 1)
  <2>1. k # NotFound
    BY DEF AssocStore
  <2> QED BY <1>1, <2>1, IndexIsFirst, IndexProperties
<1>3. /\ data' = [data EXCEPT ![d] = [data[d] EXCEPT ![k] = y]]
      /\ len' = len /\ ret' = Answer("ok", x)
  BY DEF AssocStore
<1> HIDE DEF k
<1> DEFINE stored == [Rows EXCEPT ![k + 1] = [Rows[k + 1] EXCEPT ![d] = y]]
<1>5. ASSUME NEW j \in 1..len, NEW e \in Categories
      PROVE  data'[e][j - 1] = IF j = k + 1 /\ e = d THEN y ELSE data[e][j - 1]
  <2>1. j - 1 \in 0..(Cap - 1) /\ (j - 1 = k <=> j = k + 1) /\ k \in 0..(Cap - 1)
    BY <1>1, <1>2
  <2>2. data \in [Categories -> [0..(Cap - 1) -> Items]]
    BY <1>1 DEF TypeOK
  <2>3. data[d] \in [0..(Cap - 1) -> Items]
    BY <2>2
  <2>4. data'[e] = IF e = d THEN [data[d] EXCEPT ![k] = y] ELSE data[e]
    BY <1>3, <2>2
  <2> QED BY <2>1, <2>3, <2>4
<1>6. Rows' = [j \in 1..len |-> [e \in Categories |-> data'[e][j - 1]]]
  BY <1>3 DEF Rows
<1>7. ASSUME NEW j \in 1..len
      PROVE  [e \in Categories |-> data'[e][j - 1]]
               = IF j = k + 1 THEN [Rows[k + 1] EXCEPT ![d] = y] ELSE Rows[j]
  <2>1. Rows[j] = [e \in Categories |-> data[e][j - 1]]
    BY <1>1
  <2>2. CASE j = k + 1
    <3>1. \A e \in Categories : data'[e][j - 1] = IF e = d THEN y ELSE data[e][j - 1]
      BY <1>5, <2>2
    <3>2. [Rows[j] EXCEPT ![d] = y]
             = [e \in Categories |-> IF e = d THEN y ELSE data[e][j - 1]]
      BY <2>1
    <3> QED BY <2>2, <3>1, <3>2
  <2>3. CASE j # k + 1
    <3>1. \A e \in Categories : data'[e][j - 1] = data[e][j - 1]
      BY <1>5, <2>3
    <3> QED BY <2>1, <2>3, <3>1
  <2> QED BY <2>2, <2>3
<1>8. stored = [j \in 1..len |-> IF j = k + 1 THEN [Rows[k + 1] EXCEPT ![d] = y] ELSE Rows[j]]
  BY <1>1, <1>2
<1>9. Rows' = stored
  BY <1>6, <1>7, <1>8
<1>10. k + 1 \in DOMAIN Rows
  BY <1>1, <1>2
<1> QED BY <1>2, <1>3, <1>9, <1>10 DEF Assoc!Update, Answer, Assoc!Answer

(* mcfsSetDestroy leaves no row.                                           *)
LEMMA DestroyRefines ==
  ASSUME Destroy
  PROVE  Assoc!Destroy
<1>1. len' = 0 /\ ret' = Answer("ok", NoItem)
  BY DEF Destroy
<1>2. Rows' = [i \in 1..0 |-> [c \in Categories |-> data'[c][i - 1]]]
  BY <1>1 DEF Rows
<1>3. Rows' = <<>>
  BY <1>2
<1> QED BY <1>1, <1>3 DEF Assoc!Destroy, Answer, Assoc!Answer

(* Every step of the set is a step of the list.                            *)
LEMMA NextRefines ==
  ASSUME TypeOK, [Next]_vars
  PROVE  [Assoc!Next]_(Assoc!vars)
<1> USE DEF Assoc!Next
<1>1. ASSUME NEW r \in Row, cap = Cap, AddFull(r) \/ AddNew(r) \/ AddPresent(r)
      PROVE  Assoc!Next
  <2>1. r \in Assoc!Row
    BY DEF Row, Assoc!Row
  <2> QED BY <1>1, <2>1, AddRefines
<1>2. ASSUME NEW c \in Categories, NEW x \in Items, RemoveAbsent(c, x) \/ AssocAbsent(c, x)
      PROVE  Assoc!Next
  <2>1. Index(c, x) = NotFound /\ ret' = Answer("absent", x) /\ UNCHANGED <<data, len>>
    BY <1>2 DEF RemoveAbsent, AssocAbsent
  <2>2. ~Assoc!Present(c, x)
    BY <2>1, IndexIsFirst
  <2>3. Rows' = Rows
    BY <2>1 DEF Rows
  <2>4. Assoc!Absent(c, x)
    BY <2>1, <2>2, <2>3 DEF Assoc!Absent, Answer, Assoc!Answer
  <2> QED BY <2>4
<1>3. ASSUME NEW c \in Categories, NEW x \in Items, RemovePresent(c, x)
      PROVE  Assoc!Next
  BY <1>3, RemoveRefines
<1>4. ASSUME NEW c \in Categories, NEW x \in Items, NEW d \in Categories, NEW y \in Items,
             AssocStore(c, x, d, y)
      PROVE  Assoc!Next
  BY <1>4, StoreRefines
<1>5. CASE Destroy
  BY <1>5, DestroyRefines
<1>6. CASE UNCHANGED vars
  BY <1>6 DEF vars, Assoc!vars, Rows
<1> QED BY <1>1, <1>2, <1>3, <1>4, <1>5, <1>6 DEF Next

(* Whatever is added, removed or stored, for any number of arrays of any   *)
(* length: the set behaves as a list of structs, in which the members of a *)
(* row cannot part.                                                        *)
THEOREM ArraysImplementRows == Spec => ImplementsAssocList
<1>1. Init => Assoc!Init
  <2> SUFFICES ASSUME Init PROVE Assoc!Init
    OBVIOUS
  <2>1. Rows = <<>> /\ ret = Answer("none", NoItem)
    BY DEF Init, Rows
  <2> QED BY <2>1 DEF Assoc!Init, Answer, Assoc!Answer
<1>2. TypeOK /\ [Next]_vars => [Assoc!Next]_(Assoc!vars)
  BY NextRefines
<1> QED BY <1>1, <1>2, TypeCorrect, PTL DEF Spec, ImplementsAssocList, Assoc!Spec
=============================================================================
