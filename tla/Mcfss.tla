-------------------------------- MODULE Mcfss --------------------------------
(***************************************************************************)
(* The multi-category fixed-size set of lib/mcfss.c: one array per         *)
(* category, a length that all of them share, and operations that keep     *)
(* what belongs together at the same index.  One thread uses a set.        *)
(***************************************************************************)
EXTENDS Sequences, FiniteSets, SlotArray

CONSTANTS
  Cap,          (* set->cap                                                *)
  Categories,   (* 0..n_categories-1                                       *)
  KeyCategory,  (* the exist_check_category of the callers: one for a set  *)
  Items,        (* the items of a category, of whatever size               *)
  NoItem        (* no item                                                 *)

ASSUME McfssAssumption == Cap \in Nat /\ KeyCategory \in Categories

VARIABLES
  data,  (* set->data; what an addition has not filled is uninitialised    *)
  len,   (* set->len                                                       *)
  cap,   (* set->cap                                                       *)
  ret    (* what the last operation returned, and for which item           *)

vars == <<data, len, cap, ret>>

Row == [Categories -> Items]

(* The result of an operation on an item.                                  *)
Answer(code, x) == [code |-> code, item |-> x]

(* newMcfsSet: malloc leaves anything in the arrays.                       *)
Init ==
  /\ data \in [Categories -> [0..(Cap - 1) -> Items]]
  /\ len = 0 /\ cap = Cap /\ ret = Answer("none", NoItem)

Index(c, x) == Find(data[c], len, x)

-----------------------------------------------------------------------------
(* mcfsSetAdd                                                              *)

AddFull(r) ==
  /\ len = cap
  /\ ret' = Answer("full", r[KeyCategory])
  /\ UNCHANGED <<data, len, cap>>

(* Mutant of AddNew: the capacity is not looked at.                        *)
AddUnchecked(r) ==
  /\ Index(KeyCategory, r[KeyCategory]) = NotFound /\ len <= cap
  /\ data' = [c \in Categories |-> [data[c] EXCEPT ![len] = r[c]]]
  /\ len' = len + 1
  /\ ret' = Answer("ok", r[KeyCategory])
  /\ UNCHANGED cap

AddNew(r) ==
  /\ len # cap /\ Index(KeyCategory, r[KeyCategory]) = NotFound
  /\ data' = [c \in Categories |-> [data[c] EXCEPT ![len] = r[c]]]
  /\ len' = len + 1
  /\ ret' = Answer("ok", r[KeyCategory])
  /\ UNCHANGED cap

(* Mutant of AddPresent: a duplicate is added all the same.                *)
AddDuplicate(r) ==
  /\ len # cap /\ Index(KeyCategory, r[KeyCategory]) # NotFound
  /\ data' = [c \in Categories |-> [data[c] EXCEPT ![len] = r[c]]]
  /\ len' = len + 1
  /\ ret' = Answer("ok", r[KeyCategory])
  /\ UNCHANGED cap

AddPresent(r) ==
  /\ len # cap /\ Index(KeyCategory, r[KeyCategory]) # NotFound
  /\ ret' = Answer("ok", r[KeyCategory])
  /\ UNCHANGED <<data, len, cap>>

-----------------------------------------------------------------------------
(* mcfsSetRemove                                                           *)

RemoveAbsent(c, x) ==
  /\ Index(c, x) = NotFound
  /\ ret' = Answer("absent", x)
  /\ UNCHANGED <<data, len, cap>>

(* Mutant of RemovePresent: only the array that was searched moves.        *)
RemoveInOneCategory(c, x) ==
  LET i == Index(c, x) IN
  /\ i # NotFound
  /\ data' = [data EXCEPT ![c] = Shift(@, len, i)]
  /\ len' = len - 1
  /\ ret' = Answer("ok", x)
  /\ UNCHANGED cap

RemovePresent(c, x) ==
  LET i == Index(c, x) IN
  /\ i # NotFound
  /\ data' = [d \in Categories |-> Shift(data[d], len, i)]
  /\ len' = len - 1
  /\ ret' = Answer("ok", x)
  /\ UNCHANGED cap

-----------------------------------------------------------------------------
(* mcfsSetGetAssocItemPtr, and what the caller stores through the pointer. *)
(* Nothing keeps it from storing into the keys, through the pointer or the *)
(* array, which is public: the server has poll write revents into them and *)
(* resets them in its walk, by which two keys can become equal.            *)

AssocAbsent(c, x) ==
  /\ Index(c, x) = NotFound
  /\ ret' = Answer("absent", x)
  /\ UNCHANGED <<data, len, cap>>

AssocStore(c, x, d, y) ==
  LET i == Index(c, x) IN
  /\ i # NotFound
  /\ data' = [data EXCEPT ![d] = [@ EXCEPT ![i] = y]]
  /\ ret' = Answer("ok", x)
  /\ UNCHANGED <<len, cap>>

(* mcfsSetDestroy: no operation is called on the set any more, except that *)
(* a full one (length 0, capacity 0) would refuse an addition.             *)
Destroy ==
  /\ len' = 0 /\ cap' = 0
  /\ ret' = Answer("ok", NoItem)
  /\ UNCHANGED data

-----------------------------------------------------------------------------
Next ==
  /\ cap = Cap
  /\ \/ \E r \in Row : AddFull(r) \/ AddNew(r) \/ AddPresent(r)
     \/ \E c \in Categories, x \in Items :
          \/ RemoveAbsent(c, x) \/ RemovePresent(c, x) \/ AssocAbsent(c, x)
          \/ \E d \in Categories, y \in Items : AssocStore(c, x, d, y)
     \/ Destroy

Spec == Init /\ [][Next]_vars

-----------------------------------------------------------------------------
(* Properties                                                              *)

(* The arrays keep their size, and the length never exceeds it.            *)
TypeOK ==
  /\ data \in [Categories -> [0..(Cap - 1) -> Items]]
  /\ len \in 0..cap /\ cap \in {0, Cap}
  /\ ret \in [code : {"none", "ok", "full", "absent"}, item : Items \cup {NoItem}]

(* The rows with a key.                                                    *)
Copies(x) == Cardinality(SlotsOf(data[KeyCategory], len, x))

(* Whatever its callers have stored into the keys, the set does not add to *)
(* the duplicates: an addition makes the first row with its key, and what  *)
(* a removal moves and leaves behind as a stale copy counts once.          *)
DuplicatesAreNotAdded ==
  [][len' # len =>
       \A x \in Items : Copies(x)' <= Copies(x) \/ (Copies(x) = 0 /\ Copies(x)' = 1)]_vars

Rows == [i \in 1..len |-> [c \in Categories |-> data[c][i - 1]]]

Assoc == INSTANCE AssocList WITH rows <- Rows

(* The parallel arrays implement a list of structs: whatever is added,     *)
(* removed or stored, the members of a row stay together.                  *)
ImplementsAssocList == Assoc!Spec

-----------------------------------------------------------------------------
(* What the documentation or an assert says and the code does not do: TLC  *)
(* refutes each of these; README.md tells with which constants, and how.   *)

(* include/net77/mcfss.h:37 promises "0 if item was added or was already   *)
(* present": an addition of an item that is there does not fail.           *)
PresentIsNoError ==
  [][ret'.code = "full" => Index(KeyCategory, ret'.item) = NotFound]_vars
=============================================================================
