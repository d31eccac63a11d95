------------------------------ MODULE AssocList ------------------------------
(***************************************************************************)
(* What include/net77/mcfss.h promises: a set of rows of bounded size, as  *)
(* if the items that belong together were packed into one struct.  The     *)
(* order of the rows shows in which of two equal items is found first.     *)
(***************************************************************************)
EXTENDS Naturals, Sequences

CONSTANTS
  Cap,          (* the capacity                                            *)
  Categories,   (* the members of the struct                               *)
  KeyCategory,  (* the category in which additions look for duplicates     *)
  Items,        (* the values of a member                                  *)
  NoItem        (* no item                                                 *)

VARIABLES
  rows,  (* the structs                                                    *)
  ret    (* what the last operation returned, and for which item           *)

vars == <<rows, ret>>

Row == [Categories -> Items]

(* The result of an operation on an item.                                  *)
Answer(code, x) == [code |-> code, item |-> x]

(* The first row with x in category c.                                     *)
IsFirst(i, c, x) == /\ i \in DOMAIN rows /\ rows[i][c] = x
                    /\ \A j \in 1..(i - 1) : rows[j][c] # x

Present(c, x) == \E i \in DOMAIN rows : rows[i][c] = x

Init == rows = <<>> /\ ret = Answer("none", NoItem)

(* A full set refuses whatever it is given.                                *)
Refuse(r) == Len(rows) = Cap /\ ret' = Answer("full", r[KeyCategory]) /\ UNCHANGED rows

Add(r) ==
  /\ Len(rows) < Cap
  /\ rows' = IF Present(KeyCategory, r[KeyCategory]) THEN rows ELSE Append(rows, r)
  /\ ret' = Answer("ok", r[KeyCategory])

Remove(c, x) ==
  \E i \in DOMAIN rows :
    /\ IsFirst(i, c, x)
    /\ rows' = [j \in 1..(Len(rows) - 1) |-> IF j < i THEN rows[j] ELSE rows[j + 1]]
    /\ ret' = Answer("ok", x)

Absent(c, x) == ~Present(c, x) /\ ret' = Answer("absent", x) /\ UNCHANGED rows

(* The member d of the first row with x in c is overwritten with y, which  *)
(* another row may have there, in the category of the keys too.            *)
Update(c, x, d, y) ==
  \E i \in DOMAIN rows :
    /\ IsFirst(i, c, x)
    /\ rows' = [rows EXCEPT ![i] = [@ EXCEPT ![d] = y]]
    /\ ret' = Answer("ok", x)

Destroy == rows' = <<>> /\ ret' = Answer("ok", NoItem)

Next ==
  \/ \E r \in Row : Refuse(r) \/ Add(r)
  \/ \E c \in Categories, x \in Items :
       \/ Remove(c, x) \/ Absent(c, x)
       \/ \E d \in Categories, y \in Items : Update(c, x, d, y)
  \/ Destroy

Spec == Init /\ [][Next]_vars
=============================================================================
