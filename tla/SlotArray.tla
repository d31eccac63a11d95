------------------------------ MODULE SlotArray ------------------------------
(***************************************************************************)
(* The arrays of lib/mcfss.c: functions on 0..(cap-1) of which the first n *)
(* elements are in use.  Mcfss keeps one per category; the server walks    *)
(* the one that holds the pollfds by index.                                *)
(***************************************************************************)
EXTENDS Integers

(* The (size_t)-1 that findInArray returns.                                *)
NotFound == -1

(* findInArray: the first of n elements that is equal to x.                *)
Find(a, n, x) ==
  IF \E i \in 0..(n - 1) : a[i] = x
    THEN CHOOSE i \in 0..(n - 1) : a[i] = x /\ \A j \in 0..(i - 1) : a[j] # x
    ELSE NotFound

(* countInArray: the slots in use that hold x.                             *)
SlotsOf(a, n, x) == {i \in 0..(n - 1) : a[i] = x}

(* Mutant of Shift: one element too few is moved.                          *)
ShiftTooFew(a, n, i) ==
  [j \in DOMAIN a |-> IF i <= j /\ j < n - 2 THEN a[j + 1] ELSE a[j]]

(* The memmove of mcfsSetRemove: the elements behind i move down by one,   *)
(* and the last of them stays behind as a stale copy.                      *)
Shift(a, n, i) ==
  [j \in DOMAIN a |-> IF i <= j /\ j < n - 1 THEN a[j + 1] ELSE a[j]]
=============================================================================
