---------------------------- MODULE StringBuilder ----------------------------
(***************************************************************************)
(* The string builder of lib/string_builder.c, as operators on a record: a *)
(* buffer of cap bytes (0 for NULL) and the text in it.  What the code     *)
(* stores beyond cap is in text, too: it has been written there.           *)
(*                                                                         *)
(* The capacity is computed in an int of IntBits bits from the leading     *)
(* zeros of an unsigned of IntBits bits, although sizes have 2 * IntBits.  *)
(* Pow2 is the table of the powers of 2.                                   *)
(***************************************************************************)
EXTENDS Integers, Sequences

CONSTANTS
  IntBits,   (* the width of an int; a size_t has twice as many            *)
  MinCap,    (* the 64 of stringBuilderExpandBuf                           *)
  Pow2       (* 2^k for k in 0..2 * IntBits                                *)

ASSUME BuilderAssumption ==
  /\ IntBits \in Nat /\ IntBits > 2 /\ MinCap \in Nat \ {0}
  /\ Pow2 \in [0..(2 * IntBits) -> Nat] /\ Pow2[0] = 1
  /\ \A k \in 1..(2 * IntBits) : Pow2[k] = 2 * Pow2[k - 1]

(* newStringBuilder                                                        *)
NewBuffer(c) == [cap |-> c, text |-> <<>>]

(* What stringBuilderBuildAndDestroy and stringBuilderDestroy leave.       *)
NoBuffer == NewBuffer(0)

(* The bits of x: IntBits less __builtin_clz(x), which is defined for x > 0*)
BitLength(x) == CHOOSE k \in 0..IntBits : x < Pow2[k] /\ (k > 0 => Pow2[k - 1] <= x)

(* Mutant of Shifts: the power of 2 before.                                *)
ShiftsLess(n) ==
  LET x == (n - 1) % Pow2[IntBits]
  IN  IF x = 0 THEN IntBits..(2 * IntBits - 1) ELSE {IntBits + BitLength(x) - 1}

(* The amounts of the shift in string_builder.c:33 when n bytes are needed:*)
(* any, if the unsigned is 0.                                              *)
Shifts(n) ==
  LET x == (n - 1) % Pow2[IntBits]
  IN  IF x = 0 THEN IntBits..(2 * IntBits - 1) ELSE {IntBits + BitLength(x)}

(* 1 << s in an int: the machine takes s modulo the width (the language    *)
(* defines nothing), and the last bit is the sign.                         *)
ShiftedOne(s) ==
  LET k == IF s = 2 * IntBits THEN 0 ELSE s - IntBits
  IN  IF k = IntBits - 1 THEN -Pow2[k] ELSE Pow2[k]

(* Mutant of NewCaps: no lower bound.                                      *)
UnboundedCaps(n) == {ShiftedOne(s) : s \in Shifts(n)}

(* stringBuilderExpandBuf: the capacities it may give when n are needed.   *)
NewCaps(n) == {IF ShiftedOne(s) > MinCap THEN ShiftedOne(s) ELSE MinCap : s \in Shifts(n)}

Expanded(b, n) == {[b EXCEPT !.cap = c] : c \in NewCaps(n)}

(* stringBuilderAppend: expand if need be, then copy.                      *)
Appended(b, piece) ==
  LET n == Len(b.text) + Len(piece)
      room == IF b.cap < n THEN Expanded(b, n) ELSE {b}
  IN  {[r EXCEPT !.text = @ \o piece] : r \in room}

(* Everything that was stored lies inside of the buffer.                   *)
Fits(b) == Len(b.text) <= b.cap
=============================================================================
