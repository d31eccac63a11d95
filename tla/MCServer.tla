------------------------------ MODULE MCServer ------------------------------
(* Model values and symmetry for Server.                                   *)
EXTENDS Server, TLC

CONSTANTS c1, c2, c3, c4, c5

TwoConns == {c1, c2}
ThreeConns == {c1, c2, c3}
FiveConns == {c1, c2, c3, c4, c5}

MinusOne == -1

(* Addresses, and the one byte of them that is kept.                       *)
OneIp == [c \in Conns |-> "10.0.0.1"]
TwoIps == [c \in Conns |-> IF c = c1 THEN "10.0.0.1" ELSE "11.0.0.1"]
SameNet == [c \in Conns |-> IF c = c1 THEN "10.0.0.1" ELSE "10.0.0.2"]
FirstByte == [a \in {"10.0.0.1", "10.0.0.2"} |-> 10] @@ [a \in {"11.0.0.1"} |-> 11]

(* All connections are alike if they come from one address; otherwise all  *)
(* but the first.                                                          *)
ConnSymmetry == Permutations(Conns)
OtherConnSymmetry == Permutations(Conns \ {c1})
=============================================================================
