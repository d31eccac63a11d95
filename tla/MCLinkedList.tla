---------------------------- MODULE MCLinkedList ----------------------------
(* Model values and symmetry for LinkedList.                               *)
EXTENDS LinkedList, TLC

CONSTANTS t1, t2, t3, a, b, n1, n2, n3

TwoThreads == {t1, t2}
ThreeThreads == {t1, t2, t3}
OneDatum == {a}
TwoData == {a, b}
ThreeNodes == {n1, n2, n3}

(* Addresses, threads and data are only compared for equality.             *)
ListSymmetry == Permutations(Threads) \cup Permutations(Data)
                \cup Permutations(Nodes)
=============================================================================
