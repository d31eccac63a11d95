------------------------------- MODULE MCMcfss -------------------------------
(* Model values and symmetry for Mcfss.                                    *)
EXTENDS Mcfss, TLC

CONSTANTS a, b, c, d

FourItems == {a, b, c, d}
TwoCategories == {0, 1}

(* Items are only compared for equality.                                   *)
ItemSymmetry == Permutations(Items)
=============================================================================
