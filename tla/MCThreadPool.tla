---------------------------- MODULE MCThreadPool ----------------------------
(* Model values and symmetry for ThreadPool.                               *)
EXTENDS ThreadPool, TLC

CONSTANTS d1, d2, j1, j2, j3

OneDispatcher == {d1}
TwoDispatchers == {d1, d2}
TwoJobs == {j1, j2}
ThreeJobs == {j1, j2, j3}

(* Jobs and dispatchers are only compared for equality.                    *)
PoolSymmetry == Permutations(Jobs) \cup Permutations(Dispatchers)
=============================================================================
