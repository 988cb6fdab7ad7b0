---------------------------- MODULE MCAllocation ----------------------------
(* Two target loops, one native and one isolated, over a small journal. *)
EXTENDS Allocation, TLC

CONSTANTS n, i, a1, a2, a3

MCLoops == { n, i }
MCAttempts == { a1, a2, a3 }
MCIsolated == { i }
MCMin == n :> 0 @@ i :> 1
MCMax == n :> 2 @@ i :> 1
MCCapacities == { 1, 2 }
MCSymmetry == Permutations(MCAttempts)
=============================================================================
