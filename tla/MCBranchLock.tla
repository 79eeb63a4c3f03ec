---------------------------- MODULE MCBranchLock ----------------------------
(* Two or three tests, two of them on the same branch, for TLC. *)
EXTENDS BranchLock, TLC

CONSTANTS j1, j2, j3, b1, b2, m, w

MCBranchOf == (j1 :> b1) @@ (j2 :> b1) @@ (j3 :> b2)
MCBranchOfTwo == (j1 :> b1) @@ (j2 :> b1)
=============================================================================
