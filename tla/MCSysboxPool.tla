----------------------------- MODULE MCSysboxPool -----------------------------
(* SysboxPool for TLC. *)
EXTENDS SysboxPool

CONSTANTS s1, s2, j1, j2
=============================================================================
