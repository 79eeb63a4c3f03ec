------------------------- MODULE MCSessionTeardown -------------------------
(* SessionTeardown for TLC. *)
EXTENDS SessionTeardown

CONSTANTS s1, s2, n1
=============================================================================
