---------------------------- MODULE MCControlPlane ----------------------------
(* Two requests of one learner, one of them for the workshop; one learner, *)
(* two tenants and two environments.                                       *)
EXTENDS ControlPlane

CONSTANTS r1, r2, u1

MCAskedBy == [r \in Request |-> u1]
=============================================================================
