-------------------------- MODULE MCContainerReaper --------------------------
(* ContainerReaper for TLC. *)
EXTENDS ContainerReaper

CONSTANTS c1, c2
=============================================================================
