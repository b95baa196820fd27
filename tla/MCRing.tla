------------------------------- MODULE MCRing -------------------------------
(* MPSCRing for TLC. *)
EXTENDS MPSCRing
=============================================================================
