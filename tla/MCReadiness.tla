----------------------------- MODULE MCReadiness -----------------------------
(* Readiness for TLC; liveness is checked, so no symmetry. *)
EXTENDS Readiness
=============================================================================
