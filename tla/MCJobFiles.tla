----------------------------- MODULE MCJobFiles -----------------------------
(* JobFiles, for TLC. *)
EXTENDS JobFiles, TLC
=============================================================================
