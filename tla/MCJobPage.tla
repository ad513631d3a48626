----------------------------- MODULE MCJobPage ------------------------------
(* JobPage, for TLC. *)
EXTENDS JobPage, TLC
=============================================================================
