------------------------------ MODULE MCPortal ------------------------------
(* Portal, for TLC; browsers are alike. *)
EXTENDS Portal, TLC

Symmetry == Permutations(Browsers)
=============================================================================
