----------------------------- MODULE MCJobQueue -----------------------------
(* Instances of JobQueue for TLC. *)
EXTENDS JobQueue, TLC

\* Requests are interchangeable, and so are smoke commands.
Symmetry == Permutations(Web) \cup Permutations(Smokes)
=============================================================================
