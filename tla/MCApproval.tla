----------------------------- MODULE MCApproval -----------------------------
(* Approval, for TLC. *)
EXTENDS Approval, TLC
=============================================================================
