--------------------------- MODULE MCApprovalGate ---------------------------
(* ApprovalGate, checked as it is. *)
EXTENDS ApprovalGate
=============================================================================
