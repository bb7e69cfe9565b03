--------------------------- MODULE MCApprovalKeys ---------------------------
(* Values of the constants of ApprovalKeys for TLC. *)
EXTENDS ApprovalKeys
=============================================================================
