--------------------------- MODULE MCApprovalPages ---------------------------
(* Two documents: one decided while the other is opened.                   *)
EXTENDS ApprovalPages
CONSTANTS d1, d2
=============================================================================
