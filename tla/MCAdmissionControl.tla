------------------------- MODULE MCAdmissionControl -------------------------
(* Instances of AdmissionControl for TLC. *)
EXTENDS AdmissionControl, TLC

Symmetry == Permutations(Requests)
=============================================================================
