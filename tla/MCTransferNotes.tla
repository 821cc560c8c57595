--------------------------- MODULE MCTransferNotes ---------------------------
(* TransferNotes for TLC: rows, units and branches are interchangeable. *)
EXTENDS TransferNotes, TLC

Symmetry ==
  Permutations(Notes) \cup Permutations(Lines) \cup Permutations(Serials)
    \cup Permutations(Lots) \cup Permutations(Places)
=============================================================================
