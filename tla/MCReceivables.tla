--------------------------- MODULE MCReceivables ---------------------------
(* Instances of Receivables for TLC: the slots of a kind are interchangeable. *)
EXTENDS Receivables, TLC

Symmetry == Permutations(Payments) \cup Permutations(Returns)
              \cup Permutations(WriteOffs)
=============================================================================
