--------------------------- MODULE MCSalesOrders ---------------------------
(* Instances of SalesOrders for TLC: slots, units, returns and quotation    *)
(* lines are interchangeable.                                               *)
EXTENDS SalesOrders, TLC

Symmetry == Permutations(Orders) \cup Permutations(Units)
              \cup Permutations(Returns) \cup Permutations(QuoteItems)
=============================================================================
