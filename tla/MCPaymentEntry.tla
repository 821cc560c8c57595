--------------------------- MODULE MCPaymentEntry ---------------------------
(* Two parties: one with two open documents, one with one.                 *)
EXTENDS PaymentEntry
CONSTANTS p1, p2
MCPartyOf == [d \in 1..3 |-> IF d = 2 THEN p2 ELSE p1]
MCOpening == [d \in 1..3 |-> IF d = 1 THEN 2 ELSE 1]
=============================================================================
