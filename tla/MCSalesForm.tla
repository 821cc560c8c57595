----------------------------- MODULE MCSalesForm -----------------------------
(* An order waiting for approval, and one to be created; a unit that is in *)
(* the waiting order and one in stock.                                     *)
EXTENDS SalesForm
CONSTANTS o1, o2, u1, u2
MCExisting == [o \in {o1} |-> [units |-> {u1}, status |-> "pending"]]

\* As well as a completed order.
MCBoth == [o \in {o1, o2} |-> IF o = o1 THEN [units |-> {u1}, status |-> "pending"]
                              ELSE [units |-> {u2}, status |-> "completed"]]
=============================================================================
