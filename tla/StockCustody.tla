---------------------------- MODULE StockCustody ----------------------------
(***************************************************************************)
(* What the sales side promises about the physical units, whatever tables  *)
(* and statuses it keeps: a unit is on the shelf, set aside for one        *)
(* quotation line, in the hands of one order, or gone for good.  A step    *)
(* serves one order or empties one reservation; goods never pass from one  *)
(* order to another without going over the shelf.                          *)
(***************************************************************************)
CONSTANTS Orders, Units, QuoteItems, None
VARIABLE custody

Shelf == [at |-> "shelf", by |-> None]
Gone == [at |-> "gone", by |-> None]
SetAside(q) == [at |-> "reservation", by |-> q]
With(o) == [at |-> "order", by |-> o]

Reservations == {SetAside(q) : q \in QuoteItems}

Init == custody \in [Units -> {Shelf} \cup Reservations]

\* An order takes goods from the shelf or a reservation and gives goods back,
\* to the shelf or to be scrapped; an edit does both at once.
Serve(o) ==
  /\ \A u \in Units :
       \/ custody'[u] = custody[u]
       \/ custody[u] \in {Shelf} \cup Reservations /\ custody'[u] = With(o)
       \/ custody[u] = With(o) /\ custody'[u] \in {Shelf, Gone}
  /\ DOMAIN custody' = Units

\* The whole reservation of a quotation line goes back on the shelf.
Release(q) ==
  custody' = [u \in Units |-> IF custody[u] = SetAside(q) THEN Shelf
                                                          ELSE custody[u]]

Next == (\E o \in Orders : Serve(o)) \/ (\E q \in QuoteItems : Release(q))

Spec == Init /\ [][Next]_custody
=============================================================================
