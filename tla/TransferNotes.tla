---------------------------- MODULE TransferNotes ----------------------------
(***************************************************************************)
(* Item transfer notes: units listed on a note are reserved when the note  *)
(* is approved, in transit once it is dispatched, and in stock at the      *)
(* destination when they are received (modules/warehouse/service.py).      *)
(* Approval, rejection, cancellation, dispatch and receipt lock the note   *)
(* and the stock rows, so each is one action.  Editing or deleting a       *)
(* pending note and its lines locks nothing: the checks and the write are  *)
(* two actions and the request stays in edits between them.                *)
(*                                                                         *)
(* A place is a branch with one location.  A lot piece is one unit of      *)
(* batch- or untracked stock; a line for one names no unit until approval  *)
(* allocates it.                                                           *)
(***************************************************************************)
EXTENDS Naturals, FiniteSets

CONSTANTS Notes,     \* slots for item_transfer_note rows
          Lines,     \* slots for item_transfer_note_items rows
          Serials,   \* sales_stock rows with a barcode
          Lots,      \* lot pieces
          Places,    \* branches
          MaxEdits,  \* bound on the unlocked requests in flight
          Calls      \* the risky events that may happen

(***************************************************************************)
(*   stale_note     an edit is written after the note left "pending"       *)
(*   stale_line     a line is written after what its check saw changed     *)
(*   moved_source   the source of a note that has lines is changed         *)
(*   manual_status  the status of a unit that is not on the shelf is set   *)
(*                  by hand                                                *)
(***************************************************************************)
RiskyCalls == {"stale_note", "stale_line", "moved_source", "manual_status"}

Unallocated == "lot"
NoNote == "no note"

ASSUME CallsAssumption == Calls \subseteq RiskyCalls
ASSUME UnitsAssumption ==
  /\ Serials \cap Lots = {}
  /\ Unallocated \notin Serials \cup Lots
  /\ NoNote \notin Notes

VARIABLES note,      \* the note rows
          approval,  \* their rows in the approvals queue
          line,      \* the line rows
          stock,     \* status of each unit
          place,     \* branch of each unit
          edits      \* requests checked and not yet written

vars == <<note, approval, line, stock, place, edits>>

-----------------------------------------------------------------------------
Units == Serials \cup Lots

Moving == {"dispatched", "partially_received"}
OpenStatuses == {"pending", "approved"} \cup Moving
NoteStatuses ==
  OpenStatuses \cup {"none", "received", "rejected", "cancelled", "deleted"}

NoteRow == [status : NoteStatuses, from : Places, to : Places]
LineRow == [note : Notes \cup {NoNote},
            unit : Units \cup {Unallocated}, got : BOOLEAN]
FreeLine == [note |-> NoNote, unit |-> Unallocated, got |-> FALSE]

Edit ==
  [call : {"header"}, note : Notes, from : Places, to : Places]
    \cup [call : {"delete"}, note : Notes]
    \cup [call : {"add", "change"}, line : Lines, note : Notes,
          unit : Serials \cup {Unallocated}]
    \cup [call : {"remove"}, line : Lines]

TypeOK ==
  /\ note \in [Notes -> NoteRow]
  /\ approval \in
       [Notes -> {"none", "pending", "approved", "rejected", "cancelled"}]
  /\ line \in [Lines -> LineRow]
  /\ stock \in [Units -> {"available", "sold", "damaged",
                          "transfer_pending", "in_transit"}]
  /\ place \in [Units -> Places]
  /\ edits \subseteq Edit

LinesOf(n) == {l \in Lines : line[l].note = n}
UnitsOf(L) == {line[l].unit : l \in L} \cap Units
Status(n) == IF n = NoNote THEN "none" ELSE note[n].status

Risk(call) == call \in Calls

-----------------------------------------------------------------------------
(* Requests that lock nothing: the check *)

Pending(n) == Status(n) = "pending"

\* The unit is on no open note, other than through line l itself.
Unclaimed(l, u) ==
  \A k \in Lines \ {l} : line[k].unit = u => Status(line[k].note) \notin OpenStatuses

Shelf(n) == {u \in Lots : stock[u] = "available" /\ place[u] = note[n].from}

\* Mutant: the unit may be anywhere.
ListableFromAnywhere(l, n, u) == u = Unallocated \/ Unclaimed(l, u)

\* What the line's check reads of the note and the unit.
Listable(l, n, u) ==
  IF u = Unallocated
  THEN Cardinality({k \in LinesOf(n) \ {l} : line[k].unit \in Lots \cup {u}})
         < Cardinality(Shelf(n))
  ELSE place[u] = note[n].from /\ Unclaimed(l, u)

OnShelf(u) == u \in Units => stock[u] = "available"

Allowed(e) ==
  \/ e.call = "header" /\ Pending(e.note) /\ e.from # e.to
  \/ e.call = "delete" /\ Pending(e.note)
  \/ /\ e.call = "add"
     /\ line[e.line] = FreeLine
     /\ \A d \in edits : "line" \in DOMAIN d => d.line # e.line
     /\ Pending(e.note)
     /\ Listable(e.line, e.note, e.unit) /\ OnShelf(e.unit)
  \/ /\ e.call = "change"
     /\ Pending(line[e.line].note) /\ Pending(e.note)
     /\ Listable(e.line, e.note, e.unit) /\ OnShelf(e.unit)
  \/ e.call = "remove" /\ Pending(line[e.line].note)

CheckEdit(e) ==
  /\ Cardinality(edits) < MaxEdits
  /\ Allowed(e)
  /\ edits' = edits \cup {e}
  /\ UNCHANGED <<note, approval, line, stock, place>>

-----------------------------------------------------------------------------
(* Requests that lock nothing: the write *)

Exists(n) == Status(n) \notin {"none", "deleted"}

Fresh(n) == Risk("stale_note") \/ Pending(n)

\* Lots are counted again when the note is approved, units are not.
StillListable(l, n, u) ==
  Risk("stale_line") \/ u = Unallocated \/ Listable(l, n, u)

CommitHeader(e) ==
  /\ e.call = "header"
  /\ Exists(e.note) /\ Fresh(e.note)
  /\ \/ Risk("moved_source")
     \/ LinesOf(e.note) = {}
     \/ e.from = note[e.note].from
  /\ note' = [note EXCEPT ![e.note].from = e.from, ![e.note].to = e.to]
  /\ edits' = edits \ {e}
  /\ UNCHANGED <<approval, line, stock, place>>

\* A note with a receive note cannot be deleted (foreign key).
CommitDelete(e) ==
  /\ e.call = "delete"
  /\ Status(e.note) \notin {"none", "deleted", "partially_received", "received"}
  /\ Fresh(e.note)
  /\ note' = [note EXCEPT ![e.note].status = "deleted"]
  /\ line' = [l \in Lines |-> IF l \in LinesOf(e.note) THEN FreeLine ELSE line[l]]
  /\ approval' =
       [approval EXCEPT ![e.note] = IF @ = "pending" THEN "cancelled" ELSE @]
  /\ edits' = edits \ {e}
  /\ UNCHANGED <<stock, place>>

CommitAdd(e) ==
  /\ e.call = "add"
  /\ Exists(e.note) /\ Fresh(e.note)
  /\ StillListable(e.line, e.note, e.unit)
  /\ line' = [line EXCEPT ![e.line] =
                [note |-> e.note, unit |-> e.unit, got |-> FALSE]]
  /\ edits' = edits \ {e}
  /\ UNCHANGED <<note, approval, stock, place>>

\* Changing a line whose lot is already allocated is left out.
CommitChange(e) ==
  /\ e.call = "change"
  /\ line[e.line] # FreeLine /\ line[e.line].unit \notin Lots
  /\ Exists(e.note) /\ Fresh(line[e.line].note) /\ Fresh(e.note)
  /\ StillListable(e.line, e.note, e.unit)
  /\ line' = [line EXCEPT ![e.line].note = e.note, ![e.line].unit = e.unit]
  /\ edits' = edits \ {e}
  /\ UNCHANGED <<note, approval, stock, place>>

CommitRemove(e) ==
  /\ e.call = "remove"
  /\ line[e.line] # FreeLine
  /\ Fresh(line[e.line].note)
  /\ line' = [line EXCEPT ![e.line] = FreeLine]
  /\ edits' = edits \ {e}
  /\ UNCHANGED <<note, approval, stock, place>>

\* The request fails (row gone, deadlock, connection lost) and is rolled back.
Abandon(e) ==
  /\ edits' = edits \ {e}
  /\ UNCHANGED <<note, approval, line, stock, place>>

CommitEdit(e) == \/ CommitHeader(e) \/ CommitDelete(e) \/ CommitAdd(e)
                 \/ CommitChange(e) \/ CommitRemove(e) \/ Abandon(e)

-----------------------------------------------------------------------------
(* Requests that lock the note *)

WithStatus(n, s) == [note EXCEPT ![n].status = s]
WithStock(U, s) == [u \in Units |-> IF u \in U THEN s ELSE stock[u]]

Create(n, from, to) ==
  /\ note[n].status = "none"
  /\ from # to
  /\ note' = [note EXCEPT ![n] = [status |-> "pending", from |-> from, to |-> to]]
  /\ approval' = [approval EXCEPT ![n] = "pending"]
  /\ UNCHANGED <<line, stock, place, edits>>

\* Mutant: the units are not looked at again when the note is approved.
NotChecked(U) == TRUE

\* Every listed unit is still on the shelf.
AllOnShelf(U) == \A u \in U : stock[u] = "available"

\* Ways of giving each lot line of the note a piece of its own.
Allocations(n) ==
  {f \in [{l \in LinesOf(n) : line[l].unit = Unallocated} -> Shelf(n)] :
     \A k, l \in DOMAIN f : f[k] = f[l] => k = l}

Approve(n) ==
  /\ Pending(n) /\ approval[n] = "pending"
  /\ LinesOf(n) # {}
  /\ AllOnShelf(UnitsOf(LinesOf(n)))
  /\ \E f \in Allocations(n) :
       /\ line' = [l \in Lines |-> IF l \in DOMAIN f
                                   THEN [line[l] EXCEPT !.unit = f[l]] ELSE line[l]]
       /\ stock' = WithStock(UnitsOf(LinesOf(n)) \cup {f[l] : l \in DOMAIN f},
                             "transfer_pending")
  /\ note' = WithStatus(n, "approved")
  /\ approval' = [approval EXCEPT ![n] = "approved"]
  /\ UNCHANGED <<place, edits>>

Reject(n) ==
  /\ Pending(n) /\ approval[n] = "pending"
  /\ note' = WithStatus(n, "rejected")
  /\ approval' = [approval EXCEPT ![n] = "rejected"]
  /\ UNCHANGED <<line, stock, place, edits>>

Cancel(n) ==
  /\ note[n].status \in {"pending", "approved"}
  /\ note[n].status = "approved" => \A l \in LinesOf(n) : ~line[l].got
  /\ stock' = WithStock({u \in UnitsOf(LinesOf(n)) :
                           note[n].status = "approved" /\ stock[u] = "transfer_pending"},
                        "available")
  /\ note' = WithStatus(n, "cancelled")
  /\ approval' = [approval EXCEPT ![n] = IF @ = "pending" THEN "cancelled" ELSE @]
  /\ UNCHANGED <<line, place, edits>>

Dispatch(n) ==
  /\ note[n].status = "approved"
  /\ stock' = WithStock(UnitsOf(LinesOf(n)), "in_transit")
  /\ note' = WithStatus(n, "dispatched")
  /\ UNCHANGED <<approval, line, place, edits>>

\* Lines that a receipt accepts.
Receivable(n) ==
  {l \in LinesOf(n) : /\ ~line[l].got /\ line[l].unit \in Units
                      /\ stock[line[l].unit] \in {"transfer_pending", "in_transit"}}

\* Status of the note once the lines in got have arrived.
AfterReceipt(n, got) ==
  IF got = LinesOf(n) THEN "received"
  ELSE IF got # {} THEN "partially_received" ELSE note[n].status

\* The lines in L arrive, their units in D damaged.
Receive(n, L, D) ==
  /\ note[n].status \in Moving
  /\ L \subseteq Receivable(n)
  /\ \A k, l \in L : line[k].unit = line[l].unit => k = l
  /\ D \subseteq UnitsOf(L)
  /\ line' = [l \in Lines |-> IF l \in L THEN [line[l] EXCEPT !.got = TRUE] ELSE line[l]]
  /\ stock' = [u \in Units |-> IF u \in D THEN "damaged"
                               ELSE IF u \in UnitsOf(L) THEN "available" ELSE stock[u]]
  /\ place' = [u \in Units |-> IF u \in UnitsOf(L) THEN note[n].to ELSE place[u]]
  /\ note' = WithStatus(n, AfterReceipt(n, L \cup {l \in LinesOf(n) : line[l].got}))
  /\ UNCHANGED <<approval, edits>>

-----------------------------------------------------------------------------
(* The rest of the system takes and returns units *)

SetStock(u, from, to) ==
  /\ stock[u] = from
  /\ stock' = [stock EXCEPT ![u] = to]
  /\ UNCHANGED <<note, approval, line, place, edits>>

\* A sales order takes the unit.
Sell(u) == SetStock(u, "available", "sold")

\* The sale is undone.
TakeBack(u) == SetStock(u, "sold", "available")

\* A user sets the status by hand; the code does not look at the old one.
SetByHand(u) ==
  \E from \in {"available", "damaged", "sold", "transfer_pending", "in_transit"},
     to \in {"available", "damaged"} :
       /\ from # to
       /\ Risk("manual_status") \/ from \in {"available", "damaged"}
       /\ SetStock(u, from, to)

-----------------------------------------------------------------------------
Init ==
  /\ \E p \in Places :
       note = [n \in Notes |-> [status |-> "none", from |-> p, to |-> p]]
  /\ approval = [n \in Notes |-> "none"]
  /\ line = [l \in Lines |-> FreeLine]
  /\ stock = [u \in Units |-> "available"]
  /\ place \in [Units -> Places]
  /\ edits = {}

NoteStep(n) ==
  \/ \E from, to \in Places : Create(n, from, to)
  \/ Approve(n)
  \/ Reject(n)
  \/ Cancel(n)
  \/ Dispatch(n)
  \/ \E L \in SUBSET LinesOf(n) : \E D \in SUBSET UnitsOf(L) : Receive(n, L, D)

Next ==
  \/ \E e \in Edit : CheckEdit(e)
  \/ \E e \in edits : CommitEdit(e)
  \/ \E n \in Notes : NoteStep(n)
  \/ \E u \in Units : Sell(u) \/ TakeBack(u) \/ SetByHand(u)

Spec == Init /\ [][Next]_vars

-----------------------------------------------------------------------------
(* Properties *)

\* Lines whose unit the note holds.
Outstanding(S) ==
  {l \in Lines : Status(line[l].note) \in S /\ ~line[l].got}
Held == {"approved"} \cup Moving

\* A unit is held through at most one line of one note: approval checks every
\* unit again under lock (service.py, approve_transfer_note).
OneTransfer ==
  \A k, l \in Outstanding(Held) : line[k].unit = line[l].unit => k = l

\* The stock row says what the note that holds the unit says: reserved by an
\* approved note, in transit on a dispatched one, and neither without a note.
HeldMatchesStock ==
  \A u \in Units :
    /\ stock[u] = "transfer_pending" <=> u \in UnitsOf(Outstanding({"approved"}))
    /\ stock[u] = "in_transit" <=> u \in UnitsOf(Outstanding(Moving))

\* A note holds stock of its own source: that is what it draws on
\* (service.py, _validate_header and _validate_line).
HeldAtSource ==
  \A l \in Outstanding(Held) :
    line[l].unit \in Units => place[line[l].unit] = note[line[l].note].from

\* A note is received when all its lines are, and partially received when some
\* are and some are not; before the first receipt none is.
ReceivedWhenAll ==
  \A n \in Notes :
    LET got == {l \in LinesOf(n) : line[l].got}
    IN  /\ note[n].status = "received" => got = LinesOf(n) /\ got # {}
        /\ note[n].status = "partially_received" => got \notin {{}, LinesOf(n)}
        /\ note[n].status \notin {"received", "partially_received"} => got = {}

\* An approval request waits exactly as long as its note does, so nobody is
\* asked to approve a note that is gone (service.py, _withdraw_approval_request).
RequestFollowsNote ==
  \A n \in Notes : approval[n] = "pending" <=> note[n].status = "pending"

\* Once a note has left "pending", neither its route nor its lines change,
\* except that lines are received (service.py, _editable_note).
PapersFrozen ==
  \A n \in Notes :
    note[n].status \notin {"none", "pending"} =>
      /\ note'[n].from = note[n].from /\ note'[n].to = note[n].to
      /\ {l \in Lines : line'[l].note = n} = LinesOf(n)
      /\ \A l \in LinesOf(n) :
           line'[l].unit = line[l].unit /\ (line[l].got => line'[l].got)

\* A note moves forward only: what was dispatched arrives or stays under way,
\* and what is closed stays closed.
Forward ==
  \A n \in Notes :
    /\ note[n].status = "approved" =>
         note'[n].status \in {"approved", "dispatched", "cancelled"}
    /\ note[n].status \in Moving => note'[n].status \in Moving \cup {"received"}
    /\ note[n].status \in NoteStatuses \ ({"none"} \cup OpenStatuses) =>
         note'[n].status = note[n].status

\* A unit that was sold is not taken by a transfer.
SoldStaysSold ==
  \A u \in Units : stock[u] = "sold" => stock'[u] \in {"sold", "available"}

\* Notes, units and requests agree: a unit is held by one line of one note at
\* its own place, its stock row says so, and a note's status counts its lines.
NotesAgree ==
  OneTransfer /\ HeldMatchesStock /\ HeldAtSource /\ ReceivedWhenAll /\ RequestFollowsNote

\* Nothing goes back: neither a note, nor its papers, nor a sale.
NothingGoesBack == [][PapersFrozen /\ Forward /\ SoldStaysSold]_vars
=============================================================================
