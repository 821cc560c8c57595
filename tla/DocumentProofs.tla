--------------------------- MODULE DocumentProofs ---------------------------
(***************************************************************************)
(* Proofs about the documents that are made of lines: the transfer notes,  *)
(* for any notes, lines, units, branches and any number of requests in     *)
(* flight, without the risky calls; and the pages that edit such           *)
(* documents, for any records, any of the pages and any bound on the       *)
(* versions.                                                               *)
(***************************************************************************)
EXTENDS TransferNotes, DocumentLines, FiniteSetTheorems, TLAPS

-----------------------------------------------------------------------------
(* The transfer notes                                                      *)

S(l) == Status(line[l].note)
Done == {"partially_received", "received"}

(* Only the lines of a note that exists are in use; a pending note names   *)
(* no lot, one that holds stock names all its units.                       *)
PapersOK ==
  \A l \in Lines :
    /\ line[l].note = NoNote => line[l] = FreeLine
    /\ line[l].note # NoNote => S(l) \notin {"none", "deleted"}
    /\ S(l) = "pending" => line[l].unit \in Serials \cup {Unallocated}
    /\ S(l) \in Held => line[l].unit \in Units

(* What a note's status says of its lines.                                 *)
ReceiptsOK ==
  /\ \A l \in Lines : /\ line[l].got => S(l) \in Done
                      /\ S(l) = "received" => line[l].got
  /\ \A n \in Notes :
       /\ Status(n) \in Held \cup {"received"} => \E l \in Lines : line[l].note = n
       /\ Status(n) = "partially_received" =>
            \E k, l \in Lines : /\ line[k].note = n /\ line[k].got
                                /\ line[l].note = n /\ ~line[l].got

(* A serial is on one line of one open note, received or not.              *)
ClaimsOK ==
  \A k, l \in Lines :
    line[k].unit = line[l].unit /\ line[k].unit \in Serials
      /\ S(k) \in OpenStatuses /\ S(l) \in OpenStatuses => k = l

HoldsOK ==
  \A k, l \in Lines :
    line[k].unit = line[l].unit /\ S(k) \in Held /\ S(l) \in Held
      /\ ~line[k].got /\ ~line[l].got => k = l

Holder(u, T) == \E l \in Lines : line[l].unit = u /\ ~line[l].got /\ S(l) \in T
StockOK ==
  /\ \A l \in Lines : ~line[l].got =>
       /\ S(l) = "approved" => stock[line[l].unit] = "transfer_pending"
       /\ S(l) \in Moving => stock[line[l].unit] = "in_transit"
  /\ \A u \in Units : /\ stock[u] = "transfer_pending" => Holder(u, {"approved"})
                      /\ stock[u] = "in_transit" => Holder(u, Moving)

(* A unit listed waits where its note will take it from.                   *)
SourceOK ==
  \A l \in Lines : S(l) \in OpenStatuses /\ ~line[l].got /\ line[l].unit \in Units =>
    place[line[l].unit] = note[line[l].note].from

(* A line being entered is not in use, and nobody else is at work on it.   *)
EntriesOK ==
  \A e \in edits : e.call = "add" =>
    /\ line[e.line] = FreeLine
    /\ \A d \in edits : d.call \in {"add", "change", "remove"} /\ d.line = e.line => d = e

IInv ==
  /\ TypeOK /\ PapersOK /\ ReceiptsOK /\ ClaimsOK /\ HoldsOK /\ StockOK /\ SourceOK
  /\ EntriesOK /\ RequestFollowsNote

-----------------------------------------------------------------------------
LEMMA EditTypes ==
    ASSUME NEW e \in Edit
    PROVE  /\ e.call \in {"header", "delete", "add", "change", "remove"}
           /\ e.call = "header" => e.note \in Notes /\ e.from \in Places /\ e.to \in Places
           /\ e.call = "delete" => e.note \in Notes
           /\ e.call \in {"add", "change"} => /\ e.line \in Lines /\ e.note \in Notes
                                              /\ e.unit \in Serials \cup {Unallocated}
           /\ e.call = "remove" => e.line \in Lines
           /\ e.call \in {"add", "change", "remove"} => "line" \in DOMAIN e
BY DEF Edit

LEMMA RowTypes ==
    ASSUME TypeOK
    PROVE  /\ \A n \in Notes : /\ n # NoNote /\ Status(n) = note[n].status
                               /\ note[n].status \in NoteStatuses
                               /\ note[n].from \in Places /\ note[n].to \in Places
           /\ Status(NoNote) = "none"
           /\ \A l \in Lines : /\ line[l].note \in Notes \cup {NoNote}
                               /\ line[l].unit \in Units \cup {Unallocated}
                               /\ line[l].got \in BOOLEAN /\ S(l) \in NoteStatuses
           /\ Unallocated \notin Units
<1>1. \A n \in Notes : n # NoNote
  BY UnitsAssumption
<1> QED BY <1>1, UnitsAssumption DEF TypeOK, NoteRow, LineRow, Status, S, NoteStatuses, Units

(* Giving a note another status leaves its route alone.                    *)
LEMMA StatusTypes ==
    ASSUME TypeOK, NEW n \in Notes, NEW s \in NoteStatuses
    PROVE  /\ WithStatus(n, s) \in [Notes -> NoteRow]
           /\ \A m \in Notes : /\ WithStatus(n, s)[m].status = IF m = n THEN s ELSE note[m].status
                               /\ WithStatus(n, s)[m].from = note[m].from
                               /\ WithStatus(n, s)[m].to = note[m].to
BY DEF TypeOK, NoteRow, WithStatus

LEMMA StatusStep ==
    ASSUME TypeOK, NEW n \in Notes, NEW s \in NoteStatuses, note' = WithStatus(n, s), line' = line
    PROVE  /\ \A m \in Notes : Status(m)' = IF m = n THEN s ELSE Status(m)
           /\ \A l \in Lines : S(l)' = IF line[l].note = n THEN s ELSE S(l)
           /\ \A m \in Notes : note'[m].from = note[m].from /\ note'[m].to = note[m].to
<1>1. \A m \in Notes : Status(m)' = IF m = n THEN s ELSE Status(m)
  BY StatusTypes, RowTypes DEF Status
<1>2. Status(NoNote)' = "none"
  BY DEF Status
<1> QED BY <1>1, <1>2, StatusTypes, RowTypes DEF S

LEMMA StockTypes ==
    ASSUME TypeOK, NEW U, NEW s \in {"available", "sold", "damaged", "transfer_pending", "in_transit"}
    PROVE  /\ WithStock(U, s) \in [Units -> {"available", "sold", "damaged", "transfer_pending", "in_transit"}]
           /\ \A u \in Units : WithStock(U, s)[u] = IF u \in U THEN s ELSE stock[u]
BY DEF TypeOK, WithStock

LEMMA InvInit == Init => IInv
<1> SUFFICES ASSUME Init PROVE IInv
  OBVIOUS
<1>1. TypeOK
  BY DEF Init, TypeOK, NoteRow, NoteStatuses, OpenStatuses, LineRow, FreeLine
<1>2. \A l \in Lines : line[l] = FreeLine /\ S(l) = "none" /\ ~line[l].got
  BY DEF Init, S, Status, FreeLine
<1>3. \A n \in Notes : note[n].status = "none" /\ Status(n) = "none"
  BY <1>1, RowTypes DEF Init
<1>a. "none" \notin OpenStatuses \cup Held \cup Done \cup {"pending", "received"}
  BY DEF OpenStatuses, Moving, Held, Done
<1>b. PapersOK
  BY <1>2, <1>a, RowTypes, <1>1 DEF PapersOK, Init, FreeLine
<1>c. ReceiptsOK
  BY <1>2, <1>3, <1>a DEF ReceiptsOK
<1>4. ClaimsOK /\ HoldsOK /\ SourceOK
  BY <1>2, <1>a DEF ClaimsOK, HoldsOK, SourceOK
<1>5. StockOK /\ EntriesOK /\ RequestFollowsNote
  BY <1>2, <1>3 DEF Init, StockOK, EntriesOK, RequestFollowsNote, Moving
<1> QED BY <1>1, <1>b, <1>c, <1>4, <1>5 DEF IInv

(* What depends on the papers alone survives whatever leaves them alone.   *)
LEMMA SamePapers ==
    ASSUME IInv, UNCHANGED <<note, approval, line>>
    PROVE  PapersOK' /\ ReceiptsOK' /\ ClaimsOK' /\ HoldsOK' /\ RequestFollowsNote'
BY DEF IInv, PapersOK, ReceiptsOK, ClaimsOK, HoldsOK, RequestFollowsNote, S, Status

LEMMA SameEntries ==
    ASSUME IInv, edits' \subseteq edits, line' = line PROVE EntriesOK'
BY DEF IInv, EntriesOK

LEMMA CheckKeeps ==
    ASSUME IInv, NEW e \in Edit, CheckEdit(e) PROVE IInv'
<1>1. UNCHANGED <<note, approval, line, stock, place>> /\ edits' = edits \cup {e} /\ Allowed(e)
  BY DEF CheckEdit
<1>2. TypeOK'
  BY <1>1 DEF IInv, TypeOK
<1>3. StockOK' /\ SourceOK'
  BY <1>1 DEF IInv, StockOK, SourceOK, Holder, S, Status
<1>4. EntriesOK'
  <2>1. \A d \in edits : d \in Edit
    BY DEF IInv, TypeOK
  <2>2. ASSUME NEW d \in edits, d.call = "add"
        PROVE  e.call \in {"add", "change", "remove"} /\ e.line = d.line => e = d
    <3>a. line[d.line] = FreeLine
      BY <2>2 DEF IInv, EntriesOK
    <3>1. line[d.line].note = NoNote
      BY <3>a DEF FreeLine
    <3>2. "line" \in DOMAIN d
      BY <2>1, <2>2, EditTypes
    <3>3. ~Pending(NoNote)
      BY DEF Pending, Status
    <3> QED BY <1>1, <2>2, <3>1, <3>2, <3>3 DEF Allowed
  <2>3. ASSUME e.call = "add", NEW d \in edits, d.call \in {"add", "change", "remove"}, d.line = e.line
        PROVE  FALSE
    <3>1. "line" \in DOMAIN d
      BY <2>1, <2>3, EditTypes
    <3> QED BY <1>1, <2>3, <3>1 DEF Allowed
  <2>4. e.call = "add" => line[e.line] = FreeLine
    BY <1>1 DEF Allowed
  <2> QED BY <1>1, <2>2, <2>3, <2>4 DEF IInv, EntriesOK
<1> QED BY <1>1, <1>2, <1>3, <1>4, SamePapers DEF IInv

LEMMA AbandonKeeps ==
    ASSUME IInv, NEW e \in edits, Abandon(e) PROVE IInv'
<1>1. UNCHANGED <<note, approval, line, stock, place>> /\ edits' \subseteq edits
  BY DEF Abandon
<1>2. TypeOK'
  BY <1>1 DEF IInv, TypeOK
<1>3. StockOK' /\ SourceOK'
  BY <1>1 DEF IInv, StockOK, SourceOK, Holder, S, Status
<1> QED BY <1>1, <1>2, <1>3, SamePapers, SameEntries DEF IInv

(* The rest of the system only takes and returns units no note holds.      *)
LEMMA RestKeeps ==
    ASSUME IInv, Calls = {}, NEW u \in Units, Sell(u) \/ TakeBack(u) \/ SetByHand(u) PROVE IInv'
<1>1. PICK to \in {"sold", "available", "damaged"} :
        /\ stock[u] \notin {"transfer_pending", "in_transit"}
        /\ stock' = [stock EXCEPT ![u] = to]
        /\ UNCHANGED <<note, approval, line, place, edits>>
  BY DEF Sell, TakeBack, SetByHand, SetStock, Risk
<1>2. TypeOK'
  BY <1>1 DEF IInv, TypeOK
<1>3. \A v \in Units : \/ stock'[v] = stock[v]
                       \/ v = u /\ stock'[v] \notin {"transfer_pending", "in_transit"}
  BY <1>1 DEF IInv, TypeOK
<1>4. \A l \in Lines : S(l)' = S(l)
  BY <1>1 DEF S, Status
<1>5. SourceOK'
  BY <1>1, <1>4 DEF IInv, SourceOK
<1>6. StockOK'
  <2>1. ASSUME NEW l \in Lines, ~line[l].got, S(l) \in Held
        PROVE  line[l].unit \in Units /\ line[l].unit # u
    BY <1>1, <2>1 DEF IInv, PapersOK, StockOK, Held
  <2>2. \A T, v : Holder(v, T)' <=> Holder(v, T)
    BY <1>1, <1>4 DEF Holder
  <2> QED BY <1>1, <1>3, <1>4, <2>1, <2>2 DEF IInv, StockOK, Held
<1> QED BY <1>1, <1>2, <1>5, <1>6, SamePapers, SameEntries DEF IInv

-----------------------------------------------------------------------------
(* A step on the notes that leaves lines and stock alone, where the only   *)
(* lines it touches are those of a pending note that is closed.            *)
Quiet ==
  /\ UNCHANGED <<line, stock, place>> /\ edits' \subseteq edits
  /\ \A l \in Lines : \/ S(l)' = S(l)
                      \/ S(l) = "pending" /\ S(l)' \in {"rejected", "cancelled"}
  /\ \A l \in Lines : S(l) # "none" => note'[line[l].note].from = note[line[l].note].from
  /\ \A n \in Notes : Status(n)' = Status(n) \/ Status(n)' \notin Held \cup {"received"}

LEMMA QuietKeeps ==
    ASSUME IInv, Quiet, TypeOK', RequestFollowsNote' PROVE IInv'
<1>a. /\ UNCHANGED <<line, stock, place>>
      /\ \A l \in Lines : \/ S(l)' = S(l)
                          \/ S(l) = "pending" /\ S(l)' \in {"rejected", "cancelled"}
  BY DEF Quiet
<1>b. /\ {"rejected", "cancelled"} \cap (OpenStatuses \cup Held \cup Moving \cup Done \cup {"none"}) = {}
      /\ "pending" \in OpenStatuses /\ "pending" \notin Done \cup Held \cup Moving
      /\ "partially_received" \in Held
  BY DEF OpenStatuses, Held, Moving, Done
<1>1. PapersOK'
  BY <1>a, <1>b DEF IInv, PapersOK
<1>2. ReceiptsOK'
  <2>1. \A l \in Lines : /\ line'[l].got => S(l)' \in Done
                         /\ S(l)' = "received" => line'[l].got
    BY <1>a, <1>b DEF IInv, ReceiptsOK, Done
  <2>2. \A n \in Notes : Status(n)' \in Held \cup {"received"} => Status(n)' = Status(n)
    BY DEF Quiet
  <2>3. ASSUME NEW n \in Notes, Status(n)' \in Held \cup {"received"}
        PROVE  /\ \E l \in Lines : line'[l].note = n
               /\ Status(n)' = "partially_received" =>
                    \E k, l \in Lines : /\ line'[k].note = n /\ line'[k].got
                                        /\ line'[l].note = n /\ ~line'[l].got
    BY <1>a, <2>2, <2>3 DEF IInv, ReceiptsOK
  <2> QED BY <1>b, <2>1, <2>3 DEF ReceiptsOK
<1>3. ClaimsOK'
  BY <1>a, <1>b DEF IInv, ClaimsOK
<1>4. HoldsOK'
  BY <1>a, <1>b DEF IInv, HoldsOK
<1>5. StockOK'
  <2>1. \A l \in Lines : \A T \in {{"approved"}, Moving} : S(l) \in T <=> S(l)' \in T
    BY <1>a DEF Moving
  <2>2. \A u : \A T \in {{"approved"}, Moving} : Holder(u, T)' <=> Holder(u, T)
    BY <1>a, <2>1 DEF Holder
  <2>3. \A l \in Lines : S(l)' = "approved" <=> S(l) = "approved"
    BY <1>a
  <2> QED BY <1>a, <2>1, <2>2, <2>3 DEF IInv, StockOK
<1>6. SourceOK'
  <2>1. \A l \in Lines : S(l)' \in OpenStatuses => S(l) \in OpenStatuses /\ S(l) # "none"
    BY <1>a, <1>b DEF OpenStatuses, Moving
  <2> QED BY <1>a, <2>1 DEF Quiet, IInv, SourceOK
<1>7. EntriesOK'
  BY SameEntries DEF Quiet
<1> QED BY <1>1, <1>2, <1>3, <1>4, <1>5, <1>6, <1>7 DEF IInv

LEMMA CreateKeeps ==
    ASSUME IInv, NEW n \in Notes, NEW from \in Places, NEW to \in Places, Create(n, from, to)
    PROVE  IInv'
<1>a. TypeOK /\ RequestFollowsNote /\ PapersOK
  BY DEF IInv
<1>1. /\ note[n].status = "none" /\ approval' = [approval EXCEPT ![n] = "pending"]
      /\ note' = [note EXCEPT ![n] = [status |-> "pending", from |-> from, to |-> to]]
      /\ UNCHANGED <<line, stock, place, edits>>
  BY DEF Create
<1>2. TypeOK'
  BY <1>1, <1>a DEF TypeOK, NoteRow, NoteStatuses, OpenStatuses
<1>3. \A m \in Notes : m # n => note'[m] = note[m]
  BY <1>1, <1>a DEF TypeOK
<1>4. note'[n].status = "pending" /\ approval'[n] = "pending"
  BY <1>1, <1>a DEF TypeOK
<1>5. RequestFollowsNote'
  <2>1. \A m \in Notes : m # n => approval'[m] = approval[m]
    BY <1>1, <1>a DEF TypeOK
  <2> QED BY <1>3, <1>4, <2>1, <1>a DEF RequestFollowsNote
<1>6. \A l \in Lines : line[l].note # n
  <2>1. Status(n) = "none"
    BY <1>1, <1>a, RowTypes
  <2> QED BY <2>1, <1>a, RowTypes DEF PapersOK, S
<1>7. \A l \in Lines : S(l)' = S(l)
  BY <1>1, <1>3, <1>6, <1>a, RowTypes DEF S, Status
<1>8. \A m \in Notes : Status(m)' = Status(m) \/ Status(m)' \notin Held \cup {"received"}
  BY <1>3, <1>4, <1>a, RowTypes DEF Status, Held, Moving
<1>9. \A l \in Lines : S(l) # "none" => note'[line[l].note].from = note[line[l].note].from
  BY <1>3, <1>6, <1>a, RowTypes DEF S
<1> QED BY <1>1, <1>2, <1>5, <1>7, <1>8, <1>9, QuietKeeps DEF Quiet

(* A pending note is rejected, or cancelled before it was approved.        *)
LEMMA RejectKeeps ==
    ASSUME IInv, NEW n \in Notes, Reject(n) \/ (Cancel(n) /\ note[n].status = "pending") PROVE IInv'
<1>a. TypeOK /\ RequestFollowsNote
  BY DEF IInv
<1>1. PICK s \in {"rejected", "cancelled"} :
        /\ note[n].status = "pending" /\ note' = WithStatus(n, s)
        /\ approval' = [approval EXCEPT ![n] = s]
        /\ UNCHANGED <<line, place, edits>> /\ stock' \in {stock, WithStock({}, "available")}
  <2>1. CASE Reject(n)
    BY <2>1, <1>a, RowTypes DEF Reject, Pending
  <2>2. CASE Cancel(n) /\ note[n].status = "pending"
    <3>1. approval[n] = "pending"
      BY <1>a, <2>2 DEF RequestFollowsNote
    <3>2. {u \in UnitsOf(LinesOf(n)) :
             note[n].status = "approved" /\ stock[u] = "transfer_pending"} = {}
      BY <2>2
    <3> QED BY <2>2, <3>1, <3>2 DEF Cancel
  <2> QED BY <2>1, <2>2
<1>2. s \in NoteStatuses /\ s \notin Held \cup {"received"}
  BY DEF NoteStatuses, Held, Moving
<1>3. stock' = stock
  BY <1>1, <1>a DEF WithStock, TypeOK
<1>4. /\ \A m \in Notes : Status(m)' = IF m = n THEN s ELSE Status(m)
      /\ \A l \in Lines : S(l)' = IF line[l].note = n THEN s ELSE S(l)
      /\ \A m \in Notes : note'[m].from = note[m].from
      /\ note' \in [Notes -> NoteRow]
  BY <1>1, <1>2, <1>a, StatusStep, StatusTypes
<1>5. TypeOK'
  BY <1>1, <1>3, <1>4, <1>a DEF TypeOK
<1>6. RequestFollowsNote'
  <2>1. \A m \in Notes : approval'[m] = IF m = n THEN s ELSE approval[m]
    BY <1>1, <1>a DEF TypeOK
  <2>2. \A m \in Notes : note'[m].status = IF m = n THEN s ELSE note[m].status
    BY <1>1, <1>2, <1>a, StatusTypes
  <2> QED BY <1>1, <2>1, <2>2, <1>a DEF RequestFollowsNote
<1>7. \A l \in Lines : line[l].note = n => S(l) = "pending"
  BY <1>1, <1>a, RowTypes DEF S
<1>8. \A l \in Lines : S(l) # "none" => line[l].note \in Notes
  BY <1>a, RowTypes DEF S
<1> QED BY <1>1, <1>2, <1>3, <1>4, <1>5, <1>6, <1>7, <1>8, QuietKeeps DEF Quiet

LEMMA HeaderKeeps ==
    ASSUME IInv, Calls = {}, NEW e \in edits, CommitHeader(e) PROVE IInv'
<1>a. TypeOK /\ RequestFollowsNote /\ e \in Edit
  BY DEF IInv, TypeOK
<1>1. /\ e.note \in Notes /\ e.from \in Places /\ e.to \in Places
      /\ LinesOf(e.note) = {} \/ e.from = note[e.note].from
      /\ note' = [note EXCEPT ![e.note].from = e.from, ![e.note].to = e.to]
      /\ UNCHANGED <<approval, line, stock, place>> /\ edits' \subseteq edits
  BY <1>a, EditTypes DEF CommitHeader, Risk
<1>2. note' \in [Notes -> NoteRow]
  BY <1>1, <1>a DEF TypeOK, NoteRow
<1>3. /\ \A m \in Notes : note'[m].status = note[m].status
      /\ \A m \in Notes : note'[m].from = IF m = e.note THEN e.from ELSE note[m].from
  BY <1>1, <1>a DEF TypeOK, NoteRow
<1>4. TypeOK'
  BY <1>1, <1>2, <1>a DEF TypeOK
<1>5. RequestFollowsNote'
  BY <1>1, <1>3, <1>a DEF RequestFollowsNote
<1>6. \A m \in Notes \cup {NoNote} : Status(m)' = Status(m)
  BY <1>3 DEF Status
<1>7. \A l \in Lines : S(l)' = S(l)
  BY <1>1, <1>6, <1>a, RowTypes DEF S
<1>8. \A l \in Lines : S(l) # "none" => note'[line[l].note].from = note[line[l].note].from
  <2> SUFFICES ASSUME NEW l \in Lines, S(l) # "none"
               PROVE  note'[line[l].note].from = note[line[l].note].from
    OBVIOUS
  <2>1. line[l].note \in Notes
    BY <1>a, RowTypes DEF S
  <2>2. line[l].note = e.note => e.from = note[e.note].from
    BY <1>1, <2>1 DEF LinesOf
  <2> QED BY <1>3, <2>1, <2>2
<1>9. Quiet
  <2>1. \A n \in Notes : Status(n)' = Status(n)
    BY <1>6
  <2> QED BY <1>1, <1>7, <1>8, <2>1 DEF Quiet
<1> QED BY <1>4, <1>5, <1>9, QuietKeeps

-----------------------------------------------------------------------------
(* Lines of pending notes are taken off.                                   *)
Freeing(F) ==
  /\ line' = [l \in Lines |-> IF l \in F THEN FreeLine ELSE line[l]]
  /\ UNCHANGED <<stock, place>> /\ edits' \subseteq edits
  /\ \A l \in F : S(l) = "pending"
  /\ \A l \in Lines \ F :
       S(l)' = S(l) /\ (S(l) # "none" => note'[line[l].note].from = note[line[l].note].from)
  /\ \A n \in Notes : Status(n)' = Status(n) \/ Status(n)' = "deleted"

LEMMA FreeingKeeps ==
    ASSUME IInv, NEW F \in SUBSET Lines, Freeing(F), TypeOK', RequestFollowsNote' PROVE IInv'
<1>a. /\ \A l \in F : /\ line'[l] = FreeLine /\ line'[l].note = NoNote /\ S(l)' = "none"
                      /\ ~line'[l].got
      /\ \A l \in Lines \ F : line'[l] = line[l] /\ S(l)' = S(l)
      /\ \A l \in F : S(l) = "pending" /\ ~line[l].got
      /\ UNCHANGED <<stock, place>>
  <2>1. \A l \in F : line'[l] = FreeLine
    BY DEF Freeing
  <2>2. FreeLine.note = NoNote /\ ~FreeLine.got
    BY DEF FreeLine
  <2>3. \A l \in F : S(l)' = "none"
    BY <2>1, <2>2 DEF S, Status
  <2>4. \A l \in F : S(l) = "pending" /\ ~line[l].got
    BY DEF Freeing, IInv, ReceiptsOK, Done
  <2> QED BY <2>1, <2>2, <2>3, <2>4 DEF Freeing
<1>b. /\ {"none", "deleted"} \cap (OpenStatuses \cup Held \cup Moving \cup Done) = {}
      /\ "pending" \in OpenStatuses /\ "pending" \notin Done \cup Held \cup Moving
      /\ "partially_received" \in Held
  BY DEF OpenStatuses, Held, Moving, Done
<1>1. PapersOK'
  BY <1>a, <1>b DEF IInv, PapersOK
<1>2. ReceiptsOK'
  <2>1. \A l \in Lines : /\ line'[l].got => S(l)' \in Done
                         /\ S(l)' = "received" => line'[l].got
    BY <1>a, <1>b DEF IInv, ReceiptsOK
  <2>2. ASSUME NEW n \in Notes, Status(n)' \in Held \cup {"received"}
        PROVE  Status(n)' = Status(n) /\ \A l \in Lines : line[l].note = n => line'[l] = line[l]
    <3>1. Status(n)' = Status(n) /\ Status(n) # "pending"
      BY <1>b, <2>2 DEF Freeing
    <3>2. \A l \in Lines : line[l].note = n => l \notin F
      BY <1>a, <3>1 DEF S
    <3> QED BY <1>a, <3>1, <3>2
  <2>3. ASSUME NEW n \in Notes, Status(n)' \in Held \cup {"received"}
        PROVE  /\ \E l \in Lines : line'[l].note = n
               /\ Status(n)' = "partially_received" =>
                    \E k, l \in Lines : /\ line'[k].note = n /\ line'[k].got
                                        /\ line'[l].note = n /\ ~line'[l].got
    <3>1. PICK l \in Lines : line[l].note = n
      BY <2>2, <2>3 DEF IInv, ReceiptsOK
    <3>2. CASE Status(n)' = "partially_received"
      <4>1. PICK i, j \in Lines : /\ line[i].note = n /\ line[i].got
                                  /\ line[j].note = n /\ ~line[j].got
        BY <2>2, <2>3, <3>2 DEF IInv, ReceiptsOK
      <4> QED BY <2>2, <2>3, <3>1, <4>1
    <3> QED BY <2>2, <2>3, <3>1, <3>2
  <2> QED BY <1>b, <2>1, <2>3 DEF ReceiptsOK
<1>3. ClaimsOK'
  BY <1>a, <1>b DEF IInv, ClaimsOK
<1>4. HoldsOK'
  BY <1>a, <1>b DEF IInv, HoldsOK
<1>5. StockOK'
  <2>1. ASSUME NEW T \in {{"approved"}, Moving}, NEW u, Holder(u, T) PROVE Holder(u, T)'
    <3>1. PICK l \in Lines : line[l].unit = u /\ ~line[l].got /\ S(l) \in T
      BY <2>1 DEF Holder
    <3>2. l \notin F
      BY <1>a, <1>b, <3>1
    <3> QED BY <1>a, <3>1, <3>2 DEF Holder
  <2>2. \A l \in Lines : S(l)' \in {"approved"} \cup Moving => line'[l] = line[l] /\ S(l)' = S(l)
    BY <1>a, <1>b
  <2> QED BY <1>a, <2>1, <2>2 DEF IInv, StockOK
<1>6. SourceOK'
  <2>1. \A l \in Lines : S(l)' \in OpenStatuses =>
          /\ S(l) \in OpenStatuses /\ line'[l] = line[l]
          /\ note'[line[l].note].from = note[line[l].note].from
    BY <1>a, <1>b DEF Freeing
  <2> QED BY <1>a, <2>1 DEF IInv, SourceOK
<1>7. EntriesOK'
  <2>1. \A e \in edits' : e.call = "add" => line'[e.line] = FreeLine
    <3>1. \A e \in edits : e.call = "add" => e.line \in Lines /\ line[e.line] = FreeLine
      BY EditTypes DEF IInv, EntriesOK, TypeOK
    <3> QED BY <1>a, <3>1 DEF Freeing
  <2> QED BY <2>1 DEF Freeing, IInv, EntriesOK
<1> QED BY <1>1, <1>2, <1>3, <1>4, <1>5, <1>6, <1>7 DEF IInv

LEMMA DeleteKeeps ==
    ASSUME IInv, Calls = {}, NEW e \in edits, CommitDelete(e) PROVE IInv'
<1>a. TypeOK /\ RequestFollowsNote /\ e \in Edit
  BY DEF IInv, TypeOK
<1> DEFINE n == e.note
<1>1. /\ n \in Notes /\ note[n].status = "pending" /\ note' = WithStatus(n, "deleted")
      /\ line' = [l \in Lines |-> IF l \in LinesOf(n) THEN FreeLine ELSE line[l]]
      /\ approval' = [approval EXCEPT ![n] = IF @ = "pending" THEN "cancelled" ELSE @]
      /\ UNCHANGED <<stock, place>> /\ edits' \subseteq edits
  BY <1>a, EditTypes, RowTypes DEF CommitDelete, Fresh, Risk, Pending, WithStatus
<1> HIDE DEF n
<1>2. "deleted" \in NoteStatuses
  BY DEF NoteStatuses
<1>3. /\ note' \in [Notes -> NoteRow]
      /\ \A m \in Notes : /\ note'[m].status = IF m = n THEN "deleted" ELSE note[m].status
                          /\ note'[m].from = note[m].from
  BY <1>1, <1>2, <1>a, StatusTypes
<1>4. TypeOK'
  <2>1. FreeLine \in LineRow
    BY DEF FreeLine, LineRow
  <2> QED BY <1>1, <1>3, <2>1, <1>a DEF TypeOK
<1>5. RequestFollowsNote'
  <2>1. \A m \in Notes : approval'[m] = IF m = n /\ approval[m] = "pending" THEN "cancelled" ELSE approval[m]
    BY <1>1, <1>a DEF TypeOK
  <2> QED BY <1>1, <1>3, <2>1, <1>a DEF RequestFollowsNote
<1>6. \A m \in Notes \cup {NoNote} : Status(m)' = IF m = n THEN "deleted" ELSE Status(m)
  BY <1>1, <1>3, <1>a, RowTypes DEF Status
<1>7. /\ \A l \in LinesOf(n) : S(l) = "pending"
      /\ \A l \in Lines \ LinesOf(n) :
           /\ line'[l] = line[l] /\ S(l)' = S(l)
           /\ S(l) # "none" => note'[line[l].note].from = note[line[l].note].from
  BY <1>1, <1>3, <1>6, <1>a, RowTypes DEF LinesOf, S
<1>8. Freeing(LinesOf(n))
  BY <1>1, <1>6, <1>7 DEF Freeing
<1> QED BY <1>4, <1>5, <1>8, FreeingKeeps DEF LinesOf

LEMMA RemoveKeeps ==
    ASSUME IInv, Calls = {}, NEW e \in edits, CommitRemove(e) PROVE IInv'
<1>a. TypeOK /\ RequestFollowsNote /\ e \in Edit
  BY DEF IInv, TypeOK
<1>1. /\ e.line \in Lines /\ S(e.line) = "pending"
      /\ line' = [line EXCEPT ![e.line] = FreeLine]
      /\ UNCHANGED <<note, approval, stock, place>> /\ edits' \subseteq edits
  BY <1>a, EditTypes DEF CommitRemove, Fresh, Risk, Pending, S
<1>2. line' = [l \in Lines |-> IF l \in {e.line} THEN FreeLine ELSE line[l]]
  BY <1>1, <1>a DEF TypeOK
<1>3. FreeLine \in LineRow
  BY DEF FreeLine, LineRow
<1>4. TypeOK' /\ RequestFollowsNote'
  BY <1>1, <1>2, <1>3, <1>a DEF TypeOK, RequestFollowsNote
<1>5. \A m : Status(m)' = Status(m)
  BY <1>1 DEF Status
<1>6. \A l \in Lines \ {e.line} : S(l)' = S(l)
  BY <1>2, <1>5 DEF S
<1>7. Freeing({e.line})
  BY <1>1, <1>2, <1>5, <1>6 DEF Freeing
<1> QED BY <1>1, <1>4, <1>7, FreeingKeeps

-----------------------------------------------------------------------------
(* A line of a pending note is written.                                    *)
Writing(x, n, u) ==
  /\ x \in Lines /\ n \in Notes /\ u \in Serials \cup {Unallocated}
  /\ Pending(n)
  /\ line[x] = FreeLine \/ S(x) = "pending"
  /\ u # Unallocated => place[u] = note[n].from /\ Unclaimed(x, u)
  /\ \E row \in LineRow : /\ row.note = n /\ row.unit = u /\ row.got = FALSE
                          /\ line' = [line EXCEPT ![x] = row]
  /\ UNCHANGED <<note, approval, stock, place>> /\ edits' \subseteq edits
  /\ \A e \in edits' : e.call = "add" => e.line # x

LEMMA WritingKeeps ==
    ASSUME IInv, NEW x, NEW n, NEW u, Writing(x, n, u) PROVE IInv'
<1>a. /\ x \in Lines /\ n \in Notes /\ u \in Serials \cup {Unallocated} /\ Pending(n)
      /\ UNCHANGED <<note, approval, stock, place>> /\ edits' \subseteq edits
      /\ TypeOK /\ RequestFollowsNote
  BY DEF Writing, IInv
<1>b. PICK row \in LineRow : /\ line' = [line EXCEPT ![x] = row]
                            /\ row.note = n /\ row.unit = u /\ row.got = FALSE
  BY DEF Writing
<1>c. \A m : Status(m)' = Status(m)
  BY <1>a DEF Status
<1>d. /\ line'[x].note = n /\ line'[x].unit = u /\ line'[x].got = FALSE /\ S(x)' = "pending"
      /\ \A l \in Lines \ {x} : line'[l] = line[l] /\ S(l)' = S(l)
  BY <1>a, <1>b, <1>c DEF TypeOK, S, Pending
<1>e. /\ "pending" \in OpenStatuses /\ "pending" \notin Done \cup Held \cup Moving \cup {"received"}
      /\ "none" \notin OpenStatuses \cup Held
      /\ "partially_received" \in Held
  BY DEF OpenStatuses, Held, Moving, Done
<1>f. S(x) \in {"none", "pending"} /\ ~line[x].got
  BY <1>a DEF Writing, IInv, ReceiptsOK, Done, FreeLine, S, Status
<1>g. n # NoNote /\ u \notin Lots
  BY <1>a, UnitsAssumption
<1>1. TypeOK'
  BY <1>a, <1>b DEF TypeOK
<1>2. RequestFollowsNote'
  BY <1>a DEF RequestFollowsNote
<1>3. PapersOK'
  BY <1>a, <1>d, <1>e, <1>g DEF IInv, PapersOK
<1>4. ReceiptsOK'
  <2>1. \A l \in Lines : /\ line'[l].got => S(l)' \in Done
                         /\ S(l)' = "received" => line'[l].got
    BY <1>d, <1>e DEF IInv, ReceiptsOK
  <2>2. ASSUME NEW m \in Notes, Status(m)' \in Held \cup {"received"}
        PROVE  /\ \E l \in Lines : line'[l].note = m
               /\ Status(m)' = "partially_received" =>
                    \E k, l \in Lines : /\ line'[k].note = m /\ line'[k].got
                                        /\ line'[l].note = m /\ ~line'[l].got
    <3>1. Status(m) \in Held \cup {"received"}
      BY <1>c, <2>2
    <3>2. \A l \in Lines : line[l].note = m => line'[l] = line[l]
      BY <1>d, <1>e, <1>f, <3>1 DEF S, Held, Moving
    <3>3. PICK l \in Lines : line[l].note = m
      BY <3>1 DEF IInv, ReceiptsOK
    <3>4. CASE Status(m)' = "partially_received"
      <4>1. PICK i, j \in Lines : /\ line[i].note = m /\ line[i].got
                                  /\ line[j].note = m /\ ~line[j].got
        BY <1>c, <3>4 DEF IInv, ReceiptsOK
      <4> QED BY <3>2, <3>3, <4>1
    <3> QED BY <3>2, <3>3, <3>4
  <2> QED BY <1>e, <2>1, <2>2 DEF ReceiptsOK
<1>5. ClaimsOK'
  <2>1. ASSUME NEW l \in Lines \ {x}, line[l].unit = u, u \in Serials, S(l) \in OpenStatuses
        PROVE  FALSE
    <3>1. u # Unallocated
      BY <2>1, UnitsAssumption
    <3> QED BY <2>1, <3>1 DEF Writing, Unclaimed, S
  <2> QED BY <1>d, <2>1 DEF IInv, ClaimsOK
<1>6. HoldsOK'
  BY <1>d, <1>e DEF IInv, HoldsOK
<1>7. StockOK'
  <2>1. ASSUME NEW T \in {{"approved"}, Moving}, NEW v, Holder(v, T) PROVE Holder(v, T)'
    <3>1. PICK l \in Lines : line[l].unit = v /\ ~line[l].got /\ S(l) \in T
      BY <2>1 DEF Holder
    <3>2. l # x
      BY <1>f, <3>1 DEF Moving
    <3> QED BY <1>d, <3>1, <3>2 DEF Holder
  <2> QED BY <1>a, <1>d, <1>e, <2>1 DEF IInv, StockOK
<1>8. SourceOK'
  <2>1. u \in Units => place[u] = note[n].from
    BY UnitsAssumption DEF Writing, Units
  <2> QED BY <1>a, <1>d, <2>1 DEF IInv, SourceOK
<1>9. EntriesOK'
  <2>1. \A e \in edits' : e.call = "add" => e.line \in Lines /\ e.line # x
    BY EditTypes, <1>a DEF Writing, TypeOK
  <2> QED BY <1>a, <1>d, <2>1 DEF IInv, EntriesOK
<1> QED BY <1>1, <1>2, <1>3, <1>4, <1>5, <1>6, <1>7, <1>8, <1>9 DEF IInv

LEMMA AddKeeps ==
    ASSUME IInv, Calls = {}, NEW e \in edits, CommitAdd(e) PROVE IInv'
<1>1. e \in Edit /\ e.call = "add" /\ EntriesOK
  BY DEF IInv, TypeOK, CommitAdd
<1>2. e.line \in Lines /\ e.note \in Notes /\ e.unit \in Serials \cup {Unallocated}
  BY <1>1, EditTypes
<1>3. \A d \in edits : d.call = "add" /\ d.line = e.line => d = e
  BY <1>1 DEF EntriesOK
<1> DEFINE row == [note |-> e.note, unit |-> e.unit, got |-> FALSE]
<1>a. row \in LineRow /\ row.note = e.note /\ row.unit = e.unit /\ row.got = FALSE
  BY <1>2 DEF LineRow, Units
<1>b. line' = [line EXCEPT ![e.line] = row]
  BY DEF CommitAdd
<1> HIDE DEF row
<1>4. Writing(e.line, e.note, e.unit)
  BY <1>a, <1>b, <1>1, <1>2, <1>3 DEF CommitAdd, Writing, Fresh, StillListable, Listable, Risk, EntriesOK
<1> QED BY <1>4, WritingKeeps

LEMMA ChangeKeeps ==
    ASSUME IInv, Calls = {}, NEW e \in edits, CommitChange(e) PROVE IInv'
<1>1. e \in Edit /\ e.call = "change" /\ EntriesOK /\ TypeOK
  BY DEF IInv, TypeOK, CommitChange
<1>2. e.line \in Lines /\ e.note \in Notes /\ e.unit \in Serials \cup {Unallocated}
  BY <1>1, EditTypes
<1>3. \A d \in edits : d.call = "add" => d.line # e.line
  BY <1>1 DEF EntriesOK
<1>4. S(e.line) = "pending" /\ Pending(e.note)
  BY DEF CommitChange, Fresh, Risk, Pending, S
<1> DEFINE row == [line[e.line] EXCEPT !.note = e.note, !.unit = e.unit]
<1>a. line[e.line] \in LineRow /\ line[e.line].got = FALSE
  BY <1>1, <1>2, <1>4 DEF IInv, ReceiptsOK, Done, TypeOK, LineRow
<1>b. row \in LineRow /\ row.note = e.note /\ row.unit = e.unit /\ row.got = FALSE
  BY <1>2, <1>a DEF LineRow, Units
<1>c. line' = [line EXCEPT ![e.line] = row]
  BY <1>1, <1>2 DEF CommitChange, TypeOK
<1> HIDE DEF row
<1>6. Writing(e.line, e.note, e.unit)
  BY <1>2, <1>3, <1>4, <1>b, <1>c DEF CommitChange, Writing, StillListable, Listable, Risk
<1> QED BY <1>6, WritingKeeps

-----------------------------------------------------------------------------
(* Approval: each lot line gets a unit of its own from the shelf, and all  *)
(* units of the note are reserved.                                         *)
LEMMA ApproveKeeps ==
    ASSUME IInv, NEW n \in Notes, Approve(n) PROVE IInv'
<1>a. /\ TypeOK /\ PapersOK /\ ReceiptsOK /\ ClaimsOK /\ HoldsOK /\ StockOK /\ SourceOK
      /\ EntriesOK /\ RequestFollowsNote /\ note[n].status = "pending"
      /\ UNCHANGED <<place, edits>> /\ note' = WithStatus(n, "approved")
      /\ approval' = [approval EXCEPT ![n] = "approved"]
  BY RowTypes DEF IInv, Approve, Pending
<1> DEFINE D == {l \in LinesOf(n) : line[l].unit = Unallocated}
<1>b. PICK f \in [D -> Shelf(n)] :
        /\ \A k, l \in D : f[k] = f[l] => k = l
        /\ line' = [l \in Lines |-> IF l \in D THEN [line[l] EXCEPT !.unit = f[l]] ELSE line[l]]
        /\ stock' = WithStock(UnitsOf(LinesOf(n)) \cup {f[l] : l \in D}, "transfer_pending")
  <2>1. PICK f \in Allocations(n) :
          /\ line' = [l \in Lines |-> IF l \in DOMAIN f
                                       THEN [line[l] EXCEPT !.unit = f[l]] ELSE line[l]]
          /\ stock' = WithStock(UnitsOf(LinesOf(n)) \cup {f[l] : l \in DOMAIN f}, "transfer_pending")
    BY DEF Approve
  <2>2. f \in [D -> Shelf(n)] /\ \A k, l \in DOMAIN f : f[k] = f[l] => k = l
    BY DEF Allocations
  <2>3. DOMAIN f = D
    BY <2>2
  <2> QED BY <2>1, <2>2, <2>3
<1> DEFINE U == UnitsOf(LinesOf(n)) \cup {f[l] : l \in D}
<1>c. /\ \A l \in D : line[l].note = n /\ line[l].unit = Unallocated /\ l \in Lines
      /\ \A l \in Lines \ D : line[l].note = n => line[l].unit # Unallocated
      /\ \A l \in D : f[l] \in Lots /\ stock[f[l]] = "available" /\ place[f[l]] = note[n].from
  BY <1>b DEF LinesOf, Shelf
<1>d. \A l \in Lines : /\ line'[l].note = line[l].note /\ line'[l].got = line[l].got
                       /\ line'[l].unit = IF l \in D THEN f[l] ELSE line[l].unit
                       /\ line'[l] \in LineRow /\ (l \notin D => line'[l] = line[l])
  BY <1>a, <1>b, <1>c DEF TypeOK, LineRow, Units
<1>e. \A u \in UnitsOf(LinesOf(n)) : stock[u] = "available"
  BY DEF Approve, AllOnShelf
<1>f. \A u \in U : u \in Units /\ stock[u] = "available" /\ stock'[u] = "transfer_pending"
  <2>1. \A u \in U : u \in Units /\ stock[u] = "available"
    BY <1>c, <1>e DEF UnitsOf, Units
  <2> QED BY <1>a, <1>b, <2>1, StockTypes
<1>g. \A u \in Units \ U : stock'[u] = stock[u]
  BY <1>a, <1>b, StockTypes
<1>h. \A u \in U : \E l \in Lines : line[l].note = n /\ line'[l].unit = u
  <2>1. ASSUME NEW u \in UnitsOf(LinesOf(n)) PROVE \E l \in Lines : line[l].note = n /\ line'[l].unit = u
    <3>1. PICK l \in LinesOf(n) : line[l].unit = u /\ u \in Units
      BY DEF UnitsOf
    <3>2. l \in Lines /\ l \notin D /\ line[l].note = n
      BY <3>1, UnitsAssumption DEF LinesOf, Units
    <3> QED BY <1>d, <3>1, <3>2
  <2> QED BY <1>c, <1>d, <2>1
<1> HIDE DEF D
<1>i. \A l \in Lines : line[l].note = n => S(l) = "pending" /\ ~line[l].got
  BY <1>a, RowTypes DEF S, ReceiptsOK, Done
<1>j. \A l \in Lines \ D : line[l].note = n => line[l].unit \in Serials /\ line[l].unit \in UnitsOf(LinesOf(n))
  BY <1>a, <1>c, <1>i DEF PapersOK, UnitsOf, LinesOf, Units
<1>k. \A l \in Lines : line[l].note = n => line'[l].unit \in U
  BY <1>d, <1>j
<1> HIDE DEF U
<1>l. /\ \A m \in Notes : /\ note'[m].status = IF m = n THEN "approved" ELSE note[m].status
                          /\ note'[m].from = note[m].from
      /\ note' \in [Notes -> NoteRow]
  BY <1>a, StatusTypes DEF NoteStatuses, OpenStatuses
<1>m. \A m \in Notes \cup {NoNote} : Status(m)' = IF m = n THEN "approved" ELSE Status(m)
  BY <1>a, <1>l, RowTypes DEF Status
<1>n. \A l \in Lines : S(l)' = IF line[l].note = n THEN "approved" ELSE S(l)
  BY <1>a, <1>d, <1>m, RowTypes DEF S
<1>o. /\ "pending" \in OpenStatuses /\ "pending" \notin Held \cup Moving \cup Done
      /\ "approved" \in OpenStatuses \cap Held /\ "approved" \notin Moving \cup Done
      /\ "partially_received" \in Held /\ Moving \subseteq Held
  BY DEF OpenStatuses, Held, Moving, Done
<1>1. TypeOK'
  <2>1. stock' \in [Units -> {"available", "sold", "damaged", "transfer_pending", "in_transit"}]
    BY <1>a, <1>b, StockTypes
  <2>2. line' \in [Lines -> LineRow]
    BY <1>b, <1>d
  <2> QED BY <1>a, <1>l, <2>1, <2>2 DEF TypeOK
<1>2. RequestFollowsNote'
  <2>1. \A m \in Notes : approval'[m] = IF m = n THEN "approved" ELSE approval[m]
    BY <1>a DEF TypeOK
  <2> QED BY <1>a, <1>l, <2>1 DEF RequestFollowsNote
<1>3. PapersOK'
  <2>1. \A l \in Lines : line[l].note = NoNote => line'[l] = line[l]
    BY <1>a, <1>c, <1>d, RowTypes
  <2>2. \A l \in Lines : S(l)' = "pending" => line'[l] = line[l] /\ S(l) = "pending"
    BY <1>c, <1>d, <1>n
  <2>3. \A l \in Lines : S(l)' \in Held => line'[l].unit \in Units
    BY <1>a, <1>d, <1>c, <1>f, <1>k, <1>n DEF PapersOK
  <2>4. \A l \in Lines : line'[l].note # NoNote => S(l)' \notin {"none", "deleted"}
    BY <1>a, <1>d, <1>n DEF PapersOK
  <2> QED BY <1>a, <1>d, <2>1, <2>2, <2>3, <2>4 DEF PapersOK
<1>4. ReceiptsOK'
  <2>1. \A l \in Lines : /\ line'[l].got => S(l)' \in Done
                         /\ S(l)' = "received" => line'[l].got
    BY <1>a, <1>d, <1>i, <1>n DEF ReceiptsOK
  <2>2. \E l \in Lines : line'[l].note = n
    <3>1. LinesOf(n) # {}
      BY DEF Approve
    <3> QED BY <1>d, <3>1 DEF LinesOf
  <2>3. ASSUME NEW m \in Notes, Status(m)' \in Held \cup {"received"}
        PROVE  /\ \E l \in Lines : line'[l].note = m
               /\ Status(m)' = "partially_received" =>
                    \E k, l \in Lines : /\ line'[k].note = m /\ line'[k].got
                                        /\ line'[l].note = m /\ ~line'[l].got
    <3>1. CASE m = n
      BY <1>m, <2>2, <3>1
    <3>2. CASE m # n
      BY <1>a, <1>d, <1>m, <2>3, <3>2 DEF ReceiptsOK
    <3> QED BY <3>1, <3>2
  <2> QED BY <1>o, <2>1, <2>3 DEF ReceiptsOK
<1>5. ClaimsOK'
  <2>1. \A l \in Lines : line'[l].unit \in Serials => line'[l].unit = line[l].unit
    BY <1>c, <1>d, UnitsAssumption
  <2>2. \A l \in Lines : S(l)' \in OpenStatuses => S(l) \in OpenStatuses
    BY <1>i, <1>n, <1>o
  <2> QED BY <1>a, <2>1, <2>2 DEF ClaimsOK
<1>p. \A l \in Lines : line[l].note # n /\ S(l) \in Held /\ ~line[l].got =>
        line[l].unit \in Units /\ line[l].unit \notin U
  BY <1>a, <1>f DEF PapersOK, StockOK, Held
<1>6. HoldsOK'
  <2>1. ASSUME NEW k \in Lines, NEW l \in Lines, line[k].note = n, line[l].note = n,
               line'[k].unit = line'[l].unit
        PROVE  k = l
    <3>1. k \in D <=> l \in D
      BY <1>c, <1>d, <1>j, <2>1, UnitsAssumption
    <3>2. CASE k \in D /\ l \in D
      <4>1. f[k] = f[l]
        BY <1>d, <2>1, <3>2
      <4> QED BY <1>b, <3>2, <4>1
    <3>3. CASE k \notin D /\ l \notin D
      BY <1>a, <1>d, <1>i, <1>j, <1>o, <2>1, <3>3 DEF ClaimsOK
    <3> QED BY <3>1, <3>2, <3>3
  <2>2. ASSUME NEW k \in Lines, NEW l \in Lines, line[k].note = n, line[l].note # n,
               S(l) \in Held, ~line[l].got
        PROVE  line'[k].unit # line'[l].unit
    BY <1>c, <1>d, <1>k, <1>p, <2>2
  <2>3. ASSUME NEW k \in Lines, NEW l \in Lines, line[k].note # n, line[l].note # n,
               S(k) \in Held, S(l) \in Held, ~line[k].got, ~line[l].got,
               line'[k].unit = line'[l].unit
        PROVE  k = l
    BY <1>a, <1>c, <1>d, <2>3 DEF HoldsOK
  <2> QED BY <1>d, <1>n, <2>1, <2>2, <2>3 DEF HoldsOK
<1>7. StockOK'
  <2>1. ASSUME NEW l \in Lines, ~line'[l].got
        PROVE  /\ S(l)' = "approved" => stock'[line'[l].unit] = "transfer_pending"
               /\ S(l)' \in Moving => stock'[line'[l].unit] = "in_transit"
    <3>1. CASE line[l].note = n
      BY <1>f, <1>k, <1>n, <1>o, <3>1
    <3>2. CASE line[l].note # n
      <4>1. l \notin D /\ line'[l] = line[l] /\ S(l)' = S(l)
        BY <1>c, <1>d, <1>n, <3>2
      <4>2. S(l) \in Held => stock'[line[l].unit] = stock[line[l].unit]
        BY <1>g, <1>p, <2>1, <3>2, <4>1
      <4> QED BY <1>a, <1>o, <2>1, <4>1, <4>2 DEF StockOK
    <3> QED BY <3>1, <3>2
  <2>2. ASSUME NEW T \in {{"approved"}, Moving}, NEW u \in Units, Holder(u, T) PROVE Holder(u, T)'
    <3>1. PICK l \in Lines : line[l].unit = u /\ ~line[l].got /\ S(l) \in T
      BY <2>2 DEF Holder
    <3>2. line[l].note # n
      BY <1>i, <1>o, <3>1
    <3>3. line'[l] = line[l] /\ S(l)' = S(l)
      BY <1>c, <1>d, <1>n, <3>2
    <3> QED BY <3>1, <3>3 DEF Holder
  <2>3. \A u \in U : Holder(u, {"approved"})' /\ stock'[u] = "transfer_pending"
    BY <1>d, <1>f, <1>h, <1>i, <1>n DEF Holder
  <2>4. \A u \in Units : /\ stock'[u] = "transfer_pending" => Holder(u, {"approved"})'
                         /\ stock'[u] = "in_transit" => Holder(u, Moving)'
    BY <1>a, <1>g, <2>2, <2>3 DEF StockOK
  <2> QED BY <2>1, <2>4 DEF StockOK
<1>8. SourceOK'
  <2>1. ASSUME NEW l \in Lines, S(l)' \in OpenStatuses, ~line'[l].got, line'[l].unit \in Units
        PROVE  place'[line'[l].unit] = note'[line'[l].note].from
    <3>1. CASE l \in D
      BY <1>a, <1>c, <1>d, <1>l, <3>1
    <3>2. CASE l \notin D
      <4>1. line'[l] = line[l] /\ S(l) \in OpenStatuses
        BY <1>d, <1>i, <1>n, <1>o, <2>1, <3>2
      <4>2. line[l].note \in Notes
        BY <1>a, <4>1, RowTypes DEF S, OpenStatuses, Moving
      <4> QED BY <1>a, <1>l, <2>1, <4>1, <4>2 DEF SourceOK
    <3> QED BY <3>1, <3>2
  <2> QED BY <2>1 DEF SourceOK
<1>9. EntriesOK'
  <2>1. \A e \in edits : e.call = "add" => e.line \in Lines /\ line[e.line] = FreeLine
    BY <1>a, EditTypes DEF EntriesOK, TypeOK
  <2>2. \A l \in Lines : line[l] = FreeLine => line'[l] = line[l]
    BY <1>a, <1>c, <1>d, RowTypes DEF FreeLine
  <2> QED BY <1>a, <2>1, <2>2 DEF EntriesOK
<1> QED BY <1>1, <1>2, <1>3, <1>4, <1>5, <1>6, <1>7, <1>8, <1>9 DEF IInv

-----------------------------------------------------------------------------
(* An approved note is dispatched or cancelled.                            *)
Leaving(n, s, v) ==
  /\ note[n].status = "approved" /\ note' = WithStatus(n, s)
  /\ stock' = WithStock(UnitsOf(LinesOf(n)), v)
  /\ approval' = approval /\ UNCHANGED <<line, place, edits>>

LEMMA LeavingKeeps ==
    ASSUME IInv, NEW n \in Notes, NEW s, NEW v, Leaving(n, s, v),
           \/ s = "dispatched" /\ v = "in_transit"
           \/ s = "cancelled" /\ v = "available"
    PROVE  IInv'
<1>a. /\ TypeOK /\ PapersOK /\ ReceiptsOK /\ ClaimsOK /\ HoldsOK /\ StockOK /\ SourceOK
      /\ EntriesOK /\ RequestFollowsNote /\ note[n].status = "approved"
      /\ UNCHANGED <<approval, line, place, edits>> /\ note' = WithStatus(n, s)
      /\ stock' = WithStock(UnitsOf(LinesOf(n)), v)
  BY DEF IInv, Leaving
<1>b. /\ s \in NoteStatuses /\ v \in {"available", "in_transit"}
      /\ s \notin Done \cup {"approved", "none", "deleted", "pending"}
      /\ "approved" \in OpenStatuses \cap Held /\ "approved" \notin Moving \cup Done
      /\ "partially_received" \in Held /\ Moving \subseteq Held /\ Held \subseteq OpenStatuses
      /\ s = "dispatched" => s \in Moving
      /\ s = "cancelled" => s \notin OpenStatuses
  BY DEF NoteStatuses, OpenStatuses, Held, Moving, Done
<1>c. /\ \A m \in Notes : note'[m].status = IF m = n THEN s ELSE note[m].status
      /\ \A m \in Notes : note'[m].from = note[m].from
      /\ \A m \in Notes : Status(m)' = IF m = n THEN s ELSE Status(m)
      /\ \A l \in Lines : S(l)' = IF line[l].note = n THEN s ELSE S(l)
      /\ note' \in [Notes -> NoteRow]
  BY <1>a, <1>b, StatusStep, StatusTypes
<1>d. /\ stock' \in [Units -> {"available", "sold", "damaged", "transfer_pending", "in_transit"}]
      /\ \A u \in Units : stock'[u] = IF u \in UnitsOf(LinesOf(n)) THEN v ELSE stock[u]
  BY <1>a, <1>b, StockTypes
<1>e. \A l \in Lines : line[l].note = n => /\ S(l) = "approved" /\ ~line[l].got
                                           /\ line[l].unit \in Units
                                           /\ line[l].unit \in UnitsOf(LinesOf(n))
  <2>1. \A l \in Lines : line[l].note = n => S(l) = "approved" /\ ~line[l].got
    BY <1>a, <1>b, RowTypes DEF S, ReceiptsOK
  <2> QED BY <1>a, <1>b, <2>1 DEF PapersOK, UnitsOf, LinesOf
<1>f. \A u \in UnitsOf(LinesOf(n)) : \E l \in Lines : line[l].note = n /\ line[l].unit = u
  BY DEF UnitsOf, LinesOf
<1>g. \A l \in Lines : line[l].note # n /\ S(l) \in Held /\ ~line[l].got =>
        line[l].unit \in Units /\ line[l].unit \notin UnitsOf(LinesOf(n))
  BY <1>a, <1>b, <1>e, <1>f DEF PapersOK, HoldsOK
<1>1. TypeOK'
  BY <1>a, <1>c, <1>d DEF TypeOK
<1>2. RequestFollowsNote'
  BY <1>a, <1>b, <1>c DEF RequestFollowsNote
<1>3. PapersOK'
  BY <1>a, <1>b, <1>c, <1>e DEF PapersOK
<1>4. ReceiptsOK'
  <2>1. \A l \in Lines : /\ line'[l].got => S(l)' \in Done
                         /\ S(l)' = "received" => line'[l].got
    BY <1>a, <1>b, <1>c, <1>e DEF ReceiptsOK, Done
  <2>2. ASSUME NEW m \in Notes, Status(m)' \in Held \cup {"received"}
        PROVE  \E l \in Lines : line'[l].note = m
    <3>1. Status(m) \in Held \cup {"received"}
      BY <1>a, <1>b, <1>c, <2>2, RowTypes
    <3> QED BY <1>a, <3>1 DEF ReceiptsOK
  <2>3. \A m \in Notes : Status(m)' = "partially_received" => Status(m) = "partially_received"
    BY <1>b, <1>c DEF Done
  <2> QED BY <1>a, <2>1, <2>2, <2>3 DEF ReceiptsOK
<1>5. ClaimsOK'
  BY <1>a, <1>b, <1>c, <1>e DEF ClaimsOK
<1>6. HoldsOK'
  BY <1>a, <1>b, <1>c, <1>e DEF HoldsOK
<1>7. StockOK'
  <2>1. ASSUME NEW l \in Lines, ~line'[l].got
        PROVE  /\ S(l)' = "approved" => stock'[line'[l].unit] = "transfer_pending"
               /\ S(l)' \in Moving => stock'[line'[l].unit] = "in_transit"
    <3>1. CASE line[l].note = n
      BY <1>a, <1>b, <1>c, <1>d, <1>e, <3>1 DEF Held
    <3>2. CASE line[l].note # n
      <4>1. S(l) \in Held => stock'[line[l].unit] = stock[line[l].unit]
        BY <1>a, <1>d, <1>g, <2>1, <3>2
      <4> QED BY <1>a, <1>b, <1>c, <2>1, <3>2, <4>1 DEF StockOK
    <3> QED BY <3>1, <3>2
  <2>2. ASSUME NEW T \in {{"approved"}, Moving}, NEW u \in Units \ UnitsOf(LinesOf(n)), Holder(u, T)
        PROVE  Holder(u, T)'
    <3>1. PICK l \in Lines : line[l].unit = u /\ ~line[l].got /\ S(l) \in T
      BY <2>2 DEF Holder
    <3>2. line[l].note # n
      BY <1>e, <2>2, <3>1
    <3> QED BY <1>a, <1>c, <3>1, <3>2 DEF Holder
  <2>3. ASSUME v = "in_transit", NEW u \in UnitsOf(LinesOf(n)) PROVE Holder(u, Moving)'
    <3>1. PICK l \in Lines : line[l].note = n /\ line[l].unit = u
      BY <1>f
    <3>2. s \in Moving
      BY <1>b, <2>3
    <3> QED BY <1>a, <1>c, <1>e, <3>1, <3>2 DEF Holder
  <2>4. \A u \in Units : /\ stock'[u] = "transfer_pending" => Holder(u, {"approved"})'
                         /\ stock'[u] = "in_transit" => Holder(u, Moving)'
    BY <1>a, <1>b, <1>d, <2>2, <2>3 DEF StockOK
  <2> QED BY <2>1, <2>4 DEF StockOK
<1>8. SourceOK'
  <2>1. \A l \in Lines : S(l)' \in OpenStatuses => S(l) \in OpenStatuses /\ line[l].note \in Notes
    BY <1>a, <1>b, <1>c, <1>e, RowTypes DEF S, OpenStatuses, Moving
  <2> QED BY <1>a, <1>c, <2>1 DEF SourceOK
<1>9. EntriesOK'
  BY <1>a, SameEntries
<1> QED BY <1>1, <1>2, <1>3, <1>4, <1>5, <1>6, <1>7, <1>8, <1>9 DEF IInv

LEMMA DispatchKeeps ==
    ASSUME IInv, NEW n \in Notes, Dispatch(n) PROVE IInv'
<1>1. Leaving(n, "dispatched", "in_transit")
  BY DEF Dispatch, Leaving
<1> QED BY <1>1, LeavingKeeps

LEMMA CancelKeeps ==
    ASSUME IInv, NEW n \in Notes, Cancel(n) PROVE IInv'
<1>1. CASE note[n].status = "pending"
  BY <1>1, RejectKeeps
<1>2. CASE note[n].status = "approved"
  <2>1. \A l \in LinesOf(n) : S(l) = "approved" /\ ~line[l].got /\ stock[line[l].unit] = "transfer_pending"
    BY <1>2, RowTypes DEF IInv, LinesOf, S, ReceiptsOK, Done, StockOK
  <2>2. {u \in UnitsOf(LinesOf(n)) : note[n].status = "approved" /\ stock[u] = "transfer_pending"}
          = UnitsOf(LinesOf(n))
    BY <1>2, <2>1 DEF UnitsOf
  <2>3. approval' = approval
    <3>1. approval[n] # "pending"
      BY <1>2 DEF IInv, RequestFollowsNote
    <3> QED BY <3>1 DEF Cancel, IInv, TypeOK
  <2>4. Leaving(n, "cancelled", "available")
    BY <1>2, <2>2, <2>3 DEF Cancel, Leaving
  <2> QED BY <2>4, LeavingKeeps
<1> QED BY <1>1, <1>2 DEF Cancel

-----------------------------------------------------------------------------
(* Receipt: the lines in L arrive.                                         *)
LEMMA ReceiveKeeps ==
    ASSUME IInv, NEW n \in Notes, NEW L \in SUBSET LinesOf(n), NEW D \in SUBSET UnitsOf(L),
           Receive(n, L, D)
    PROVE  IInv'
<1> DEFINE R == L \cup {l \in LinesOf(n) : line[l].got}
           s == AfterReceipt(n, R)
<1>a. /\ TypeOK /\ PapersOK /\ ReceiptsOK /\ ClaimsOK /\ HoldsOK /\ StockOK /\ SourceOK
      /\ EntriesOK /\ RequestFollowsNote /\ note[n].status \in Moving /\ L \subseteq Receivable(n)
      /\ UNCHANGED <<approval, edits>> /\ note' = WithStatus(n, s)
      /\ line' = [l \in Lines |-> IF l \in L THEN [line[l] EXCEPT !.got = TRUE] ELSE line[l]]
  BY DEF IInv, Receive
<1>b. /\ Moving \subseteq Held /\ Held \subseteq OpenStatuses /\ Held \subseteq NoteStatuses
      /\ Moving \subseteq NoteStatuses
      /\ "received" \in NoteStatuses \ (OpenStatuses \cup Moving) /\ "partially_received" \in Moving
      /\ {"none", "deleted", "pending", "approved"} \cap (Moving \cup Done) = {}
      /\ "pending" \in OpenStatuses /\ "pending" \notin Held /\ Done = {"partially_received", "received"}
      /\ "received" \notin Held
  BY DEF NoteStatuses, OpenStatuses, Held, Moving, Done
<1>c. /\ \A l \in Lines : line[l].note = n => S(l) = note[n].status
      /\ \A l \in L : l \in Lines /\ line[l].note = n /\ ~line[l].got /\ line[l].unit \in Units
  BY <1>a, RowTypes DEF S, LinesOf, Receivable
<1>d. \A l \in Lines : /\ line'[l].note = line[l].note /\ line'[l].unit = line[l].unit
                       /\ line'[l].got = (line[l].got \/ l \in L)
                       /\ line'[l] \in LineRow /\ (l \notin L => line'[l] = line[l])
  BY <1>a DEF TypeOK, LineRow
(* The status the note gets: received when nothing is left, and the same   *)
(* as before only when nothing has come at all.                            *)
<1>e. /\ R = LinesOf(n) => s = "received"
      /\ R # LinesOf(n) /\ R # {} => s = "partially_received"
      /\ R # LinesOf(n) /\ R = {} => s = note[n].status
  BY DEF AfterReceipt
<1>f. \A l \in Lines : l \in R <=> line[l].note = n /\ line'[l].got
  BY <1>c, <1>d DEF LinesOf
<1>g. R \subseteq LinesOf(n) /\ LinesOf(n) # {}
  BY <1>a, <1>b, RowTypes DEF ReceiptsOK, LinesOf
<1>h. note[n].status = "partially_received" => R # {}
  BY <1>a, RowTypes DEF ReceiptsOK, LinesOf
<1> HIDE DEF R, s
<1>i. s \in NoteStatuses /\ s \in Moving \cup {"received"}
  BY <1>a, <1>b, <1>e
<1>j. /\ \A m \in Notes : /\ note'[m].status = IF m = n THEN s ELSE note[m].status
                          /\ note'[m].from = note[m].from
      /\ note' \in [Notes -> NoteRow]
  BY <1>a, <1>i, StatusTypes
<1>k. \A m \in Notes \cup {NoNote} : Status(m)' = IF m = n THEN s ELSE Status(m)
  BY <1>a, <1>j, RowTypes DEF Status
<1>l. \A l \in Lines : S(l)' = IF line[l].note = n THEN s ELSE S(l)
  BY <1>a, <1>d, <1>k, RowTypes DEF S
<1>m. \A u \in UnitsOf(L) : \E l \in L : line[l].unit = u /\ S(l) \in Held /\ ~line[l].got
  BY <1>a, <1>b, <1>c DEF UnitsOf
<1>n. \A u \in Units \ UnitsOf(L) : stock'[u] = stock[u] /\ place'[u] = place[u]
  BY DEF Receive
<1>o. \A u \in UnitsOf(L) : u \in Units /\ stock'[u] \in {"available", "damaged"}
  BY DEF Receive, UnitsOf
\* No line that still holds its unit shares it with one that arrives.
<1>p. \A l \in Lines : S(l) \in Held /\ ~line'[l].got => line[l].unit \notin UnitsOf(L)
  BY <1>a, <1>c, <1>d, <1>m DEF HoldsOK
<1>1. TypeOK'
  <2>1. stock' \in [Units -> {"available", "sold", "damaged", "transfer_pending", "in_transit"}]
    BY <1>a DEF Receive, TypeOK
  <2>2. place' \in [Units -> Places]
    BY <1>a, RowTypes DEF Receive, TypeOK
  <2>3. line' \in [Lines -> LineRow]
    BY <1>a, <1>d
  <2> QED BY <1>a, <1>j, <2>1, <2>2, <2>3 DEF TypeOK
<1>2. RequestFollowsNote'
  BY <1>a, <1>b, <1>i, <1>j DEF RequestFollowsNote
<1>3. PapersOK'
  <2>1. \A l \in Lines : line[l].note = NoNote => line'[l] = line[l]
    BY <1>a, <1>c, <1>d, RowTypes
  <2>2. \A l \in Lines : S(l)' = "pending" => S(l) = "pending"
    BY <1>b, <1>i, <1>l
  <2>3. \A l \in Lines : line[l].note = n => line[l].unit \in Units
    BY <1>a, <1>b, <1>c DEF PapersOK
  <2>4. \A l \in Lines : S(l)' \in Held => line[l].unit \in Units
    BY <1>a, <1>l, <2>3 DEF PapersOK
  <2>5. \A l \in Lines : line[l].note # NoNote => S(l)' \notin {"none", "deleted"}
    BY <1>a, <1>b, <1>i, <1>l DEF PapersOK
  <2> QED BY <1>a, <1>d, <2>1, <2>2, <2>4, <2>5 DEF PapersOK
<1>4. ReceiptsOK'
  <2>1. ASSUME NEW l \in Lines
        PROVE  /\ line'[l].got => S(l)' \in Done
               /\ S(l)' = "received" => line'[l].got
    <3>1. CASE line[l].note = n
      <4>1. line'[l].got => R # {}
        BY <1>f, <3>1
      <4>2. s = "received" => R = LinesOf(n)
        BY <1>a, <1>b, <1>e
      <4>3. line'[l].got => s \in Done
        BY <1>b, <1>e, <4>1
      <4>4. s = "received" => line'[l].got
        BY <1>f, <3>1, <4>2 DEF LinesOf
      <4> QED BY <1>l, <3>1, <4>3, <4>4
    <3>2. CASE line[l].note # n
      BY <1>a, <1>c, <1>d, <1>l, <3>2 DEF ReceiptsOK
    <3> QED BY <3>1, <3>2
  <2>2. ASSUME NEW m \in Notes, Status(m)' \in Held \cup {"received"}
        PROVE  /\ \E l \in Lines : line'[l].note = m
               /\ Status(m)' = "partially_received" =>
                    \E k, l \in Lines : /\ line'[k].note = m /\ line'[k].got
                                        /\ line'[l].note = m /\ ~line'[l].got
    <3>1. CASE m # n
      <4>1. \A l \in Lines : line[l].note = m => line'[l] = line[l]
        BY <1>c, <1>d, <3>1
      <4>2. PICK l \in Lines : line[l].note = m
        BY <1>a, <1>k, <2>2, <3>1 DEF ReceiptsOK
      <4>3. CASE Status(m)' = "partially_received"
        <5>1. PICK i, j \in Lines : /\ line[i].note = m /\ line[i].got
                                    /\ line[j].note = m /\ ~line[j].got
          BY <1>a, <1>k, <3>1, <4>3 DEF ReceiptsOK
        <5> QED BY <4>1, <4>2, <5>1
      <4> QED BY <4>1, <4>2, <4>3
    <3>2. CASE m = n
      <4>1. \E l \in Lines : line'[l].note = n
        BY <1>d, <1>g DEF LinesOf
      <4>2. s = "partially_received" => R # {} /\ R # LinesOf(n)
        BY <1>b, <1>e, <1>h, <1>g
      <4>3. R # {} => \E k \in Lines : line'[k].note = n /\ line'[k].got
        BY <1>d, <1>f, <1>g DEF LinesOf
      <4>4. R # LinesOf(n) => \E l \in Lines : line'[l].note = n /\ ~line'[l].got
        BY <1>d, <1>f, <1>g DEF LinesOf
      <4> QED BY <1>k, <3>2, <4>1, <4>2, <4>3, <4>4
    <3> QED BY <3>1, <3>2
  <2>3. "partially_received" \in Held
    BY <1>b
  <2> QED BY <2>1, <2>2, <2>3 DEF ReceiptsOK
<1>q. \A l \in Lines : /\ S(l)' \in OpenStatuses => S(l) \in OpenStatuses
                       /\ S(l)' \in Held => S(l) \in Held
                       /\ S(l)' \in Moving => S(l) \in Moving
                       /\ S(l)' = "approved" => S(l) = "approved"
  BY <1>a, <1>b, <1>c, <1>i, <1>l
<1>5. ClaimsOK'
  BY <1>a, <1>d, <1>q DEF ClaimsOK
<1>6. HoldsOK'
  BY <1>a, <1>d, <1>q DEF HoldsOK
<1>7. StockOK'
  <2>1. ASSUME NEW l \in Lines, ~line'[l].got
        PROVE  /\ S(l)' = "approved" => stock'[line'[l].unit] = "transfer_pending"
               /\ S(l)' \in Moving => stock'[line'[l].unit] = "in_transit"
    <3>1. S(l) \in Held => stock'[line[l].unit] = stock[line[l].unit]
      BY <1>a, <1>n, <1>p, <2>1 DEF PapersOK
    <3>2. S(l) = "approved" => S(l) \in Held
      BY DEF Held
    <3> QED BY <1>a, <1>b, <1>d, <1>q, <2>1, <3>1, <3>2 DEF StockOK
  <2>2. ASSUME NEW T \in {{"approved"}, Moving}, NEW u \in Units \ UnitsOf(L), Holder(u, T)
        PROVE  Holder(u, T)'
    <3>1. PICK l \in Lines : line[l].unit = u /\ ~line[l].got /\ S(l) \in T
      BY <2>2 DEF Holder
    <3>2. l \notin L
      BY <2>2, <3>1 DEF UnitsOf
    <3>3. line[l].note = n => S(l)' \in T
      <4>1. SUFFICES ASSUME line[l].note = n PROVE s \in T
        BY <1>l
      <4>2. T = Moving
        BY <1>a, <1>b, <1>c, <3>1, <4>1
      <4>3. R # LinesOf(n)
        BY <1>d, <1>f, <3>1, <3>2, <4>1 DEF LinesOf
      <4> QED BY <1>a, <1>b, <1>e, <4>2, <4>3
    <3> QED BY <1>d, <1>l, <3>1, <3>2, <3>3 DEF Holder
  <2>3. \A u \in Units : /\ stock'[u] = "transfer_pending" => Holder(u, {"approved"})'
                         /\ stock'[u] = "in_transit" => Holder(u, Moving)'
    BY <1>a, <1>n, <1>o, <2>2 DEF StockOK
  <2> QED BY <2>1, <2>3 DEF StockOK
<1>8. SourceOK'
  <2>1. ASSUME NEW l \in Lines, S(l)' \in OpenStatuses, ~line'[l].got, line[l].unit \in Units
        PROVE  place'[line[l].unit] = note'[line[l].note].from
    <3>1. S(l) \in OpenStatuses /\ ~line[l].got /\ l \notin L
      BY <1>d, <1>q, <2>1
    <3>2. place[line[l].unit] = note[line[l].note].from /\ line[l].note \in Notes
      BY <1>a, <1>b, <2>1, <3>1, RowTypes DEF SourceOK, S, OpenStatuses, Moving
    <3>3. line[l].unit \notin UnitsOf(L)
      <4>1. CASE S(l) \in Held
        BY <1>p, <2>1, <4>1
      <4>2. CASE S(l) = "pending"
        <5>1. line[l].unit \in Serials
          BY <1>a, <2>1, <4>2, UnitsAssumption DEF PapersOK, Units
        <5> QED BY <1>a, <1>b, <1>c, <1>m, <3>1, <5>1 DEF ClaimsOK
      <4> QED BY <3>1, <4>1, <4>2 DEF OpenStatuses, Held
    <3> QED BY <1>j, <1>n, <2>1, <3>2, <3>3
  <2> QED BY <1>d, <2>1 DEF SourceOK
<1>9. EntriesOK'
  <2>1. \A e \in edits : e.call = "add" => e.line \in Lines /\ line[e.line] = FreeLine
    BY <1>a, EditTypes DEF EntriesOK, TypeOK
  <2>2. \A l \in Lines : line[l] = FreeLine => line'[l] = line[l]
    BY <1>a, <1>c, <1>d, RowTypes DEF FreeLine
  <2> QED BY <1>a, <2>1, <2>2 DEF EntriesOK
<1> QED BY <1>1, <1>2, <1>3, <1>4, <1>5, <1>6, <1>7, <1>8, <1>9 DEF IInv

-----------------------------------------------------------------------------
LEMMA InvStep ==
    ASSUME IInv, Calls = {}, [Next]_vars PROVE IInv'
<1>1. CASE UNCHANGED vars
  <2>1. UNCHANGED <<note, approval, line, stock, place, edits>>
    BY <1>1 DEF vars
  <2>2. TypeOK' /\ StockOK' /\ SourceOK'
    BY <2>1 DEF IInv, TypeOK, StockOK, SourceOK, Holder, S, Status
  <2> QED BY <2>1, <2>2, SamePapers, SameEntries DEF IInv
<1>2. ASSUME NEW e \in Edit, CheckEdit(e) PROVE IInv'
  BY <1>2, CheckKeeps
<1>3. ASSUME NEW e \in edits, CommitEdit(e) PROVE IInv'
  BY <1>3, HeaderKeeps, DeleteKeeps, AddKeeps, ChangeKeeps, RemoveKeeps, AbandonKeeps DEF CommitEdit
<1>4. ASSUME NEW n \in Notes, NoteStep(n) PROVE IInv'
  <2>1. CASE \E from, to \in Places : Create(n, from, to)
    BY <2>1, CreateKeeps
  <2>2. CASE Approve(n) \/ Reject(n) \/ Cancel(n) \/ Dispatch(n)
    BY <2>2, ApproveKeeps, RejectKeeps, CancelKeeps, DispatchKeeps
  <2>3. CASE \E L \in SUBSET LinesOf(n) : \E D \in SUBSET UnitsOf(L) : Receive(n, L, D)
    BY <2>3, ReceiveKeeps
  <2> QED BY <1>4, <2>1, <2>2, <2>3 DEF NoteStep
<1>5. ASSUME NEW u \in Units, Sell(u) \/ TakeBack(u) \/ SetByHand(u) PROVE IInv'
  BY <1>5, RestKeeps
<1> QED BY <1>1, <1>2, <1>3, <1>4, <1>5 DEF Next

(* Without the risky calls, the papers of the notes, the receipts, the     *)
(* unlocked edits in flight, the stock rows and the approval requests      *)
(* agree in every reachable state.                                         *)
THEOREM Invariant ==
    ASSUME Calls = {} PROVE Spec => []IInv
<1>1. IInv /\ [Next]_vars => IInv'
  BY InvStep
<1> QED BY <1>1, InvInit, PTL DEF Spec

(* Every variable keeps its type.                                          *)
THEOREM TypeCorrect ==
    ASSUME Calls = {} PROVE Spec => []TypeOK
<1>1. IInv => TypeOK
  BY DEF IInv
<1> QED BY <1>1, Invariant, PTL

LEMMA InvAgrees == IInv => NotesAgree
<1> SUFFICES ASSUME IInv PROVE NotesAgree
  OBVIOUS
<1>a. /\ TypeOK /\ PapersOK /\ ReceiptsOK /\ HoldsOK /\ StockOK /\ SourceOK /\ RequestFollowsNote
      /\ Held = {"approved"} \cup Moving /\ Held \subseteq OpenStatuses
      /\ "partially_received" \in Held /\ "received" \notin Held
  BY DEF IInv, Held, OpenStatuses, Moving
<1>1. OneTransfer
  BY <1>a DEF HoldsOK, OneTransfer, Outstanding, S
<1>2. HeldMatchesStock
  <2>1. ASSUME NEW u \in Units, NEW T \in {{"approved"}, Moving}
        PROVE  u \in UnitsOf(Outstanding(T)) <=> Holder(u, T)
    BY DEF UnitsOf, Outstanding, Holder, S
  <2>2. \A u \in Units : /\ Holder(u, {"approved"}) => stock[u] = "transfer_pending"
                         /\ Holder(u, Moving) => stock[u] = "in_transit"
    BY <1>a DEF StockOK, Holder
  <2> QED BY <1>a, <2>1, <2>2 DEF HeldMatchesStock, StockOK
<1>3. HeldAtSource
  BY <1>a DEF SourceOK, HeldAtSource, Outstanding, S
<1>4. ReceivedWhenAll
  <2>1. ASSUME NEW n \in Notes
        PROVE  /\ Status(n) = note[n].status /\ \A l \in LinesOf(n) : l \in Lines /\ S(l) = note[n].status
               /\ Status(n) \in Held \cup {"received"} => LinesOf(n) # {}
    BY <1>a, RowTypes DEF LinesOf, S, ReceiptsOK
  <2>2. ASSUME NEW n \in Notes, note[n].status = "partially_received"
        PROVE  /\ \E l \in LinesOf(n) : line[l].got
               /\ \E l \in LinesOf(n) : ~line[l].got
    BY <1>a, <2>1, <2>2 DEF LinesOf, ReceiptsOK
  <2> QED BY <1>a, <2>1, <2>2 DEF ReceivedWhenAll, ReceiptsOK, Done
<1> QED BY <1>a, <1>1, <1>2, <1>3, <1>4 DEF NotesAgree

(* Notes, units and approval requests agree, as long as the unlocked edits *)
(* check again what they were checked for.                                 *)
THEOREM NotesAgreeAlways ==
    ASSUME Calls = {} PROVE Spec => []NotesAgree
<1> QED BY Invariant, InvAgrees, PTL

-----------------------------------------------------------------------------
(* What a step does to a note that has left "pending": its route and lines *)
(* stay, but for the mark of receipt.                                      *)
Frozen(n) ==
  /\ note'[n].from = note[n].from /\ note'[n].to = note[n].to
  /\ \A l \in Lines : line'[l].note = n <=> line[l].note = n
  /\ \A l \in Lines : line[l].note = n =>
       line'[l].unit = line[l].unit /\ (line[l].got => line'[l].got)
Onward(n) ==
  /\ note[n].status = "approved" => note'[n].status \in {"approved", "dispatched", "cancelled"}
  /\ note[n].status \in Moving => note'[n].status \in Moving \cup {"received"}
  /\ note[n].status \in NoteStatuses \ ({"none"} \cup OpenStatuses) =>
       note'[n].status = note[n].status
StatusKept(n) == note[n].status \notin {"none", "pending"} => Frozen(n) /\ Onward(n)

LEMMA KeptEdits ==
    ASSUME IInv, Calls = {}, NEW e \in edits, CommitEdit(e), NEW n \in Notes PROVE StatusKept(n)
<1>a. TypeOK /\ ReceiptsOK /\ EntriesOK /\ e \in Edit
  BY DEF IInv, TypeOK
<1> SUFFICES ASSUME note[n].status \notin {"none", "pending"} PROVE Frozen(n) /\ Onward(n)
  BY DEF StatusKept
<1>b. ~Pending(n) /\ \A l \in Lines : line[l].note = n => S(l) # "pending"
  BY <1>a, RowTypes DEF Pending, S
<1>c. ASSUME note'[n] = note[n],
             \A l \in Lines : line'[l] = line[l] \/ (line[l].note # n /\ line'[l].note # n)
      PROVE  Frozen(n) /\ Onward(n)
  BY <1>c DEF Frozen, Onward
<1>1. CASE CommitHeader(e)
  <2>1. e.note \in Notes /\ Pending(e.note) /\ UNCHANGED line
    BY <1>1, <1>a, EditTypes DEF CommitHeader, Fresh, Risk
  <2>2. note'[n] = note[n]
    BY <1>1, <1>a, <1>b, <2>1 DEF CommitHeader, TypeOK
  <2> QED BY <1>c, <2>1, <2>2
<1>2. CASE CommitDelete(e)
  <2>1. e.note \in Notes /\ e.note # n
    BY <1>2, <1>a, <1>b, EditTypes DEF CommitDelete, Fresh, Risk
  <2>2. note'[n] = note[n]
    BY <1>2, <1>a, <2>1 DEF CommitDelete, TypeOK
  <2>3. \A l \in Lines : line'[l] = line[l] \/ (line[l].note = e.note /\ line'[l] = FreeLine)
    BY <1>2 DEF CommitDelete, LinesOf
  <2> QED BY <1>a, <1>c, <2>1, <2>2, <2>3, RowTypes DEF FreeLine
<1>3. CASE CommitAdd(e)
  <2> DEFINE row == [note |-> e.note, unit |-> e.unit, got |-> FALSE]
  <2>1. e.line \in Lines /\ e.note # n /\ row.note = e.note /\ UNCHANGED note
    BY <1>3, <1>a, <1>b, EditTypes DEF CommitAdd, Fresh, Risk
  <2>2. line' = [line EXCEPT ![e.line] = row]
    BY <1>3 DEF CommitAdd
  <2> HIDE DEF row
  <2>3. line[e.line].note = NoNote
    <3>1. line[e.line] = FreeLine
      BY <1>3, <1>a DEF CommitAdd, EntriesOK
    <3> QED BY <3>1 DEF FreeLine
  <2>4. \A l \in Lines : line'[l] = IF l = e.line THEN row ELSE line[l]
    BY <1>a, <2>1, <2>2 DEF TypeOK
  <2> QED BY <1>a, <1>c, <2>1, <2>3, <2>4, RowTypes
<1>4. CASE CommitChange(e)
  <2> DEFINE row == [line[e.line] EXCEPT !.note = e.note, !.unit = e.unit]
  <2>1. e.line \in Lines /\ e.note # n /\ line[e.line].note # n /\ UNCHANGED note
    BY <1>4, <1>a, <1>b, EditTypes DEF CommitChange, Fresh, Risk
  <2>2. line' = [line EXCEPT ![e.line] = row]
    BY <1>4, <1>a, <2>1 DEF CommitChange, TypeOK
  <2>3. row.note = e.note
    BY <1>a, <2>1 DEF TypeOK, LineRow
  <2> HIDE DEF row
  <2>4. \A l \in Lines : line'[l] = IF l = e.line THEN row ELSE line[l]
    BY <1>a, <2>1, <2>2 DEF TypeOK
  <2> QED BY <1>c, <2>1, <2>3, <2>4
<1>5. CASE CommitRemove(e)
  <2>1. e.line \in Lines /\ line[e.line].note # n /\ UNCHANGED note
    BY <1>5, <1>a, <1>b, EditTypes DEF CommitRemove, Fresh, Risk
  <2>2. \A l \in Lines : line'[l] = IF l = e.line THEN FreeLine ELSE line[l]
    BY <1>5, <1>a, <2>1 DEF CommitRemove, TypeOK
  <2> QED BY <1>a, <1>c, <2>1, <2>2, RowTypes DEF FreeLine
<1>6. CASE Abandon(e)
  BY <1>6, <1>c DEF Abandon
<1> QED BY <1>1, <1>2, <1>3, <1>4, <1>5, <1>6 DEF CommitEdit

LEMMA KeptNotes ==
    ASSUME IInv, NEW m \in Notes, NoteStep(m), NEW n \in Notes PROVE StatusKept(n)
<1>a. TypeOK /\ PapersOK
  BY DEF IInv
<1> SUFFICES ASSUME note[n].status \notin {"none", "pending"} PROVE Frozen(n) /\ Onward(n)
  BY DEF StatusKept
<1>b. ASSUME NEW s \in NoteStatuses, note' = WithStatus(m, s),
             \A l \in Lines : line'[l] = line[l] \/ (line[l].note # n /\ line'[l].note # n),
             m = n => \/ note[n].status = "approved" /\ s \in {"dispatched", "cancelled"}
                      \/ note[n].status \in Moving /\ s \in Moving \cup {"received"}
      PROVE  Frozen(n) /\ Onward(n)
  <2>1. /\ note'[n].from = note[n].from /\ note'[n].to = note[n].to
        /\ note'[n].status = IF n = m THEN s ELSE note[n].status
    BY <1>a, <1>b, StatusTypes
  <2> QED BY <1>b, <2>1 DEF Frozen, Onward, OpenStatuses, Moving
<1>1. ASSUME NEW from \in Places, NEW to \in Places, Create(m, from, to) PROVE Frozen(n) /\ Onward(n)
  <2>1. note'[n] = note[n] /\ UNCHANGED line
    BY <1>1, <1>a DEF Create, TypeOK
  <2> QED BY <2>1 DEF Frozen, Onward
<1>c. {"approved", "rejected", "cancelled", "dispatched", "received"} \cup Moving \subseteq NoteStatuses
  BY DEF NoteStatuses, OpenStatuses, Moving
<1>2. CASE Approve(m)
  <2>1. m # n /\ note' = WithStatus(m, "approved")
    BY <1>2, <1>a, RowTypes DEF Approve, Pending
  <2>2. ASSUME NEW l \in Lines PROVE line'[l] = line[l] \/ (line[l].note = m /\ line'[l].note = m)
    <3>1. PICK f \in Allocations(m) :
            line' = [k \in Lines |-> IF k \in DOMAIN f THEN [line[k] EXCEPT !.unit = f[k]] ELSE line[k]]
      BY <1>2 DEF Approve
    <3>2. DOMAIN f \subseteq LinesOf(m)
      BY DEF Allocations
    <3>3. line'[l] = IF l \in DOMAIN f THEN [line[l] EXCEPT !.unit = f[l]] ELSE line[l]
      BY <3>1
    <3>4. l \in DOMAIN f => line[l].note = m
      BY <3>2 DEF LinesOf
    <3>5. l \in DOMAIN f => line'[l].note = line[l].note
      BY <1>a, <3>3 DEF TypeOK, LineRow
    <3> QED BY <3>3, <3>4, <3>5
  <2> QED BY <1>b, <1>c, <2>1, <2>2
<1>3. CASE Reject(m)
  <2>1. m # n /\ note' = WithStatus(m, "rejected") /\ UNCHANGED line
    BY <1>3, <1>a, RowTypes DEF Reject, Pending
  <2> QED BY <1>b, <1>c, <2>1
<1>4. CASE Cancel(m)
  <2>1. note' = WithStatus(m, "cancelled") /\ UNCHANGED line
        /\ (m = n => note[n].status = "approved")
    BY <1>4 DEF Cancel
  <2> QED BY <1>b, <1>c, <2>1
<1>5. CASE Dispatch(m)
  BY <1>5, <1>b, <1>c DEF Dispatch
<1>6. ASSUME NEW L \in SUBSET LinesOf(m), NEW D \in SUBSET UnitsOf(L), Receive(m, L, D)
      PROVE  Frozen(n) /\ Onward(n)
  <2>1. PICK s \in Moving \cup {"received"} : note' = WithStatus(m, s)
    BY <1>6 DEF Receive, AfterReceipt, Moving
  <2>2. /\ note'[n].from = note[n].from /\ note'[n].to = note[n].to
        /\ note'[n].status = IF n = m THEN s ELSE note[n].status
    BY <1>a, <1>c, <2>1, StatusTypes
  <2>3. \A l \in Lines : /\ line'[l].note = line[l].note /\ line'[l].unit = line[l].unit
                         /\ line[l].got => line'[l].got
    BY <1>6, <1>a DEF Receive, TypeOK, LineRow
  <2>4. m = n => note[n].status \in Moving
    BY <1>6 DEF Receive
  <2> QED BY <2>1, <2>2, <2>3, <2>4 DEF Frozen, Onward, OpenStatuses, Moving
<1> QED BY <1>1, <1>2, <1>3, <1>4, <1>5, <1>6 DEF NoteStep

LEMMA SoldStep ==
    ASSUME IInv, Calls = {}, Next PROVE SoldStaysSold
<1>a. TypeOK /\ ReceiptsOK /\ StockOK
  BY DEF IInv
<1> SUFFICES ASSUME NEW u \in Units, stock[u] = "sold" PROVE stock'[u] \in {"sold", "available"}
  BY DEF SoldStaysSold
<1>1. CASE UNCHANGED stock
  BY <1>1
<1>2. ASSUME NEW e \in Edit, CheckEdit(e) PROVE UNCHANGED stock
  BY <1>2 DEF CheckEdit
<1>3. ASSUME NEW e \in edits, CommitEdit(e) PROVE UNCHANGED stock
  BY <1>3 DEF CommitEdit, CommitHeader, CommitDelete, CommitAdd, CommitChange, CommitRemove, Abandon
<1>4. ASSUME NEW n \in Notes, NoteStep(n) PROVE stock'[u] \in {"sold", "available"}
  <2>1. CASE Reject(n) \/ \E from, to \in Places : Create(n, from, to)
    BY <2>1 DEF Reject, Create
  <2>2. CASE Approve(n)
    <3>1. PICK f \in Allocations(n) :
            stock' = WithStock(UnitsOf(LinesOf(n)) \cup {f[l] : l \in DOMAIN f}, "transfer_pending")
      BY <2>2 DEF Approve
    <3>2. u \notin UnitsOf(LinesOf(n))
      BY <2>2 DEF Approve, AllOnShelf
    <3>3. \A l \in DOMAIN f : f[l] # u
      BY DEF Allocations, Shelf
    <3> QED BY <1>a, <3>1, <3>2, <3>3, StockTypes
  <2>3. CASE Cancel(n)
    BY <1>a, <2>3, StockTypes DEF Cancel
  <2>4. CASE Dispatch(n)
    <3>1. \A l \in LinesOf(n) : stock[line[l].unit] = "transfer_pending"
      BY <1>a, <2>4, RowTypes DEF Dispatch, LinesOf, S, ReceiptsOK, StockOK, Done
    <3>2. u \notin UnitsOf(LinesOf(n))
      BY <3>1 DEF UnitsOf
    <3> QED BY <1>a, <2>4, <3>2, StockTypes DEF Dispatch
  <2>5. ASSUME NEW L \in SUBSET LinesOf(n), NEW D \in SUBSET UnitsOf(L), Receive(n, L, D)
        PROVE  stock'[u] \in {"sold", "available"}
    <3>1. u \notin UnitsOf(L)
      BY <2>5 DEF Receive, Receivable, UnitsOf
    <3> QED BY <2>5, <3>1 DEF Receive
  <2> QED BY <1>4, <2>1, <2>2, <2>3, <2>4, <2>5 DEF NoteStep
<1>5. ASSUME NEW v \in Units, Sell(v) \/ TakeBack(v) \/ SetByHand(v)
      PROVE  stock'[u] \in {"sold", "available"}
  <2>1. PICK from, to : /\ stock[v] = from /\ stock' = [stock EXCEPT ![v] = to]
                        /\ from = "sold" => to = "available"
    BY <1>5 DEF Sell, TakeBack, SetByHand, SetStock, Risk
  <2> QED BY <1>a, <2>1 DEF TypeOK
<1> QED BY <1>1, <1>2, <1>3, <1>4, <1>5 DEF Next

(* Neither a note, nor its papers, nor a sale goes back.                   *)
THEOREM NothingGoesBackAlways ==
    ASSUME Calls = {} PROVE Spec => NothingGoesBack
<1>1. ASSUME IInv, [Next]_vars PROVE [PapersFrozen /\ Forward /\ SoldStaysSold]_vars
  <2>1. SUFFICES ASSUME Next PROVE PapersFrozen /\ Forward /\ SoldStaysSold
    BY <1>1
  <2>2. ASSUME NEW n \in Notes PROVE StatusKept(n)
    <3>1. ASSUME note' = note, line' = line PROVE StatusKept(n)
      BY <3>1 DEF StatusKept, Frozen, Onward
    <3>2. ASSUME NEW e \in Edit, CheckEdit(e) PROVE StatusKept(n)
      BY <3>1, <3>2 DEF CheckEdit
    <3>3. ASSUME NEW u \in Units, Sell(u) \/ TakeBack(u) \/ SetByHand(u) PROVE StatusKept(n)
      BY <3>1, <3>3 DEF Sell, TakeBack, SetByHand, SetStock
    <3> QED BY <1>1, <2>1, <3>2, <3>3, KeptEdits, KeptNotes DEF Next
  <2>3. PapersFrozen
    BY <2>2 DEF StatusKept, Frozen, PapersFrozen, LinesOf
  <2>4. Forward
    BY <2>2 DEF StatusKept, Onward, Forward, NoteStatuses, OpenStatuses, Moving
  <2> QED BY <1>1, <2>1, <2>3, <2>4, SoldStep
<1> QED BY <1>1, Invariant, PTL DEF Spec, NothingGoesBack


-----------------------------------------------------------------------------
(* The pages that edit documents                                           *)

Shown(E) == [of : E \cup {NoRec}, ver : 0 .. MaxVer, typed : BOOLEAN]
Answers(E) == [of : E, ver : 0 .. MaxVer, typed : {FALSE}]

Single == \A s, t \in saves : s = t

(* The type invariant in the parts that steps change together.             *)
ScreenOK ==
    /\ sel \in exists \cup {NoRec} /\ latest \in exists \cup {NoRec}
    /\ creating \in BOOLEAN /\ editing \in BOOLEAN
    /\ lines \in Shown(exists)
DataOK ==
    /\ loads \subseteq Answers(exists) /\ detail \subseteq Answers(exists)
    /\ \A l \in detail : About(l.of, detail) = {l}
ServerOK ==
    /\ page \in AllPages /\ exists \subseteq Records /\ missed \subseteq exists
    /\ ver \in [Records -> 0 .. MaxVer]
SavesOK ==
    /\ saves \subseteq [of : exists \cup {NoRec}, done : BOOLEAN] /\ Cardinality(saves) <= 1
    /\ Single

(* The bound on the saves, as a fact about their elements.                 *)
Typed == LinesTypeOK /\ Single

LEMMA Parts == Typed <=> ScreenOK /\ DataOK /\ ServerOK /\ SavesOK
BY DEF Typed, LinesTypeOK, ScreenOK, DataOK, ServerOK, SavesOK, Shown, Answers

LEMMA PartsNext == ScreenOK' /\ DataOK' /\ ServerOK' /\ SavesOK' => Typed'
BY DEF Typed, LinesTypeOK, ScreenOK, DataOK, ServerOK, SavesOK, Shown, Answers

LEMMA LinesTypes ==
    ASSUME ServerOK, NEW E, exists \subseteq E, E \subseteq Records
    PROVE  /\ Empty \in Shown(E) /\ Shown(exists) \subseteq Shown(E)
           /\ Answers(E) \subseteq Shown(E) /\ Answers(exists) \subseteq Answers(E)
           /\ \A r \in E : Stored(r) \in Answers(E) /\ Stored(r).of = r
<1>1. 0 \in 0 .. MaxVer
  BY LinesAssumption
<1>2. \A r \in E : ver[r] \in 0 .. MaxVer
  BY DEF ServerOK
<1> QED BY <1>1, <1>2 DEF Empty, Shown, Answers, Stored

LEMMA KeptType ==
    ASSUME NEW r, About(r, detail) # {} PROVE Kept(r) \in detail /\ Kept(r).of = r
BY DEF About, Kept

LEMMA RememberType ==
    ASSUME DataOK, ServerOK, NEW l \in Answers(exists)
    PROVE  /\ Remember(l) \subseteq Answers(exists)
           /\ \A k \in Remember(l) : About(k.of, Remember(l)) = {k}
BY DEF DataOK, Remember, About

LEMMA OneType ==
    ASSUME NEW E, NEW l \in Answers(E)
    PROVE  {l} \subseteq Answers(E) /\ \A k \in {l} : About(k.of, {l}) = {k}
BY DEF About

(* Opening a record, whether it exists already or was just created.        *)
LEMMA OpenedType ==
    ASSUME Typed, exists \subseteq exists', exists' \subseteq Records,
           NEW r \in exists', NEW before \in Shown(exists), Opened(r, before)
    PROVE  ScreenOK' /\ DataOK'
<1>1. /\ before \in Shown(exists') /\ Empty \in Shown(exists')
      /\ Stored(r) \in Answers(exists') /\ Answers(exists') \subseteq Shown(exists')
      /\ loads \subseteq Answers(exists') /\ detail \subseteq Answers(exists')
      /\ \A l \in detail : About(l.of, detail) = {l}
      /\ latest \in exists' \cup {NoRec}
  BY Parts, LinesTypes DEF DataOK, ScreenOK
<1>2. sel' = r /\ creating' = FALSE /\ editing' = FALSE
  BY DEF Opened, View
<1>3. CASE Keeps(r)
  <2>1. lines' = Kept(r) /\ UNCHANGED <<loads, latest, detail>> /\ Kept(r) \in detail
    BY <1>3, KeptType DEF Opened, Keeps
  <2> QED BY <1>1, <1>2, <2>1 DEF ScreenOK, DataOK, About
<1>4. CASE ~Keeps(r)
  <2>1. /\ lines' \in {Empty, before} /\ loads' = loads \cup {Stored(r)} /\ latest' = r
        /\ detail' \in {{}, detail}
    BY <1>4 DEF Opened
  <2> QED BY <1>1, <1>2, <2>1 DEF ScreenOK, DataOK, About
<1> QED BY <1>3, <1>4

LEMMA TypeInit == LinesInit => Typed
<1> SUFFICES ASSUME LinesInit PROVE Typed
  OBVIOUS
<1>1. ServerOK
  BY LinesAssumption DEF LinesInit, ServerOK
<1>2. ScreenOK
  BY <1>1, LinesTypes, LinesAssumption DEF LinesInit, ScreenOK, ServerOK
<1>3. DataOK /\ SavesOK
  BY FS_EmptySet DEF LinesInit, DataOK, SavesOK, Single
<1> QED BY <1>1, <1>2, <1>3, Parts

LEMMA TypeOpen ==
    ASSUME Typed, NEW r \in Records, OpenRow(r) PROVE Typed'
<1>1. UNCHANGED <<page, exists, ver, saves, missed>> /\ r \in exists /\ Opened(r, lines)
  BY DEF OpenRow
<1>2. ScreenOK' /\ DataOK'
  BY <1>1, Parts, OpenedType DEF ScreenOK, ServerOK
<1>3. ServerOK' /\ SavesOK'
  BY <1>1, Parts DEF ServerOK, SavesOK, Single
<1> QED BY <1>2, <1>3, PartsNext

LEMMA TypeAnswer ==
    ASSUME Typed, NEW l \in loads, NEW ok \in BOOLEAN, Answer(l, ok) PROVE Typed'
<1>1. /\ l \in Answers(exists) /\ l \in Shown(exists) /\ Empty \in Shown(exists)
      /\ l.of \in exists
  BY Parts, LinesTypes DEF DataOK, ServerOK, Answers
<1> DEFINE answered == IF ok THEN l ELSE Empty
           known == IF ok THEN Remember(l) ELSE detail
<1>2. answered \in Shown(exists)
  BY <1>1
<1>3. known \subseteq Answers(exists) /\ \A k \in known : About(k.of, known) = {k}
  BY <1>1, Parts, RememberType DEF DataOK
<1>4. /\ UNCHANGED <<page, exists, ver, creating, editing, saves>>
      /\ loads' = loads \ {l} /\ missed' \in {missed, missed \cup {l.of}}
      /\ lines' \in {lines, answered, l} /\ detail' \in {detail, known, {l}}
      /\ sel' \in {sel, l.of} /\ latest' \in {latest, NoRec}
  BY DEF Answer, mode
<1> HIDE DEF answered, known
<1>5. ScreenOK'
  BY <1>1, <1>2, <1>4, Parts DEF ScreenOK
<1>6. DataOK'
  <2>1. loads' \subseteq Answers(exists')
    BY <1>4, Parts DEF DataOK
  <2>2. detail' \subseteq Answers(exists') /\ \A k \in detail' : About(k.of, detail') = {k}
    BY <1>1, <1>3, <1>4, Parts, OneType DEF DataOK
  <2> QED BY <2>1, <2>2 DEF DataOK
<1>7. ServerOK' /\ SavesOK'
  BY <1>1, <1>4, Parts DEF ServerOK, SavesOK, Single
<1> QED BY <1>5, <1>6, <1>7, PartsNext

LEMMA TypeForm ==
    ASSUME Typed, New \/ StartEdit \/ TypeLines \/ CancelEdit \/ Back PROVE Typed'
<1>1. /\ UNCHANGED <<page, exists, ver, loads, latest, saves, missed>>
      /\ detail' \in {detail, {}}
  BY DEF New, StartEdit, TypeLines, CancelEdit, Back
<1>2. sel' \in {sel, NoRec} /\ creating' \in BOOLEAN /\ editing' \in BOOLEAN
  BY Parts DEF New, StartEdit, TypeLines, CancelEdit, Back, mode, ScreenOK
<1>3. Empty \in Shown(exists) /\ lines \in Shown(exists)
  BY Parts, LinesTypes DEF ServerOK, ScreenOK
<1>4. lines' \in Shown(exists)
  <2>1. CASE New \/ StartEdit \/ Back
    BY <1>3, <2>1 DEF New, StartEdit, Back
  <2>2. CASE TypeLines
    BY <1>3, <2>2 DEF TypeLines, Shown
  <2>3. CASE CancelEdit
    <3>1. Restored \in Shown(exists)
      BY <1>3, KeptType, Parts, LinesTypes DEF Restored, DataOK, ServerOK
    <3> QED BY <1>3, <2>3, <3>1 DEF CancelEdit
  <2> QED BY <2>1, <2>2, <2>3
<1>5. ScreenOK'
  BY <1>1, <1>2, <1>4, Parts DEF ScreenOK
<1>6. DataOK'
  BY <1>1, Parts DEF DataOK
<1>7. ServerOK' /\ SavesOK'
  BY <1>1, Parts DEF ServerOK, SavesOK, Single
<1> QED BY <1>5, <1>6, <1>7, PartsNext

LEMMA TypeSave ==
    ASSUME Typed, Save PROVE Typed'
<1>1. UNCHANGED <<page, exists, sel, creating, editing, lines, loads, latest, detail>>
  BY DEF Save, mode
<1>2. PICK s \in [of : exists \cup {NoRec}, done : BOOLEAN] : saves' = {s}
  <2>1. saves = {} /\ sel \in exists \cup {NoRec}
    BY Parts DEF Save, MaySave, ScreenOK
  <2> QED BY <2>1 DEF Save
<1>3. ver' \in [Records -> 0 .. MaxVer] /\ missed' \subseteq exists
  <2>1. ver \in [Records -> 0 .. MaxVer] /\ missed \subseteq exists
    BY Parts DEF ServerOK
  <2>2. ~creating => sel \in exists
    BY Parts DEF Save, ScreenOK
  <2>3. \A r \in Records : ver[r] < MaxVer => [ver EXCEPT ![r] = @ + 1] \in [Records -> 0 .. MaxVer]
    BY <2>1, LinesAssumption
  <2>4. exists \subseteq Records
    BY Parts DEF ServerOK
  <2>5. CASE creating
    BY <2>1, <2>5 DEF Save
  <2>6. CASE ~creating
    BY <2>1, <2>2, <2>3, <2>4, <2>6 DEF Save
  <2> QED BY <2>5, <2>6
<1>4. ScreenOK' /\ DataOK'
  BY <1>1, Parts DEF ScreenOK, DataOK
<1>5. ServerOK'
  BY <1>1, <1>3, Parts DEF ServerOK
<1>6. Cardinality({s}) = 1
  BY FS_Singleton
<1>7. SavesOK'
  BY <1>1, <1>2, <1>6 DEF SavesOK, Single
<1> QED BY <1>4, <1>5, <1>7, PartsNext

LEMMA FewerSaves ==
    ASSUME Typed, NEW s \in saves, saves' = saves \ {s} PROVE saves' = {} /\ SavesOK'
<1>1. saves' = {}
  BY DEF Typed, Single
<1> QED BY <1>1, FS_EmptySet DEF SavesOK, Single

LEMMA TypeSaved ==
    ASSUME Typed, NEW s \in saves, NEW r \in Records, Saved(s, r) PROVE Typed'
<1>1. /\ exists' = exists \cup {r} /\ r \in exists' /\ exists \subseteq exists'
      /\ exists' \subseteq Records /\ UNCHANGED <<page, ver, missed>> /\ saves' = saves \ {s}
  BY Parts DEF Saved, ServerOK
<1>2. ServerOK' /\ SavesOK'
  BY <1>1, Parts, FewerSaves DEF ServerOK
<1>3. /\ Empty \in Shown(exists) /\ Empty \in Shown(exists') /\ lines \in Shown(exists)
      /\ lines \in Shown(exists') /\ Stored(r) \in Answers(exists') /\ Stored(r) \in Shown(exists')
      /\ loads \subseteq Answers(exists') /\ detail \subseteq Answers(exists')
      /\ detail \subseteq Shown(exists') /\ \A l \in detail : About(l.of, detail) = {l}
      /\ latest \in exists' \cup {NoRec} /\ creating \in BOOLEAN
  BY <1>1, Parts, LinesTypes DEF ScreenOK, DataOK, ServerOK
<1>4. ScreenOK' /\ DataOK'
  <2>1. ASSUME NEW before \in Shown(exists), Opened(r, before) PROVE ScreenOK' /\ DataOK'
    BY <1>1, <2>1, OpenedType
  <2>2. CASE page.saved = "open"
    BY <1>3, <2>1, <2>2 DEF Saved
  <2>3. CASE page.saved = "show"
    <3>1. View(r) /\ lines' = Stored(r) /\ latest' = r /\ detail' = {Stored(r)} /\ UNCHANGED loads
      BY <2>3 DEF Saved
    <3> QED BY <1>1, <1>3, <3>1, OneType DEF View, ScreenOK, DataOK
  <2>4. CASE page.saved = "take" /\ page.load = "cached"
    <3>1. CASE Opened(r, lines)
      BY <1>3, <2>1, <3>1
    <3>2. CASE sel' = r /\ editing' = FALSE /\ UNCHANGED <<creating, lines, loads, latest, detail>>
      BY <1>1, <1>3, <3>2 DEF ScreenOK, DataOK
    <3> QED BY <2>4, <3>1, <3>2 DEF Saved
  <2>5. CASE page.saved = "take" /\ page.load = "query"
    <3>1. /\ sel' = r /\ editing' = FALSE /\ creating' = (creating /\ s.of # NoRec)
          /\ lines' \in {Empty} \cup IF Keeps(r) THEN {Kept(r)} ELSE {}
          /\ loads' = loads \cup {Stored(r)} /\ UNCHANGED <<latest, detail>>
      BY <2>5 DEF Saved, Refetched
    <3>2. Keeps(r) => Kept(r) \in detail
      BY KeptType DEF Keeps
    <3> QED BY <1>1, <1>3, <3>1, <3>2 DEF ScreenOK, DataOK
  <2> QED BY <2>2, <2>3, <2>4, <2>5 DEF Saved
<1> QED BY <1>2, <1>4, PartsNext

LEMMA TypeFailed ==
    ASSUME Typed, NEW s \in saves, Failed(s) PROVE Typed'
<1>1. /\ UNCHANGED <<page, exists, ver, sel, creating, editing, lines, loads, latest, detail>>
      /\ saves' = saves \ {s} /\ missed' \in {missed, missed \cup ({s.of} \ {NoRec})}
  BY DEF Failed, mode
<1>2. ScreenOK' /\ DataOK' /\ SavesOK'
  BY <1>1, Parts, FewerSaves DEF ScreenOK, DataOK
<1>3. s.of \in exists \cup {NoRec}
  BY Parts DEF SavesOK
<1>4. ServerOK'
  BY <1>1, <1>3, Parts DEF ServerOK
<1> QED BY <1>2, <1>4, PartsNext

LEMMA TypeStep ==
    ASSUME Typed, [LinesNext]_lineVars PROVE Typed'
<1>1. CASE UNCHANGED lineVars
  BY <1>1, Parts, PartsNext DEF lineVars, mode, ScreenOK, DataOK, ServerOK, SavesOK, Single
<1>2. CASE LinesNext
  BY <1>2, TypeOpen, TypeAnswer, TypeForm, TypeSave, TypeSaved, TypeFailed DEF LinesNext
<1> QED BY <1>1, <1>2

(* Every variable keeps its type.                                          *)
THEOREM LinesTypeCorrect == LinesSpec => []LinesTypeOK
<1>1. Typed => LinesTypeOK
  BY DEF Typed
<1> QED BY <1>1, TypeInit, TypeStep, PTL DEF LinesSpec

-----------------------------------------------------------------------------
(* The pages that keep the last record asked for: that record is the one   *)
(* selected, and the lines are its own, or none, or its load has still to  *)
(* be answered; a page that empties the lines on opening never shows       *)
(* others.                                                                 *)
AskedLast == sel # NoRec => latest = sel
OwnOrAwaited ==
    sel # NoRec => \/ lines.of \in {sel, NoRec}
                   \/ ~page.clears /\ (creating \/ About(sel, loads) # {})
LinesInv == page.load = "latest" => AskedLast /\ OwnOrAwaited

LEMMA LatestPages ==
    ASSUME NEW p \in AllPages, p.load = "latest"
    PROVE  p.saved = IF p.clears THEN "show" ELSE "open"
BY DEF AllPages, PurchaseOrders, PurchaseReturns, SaleReturns, ItemTransfers, GoodsReceived,
       BillsOfMaterial, Quotations

LEMMA OpenedLines ==
    ASSUME page.load = "latest", page' = page, NEW r, r # NoRec, NEW before, Opened(r, before)
    PROVE  LinesInv'
<1>1. /\ sel' = r /\ latest' = r /\ loads' = loads \cup {Stored(r)}
      /\ lines' = IF page.clears THEN Empty ELSE before
  BY DEF Opened, Keeps, View
<1>2. Stored(r) \in loads' /\ Stored(r).of = r
  BY <1>1 DEF Stored
<1>3. About(r, loads') # {}
  BY <1>2 DEF About
<1> QED BY <1>1, <1>3 DEF LinesInv, AskedLast, OwnOrAwaited, Empty

LEMMA LinesStep ==
    ASSUME Typed, LinesInv, page.load = "latest", LinesNext PROVE LinesInv'
<1>a. /\ AskedLast /\ OwnOrAwaited /\ lines \in Shown(exists) /\ NoRec \notin exists
      /\ loads \subseteq Answers(exists) /\ page.saved = IF page.clears THEN "show" ELSE "open"
      /\ exists \subseteq Records
  BY Parts, LatestPages, LinesAssumption DEF LinesInv, ScreenOK, ServerOK, DataOK
<1>b. ASSUME UNCHANGED <<page, sel, creating, latest, loads>>, lines'.of \in {lines.of, sel, NoRec}
      PROVE  LinesInv'
  BY <1>a, <1>b DEF LinesInv, AskedLast, OwnOrAwaited
<1>1. ASSUME NEW r \in Records, OpenRow(r) PROVE LinesInv'
  BY <1>a, <1>1, OpenedLines DEF OpenRow
<1>2. ASSUME NEW l \in loads, NEW ok \in BOOLEAN, Answer(l, ok) PROVE LinesInv'
  <2>1. UNCHANGED <<page, creating, latest>> /\ loads' = loads \ {l} /\ l.of # NoRec
    BY <1>a, <1>2 DEF Answer, mode, Answers
  <2>2. CASE IsLatest(l.of) /\ ~page.clears
    <3>1. sel' = sel /\ lines'.of \in {l.of, NoRec}
      BY <1>2, <2>2 DEF Answer, Empty
    <3> QED BY <1>a, <2>1, <2>2, <3>1 DEF LinesInv, AskedLast, OwnOrAwaited, IsLatest
  <2>3. CASE IsLatest(l.of) /\ page.clears /\ ok
    <3>1. sel' = l.of /\ lines' = l
      BY <1>2, <2>3 DEF Answer
    <3> QED BY <2>1, <2>3, <3>1 DEF LinesInv, AskedLast, OwnOrAwaited, IsLatest
  <2>4. CASE ~IsLatest(l.of) \/ (page.clears /\ ~ok)
    <3>1. UNCHANGED <<sel, lines>>
      BY <1>2, <2>4 DEF Answer
    <3>2. ~page.clears /\ sel # NoRec => About(sel, loads') = About(sel, loads)
      BY <1>a, <2>1, <2>4 DEF AskedLast, IsLatest, About
    <3> QED BY <1>a, <2>1, <3>1, <3>2 DEF LinesInv, AskedLast, OwnOrAwaited
  <2> QED BY <2>2, <2>3, <2>4
<1>3. ASSUME New \/ Back PROVE LinesInv'
  BY <1>3 DEF New, Back, LinesInv, AskedLast, OwnOrAwaited
<1>4. ASSUME StartEdit \/ TypeLines PROVE LinesInv'
  <2>1. lines'.of = lines.of
    BY <1>a, <1>4 DEF StartEdit, TypeLines, Shown
  <2> QED BY <1>b, <1>4, <2>1 DEF StartEdit, TypeLines, mode
<1>5. ASSUME CancelEdit PROVE LinesInv'
  <2>1. CASE creating
    BY <1>5, <2>1 DEF CancelEdit, LinesInv, AskedLast, OwnOrAwaited
  <2>2. CASE ~creating
    <3>1. Restored.of \in {lines.of, sel, NoRec}
      BY KeptType DEF Restored, Empty
    <3>2. UNCHANGED <<page, sel, latest, loads>> /\ creating' = FALSE /\ creating = FALSE
      BY <1>5, <2>2, Parts DEF CancelEdit, ScreenOK
    <3>3. lines' \in {Restored, Empty}
      BY <1>5, <2>2 DEF CancelEdit
    <3>4. lines'.of \in {lines.of, sel, NoRec}
      BY <3>1, <3>3 DEF Empty
    <3> QED BY <1>b, <3>2, <3>4
  <2> QED BY <2>1, <2>2, Parts DEF ScreenOK
<1>6. ASSUME Save \/ \E s \in saves : Failed(s) PROVE LinesInv'
  BY <1>b, <1>6 DEF Save, Failed, mode
<1>7. ASSUME NEW s \in saves, NEW r \in Records, Saved(s, r) PROVE LinesInv'
  <2>1. page' = page /\ r # NoRec
    BY <1>7, LinesAssumption DEF Saved
  <2>2. CASE page.clears
    BY <1>a, <1>7, <2>1, <2>2 DEF Saved, Stored, View, LinesInv, AskedLast, OwnOrAwaited
  <2>3. CASE ~page.clears
    BY <1>a, <1>7, <2>1, <2>3, OpenedLines DEF Saved
  <2> QED BY <2>2, <2>3
<1> QED BY <1>1, <1>2, <1>3, <1>4, <1>5, <1>6, <1>7 DEF LinesNext

LEMMA SamePage == ASSUME [LinesNext]_lineVars PROVE page' = page
BY DEF LinesNext, lineVars, OpenRow, Answer, New, StartEdit, TypeLines, CancelEdit, Back, Save, Saved, Failed

LEMMA LinesStepOrStutter ==
    ASSUME Typed, LinesInv, [LinesNext]_lineVars PROVE LinesInv'
<1>1. CASE page.load # "latest"
  BY <1>1, SamePage DEF LinesInv
<1>2. CASE UNCHANGED lineVars
  BY <1>2 DEF lineVars, mode, LinesInv, AskedLast, OwnOrAwaited
<1> QED BY <1>1, <1>2, LinesStep

(* In whatever order the answers come, the lines on the screen are those   *)
(* of the record selected once its own load was answered.                  *)
THEOREM LinesFollowSelectionAlways == LinesSpec => []LinesFollowSelection
<1>1. LinesInit => LinesInv
  BY DEF LinesInit, LinesInv, AskedLast, OwnOrAwaited
<1>2. LinesInv => LinesFollowSelection
  BY DEF LinesInv, OwnOrAwaited, LinesFollowSelection
<1> QED BY <1>1, <1>2, TypeInit, TypeStep, LinesStepOrStutter, PTL DEF LinesSpec

-----------------------------------------------------------------------------
(* The pages that give back what was saved.  What they have at hand of a   *)
(* record is what the server has, unless an answer about it failed or is   *)
(* on its way; what a view shows is what the page has at hand.             *)
KnownCurrent ==
    \A l \in detail :
        \/ l = Stored(l.of)
        \/ l.of \in missed
        \/ About(l.of, loads) # {}
        \/ \E s \in saves : s.of = l.of /\ s.done
LoadsCurrent == \A l \in loads : l = Stored(l.of) \/ l.of \in missed
KnownIsLatest == page.clears => \A l \in detail : l.of = latest
ShownIsKnown ==
    sel # NoRec /\ ~creating /\ ~editing => \A l \in detail : l.of = sel => lines = l

ViewInv ==
    page.revert = "saved" => KnownCurrent /\ LoadsCurrent /\ KnownIsLatest /\ ShownIsKnown

LEMMA RevertPages ==
    ASSUME NEW p \in AllPages, p.revert = "saved"
    PROVE  \/ p.clears /\ p.load = "latest" /\ p.saved = "show"
           \/ ~p.clears /\ p.load = "query" /\ p.saved = "take"
BY DEF AllPages, PurchaseOrders, PurchaseReturns, SaleReturns, ItemTransfers, GoodsReceived,
       BillsOfMaterial, Quotations

LEMMA KeptIsTheOne ==
    ASSUME DataOK, NEW l \in detail PROVE Kept(l.of) = l
BY DEF DataOK, About, Kept

LEMMA ViewStep ==
    ASSUME Typed, ViewInv, page.revert = "saved", LinesNext PROVE ViewInv'
<1>a. /\ KnownCurrent /\ LoadsCurrent /\ KnownIsLatest /\ ShownIsKnown
      /\ NoRec \notin exists /\ loads \subseteq Answers(exists) /\ detail \subseteq Answers(exists)
      /\ exists \subseteq Records /\ ver \in [Records -> 0 .. MaxVer]
      /\ DataOK /\ saves \subseteq [of : exists \cup {NoRec}, done : BOOLEAN]
  BY Parts, LinesAssumption DEF ViewInv, ServerOK, DataOK, SavesOK
<1>b. \/ page.clears /\ page.load = "latest" /\ page.saved = "show"
      \/ ~page.clears /\ page.load = "query" /\ page.saved = "take"
  BY RevertPages, Parts DEF ServerOK
<1>c. \A l \in detail \cup loads : l.of \in exists
  BY <1>a DEF Answers
<1>d. \A r : r \in Records /\ ver'[r] = ver[r] => Stored(r)' = Stored(r)
  BY DEF Stored
<1> DEFINE Goal == KnownCurrent /\ LoadsCurrent /\ KnownIsLatest /\ ShownIsKnown
<1>1. ASSUME NEW r \in Records, OpenRow(r) PROVE Goal'
  <2>1. /\ sel' = r /\ UNCHANGED <<page, ver, saves, missed>>
        /\ loads' \in {loads, loads \cup {Stored(r)}}
    BY <1>1 DEF OpenRow, Opened, View
  <2>2. LoadsCurrent'
    BY <1>a, <2>1 DEF LoadsCurrent, Stored
  <2>3. detail' \in {detail, {}}
    BY <1>1 DEF OpenRow, Opened
  <2>4. KnownCurrent'
    BY <1>a, <2>1, <2>3 DEF KnownCurrent, Stored, About
  <2>5. KnownIsLatest'
    BY <1>1, <1>b, <2>1 DEF OpenRow, Opened, Keeps, KnownIsLatest
  <2>6. ShownIsKnown'
    <3>1. CASE Keeps(r)
      <4>1. lines' = Kept(r) /\ detail' = detail
        BY <1>1, <3>1 DEF OpenRow, Opened
      <4> QED BY <1>a, <2>1, <4>1, KeptIsTheOne DEF ShownIsKnown
    <3>2. CASE ~Keeps(r)
      <4>1. \A l \in detail' : l.of # r
        BY <1>1, <1>b, <2>3, <3>2 DEF OpenRow, Opened, Keeps, About
      <4> QED BY <2>1, <4>1 DEF ShownIsKnown
    <3> QED BY <3>1, <3>2
  <2> QED BY <2>2, <2>4, <2>5, <2>6
<1>2. ASSUME NEW l \in loads, NEW ok \in BOOLEAN, Answer(l, ok) PROVE Goal'
  <2>1. /\ UNCHANGED <<page, ver, creating, editing, latest, saves>> /\ loads' = loads \ {l}
        /\ missed' = IF ok THEN missed ELSE missed \cup {l.of}
    BY <1>2, <1>b DEF Answer, mode
  <2>2. LoadsCurrent'
    BY <1>a, <2>1 DEF LoadsCurrent, Stored
  <2>3. ASSUME NEW k \in detail, k.of # l.of \/ ~ok
        PROVE  \/ k = Stored(k.of)' \/ k.of \in missed' \/ About(k.of, loads') # {}
               \/ \E s \in saves' : s.of = k.of /\ s.done
    <3>1. k.of # l.of => About(k.of, loads') = About(k.of, loads)
      BY <2>1 DEF About
    <3> QED BY <1>a, <2>1, <2>3, <3>1 DEF KnownCurrent, Stored
  <2>4. l = Stored(l.of)' \/ l.of \in missed'
    BY <1>a, <2>1 DEF LoadsCurrent, Stored
  <2>5. CASE page.clears
    <3>1. CASE IsLatest(l.of) /\ ok
      <4>1. sel' = l.of /\ lines' = l /\ detail' = {l}
        BY <1>2, <1>b, <2>5, <3>1 DEF Answer
      <4> QED BY <2>1, <2>2, <2>4, <3>1, <4>1
              DEF KnownCurrent, KnownIsLatest, ShownIsKnown, IsLatest
    <3>2. CASE ~(IsLatest(l.of) /\ ok)
      <4>1. UNCHANGED <<sel, lines, detail>>
        BY <1>2, <1>b, <2>5, <3>2 DEF Answer
      <4>2. \A k \in detail : k.of # l.of \/ ~ok
        BY <1>a, <2>5, <3>2 DEF KnownIsLatest, IsLatest
      <4>3. KnownCurrent'
        BY <2>3, <4>1, <4>2 DEF KnownCurrent
      <4> QED BY <1>a, <2>1, <2>2, <4>1, <4>3 DEF KnownIsLatest, ShownIsKnown
    <3> QED BY <3>1, <3>2
  <2>6. CASE ~page.clears
    <3>1. /\ detail' = IF ok THEN Remember(l) ELSE detail
          /\ lines' = IF ok /\ sel = l.of /\ ~creating /\ ~editing THEN l ELSE lines
          /\ sel' = sel
      BY <1>2, <1>b, <2>6 DEF Answer
    <3>2. \A k \in detail' : (ok /\ k = l) \/ (k \in detail /\ (k.of # l.of \/ ~ok))
      BY <3>1 DEF Remember, About
    <3>3. KnownCurrent'
      BY <2>3, <2>4, <3>2 DEF KnownCurrent
    <3>4. ShownIsKnown'
      BY <1>a, <2>1, <3>1, <3>2 DEF ShownIsKnown
    <3>5. KnownIsLatest'
      BY <2>1, <2>6 DEF KnownIsLatest
    <3> QED BY <2>2, <3>3, <3>4, <3>5
  <2> QED BY <2>5, <2>6
<1>3. ASSUME New \/ Back \/ StartEdit \/ TypeLines PROVE Goal'
  <2>1. /\ UNCHANGED <<page, ver, loads, latest, saves, missed>>
        /\ detail' \in {detail, {}}
        /\ sel' = NoRec \/ editing'
    BY <1>3 DEF New, Back, StartEdit, TypeLines, mode
  <2> QED BY <1>a, <2>1
          DEF KnownCurrent, LoadsCurrent, KnownIsLatest, ShownIsKnown, Stored, About
<1>4. ASSUME CancelEdit PROVE Goal'
  <2>1. UNCHANGED <<page, ver, loads, latest, saves, missed, detail>>
    BY <1>4 DEF CancelEdit
  <2>2. KnownCurrent' /\ LoadsCurrent' /\ KnownIsLatest'
    BY <1>a, <2>1 DEF KnownCurrent, LoadsCurrent, KnownIsLatest, Stored, About
  <2>3. sel' # NoRec => sel' = sel /\ lines' = Restored
    BY <1>4 DEF CancelEdit
  <2>4. \A l \in detail : l.of = sel => Restored = l
    BY <1>a, KeptIsTheOne DEF Restored, About
  <2> QED BY <2>1, <2>2, <2>3, <2>4 DEF ShownIsKnown
<1>5. ASSUME Save PROVE Goal'
  <2>1. UNCHANGED <<page, sel, creating, editing, lines, loads, latest, detail>> /\ editing
        /\ saves \subseteq saves'
    BY <1>5 DEF Save, mode
  <2>2. KnownIsLatest' /\ ShownIsKnown'
    BY <1>a, <2>1 DEF KnownIsLatest, ShownIsKnown
  <2>3. CASE UNCHANGED <<ver, missed>>
    BY <1>a, <2>1, <2>2, <2>3 DEF KnownCurrent, LoadsCurrent, Stored, About
  <2>4. ASSUME ver' = [ver EXCEPT ![sel] = @ + 1], [of |-> sel, done |-> TRUE] \in saves',
               missed' = IF About(sel, loads) # {} THEN missed \cup {sel} ELSE missed
        PROVE  Goal'
    <3>1. \A r \in Records \ {sel} : ver'[r] = ver[r]
      BY <1>a, <2>4
    <3>2. \A k \in detail : k.of # sel => Stored(k.of)' = Stored(k.of)
      BY <1>a, <1>c, <3>1 DEF Stored
    <3>3. \A k \in loads : k.of # sel => Stored(k.of)' = Stored(k.of)
      BY <1>a, <1>c, <3>1 DEF Stored
    <3>4. KnownCurrent'
      BY <1>a, <2>1, <2>4, <3>2 DEF KnownCurrent, About
    <3>5. LoadsCurrent'
      BY <1>a, <2>1, <2>4, <3>3 DEF LoadsCurrent, About
    <3> QED BY <2>2, <3>4, <3>5
  <2>5. UNCHANGED <<ver, missed>>
        \/ /\ ver' = [ver EXCEPT ![sel] = @ + 1] /\ [of |-> sel, done |-> TRUE] \in saves'
           /\ missed' = IF About(sel, loads) # {} THEN missed \cup {sel} ELSE missed
    BY <1>5 DEF Save
  <2> QED BY <2>3, <2>4, <2>5
<1>6. ASSUME NEW s \in saves, Failed(s) PROVE Goal'
  <2>1. /\ UNCHANGED <<page, ver, sel, creating, editing, lines, loads, latest, detail>>
        /\ saves' = saves \ {s}
        /\ missed' = IF s.done /\ s.of # NoRec THEN missed \cup {s.of} ELSE missed
    BY <1>6 DEF Failed, mode
  <2>2. KnownCurrent'
    BY <1>a, <1>c, <2>1 DEF KnownCurrent, Stored, About
  <2> QED BY <1>a, <2>1, <2>2 DEF LoadsCurrent, KnownIsLatest, ShownIsKnown, Stored
<1>7. ASSUME NEW s \in saves, NEW r \in Records, Saved(s, r) PROVE Goal'
  <2>1. /\ UNCHANGED <<page, ver, missed>> /\ saves' = saves \ {s}
        /\ sel' = r /\ editing' = FALSE /\ s.of \in {NoRec, r} /\ r # NoRec
    BY <1>7, <1>b, LinesAssumption DEF Saved, View
  <2>2. CASE page.clears
    <3>1. lines' = Stored(r) /\ latest' = r /\ detail' = {Stored(r)} /\ UNCHANGED loads
      BY <1>7, <1>b, <2>2 DEF Saved
    <3>2. KnownCurrent' /\ LoadsCurrent'
      BY <1>a, <2>1, <3>1 DEF KnownCurrent, LoadsCurrent, Stored
    <3> QED BY <3>1, <3>2 DEF KnownIsLatest, ShownIsKnown, Stored
  <2>3. CASE ~page.clears
    <3>1. /\ lines' = IF Keeps(r) /\ ~creating' THEN Kept(r) ELSE Empty
          /\ loads' = loads \cup {Stored(r)} /\ UNCHANGED <<latest, detail>>
      BY <1>7, <1>b, <2>3 DEF Saved, Refetched
    <3>2. LoadsCurrent'
      BY <1>a, <2>1, <3>1 DEF LoadsCurrent, Stored
    <3>3. ASSUME NEW k \in detail
          PROVE  \/ k = Stored(k.of)' \/ k.of \in missed' \/ About(k.of, loads') # {}
                 \/ \E x \in saves' : x.of = k.of /\ x.done
      <4>1. CASE k.of = r
        <5>1. Stored(r) \in About(k.of, loads')
          BY <3>1, <4>1 DEF About, Stored
        <5> QED BY <5>1
      <4>2. CASE k.of # r
        <5>1. k.of # s.of
          BY <1>a, <1>c, <2>1, <4>2
        <5> QED BY <1>a, <2>1, <3>1, <5>1 DEF KnownCurrent, About, Stored
      <4> QED BY <4>1, <4>2
    <3>4. KnownCurrent'
      BY <3>1, <3>3 DEF KnownCurrent
    <3>5. \A l \in detail : l.of = r => Keeps(r) /\ Kept(r) = l
      BY <1>a, <1>b, <2>3, KeptIsTheOne DEF Keeps, About
    <3> QED BY <2>1, <2>3, <3>1, <3>2, <3>4, <3>5 DEF KnownIsLatest, ShownIsKnown
  <2> QED BY <2>2, <2>3
<1>8. Goal'
  <2> HIDE DEF Goal
  <2> QED BY <1>1, <1>2, <1>3, <1>4, <1>5, <1>6, <1>7 DEF LinesNext
<1> QED BY <1>8 DEF ViewInv

LEMMA ViewStepOrStutter ==
    ASSUME Typed, ViewInv, [LinesNext]_lineVars PROVE ViewInv'
<1>1. CASE page.revert # "saved"
  BY <1>1, SamePage DEF ViewInv
<1>2. CASE UNCHANGED lineVars
  BY <1>2 DEF lineVars, mode, ViewInv, KnownCurrent, LoadsCurrent, KnownIsLatest, ShownIsKnown,
        Stored, About
<1> QED BY <1>1, <1>2, ViewStep

(* A view of a bill of material or a quotation shows its lines as they     *)
(* were last saved, whatever was edited, cancelled or overtaken before.    *)
THEOREM ViewShowsSavedAlways == LinesSpec => []ViewShowsSaved
<1>1. LinesInit => ViewInv
  BY DEF LinesInit, ViewInv, KnownCurrent, LoadsCurrent, KnownIsLatest, ShownIsKnown
<1>2. Typed /\ ViewInv => ViewShowsSaved
  <2> SUFFICES ASSUME Typed, ViewInv, page.revert = "saved", ~editing, ~creating,
                      About(sel, loads \cup saves) = {}, About(sel, detail) # {},
                      sel \notin missed
               PROVE  lines = Stored(sel)
    BY DEF ViewShowsSaved
  <2>1. PICK l \in detail : l.of = sel
    BY DEF About
  <2>2. sel # NoRec
    BY <2>1, Parts, LinesAssumption DEF DataOK, ServerOK, Answers
  <2>3. lines = l
    BY <2>1, <2>2 DEF ViewInv, ShownIsKnown
  <2>4. About(sel, loads) = {} /\ ~\E s \in saves : s.of = sel
    BY DEF About
  <2>5. l = Stored(sel)
    BY <2>1, <2>4 DEF ViewInv, KnownCurrent
  <2> QED BY <2>3, <2>5
<1> QED BY <1>1, <1>2, TypeInit, TypeStep, ViewStepOrStutter, PTL DEF LinesSpec
=============================================================================
