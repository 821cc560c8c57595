----------------------------- MODULE RecordEditor -----------------------------
(***************************************************************************)
(* The master-data pages: a list of records, the selected one, and a form  *)
(* that creates or edits it.  All build on useMasterDetailState; each adds *)
(* its own handling of late answers, of conflicts with other users and of  *)
(* image uploads.  A page is described by what its handlers do; the        *)
(* actions are shared.                                                     *)
(*                                                                         *)
(* A record's content is its version: two copies with the same version are *)
(* equal.  What the form holds is named by the record and version its      *)
(* fields were taken from.                                                 *)
(***************************************************************************)
EXTENDS Integers, FiniteSets

CONSTANTS Records, NoRec,
          Pages,        \* the pages considered, of those defined below
          MaxVer        \* bound: versions of a record

(* The pages.  asks: a row is opened over the form after a question when   *)
(* it was "changed", or whenever it is "open"; newAsks: so is New; created *)
(* and updated: what the answer to a save does; conflict: what a 409 does; *)
(* image: what the answer to an upload does; versioned: a save names the   *)
(* version it replaces; stays: Back is disabled while a save is pending.   *)
Suppliers == [asks |-> "changed", newAsks |-> TRUE, created |-> "reselect",
              updated |-> "same", conflict |-> "choose", image |-> "merge",
              versioned |-> TRUE, stays |-> FALSE]
Customers == [Suppliers EXCEPT !.created = "select", !.updated = "take",
                               !.conflict = "nothing", !.image = "none"]
Products == [asks |-> "open", newAsks |-> FALSE, created |-> "take",
             updated |-> "same", conflict |-> "choose", image |-> "adopt",
             versioned |-> TRUE, stays |-> FALSE]
Categories == [Products EXCEPT !.conflict = "load", !.image = "none"]
Brands == [Products EXCEPT !.conflict = "load", !.image = "none"]
(* The personnel pages send no version.                                    *)
Promotions == [Customers EXCEPT !.versioned = FALSE, !.stays = TRUE]
Deductions == [Promotions EXCEPT !.updated = "leave"]
SalaryProfiles == [Promotions EXCEPT !.updated = "leave"]
EmployeeAssets == [Promotions EXCEPT !.updated = "leave"]
Leaves == [Promotions EXCEPT !.updated = "leave"]
AllPages == {Suppliers, Customers, Products, Categories, Brands, Promotions,
             Deductions, SalaryProfiles, EmployeeAssets, Leaves}

ASSUME EditorAssumption ==
    NoRec \notin Records /\ MaxVer \in Nat \ {0} /\ Pages \subseteq AllPages

VARIABLES
    page,       \* the page open
    server,     \* record -> its version, 0 when there is none
    sel,        \* the record selected, as it was when it was loaded
    creating, editing,
    form,       \* of which record and version the fields are; told: the version the
                \* user agreed to overwrite; typed: changed since
    ask,        \* "Discard changes?" is open: for this record, for None: New
    guard,      \* saveInFlightRef
    saves,      \* saves in flight
    clash,      \* the conflict dialog: the other user's version that was loaded
    reselect,   \* records created, loaded again before they are selected
    uploads     \* image uploads in flight

mode == <<creating, editing>>
screen == <<sel, mode, form, ask>>
vars == <<page, server, sel, mode, form, ask, guard, saves, clash, reselect, uploads>>

Versions == 0..MaxVer
None == [id |-> NoRec, ver |-> 0]
Loaded == [id : Records, ver : 1..MaxVer]
Copy == Loaded \cup {None}
Blank == [of |-> None, told |-> 0, typed |-> FALSE]
Form == [of : Copy, told : Versions, typed : BOOLEAN]
Filled(c) == [Blank EXCEPT !.of = c]
Current(r) == [id |-> r, ver |-> server[r]]
Absent == {r \in Records : server[r] = 0}

TypeOK ==
    /\ page \in AllPages
    /\ server \in [Records -> Versions]
    /\ sel \in Copy
    /\ creating \in BOOLEAN /\ editing \in BOOLEAN /\ guard \in BOOLEAN
    /\ form \in Form
    /\ ask \subseteq Copy /\ Cardinality(ask) <= 1
    /\ saves \subseteq [to : Copy, form : Form, got : Copy,
                       out : {"sent", "done", "stale", "gone", "lost"}]
    /\ clash \in Copy
    /\ reselect \subseteq [to : Loaded, asks : BOOLEAN]
    /\ uploads \subseteq Records

Init ==
    /\ page \in Pages
    /\ \E r \in Records : server = [x \in Records |-> IF x = r THEN 0 ELSE 1]
    /\ sel = None /\ creating = FALSE /\ editing = FALSE /\ form = Blank
    /\ ask = {} /\ guard = FALSE /\ saves = {} /\ clash = None
    /\ reselect = {} /\ uploads = {}

Modal == ask # {} \/ clash # None
Rest == <<page, server, guard, saves, clash, reselect, uploads>>

----------------------------------------------------------------------------
(* Selecting.                                                              *)
Show(c) ==
    /\ sel' = c /\ form' = Filled(c)
    /\ creating' = FALSE /\ editing' = FALSE

Asks == IF page.asks = "open" THEN editing \/ creating
        ELSE editing /\ ~creating /\ form.typed

(* A row of the list; it may have been loaded before the last changes.     *)
\* The table of the records is on the screen only when no record is.
TableShown == sel = None /\ ~creating /\ ~Modal
OpenRow(c) ==
    /\ TableShown
    /\ c.ver \in 1..server[c.id]
    /\ IF Asks THEN ask' = {c} /\ UNCHANGED <<sel, mode, form>>
               ELSE Show(c) /\ UNCHANGED ask
    /\ UNCHANGED Rest

StartNew ==
    /\ sel' = None /\ form' = Blank /\ creating' = TRUE /\ editing' = TRUE
New ==
    /\ TableShown
    /\ IF page.newAsks /\ editing /\ ~creating /\ form.typed
       THEN ask' = {None} /\ UNCHANGED <<sel, mode, form>>
       ELSE StartNew /\ UNCHANGED ask
    /\ UNCHANGED Rest

Discard ==
    /\ ask # {} /\ ask' = {}
    /\ \E c \in ask : IF c = None THEN StartNew ELSE Show(c)
    /\ UNCHANGED Rest

KeepEditing ==
    /\ ask # {} /\ ask' = {}
    /\ UNCHANGED <<sel, mode, form, Rest>>

(* Duplicate: the form becomes a new record; the products page leaves the  *)
(* original selected.  On the customers page New wipes the copy again.     *)
Duplicate ==
    /\ ~Modal /\ sel # None /\ page \in {Suppliers, Customers, Products} /\ ~editing /\ ~creating
    /\ creating' = TRUE /\ editing' = TRUE
    /\ form' = [Blank EXCEPT !.typed = page # Customers]
    /\ sel' = IF page.newAsks THEN None ELSE sel
    /\ UNCHANGED <<ask, Rest>>

StartEdit ==
    /\ ~Modal /\ sel # None /\ ~creating /\ ~editing
    /\ editing' = TRUE /\ form' = [form EXCEPT !.typed = FALSE]
    /\ UNCHANGED <<sel, creating, ask, Rest>>

Type ==
    /\ ~Modal /\ editing /\ (sel # None \/ creating) /\ ~form.typed
    /\ form' = [form EXCEPT !.typed = TRUE]
    /\ UNCHANGED <<sel, mode, ask, Rest>>

(* Cancel is disabled while a save is pending, Back only on some pages; it *)
(* leaves the form and the edit mode of an existing record as they are.    *)
Cancel ==
    /\ ~Modal /\ saves = {} /\ editing
    /\ \/ creating /\ sel' = None /\ UNCHANGED form
       \/ ~creating /\ sel # None /\ form' = Filled(sel) /\ UNCHANGED sel
    /\ creating' = FALSE /\ editing' = FALSE
    /\ UNCHANGED <<ask, Rest>>

Back ==
    /\ ~Modal /\ (sel # None \/ creating)
    /\ page.stays => saves = {}
    /\ sel' = None /\ creating' = FALSE
    /\ editing' = (editing /\ ~creating)
    /\ UNCHANGED <<form, ask, Rest>>

----------------------------------------------------------------------------
(* Saving.  The request names the version selected; the server refuses it  *)
(* when the record has another one by then.  Without a version the last    *)
(* save wins.                                                              *)
\* Mutant: the guard is not looked at.
MaySaveAgain == TRUE
MaySave == ~guard
Save ==
    /\ ~Modal /\ editing /\ (creating \/ sel # None)
    /\ MaySave
    /\ Cardinality(saves) < 2
    /\ guard' = TRUE
    /\ saves' = saves \cup {[to |-> IF creating THEN None ELSE sel, form |-> form,
                             out |-> "sent", got |-> None]}
    /\ UNCHANGED <<page, server, screen, clash, reselect, uploads>>

Accepted(s) ==
    IF page.versioned THEN s.to = Current(s.to.id) ELSE server[s.to.id] > 0

Reply(s, out, c) == saves' = (saves \ {s}) \cup {[s EXCEPT !.out = out, !.got = c]}
Write(s, r) ==
    /\ server[r] < MaxVer
    /\ server' = [server EXCEPT ![r] = @ + 1]
    /\ Reply(s, "done", [id |-> r, ver |-> server[r] + 1])
Refuse(s) ==
    /\ Reply(s, IF server[s.to.id] = 0 THEN "gone" ELSE "stale", None)
    /\ UNCHANGED server

Serve(s) ==
    /\ s.out = "sent"
    /\ \/ s.to = None /\ \E r \in Absent : Write(s, r)
       \/ s.to # None /\ Accepted(s) /\ Write(s, s.to.id)
       \/ s.to # None /\ ~Accepted(s) /\ Refuse(s)
    /\ UNCHANGED <<page, screen, guard, clash, reselect, uploads>>

Settled(s) == saves' = saves \ {s} /\ guard' = FALSE

(* The answer to a create.  A record taken without its form is only safe   *)
(* when the form on the screen is still the one that was saved: leaving    *)
(* create mode then makes it the record's.  Customers and suppliers go     *)
(* through the selection, suppliers after loading the record again.        *)
Created(s) ==
    /\ s.out = "done" /\ s.to = None
    /\ CASE page.created = "reselect" ->
              /\ creating' = FALSE /\ editing' = FALSE
              /\ reselect' = reselect \cup {[to |-> s.got, asks |-> Asks]}
              /\ UNCHANGED <<sel, form, ask>>
         [] page.created = "select" ->
              /\ UNCHANGED reselect
              /\ IF Asks THEN ask' = {s.got} /\ editing' = FALSE /\ UNCHANGED <<sel, creating, form>>
                         ELSE Show(s.got) /\ UNCHANGED ask
         [] page.created = "take" ->
              /\ creating' = FALSE /\ editing' = FALSE /\ sel' = s.got
              /\ form' = IF creating THEN Filled(s.got) ELSE form
              /\ UNCHANGED <<ask, reselect>>
    /\ Settled(s)
    /\ UNCHANGED <<page, server, clash, uploads>>

(* getById(...).catch(() => newSupplier)                                   *)
Fetched(w) == IF server[w.to.id] = 0 THEN w.to ELSE Current(w.to.id)

(* The page has one dialog: asking takes it away from an open conflict,    *)
(* whose save then never settles.                                          *)
Reselect(w) ==
    /\ w \in reselect /\ ask = {}
    /\ reselect' = reselect \ {w}
    /\ IF w.asks
       THEN /\ ask' = {Fetched(w)} /\ clash' = None
            /\ saves' = IF clash = None THEN saves
                        ELSE {[s EXCEPT !.out = "lost"] : s \in saves}
            /\ UNCHANGED <<sel, mode, form>>
       ELSE Show(Fetched(w)) /\ UNCHANGED <<ask, clash, saves>>
    /\ UNCHANGED <<page, server, guard, uploads>>

\* selectedSupplierIdRef.current === updatedSupplier.id
StillSelected(s) == sel.id = s.to.id

(* The answer to an update: the page checks whether the record is still    *)
(* selected, takes it whatever is on the screen, or only leaves edit mode  *)
(* and keeps the copy it had before the save.                              *)
Updated(s) ==
    /\ s.out = "done" /\ s.to # None
    /\ IF page.updated \in {"take", "leave"}
       THEN /\ sel' = IF page.updated = "take" THEN s.got ELSE sel
            /\ editing' = FALSE /\ UNCHANGED creating
            /\ form' = IF form.of.id = s.to.id THEN [form EXCEPT !.of = s.got] ELSE form
       ELSE IF StillSelected(s) THEN Show(s.got)
       ELSE UNCHANGED <<sel, mode, form>>
    /\ Settled(s)
    /\ UNCHANGED <<page, server, ask, clash, reselect, uploads>>

(* 409: the record is loaded again; if it moved on and is still selected,  *)
(* the page loads it into the form or lets the user choose.                *)
Conflict(s) ==
    LET fresh == Current(s.to.id)
        here == StillSelected(s) /\ fresh.ver > 0
    IN /\ s.out = "stale" /\ clash = None
       /\ IF page.conflict = "choose" /\ here
          THEN clash' = fresh /\ UNCHANGED <<sel, mode, form, guard, saves>>
          ELSE /\ Settled(s) /\ UNCHANGED clash
               /\ IF page.conflict = "load" /\ here THEN Show(fresh)
                  ELSE UNCHANGED <<sel, mode, form>>
       /\ UNCHANGED <<page, server, ask, reselect, uploads>>

\* Mutant: after the dialog the selection is not looked at again.
AnyRecord(c) == TRUE
\* selectedSupplierIdRef.current !== fresh.id, read again after the dialog
StillOpen(c) == sel.id = c.id

\* "Load their version" or "Keep my edits".
Choose(s, load) ==
    /\ s.out = "stale" /\ clash # None
    /\ clash' = None
    /\ IF ~StillOpen(clash) THEN UNCHANGED <<sel, mode, form>>
       ELSE IF load THEN Show(clash)
       ELSE sel' = clash /\ form' = [form EXCEPT !.told = clash.ver] /\ UNCHANGED mode
    /\ Settled(s)
    /\ UNCHANGED <<page, server, ask, reselect, uploads>>

(* 404: the page leaves the record; the customers page only shows the      *)
(* error.                                                                  *)
Gone(s) ==
    /\ s.out = "gone"
    /\ IF page.conflict # "nothing" /\ StillSelected(s)
       THEN sel' = None /\ editing' = FALSE /\ UNCHANGED <<creating, form>>
       ELSE UNCHANGED <<sel, mode, form>>
    /\ Settled(s)
    /\ UNCHANGED <<page, server, ask, clash, reselect, uploads>>

(* No answer within 30 s, executed or not.                                 *)
TimedOut(s) ==
    /\ s.out \in {"sent", "done"}
    /\ Settled(s)
    /\ UNCHANGED <<page, server, screen, clash, reselect, uploads>>

----------------------------------------------------------------------------
(* Images are stored at once, apart from the form, and leave the record's  *)
(* version alone.  The answer carries the record as it is then: the        *)
(* suppliers page takes the image only, the products page the record.      *)
Upload ==
    /\ ~Modal /\ page.image # "none" /\ editing /\ ~creating /\ sel # None
    /\ uploads' = uploads \cup {sel.id}
    /\ UNCHANGED <<page, server, screen, guard, saves, clash, reselect>>

(* Mutant: the answer is taken as the record.                              *)
AdoptsRecord(r) == Current(r)
\* handleLogoUpdated: only logo_path is merged
WithImage(r) == sel

Uploaded(r) ==
    /\ r \in uploads
    /\ uploads' = uploads \ {r}
    /\ sel' = IF sel.id # r \/ server[r] = 0 THEN sel
              ELSE IF page.image = "adopt" THEN Current(r) ELSE WithImage(r)
    /\ UNCHANGED <<page, server, mode, form, ask, guard, saves, clash, reselect>>

OtherSaves(r) ==
    /\ server[r] \in 1..(MaxVer - 1)
    /\ server' = [server EXCEPT ![r] = @ + 1]
    /\ UNCHANGED <<page, screen, guard, saves, clash, reselect, uploads>>

OtherDeletes(r) ==
    /\ server[r] = MaxVer
    /\ server' = [server EXCEPT ![r] = 0]
    /\ UNCHANGED <<page, screen, guard, saves, clash, reselect, uploads>>

Next ==
    \/ \E c \in Loaded : OpenRow(c)
    \/ New \/ Discard \/ KeepEditing \/ Duplicate
    \/ StartEdit \/ Type \/ Cancel \/ Back \/ Save
    \/ \E s \in saves :
          \/ Serve(s) \/ Created(s) \/ Updated(s) \/ Conflict(s)
          \/ Choose(s, TRUE) \/ Choose(s, FALSE) \/ Gone(s) \/ TimedOut(s)
    \/ \E w \in reselect : Reselect(w)
    \/ Upload
    \/ \E r \in Records : Uploaded(r) \/ OtherSaves(r) \/ OtherDeletes(r)

Spec == Init /\ [][Next]_vars

----------------------------------------------------------------------------
(* One save at a time, whatever record the user has gone to meanwhile, and *)
(* the guard is not lost on the way: while it is held its save is in       *)
(* flight (saveInFlightRef spans the conflict dialog).                     *)
OneSave ==
    /\ \A s, t \in saves : s = t
    /\ guard <=> saves # {}

(* The pages that neither take a record without its form nor an answer     *)
(* without looking at what is selected, or keep the user on the form until *)
(* the answer is there.                                                    *)
Careful(p) == p.stays \/ (p.created # "take" /\ p.updated = "same")

(* A save writes the fields of the record it names, never those of another *)
(* record the user had opened before or opens while answers are late.      *)
OwnForm ==
    Careful(page) =>
        \A s \in saves : s.to.id = s.form.of.id

(* No lost update (the promise of the version check): a save that passes   *)
(* was made on the very version it replaces, or the user was shown that    *)
(* version and chose to overwrite it.                                      *)
Informed(s) == s.to.ver \in {s.form.of.ver, s.form.told}
NoLostUpdate ==
    Careful(page) /\ page.versioned /\ page.image # "adopt" =>
        \A s \in saves : s.to # None => Informed(s)

(* The same of every page.                                                 *)
NoStaleSave == \A s \in saves : s.to # None => Informed(s)
=============================================================================
