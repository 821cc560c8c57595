---------------------------- MODULE DocumentLines ----------------------------
(***************************************************************************)
(* The document pages: a record whose lines are not in the row of the      *)
(* list but loaded when it is opened.  The answers come late and in any    *)
(* order; each page has its own way to keep those of another record out.   *)
(* A page is described by what its handlers do; the actions are shared.    *)
(*                                                                         *)
(* The lines on the screen are named by the record they were loaded from   *)
(* (NoRec: none), which of its saved versions they are, and whether the    *)
(* user changed them since.  A request reaches the server before anything  *)
(* else happens; its answer takes any time.  The user may decline to leave *)
(* a changed header: then nothing happens.                                 *)
(***************************************************************************)
EXTENDS Integers, FiniteSets

CONSTANTS Records, NoRec,
          Existing,      \* the records there are at first
          Pages,         \* the pages considered, of those defined below
          MaxVer         \* bound: how often one record's lines are saved

(* load: how a late answer is kept out ("latest": only the last record     *)
(* asked for; "query": by the record's key; "none": "cached", "plain");    *)
(* clears: the lines are emptied on opening; back: when Back empties them; *)
(* revert: what Cancel leaves of an edit; saved: what an answer to a save  *)
(* does; edits: existing records can be edited.  The return pages are      *)
(* alike.                                                                  *)
PurchaseOrders == [load |-> "cached", clears |-> FALSE, back |-> "never",
                   revert |-> "empty", saved |-> "take", edits |-> TRUE]
PurchaseReturns == [load |-> "latest", clears |-> FALSE, back |-> "never",
                    revert |-> "empty", saved |-> "open", edits |-> FALSE]
SaleReturns == [load |-> "latest", clears |-> FALSE, back |-> "never",
                revert |-> "empty", saved |-> "open", edits |-> FALSE]
ItemTransfers == [load |-> "latest", clears |-> FALSE, back |-> "creating",
                  revert |-> "empty", saved |-> "open", edits |-> TRUE]
GoodsReceived == [load |-> "plain", clears |-> FALSE, back |-> "always",
                  revert |-> "empty", saved |-> "open", edits |-> FALSE]
BillsOfMaterial == [load |-> "latest", clears |-> TRUE, back |-> "never",
                    revert |-> "saved", saved |-> "show", edits |-> TRUE]
Quotations == [load |-> "query", clears |-> FALSE, back |-> "always",
               revert |-> "saved", saved |-> "take", edits |-> TRUE]
AllPages == {PurchaseOrders, PurchaseReturns, SaleReturns, ItemTransfers,
             GoodsReceived, BillsOfMaterial, Quotations}

ASSUME LinesAssumption ==
    /\ NoRec \notin Records /\ Existing \subseteq Records /\ MaxVer \in Nat
    /\ Pages \subseteq AllPages

VARIABLES
    page,
    exists,       \* the records there are
    ver,          \* the version of each record's lines that the server has
    sel, creating, editing,
    lines,
    loads,        \* loads in flight
    latest,       \* latestRequestRef; selectingOrderIdRef of purchase orders
    detail,       \* the lines the page has at hand: orderItemsCacheRef,
                  \* bomDetail, the query cache
    saves,        \* the save in flight: of which record (NoRec: a new one) and
                  \* whether the server carried it out
    missed        \* history: records whose load failed, whose save was not
                  \* confirmed, or that were saved with a load in flight

mode == <<creating, editing>>
lineVars == <<page, exists, ver, sel, mode, lines, loads, latest, detail, saves, missed>>

Empty == [of |-> NoRec, ver |-> 0, typed |-> FALSE]
Stored(r) == [of |-> r, ver |-> ver[r], typed |-> FALSE]
About(r, ls) == {l \in ls : l.of = r}

LinesTypeOK ==
    /\ page \in AllPages
    /\ exists \subseteq Records
    /\ sel \in exists \cup {NoRec} /\ latest \in exists \cup {NoRec}
    /\ creating \in BOOLEAN /\ editing \in BOOLEAN
    /\ ver \in [Records -> 0 .. MaxVer]
    /\ lines \in [of : exists \cup {NoRec}, ver : 0 .. MaxVer, typed : BOOLEAN]
    /\ loads \cup detail \subseteq [of : exists, ver : 0 .. MaxVer, typed : {FALSE}]
    /\ \A l \in detail : About(l.of, detail) = {l}
    /\ saves \subseteq [of : exists \cup {NoRec}, done : BOOLEAN] /\ Cardinality(saves) <= 1
    /\ missed \subseteq exists

LinesInit ==
    /\ page \in Pages
    /\ exists = Existing /\ ver = [r \in Records |-> 0] /\ missed = {}
    /\ sel = NoRec /\ creating = FALSE /\ editing = FALSE
    /\ lines = Empty /\ loads = {} /\ latest = NoRec /\ detail = {} /\ saves = {}

----------------------------------------------------------------------------
(* Opening a record.  Purchase orders ignore a second click while the      *)
(* first is loading and show what they loaded once; a bill of material     *)
(* forgets what it showed before.                                          *)
View(r) == sel' = r /\ creating' = FALSE /\ editing' = FALSE
Keeps(r) == page.load \in {"cached", "query"} /\ About(r, detail) # {}
Kept(r) == CHOOSE l \in detail : l.of = r
Opened(r, before) ==
    /\ View(r)
    /\ IF Keeps(r)
       THEN lines' = Kept(r) /\ UNCHANGED <<loads, latest, detail>>
       ELSE /\ lines' = IF page.clears THEN Empty ELSE before
            /\ loads' = loads \cup {Stored(r)} /\ latest' = r
            /\ detail' = IF page.clears THEN {} ELSE detail

\* The table of the documents is on the screen only when none is; a purchase
\* order also links to the others of its quotation.
TableShown == sel = NoRec /\ ~creating
OpenRow(r) ==
    /\ r \in exists
    /\ TableShown \/ (page.load = "cached" /\ ~creating /\ ~editing)
    /\ page.load = "cached" => latest # r
    /\ Opened(r, lines)
    /\ UNCHANGED <<page, exists, ver, saves, missed>>

(* Mutant: whatever was asked for last.                                    *)
AnyAnswer(r) == TRUE
\* if (latestRequestRef.current !== bom.id) return
IsLatest(r) == latest = r

(* The answer of a load.  Where one that failed is the latest the lines    *)
(* are emptied; bills of material and quotations keep what they show.      *)
Remember(l) == (detail \ About(l.of, detail)) \cup {l}
Answer(l, ok) ==
    LET r == l.of
        answered == IF ok THEN l ELSE Empty
        known == IF ok THEN Remember(l) ELSE detail
    IN  /\ loads' = loads \ {l}
        /\ missed' = IF ok THEN missed ELSE missed \cup {r}
        /\ \/ /\ page.load = "plain"
              /\ lines' = answered /\ UNCHANGED <<sel, latest, detail>>
           \/ /\ page.load = "cached"
              /\ lines' = answered /\ detail' = known
              /\ latest' = IF latest = r THEN NoRec ELSE latest
              /\ UNCHANGED sel
           \/ /\ page.load = "latest" /\ ~page.clears /\ IsLatest(r)
              /\ lines' = answered /\ UNCHANGED <<sel, latest, detail>>
           \/ /\ page.load = "latest" /\ page.clears /\ IsLatest(r) /\ ok
              /\ sel' = r /\ lines' = l /\ detail' = {l} /\ UNCHANGED latest
           \/ /\ page.load = "latest" /\ (~IsLatest(r) \/ (page.clears /\ ~ok))
              /\ UNCHANGED <<sel, lines, latest, detail>>
           \/ /\ page.load = "query"
              /\ detail' = known
              /\ lines' = IF ok /\ sel = r /\ ~creating /\ ~editing THEN l ELSE lines
              /\ UNCHANGED <<sel, latest>>
        /\ UNCHANGED <<page, exists, ver, mode, saves>>

----------------------------------------------------------------------------
(* The form.  New on the quotations page leaves the lines as they are.     *)
New ==
    /\ TableShown
    /\ sel' = NoRec /\ creating' = TRUE /\ editing' = TRUE
    /\ lines' = IF page.load = "query" THEN lines ELSE Empty
    /\ detail' = IF page.clears THEN {} ELSE detail
    /\ UNCHANGED <<page, exists, ver, loads, latest, saves, missed>>

StartEdit ==
    /\ page.edits /\ sel # NoRec /\ ~creating /\ ~editing
    /\ editing' = TRUE
    /\ UNCHANGED <<page, exists, ver, sel, creating, lines, loads, latest, detail, saves, missed>>

TypeLines ==
    /\ editing /\ (sel # NoRec \/ creating) /\ ~lines.typed
    /\ lines' = [lines EXCEPT !.typed = TRUE]
    /\ UNCHANGED <<page, exists, ver, sel, mode, loads, latest, detail, saves, missed>>

(* Cancelling an edit restores the saved lines from the loaded document.   *)
Restored == IF About(sel, detail) # {} THEN Kept(sel)
            ELSE IF page.clears THEN lines ELSE Empty
CancelEdit ==
    /\ editing /\ saves = {}
    /\ \/ creating /\ sel' = NoRec /\ lines' = Empty
       \/ /\ ~creating /\ sel # NoRec /\ UNCHANGED sel
          /\ lines' = IF page.revert = "saved" THEN Restored ELSE Empty
    /\ creating' = FALSE /\ editing' = FALSE
    /\ UNCHANGED <<page, exists, ver, loads, latest, detail, saves, missed>>

Back ==
    /\ sel # NoRec \/ creating
    /\ sel' = NoRec /\ creating' = FALSE /\ editing' = (editing /\ ~creating)
    /\ lines' = IF page.back = "always" \/ (page.back = "creating" /\ creating) THEN Empty ELSE lines
    /\ detail' = IF page.clears THEN {} ELSE detail
    /\ UNCHANGED <<page, exists, ver, loads, latest, saves, missed>>

(* A ref keeps a second save out until the first one settles.              *)
MaySave == saves = {}
Save ==
    /\ editing /\ (creating \/ sel # NoRec) /\ MaySave
    /\ \/ /\ creating /\ saves' = saves \cup {[of |-> NoRec, done |-> TRUE]}
          /\ UNCHANGED <<ver, missed>>
       \/ /\ ~creating /\ ver[sel] < MaxVer
          /\ \E done \in BOOLEAN :
                /\ saves' = saves \cup {[of |-> sel, done |-> done]}
                /\ ver' = IF done THEN [ver EXCEPT ![sel] = @ + 1] ELSE ver
                /\ missed' = IF done /\ About(sel, loads) # {} THEN missed \cup {sel} ELSE missed
    /\ UNCHANGED <<page, exists, sel, mode, lines, loads, latest, detail>>

\* Mutant: the details of the quotation are not fetched again.
NotRefetched(r) == loads
\* queryClient.invalidateQueries(["sales-quote-details", updatedQuote.id])
Refetched(r) == loads \cup {Stored(r)}

(* The answer to a save, applied to whatever is on the screen: the page    *)
(* opens the record, or takes it (purchase orders open a new one only and  *)
(* keep the lines of an update, quotations show the former lines until     *)
(* they are loaded again), or shows the lines it carries.                  *)
Saved(s, r) ==
    /\ s.done /\ saves' = saves \ {s}
    /\ IF s.of = NoRec THEN r \in Records \ exists ELSE r = s.of
    /\ exists' = exists \cup {r}
    /\ \/ /\ page.saved = "open"
          /\ Opened(r, IF page.back = "never" THEN lines ELSE Empty)
       \/ /\ page.saved = "show"
          /\ View(r) /\ lines' = Stored(r) /\ latest' = r
          /\ detail' = {Stored(r)} /\ UNCHANGED loads
       \/ /\ page.saved = "take" /\ page.load = "cached" /\ s.of = NoRec
          /\ Opened(r, lines)
       \/ /\ page.saved = "take" /\ page.load = "cached" /\ s.of # NoRec
          /\ sel' = r /\ editing' = FALSE
          /\ UNCHANGED <<creating, lines, loads, latest, detail>>
       \/ /\ page.saved = "take" /\ page.load = "query"
          /\ sel' = r /\ editing' = FALSE /\ creating' = (creating /\ s.of # NoRec)
          /\ lines' = IF Keeps(r) /\ ~creating' THEN Kept(r) ELSE Empty
          /\ loads' = Refetched(r)
          /\ UNCHANGED <<latest, detail>>
    /\ UNCHANGED <<page, ver, missed>>

\* Refused, or no answer in time whatever the server did.
Failed(s) ==
    /\ saves' = saves \ {s}
    /\ missed' = IF s.done /\ s.of # NoRec THEN missed \cup {s.of} ELSE missed
    /\ UNCHANGED <<page, exists, ver, sel, mode, lines, loads, latest, detail>>

LinesNext ==
    \/ \E r \in Records : OpenRow(r)
    \/ \E l \in loads, ok \in BOOLEAN : Answer(l, ok)
    \/ New \/ StartEdit \/ TypeLines \/ CancelEdit \/ Back \/ Save
    \/ \E s \in saves : Failed(s) \/ \E r \in Records : Saved(s, r)

LinesSpec == LinesInit /\ [][LinesNext]_lineVars

----------------------------------------------------------------------------
(* What the comment on the request refs says they are for: on the pages    *)
(* that keep the last record asked for, the lines on the screen are never  *)
(* those of another record than the selected one once its own load has     *)
(* been answered, in whatever order the answers come.                      *)
LinesFollowSelection ==
    page.load = "latest" /\ sel # NoRec /\ ~creating /\ About(sel, loads) = {} =>
        lines.of \in {sel, NoRec}

(* A bill of material or a quotation on view shows its lines as they were  *)
(* last saved, not those an edit left behind that was cancelled, saved or  *)
(* overtaken by a late answer, nor those of before the save, unless an     *)
(* answer that would have brought them failed or was older than the save.  *)
ViewShowsSaved ==
    /\ page.revert = "saved" /\ ~editing /\ ~creating
    /\ About(sel, loads \cup saves) = {} /\ About(sel, detail) # {} /\ sel \notin missed
    => lines = Stored(sel)

(* Of every page that lets an existing document be edited: once an edit    *)
(* is cancelled, its lines are on the screen again.                        *)
CancelReverts ==
    [][CancelEdit /\ ~creating /\ About(sel, detail) # {} => lines' = Kept(sel)]_lineVars

(* What New promises: a document under entry starts from empty lines, and  *)
(* no line of another document comes into it.                              *)
NewStartsEmpty == creating /\ sel = NoRec => lines.of = NoRec

(* What purchase orders keep at hand is what was saved, once the save is   *)
(* answered.                                                               *)
CacheIsCurrent ==
    page.load = "cached" /\ saves = {} => \A l \in detail : l.of \in missed \/ l = Stored(l.of)
=============================================================================
