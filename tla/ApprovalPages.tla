---------------------------- MODULE ApprovalPages ----------------------------
(***************************************************************************)
(* The pages on which documents are approved or rejected: a list, the      *)
(* document opened from it, and dialogs over both.  A page is described by *)
(* what its handlers do; the actions are shared.                           *)
(*                                                                         *)
(* A dialog may take the document it decides when it is opened or when it  *)
(* is submitted.  The model remembers for which document each was opened:  *)
(* the code does not.  A question asked before a dialog that names no      *)
(* document (it is after 18:00) is part of opening that dialog.            *)
(***************************************************************************)
EXTENDS Integers, FiniteSets

CONSTANTS Docs, NoDoc,
          Pages,             \* the pages considered, of those defined below
          MaxLoads, MaxReqs  \* bounds: loads and decisions in flight

(* select: a document is loaded when it is opened, with no look at which   *)
(* one was asked for last ("load"), or the row of the list is taken        *)
(* ("row"), and kept fresh ("live"); beside: the list stays on the screen, *)
(* and something is always selected; checks: credit and order quantities   *)
(* are checked before the dialog; approve, reject: by the approver's login *)
(* ("auth"), a question about the document ("confirm") or a form           *)
(* ("panel"); lock: which buttons a decision under way disables; guard: a  *)
(* ref keeps a second decision out; answer: what a success does to the     *)
(* selection.                                                              *)
PurchaseOrders == [select |-> "load", beside |-> FALSE, checks |-> TRUE,
                   approve |-> "auth", reject |-> "panel", lock |-> "own",
                   guard |-> TRUE, answer |-> "patch"]
Quotations == [PurchaseOrders EXCEPT !.checks = FALSE]
PurchaseReturns == [Quotations EXCEPT !.reject = "auth", !.guard = FALSE]
TransferNotes == [PurchaseReturns EXCEPT !.answer = "reload"]
SaleReturns == [PurchaseReturns EXCEPT !.beside = TRUE]
SalesOrders == [SaleReturns EXCEPT !.reject = "panel", !.answer = "clear own"]
Payments == [SalesOrders EXCEPT !.approve = "confirm", !.answer = "patch shown"]
Expenses == [Payments EXCEPT !.select = "live", !.lock = "approve", !.answer = "take"]
Commissions == [Expenses EXCEPT !.select = "row", !.reject = "confirm",
                                !.lock = "own", !.answer = "clear"]
Payroll == [Expenses EXCEPT !.beside = FALSE, !.lock = "any"]
Reimbursements == Payroll
Leaves == [Payroll EXCEPT !.select = "row", !.approve = "panel", !.guard = TRUE,
                          !.answer = "clear"]
AllPages == {PurchaseOrders, Quotations, PurchaseReturns, TransferNotes, SaleReturns,
             SalesOrders, Payments, Expenses, Commissions, Payroll, Reimbursements,
             Leaves}

ASSUME ApprovalAssumption ==
    /\ NoDoc \notin Docs /\ Pages \subseteq AllPages
    /\ MaxLoads \in Nat /\ MaxReqs \in Nat

VARIABLES
    page,       \* the page open
    server,     \* document -> its status
    sel,        \* the document selected and the status shown
    loads,      \* loads in flight
    checking,   \* documents whose checks have not come back
    asking,     \* the question that is open
    rejecting,  \* the form of a rejection is open: for this document
    approving,  \* the login, or the form of an approval, is open: likewise
    guard,      \* actionInFlightRef, decidingRef
    reqs,       \* decisions in flight
    seen        \* the decisions under way as the screen shows them

dialogs == <<asking, rejecting, approving>>
vars == <<page, server, sel, loads, checking, dialogs, guard, reqs, seen>>

Acts == {"approve", "reject"}
Statuses == {"pending", "approved", "rejected"}
None == [id |-> NoDoc, status |-> "pending"]
Shown == [id : Docs, status : Statuses] \cup {None}
Decision == [n : 1..MaxReqs, act : Acts, doc : Docs, for : Docs,
             out : {"sent", "done", "refused", "settling"}, own : BOOLEAN]

TypeOK ==
    /\ page \in Pages
    /\ server \in [Docs -> Statuses]
    /\ sel \in Shown
    /\ loads \subseteq [doc : Docs, was : Statuses]
    /\ checking \subseteq Docs
    /\ asking \subseteq [act : Acts, doc : Docs] /\ Cardinality(asking) <= 1
    /\ rejecting \in Docs \cup {NoDoc} /\ approving \in Docs \cup {NoDoc}
    /\ guard \in BOOLEAN
    /\ reqs \subseteq Decision
    /\ seen \subseteq Acts

Init ==
    /\ page \in Pages
    /\ server = [d \in Docs |-> "pending"]
    /\ sel = None /\ loads = {} /\ checking = {}
    /\ asking = {} /\ rejecting = NoDoc /\ approving = NoDoc
    /\ guard = FALSE /\ reqs = {} /\ seen = {}

Modal == asking # {} \/ rejecting # NoDoc \/ approving # NoDoc
UnderWay == {r.act : r \in reqs}

(* A click finds the screen as it was last drawn; only a double click      *)
(* comes before the decision it has just sent shows.                       *)
Drawn == seen = UnderWay
Draw ==
    /\ ~Drawn /\ seen' = UnderWay
    /\ UNCHANGED <<page, server, sel, loads, checking, dialogs, guard, reqs>>

----------------------------------------------------------------------------
(* Selecting.  A row may have been listed before the document was decided. *)
Open(d) ==
    /\ IF page.select = "load"
       THEN /\ Cardinality(loads) < MaxLoads
            /\ loads' = loads \cup {[doc |-> d, was |-> server[d]]}
            /\ UNCHANGED sel
       ELSE /\ \E s \in {"pending", server[d]} : sel' = [id |-> d, status |-> s]
            /\ UNCHANGED loads
    /\ UNCHANGED <<page, server, checking, dialogs, guard, reqs, seen>>

Click(d) == Drawn /\ ~Modal /\ (page.beside \/ sel = None) /\ Open(d)
AutoSelect(d) == page.beside /\ sel = None /\ Open(d)

(* The answer to a load is what the server had at some time since.         *)
Loaded(l) ==
    /\ loads' = loads \ {l}
    /\ \/ \E s \in {l.was, server[l.doc]} : sel' = [id |-> l.doc, status |-> s]
       \/ UNCHANGED sel                                   \* it fails
    /\ UNCHANGED <<page, server, checking, dialogs, guard, reqs, seen>>

Refresh ==
    /\ page.select = "live" /\ sel # None
    /\ sel' = [sel EXCEPT !.status = server[sel.id]]
    /\ UNCHANGED <<page, server, loads, checking, dialogs, guard, reqs, seen>>

Back ==
    /\ Drawn /\ ~Modal /\ ~page.beside /\ sel # None
    /\ page = Leaves => seen = {}
    /\ sel' = None
    /\ UNCHANGED <<page, server, loads, checking, dialogs, guard, reqs, seen>>

----------------------------------------------------------------------------
(* Opening a dialog.  The sales order page offers its buttons whatever the *)
(* status.                                                                 *)
\* Mutant: the buttons stay enabled.
NeverLocked(act) == FALSE
Locked(act) ==
    CASE page.lock = "own" -> act \in seen
      [] page.lock = "any" -> seen # {}
      [] page.lock = "approve" -> act = "approve" /\ act \in seen

Offered(act) ==
    /\ Drawn /\ ~Modal /\ sel # None /\ ~Locked(act)
    /\ sel.status = "pending" \/ page = SalesOrders

Ask(act) == asking' = {[act |-> act, doc |-> sel.id]}

StartApprove ==
    /\ Offered("approve")
    /\ CASE page.checks -> checking' = checking \cup {sel.id} /\ UNCHANGED dialogs
         [] page.approve = "confirm" -> Ask("approve") /\ UNCHANGED <<checking, rejecting, approving>>
         [] OTHER -> approving' = sel.id /\ UNCHANGED <<checking, asking, rejecting>>
    /\ UNCHANGED <<page, server, sel, loads, guard, reqs, seen>>

(* The checks ask when there is something to ask; either the user backs    *)
(* out or the login opens, over whatever is selected by then.              *)
Checked(d) ==
    /\ d \in checking /\ checking' = checking \ {d}
    /\ approving' \in {approving, IF approving = NoDoc THEN d ELSE approving}
    /\ UNCHANGED <<page, server, sel, loads, asking, rejecting, guard, reqs, seen>>

StartReject ==
    /\ Offered("reject")
    /\ IF page.reject = "confirm" THEN Ask("reject") /\ UNCHANGED rejecting
                                  ELSE rejecting' = sel.id /\ UNCHANGED asking
    /\ UNCHANGED <<page, server, sel, loads, checking, approving, guard, reqs, seen>>

----------------------------------------------------------------------------
(* Deciding.                                                               *)
\* Mutant: the ref is not looked at.
MaySendAgain == TRUE
MaySend == ~guard

Send(act, d, f) ==
    /\ MaySend
    /\ \E n \in 1..MaxReqs :
          /\ \A r \in reqs : r.n # n
          /\ reqs' = reqs \cup {[n |-> n, act |-> act, doc |-> d, for |-> f,
                                 out |-> "sent", own |-> FALSE]}
    /\ guard' = page.guard
    /\ UNCHANGED <<page, server, sel, loads, checking, rejecting, approving, seen>>

\* The question was about one document, and its answer is.
Confirm == \E q \in asking : asking' = {} /\ Send(q.act, q.doc, q.doc)
Cancel ==
    /\ asking # {} /\ asking' = {}
    /\ UNCHANGED <<page, server, sel, loads, checking, rejecting, approving, guard, reqs, seen>>

\* A small payment in working hours is verified at once; a double click twice.
Verify ==
    /\ page = Payments /\ ~Modal /\ sel # None
    /\ sel.status = "pending" /\ ~Locked("approve")
    /\ Send("approve", sel.id, sel.id) /\ UNCHANGED asking

(* A form sends what is selected now; the login may come over it.          *)
Submit(act, opened) ==
    /\ opened # NoDoc /\ sel # None /\ act \notin seen
    /\ Send(act, sel.id, opened) /\ UNCHANGED asking
SubmitReject == page.reject = "panel" /\ approving = NoDoc /\ Submit("reject", rejecting)
SubmitApprove == page.approve = "panel" /\ Submit("approve", approving)

CloseReject ==
    /\ Drawn /\ rejecting # NoDoc /\ approving = NoDoc
    /\ page = Leaves => "reject" \notin seen
    /\ rejecting' = NoDoc
    /\ UNCHANGED <<page, server, sel, loads, checking, asking, approving, guard, reqs, seen>>

\* The form of a rejection hands over to the login.
LoginToReject ==
    /\ Drawn /\ page.reject = "auth" /\ rejecting # NoDoc /\ approving = NoDoc
    /\ sel # None /\ "reject" \notin seen
    /\ approving' = rejecting
    /\ UNCHANGED <<page, server, sel, loads, checking, asking, rejecting, guard, reqs, seen>>

(* ApproverAuthDialog: loading, and submittedRef until loading shows.  It  *)
(* rejects when a rejection is open under it and approves otherwise.       *)
LoginActs == IF page.reject = "auth" THEN Acts ELSE {"approve"}
LoginIdle == LoginActs \cap UnderWay = {}
LoginAct == IF page.reject = "auth" /\ rejecting # NoDoc THEN "reject" ELSE "approve"
Login ==
    /\ page.approve = "auth" /\ approving # NoDoc /\ sel # None /\ LoginIdle
    /\ Send(LoginAct, sel.id, approving) /\ UNCHANGED asking

CloseApprove ==
    /\ Drawn /\ approving # NoDoc /\ LoginIdle
    /\ approving' = NoDoc
    /\ UNCHANGED <<page, server, sel, loads, checking, asking, rejecting, guard, reqs, seen>>

----------------------------------------------------------------------------
(* The server decides a pending document once, under a lock.  It may also  *)
(* refuse: the approver's password, a permission, the state of the goods.  *)
\* Mutant: the status is set to the name of the call.
CallName(act) == act
Result(act) == IF act = "approve" THEN "approved" ELSE "rejected"

Reply(r, out, own) == reqs' = (reqs \ {r}) \cup {[r EXCEPT !.out = out, !.own = own]}

Serve(r) ==
    /\ r.out = "sent"
    /\ \/ /\ server[r.doc] = "pending"
          /\ server' = [server EXCEPT ![r.doc] = Result(r.act)]
          /\ Reply(r, "done", FALSE)
       \/ Reply(r, "refused", FALSE) /\ UNCHANGED server
    /\ UNCHANGED <<page, sel, loads, checking, dialogs, guard, seen>>

CloseDialogs(r) ==
    /\ rejecting' = IF r.act = "reject" THEN NoDoc ELSE rejecting
    /\ approving' = IF r.act \in LoginActs THEN NoDoc ELSE approving
    /\ UNCHANGED asking

(* A success is handled in two steps: the lists are loaded again (or, of a *)
(* transfer note, the note) before the selection is touched.  What the     *)
(* handler closed over is the selection of before.                         *)
Answered(r) ==
    /\ r.out = "done"
    /\ Reply(r, "settling", sel.id = r.doc)
    /\ IF page.answer = "reload" THEN CloseDialogs(r) ELSE UNCHANGED dialogs
    /\ UNCHANGED <<page, server, sel, loads, checking, guard, seen>>

\* Mutant: whatever is selected is taken for the document decided.
AnyDocument(r) == TRUE
\* prev && prev.id === poId
StillSelected(r) == sel.id = r.doc

Patched(r) == [sel EXCEPT !.status = Result(r.act)]
Decided(r) == [id |-> r.doc, status |-> server[r.doc]]

Settled(r) ==
    /\ r.out = "settling"
    /\ reqs' = reqs \ {r} /\ guard' = FALSE
    /\ CASE page.answer = "patch" ->
              sel' = IF sel # None /\ StillSelected(r) THEN Patched(r) ELSE sel
         [] page.answer = "patch shown" ->
              sel' = IF sel # None /\ r.own THEN Patched(r) ELSE sel
         [] page.answer = "take" -> sel' = Decided(r)
         [] page.answer = "reload" -> sel' \in {Decided(r), sel}   \* the load fails
         [] page.answer = "clear" -> sel' = None
         [] page.answer = "clear own" -> sel' = IF r.own THEN None ELSE sel
    /\ IF page.answer = "reload" THEN UNCHANGED dialogs ELSE CloseDialogs(r)
    /\ UNCHANGED <<page, server, loads, checking, seen>>

\* Mutant: the ref is given back on success only.
StillHeld == guard
\* onSettled
GivenBack == FALSE

(* Refused, or no answer within 30 s, executed or not.  The dialogs stay.  *)
Failed(r) ==
    /\ r.out \in {"sent", "done", "refused"}
    /\ reqs' = reqs \ {r} /\ guard' = GivenBack
    /\ UNCHANGED <<page, server, sel, loads, checking, dialogs, seen>>

OtherDecides(d) ==
    /\ server[d] = "pending"
    /\ \E act \in Acts : server' = [server EXCEPT ![d] = Result(act)]
    /\ UNCHANGED <<page, sel, loads, checking, dialogs, guard, reqs, seen>>

Handle(r) == Serve(r) \/ Answered(r) \/ Settled(r) \/ Failed(r)

Next ==
    \/ Draw \/ Refresh \/ Back
    \/ \E d \in Docs : Click(d) \/ AutoSelect(d) \/ Checked(d) \/ OtherDecides(d)
    \/ \E l \in loads : Loaded(l)
    \/ StartApprove \/ StartReject \/ Confirm \/ Cancel \/ Verify
    \/ SubmitReject \/ SubmitApprove \/ CloseReject \/ LoginToReject
    \/ Login \/ CloseApprove
    \/ \E r \in reqs : Handle(r)

Fairness == \A n \in 1..MaxReqs : WF_vars(\E r \in reqs : r.n = n /\ Handle(r))
Spec == Init /\ [][Next]_vars /\ Fairness

----------------------------------------------------------------------------
(* One decision at a time, approval or rejection, on the pages that keep a *)
(* second one out by a ref or by one login for both: double clicks, and a  *)
(* rejection left pending while another document is approved.              *)
OneDecision ==
    page.guard \/ page.reject = "auth" => \A r, s \in reqs : r = s

(* A dialog decides the document it was opened for, on the pages that take *)
(* the row of the list: an answer that replaces the selection under an     *)
(* open dialog can only bring a document that is decided, so that a        *)
(* decision gone astray is refused.                                        *)
OwnDecision ==
    page.select # "load" =>
        \A r \in reqs :
            r.doc = r.for \/ (r.out # "done" /\ server[r.doc] # "pending")

(* A rejection that is answered closes the form it came from, never one    *)
(* opened for another document meanwhile.  The expense page does not       *)
(* disable Reject.                                                         *)
DialogKept ==
    page # Expenses /\ rejecting # NoDoc =>
        \A r \in reqs : r.act = "reject" => r.for = rejecting

DialogsAgree == OwnDecision /\ DialogKept

(* A document shown as decided is decided so at the server, however late   *)
(* the answer of a load, a decision or a refetch comes and whatever was    *)
(* opened meanwhile; on every page but the payments'.                      *)
DecidedAtServer == sel.status # "pending" => sel.status = server[sel.id]
ShownIsDecided == page # Payments => DecidedAtServer

(* The ref is given back whatever becomes of the request: no decision      *)
(* locks the page.                                                         *)
GuardReleased == guard ~> ~guard

(* As OwnDecision, on every page.                                          *)
OnlyItsDocument == \A r \in reqs : r.out = "done" => r.doc = r.for

(* As OneDecision and DialogKept, on every page.                           *)
NeverTwo == \A r, s \in reqs : r = s
FormKept == rejecting # NoDoc => \A r \in reqs : r.act = "reject" => r.for = rejecting
=============================================================================
