------------------------- MODULE ApprovalPagesProofs -------------------------
(***************************************************************************)
(* Proofs about the approval pages, for any documents, any of the pages    *)
(* and any number of loads and decisions in flight.                        *)
(***************************************************************************)
EXTENDS ApprovalPages, FiniteSetTheorems, TLAPS

(* What the proofs use of the pages.                                       *)
Kind(p) ==
    /\ p.checks => p.approve = "auth" /\ p.reject = "panel"
    /\ p.reject = "auth" => p.approve = "auth" /\ p.select = "load"
    /\ p.select # "load" => p.approve # "auth" /\ p.answer \in {"take", "clear"}
    /\ p.select # "load" /\ p.beside =>
          p.answer = "take" \/ (p.approve = "confirm" /\ p.reject = "confirm")
    /\ p.approve \in {"auth", "confirm", "panel"}
    /\ p.reject \in {"auth", "confirm", "panel"}
    /\ p.lock \in {"own", "any", "approve"} /\ (p.lock = "approve" => p = Expenses)
    /\ p.answer \in {"patch", "patch shown", "take", "reload", "clear", "clear own"}
    /\ p.answer = "patch shown" => p = Payments
    /\ p.guard \in BOOLEAN

LEMMA Kinds ==
    /\ \A p \in AllPages : Kind(p)
    /\ ~Payments.guard /\ Payments.reject = "panel"
<1>1. Kind(PurchaseOrders) /\ Kind(Quotations)
  BY DEF Kind, PurchaseOrders, Quotations
<1> USE DEF PurchaseOrders, Quotations, PurchaseReturns
<1>2. Kind(PurchaseReturns) /\ Kind(TransferNotes) /\ Kind(SaleReturns)
  BY DEF Kind, TransferNotes, SaleReturns
<1> USE DEF SaleReturns, SalesOrders, Payments
<1>3. /\ Kind(SalesOrders) /\ Kind(Payments)
      /\ ~Payments.guard /\ Payments.reject = "panel"
  BY DEF Kind
<1> USE DEF Expenses
<1>4. Kind(Expenses)
  BY DEF Kind
<1>5. Kind(Commissions)
  BY DEF Kind, Commissions
<1>6. Kind(Payroll)
  BY DEF Kind, Payroll
<1>7. Kind(Leaves)
  BY DEF Kind, Payroll, Leaves
<1>8. AllPages = {PurchaseOrders, Quotations, PurchaseReturns, TransferNotes, SaleReturns,
                  SalesOrders, Payments, Expenses, Commissions, Payroll, Leaves}
  BY Zenon DEF AllPages, Reimbursements
<1> QED BY Zenon, <1>1, <1>2, <1>3, <1>4, <1>5, <1>6, <1>7, <1>8

-----------------------------------------------------------------------------
(* Types: the selection, a decision, the question that is asked.           *)
Row(d, s) == [id |-> d, status |-> s]

LEMMA Rows ==
    /\ None \in Shown /\ None.status = "pending" /\ None.id = NoDoc
    /\ \A d \in Docs, s \in Statuses : /\ Row(d, s) \in Shown /\ Row(d, s) # None
                                       /\ Row(d, s).id = d /\ Row(d, s).status = s
    /\ \A w \in Shown : /\ w.status \in Statuses /\ w.id \in Docs \cup {NoDoc}
                        /\ w # None => w.id \in Docs
    /\ \A w \in Shown, s \in Statuses : w # None =>
          /\ [w EXCEPT !.status = s] \in Shown /\ [w EXCEPT !.status = s] # None
          /\ [w EXCEPT !.status = s].id = w.id /\ [w EXCEPT !.status = s].status = s
    /\ \A act \in Acts : Result(act) \in Statuses /\ Result(act) # "pending"
<1>1. None \in Shown /\ None.status = "pending" /\ None.id = NoDoc
  BY DEF None, Shown
<1>2. ASSUME NEW d \in Docs, NEW s \in Statuses
      PROVE  /\ Row(d, s) \in Shown /\ Row(d, s) # None
             /\ Row(d, s).id = d /\ Row(d, s).status = s
  <2>1. Row(d, s).id = d /\ Row(d, s).status = s
    BY DEF Row
  <2> QED BY <2>1, <1>1, ApprovalAssumption DEF Row, Shown
<1>3. ASSUME NEW w \in Shown
      PROVE  /\ w.status \in Statuses /\ w.id \in Docs \cup {NoDoc}
             /\ w # None => w.id \in Docs
  BY DEF Shown, None, Statuses
<1>4. ASSUME NEW w \in Shown, NEW s \in Statuses, w # None
      PROVE  /\ [w EXCEPT !.status = s] \in Shown /\ [w EXCEPT !.status = s] # None
             /\ [w EXCEPT !.status = s].id = w.id /\ [w EXCEPT !.status = s].status = s
  <2>1. w \in [id : Docs, status : Statuses]
    BY <1>4 DEF Shown
  <2>2. /\ [w EXCEPT !.status = s] \in [id : Docs, status : Statuses]
        /\ [w EXCEPT !.status = s].id = w.id /\ [w EXCEPT !.status = s].status = s
    BY <2>1
  <2> QED BY <2>1, <2>2, <1>1, ApprovalAssumption DEF Shown
<1>5. \A act \in Acts : Result(act) \in Statuses /\ Result(act) # "pending"
  BY DEF Acts, Result, Statuses
<1> QED BY <1>1, <1>2, <1>3, <1>4, <1>5

LEMMA DecisionType ==
    \A r \in Decision :
        /\ r.n \in 1..MaxReqs /\ r.act \in Acts /\ r.doc \in Docs /\ r.for \in Docs
        /\ r.out \in {"sent", "done", "refused", "settling"} /\ r.own \in BOOLEAN
BY DEF Decision

(* The record of a decision, when it is sent and when it is answered.      *)
Fresh(n, act, d, f) ==
    [n |-> n, act |-> act, doc |-> d, for |-> f, out |-> "sent", own |-> FALSE]

LEMMA FreshType ==
    ASSUME NEW n \in 1..MaxReqs, NEW act \in Acts, NEW d \in Docs, NEW f \in Docs
    PROVE  /\ Fresh(n, act, d, f) \in Decision
           /\ Fresh(n, act, d, f).n = n /\ Fresh(n, act, d, f).act = act
           /\ Fresh(n, act, d, f).doc = d /\ Fresh(n, act, d, f).for = f
           /\ Fresh(n, act, d, f).out = "sent"
BY DEF Fresh, Decision

Outs == {"sent", "done", "refused", "settling"}
Answer(r, out, own) == [r EXCEPT !.out = out, !.own = own]

LEMMA AnswerType ==
    ASSUME NEW r \in Decision, NEW out \in Outs, NEW own \in BOOLEAN
    PROVE  LET q == Answer(r, out, own)
           IN  q \in Decision /\ q.n = r.n /\ q.act = r.act /\ q.doc = r.doc
               /\ q.for = r.for /\ q.out = out /\ q.own = own
<1> DEFINE p == [r EXCEPT !.out = out]
<1>2. /\ p \in Decision /\ p.n = r.n /\ p.act = r.act /\ p.doc = r.doc
      /\ p.for = r.for /\ p.out = out
  BY DEF Decision, Outs
<1> DEFINE q == [p EXCEPT !.own = own]
<1> HIDE DEF p
<1>3. /\ q \in Decision /\ q.n = p.n /\ q.act = p.act /\ q.doc = p.doc
      /\ q.for = p.for /\ q.out = p.out /\ q.own = own
  BY <1>2 DEF Decision
<1>4. q = Answer(r, out, own)
  BY DEF p, q, Answer
<1> QED BY <1>2, <1>3, <1>4

(* One question at most.                                                   *)
LEMMA OneQuestion ==
    /\ Cardinality({}) <= 1
    /\ \A q : Cardinality({q}) <= 1
<1>1. \A q : Cardinality({q}) = 1
  BY FS_Singleton
<1> QED BY <1>1, FS_EmptySet

Asking == asking \subseteq [act : Acts, doc : Docs] /\ Cardinality(asking) <= 1

LEMMA AskType ==
    ASSUME TypeOK, sel # None, NEW act \in Acts, Ask(act)
    PROVE  Asking'
<1>1. sel.id \in Docs
  BY Rows DEF TypeOK
<1>2. [act |-> act, doc |-> sel.id] \in [act : Acts, doc : Docs]
  BY <1>1
<1>3. asking' = {[act |-> act, doc |-> sel.id]}
  BY DEF Ask
<1>4. Cardinality(asking') <= 1
  BY <1>3, OneQuestion
<1> QED BY <1>2, <1>3, <1>4 DEF Asking

LEMMA SendType ==
    ASSUME TypeOK, NEW act \in Acts, NEW d \in Docs, NEW f \in Docs, Send(act, d, f)
    PROVE  /\ reqs' \subseteq Decision /\ guard' \in BOOLEAN
           /\ UNCHANGED <<page, server, sel, loads, checking, rejecting, approving, seen>>
<1>1. page.guard \in BOOLEAN
  BY Kinds, ApprovalAssumption DEF TypeOK, Kind
<1>2. PICK n \in 1..MaxReqs : reqs' = reqs \cup {Fresh(n, act, d, f)}
  BY DEF Send, Fresh
<1>3. reqs \subseteq Decision
  BY DEF TypeOK
<1>4. reqs' \subseteq Decision
  BY <1>2, <1>3, FreshType
<1> QED BY <1>1, <1>4 DEF Send

LEMMA OpenType ==
    ASSUME TypeOK, NEW d \in Docs, Open(d) PROVE TypeOK'
<1>1. server[d] \in Statuses /\ "pending" \in Statuses
  BY DEF TypeOK, Statuses
<1>2. sel' \in Shown /\ loads' \subseteq [doc : Docs, was : Statuses]
  BY <1>1, Rows DEF Open, TypeOK, Row
<1> QED BY <1>2 DEF Open, TypeOK, dialogs

(* The steps by what they may touch: the selection, the dialogs, or, by    *)
(* sending, the requests.                                                  *)
ScreenStep ==
    \/ Draw \/ Refresh \/ Back
    \/ \E d \in Docs : Click(d) \/ AutoSelect(d) \/ Checked(d) \/ OtherDecides(d)
    \/ \E l \in loads : Loaded(l)
DialogStep ==
    StartApprove \/ StartReject \/ Cancel \/ CloseReject \/ LoginToReject \/ CloseApprove
SendStep == Confirm \/ Verify \/ SubmitReject \/ SubmitApprove \/ Login

LEMMA NextSteps ==
    Next => ScreenStep \/ DialogStep \/ SendStep \/ \E r \in reqs : Handle(r)
BY Zenon DEF Next, ScreenStep, DialogStep, SendStep

LEMMA ScreenType ==
    ASSUME TypeOK, ScreenStep
    PROVE  TypeOK'
<1>1. CASE Draw
  <2>1. UnderWay \subseteq Acts
    BY DecisionType DEF TypeOK, UnderWay
  <2> QED BY <1>1, <2>1 DEF Draw, TypeOK, dialogs
<1>2. CASE Refresh
  <2>1. sel' \in Shown
    BY <1>2, Rows DEF Refresh, TypeOK
  <2> QED BY <1>2, <2>1 DEF Refresh, TypeOK, dialogs
<1>3. CASE Back
  BY <1>3, Rows DEF Back, TypeOK, dialogs
<1>4. ASSUME NEW d \in Docs, Click(d) \/ AutoSelect(d) PROVE TypeOK'
  BY <1>4, OpenType DEF Click, AutoSelect
<1>5. ASSUME NEW d \in Docs, Checked(d) PROVE TypeOK'
  BY <1>5 DEF Checked, TypeOK
<1>6. ASSUME NEW d \in Docs, OtherDecides(d) PROVE TypeOK'
  BY <1>6, Rows DEF OtherDecides, TypeOK, dialogs
<1>7. ASSUME NEW l \in loads, Loaded(l) PROVE TypeOK'
  <2>1. l.doc \in Docs /\ l.was \in Statuses /\ server[l.doc] \in Statuses
    BY DEF TypeOK
  <2>2. sel' \in Shown
    BY <1>7, <2>1, Rows DEF Loaded, TypeOK, Row
  <2> QED BY <1>7, <2>2 DEF Loaded, TypeOK, dialogs
<1> QED BY <1>1, <1>2, <1>3, <1>4, <1>5, <1>6, <1>7 DEF ScreenStep

LEMMA DialogType ==
    ASSUME TypeOK, DialogStep
    PROVE  TypeOK'
<1>a. "approve" \in Acts /\ "reject" \in Acts
  BY DEF Acts
<1>1. CASE StartApprove
  <2>1. sel # None /\ sel.id \in Docs
    BY <1>1, Rows DEF StartApprove, Offered, TypeOK
  <2>2. checking' \subseteq Docs /\ rejecting' = rejecting /\ approving' \in Docs \cup {NoDoc}
    BY <1>1, <2>1 DEF StartApprove, TypeOK, dialogs
  <2>3. Asking'
    BY <1>1, <1>a, <2>1, AskType DEF StartApprove, TypeOK, dialogs, Asking
  <2> QED BY <1>1, <2>2, <2>3 DEF StartApprove, TypeOK, Asking
<1>2. CASE StartReject
  <2>1. sel # None /\ sel.id \in Docs
    BY <1>2, Rows DEF StartReject, Offered, TypeOK
  <2>2. rejecting' \in Docs \cup {NoDoc}
    BY <1>2, <2>1 DEF StartReject, TypeOK
  <2>3. Asking'
    BY <1>2, <1>a, <2>1, AskType DEF StartReject, TypeOK, Asking
  <2> QED BY <1>2, <2>2, <2>3 DEF StartReject, TypeOK, Asking
<1>3. CASE Cancel
  BY <1>3, OneQuestion DEF Cancel, TypeOK
<1>4. CASE CloseReject
  BY <1>4 DEF CloseReject, TypeOK
<1>5. CASE LoginToReject
  BY <1>5 DEF LoginToReject, TypeOK
<1>6. CASE CloseApprove
  BY <1>6 DEF CloseApprove, TypeOK
<1> QED BY <1>1, <1>2, <1>3, <1>4, <1>5, <1>6 DEF DialogStep

LEMMA SentTypes ==
    ASSUME TypeOK, NEW act \in Acts, NEW d \in Docs, NEW f \in Docs, Send(act, d, f), Asking'
    PROVE  TypeOK'
BY SendType DEF TypeOK, Asking

LEMMA DecideType ==
    ASSUME TypeOK, SendStep
    PROVE  TypeOK'
<1>a. "approve" \in Acts /\ "reject" \in Acts /\ LoginAct \in Acts
  BY DEF Acts, LoginAct
<1>b. asking' \in {asking, {}} => Asking'
  BY OneQuestion DEF Asking, TypeOK
<1>c. /\ sel # None => sel.id \in Docs
      /\ \A d \in {rejecting, approving} : d # NoDoc => d \in Docs
  BY Rows DEF TypeOK
<1>1. CASE Confirm
  <2>1. PICK q \in asking : asking' = {} /\ Send(q.act, q.doc, q.doc)
    BY <1>1 DEF Confirm
  <2>2. q.act \in Acts /\ q.doc \in Docs
    BY DEF TypeOK
  <2> QED BY <2>1, <2>2, <1>b, SentTypes
<1>2. CASE Verify
  BY <1>2, <1>a, <1>b, <1>c, SentTypes DEF Verify
<1>3. CASE SubmitReject
  BY <1>3, <1>a, <1>b, <1>c, SentTypes DEF SubmitReject, Submit
<1>4. CASE SubmitApprove
  BY <1>4, <1>a, <1>b, <1>c, SentTypes DEF SubmitApprove, Submit
<1>5. CASE Login
  BY <1>5, <1>a, <1>b, <1>c, SentTypes DEF Login
<1> QED BY <1>1, <1>2, <1>3, <1>4, <1>5 DEF SendStep

LEMMA HandleType ==
    ASSUME TypeOK, NEW r \in reqs, Handle(r)
    PROVE  TypeOK'
<1>a. r \in Decision /\ r.doc \in Docs /\ r.act \in Acts /\ server[r.doc] \in Statuses
  <2>1. reqs \subseteq Decision /\ server \in [Docs -> Statuses]
    BY DEF TypeOK
  <2> QED BY <2>1, DecisionType
<1>b. ASSUME NEW out \in Outs, NEW own \in BOOLEAN, Reply(r, out, own)
      PROVE  reqs' \subseteq Decision
  <2>1. reqs \subseteq Decision /\ reqs' = (reqs \ {r}) \cup {Answer(r, out, own)}
    BY <1>b DEF Reply, Answer, TypeOK
  <2> QED BY <1>a, <2>1, AnswerType
<1>c. CloseDialogs(r) => /\ rejecting' \in Docs \cup {NoDoc} /\ approving' \in Docs \cup {NoDoc}
                         /\ asking' = asking
  BY DEF CloseDialogs, TypeOK
<1>1. CASE Serve(r)
  <2>1. reqs' \subseteq Decision
    BY <1>1, <1>b DEF Serve, Outs
  <2>2. server' \in [Docs -> Statuses]
    <3>1. server \in [Docs -> Statuses] /\ Result(r.act) \in Statuses
      BY <1>a, Rows DEF TypeOK
    <3>2. server' \in {server, [server EXCEPT ![r.doc] = Result(r.act)]}
      BY <1>1 DEF Serve
    <3> QED BY <3>1, <3>2
  <2> QED BY <1>1, <2>1, <2>2 DEF Serve, TypeOK, dialogs
<1>2. CASE Answered(r)
  <2>1. reqs' \subseteq Decision
    BY <1>2, <1>b DEF Answered, Outs
  <2>2. UNCHANGED dialogs \/ CloseDialogs(r)
    BY <1>2 DEF Answered
  <2> QED BY <1>2, <1>c, <2>1, <2>2 DEF Answered, TypeOK, dialogs
<1>3. CASE Settled(r)
  <2>1. sel # None => Patched(r) \in Shown
    BY <1>a, Rows DEF Patched, TypeOK
  <2>2. Decided(r) \in Shown
    BY <1>a, Rows DEF Decided, Row
  <2>3. page.answer \in {"patch", "patch shown", "take", "reload", "clear", "clear own"}
    BY Kinds, ApprovalAssumption DEF TypeOK, Kind
  <2>4. sel' \in Shown
    BY <1>3, <2>1, <2>2, <2>3, Rows DEF Settled, TypeOK
  <2>5. UNCHANGED dialogs \/ CloseDialogs(r)
    BY <1>3 DEF Settled
  <2> QED BY <1>3, <1>c, <2>4, <2>5 DEF Settled, TypeOK, dialogs
<1>4. CASE Failed(r)
  BY <1>4 DEF Failed, GivenBack, TypeOK, dialogs
<1> QED BY <1>1, <1>2, <1>3, <1>4 DEF Handle

LEMMA TypedStep ==
    ASSUME TypeOK, [Next]_vars PROVE TypeOK'
<1>1. CASE UNCHANGED vars
  BY <1>1 DEF vars, dialogs, TypeOK
<1>2. CASE Next
  BY <1>2, NextSteps, ScreenType, DialogType, DecideType, HandleType
<1> QED BY <1>1, <1>2

LEMMA TypedInit == Init => TypeOK
<1> SUFFICES ASSUME Init PROVE TypeOK
  OBVIOUS
<1>1. sel \in Shown /\ [d \in Docs |-> "pending"] \in [Docs -> Statuses]
  BY Rows DEF Init, Statuses
<1>2. Cardinality(asking) <= 1
  BY OneQuestion DEF Init
<1> QED BY <1>1, <1>2 DEF Init, TypeOK

(* Every variable of an approval page keeps its type, in whatever order    *)
(* answers, clicks and the decisions of others come.                       *)
THEOREM TypeCorrect == Spec => []TypeOK
<1>1. TypeOK /\ [Next]_vars => TypeOK'
  BY TypedStep
<1> QED BY <1>1, TypedInit, PTL DEF Spec

-----------------------------------------------------------------------------
(* The inductive invariant.                                                *)
(*                                                                         *)
(* A dialog of each kind is open on the pages that have it.                *)
PageFits ==
    /\ loads # {} => page.select = "load"
    /\ checking # {} => page.checks
    /\ \A q \in asking : IF q.act = "approve" THEN page.approve = "confirm"
                                              ELSE page.reject = "confirm"
    /\ rejecting # NoDoc => page.reject # "confirm"
    /\ approving # NoDoc => page.approve # "confirm"

(* The ref is held as long as a decision is under way.                     *)
GuardHeld == page.guard /\ reqs # {} => guard

(* What a request, a load and the screen say of a document is what the     *)
(* server decided: it decides a document once.                             *)
Truthful ==
    /\ \A r \in reqs : r.out \in {"done", "settling"} => server[r.doc] = Result(r.act)
    /\ \A l \in loads : l.was # "pending" => l.was = server[l.doc]
    /\ ShownIsDecided

(* Where rows are selected, a form lies over its own document or over one  *)
(* that is decided, and a page with the list beside keeps one selected.    *)
FormFits ==
    page.select # "load" =>
        /\ \A d \in {rejecting, approving} \ {NoDoc} :
              /\ sel # None => sel.id = d \/ server[sel.id] # "pending"
              /\ page.beside => sel # None
        /\ \A r \in reqs :
              r.doc = r.for \/ (r.out \in {"sent", "refused"} /\ server[r.doc] # "pending")

(* The login over a rejection is for the document of the rejection.        *)
LoginFits ==
    page.reject = "auth" /\ rejecting # NoDoc /\ approving # NoDoc => approving = rejecting

IInv ==
    /\ TypeOK /\ PageFits /\ GuardHeld /\ OneDecision /\ Truthful
    /\ FormFits /\ LoginFits /\ DialogKept

LEMMA PageKind == TypeOK => Kind(page)
BY Kinds, ApprovalAssumption DEF TypeOK

(* A step other than a sending or a handling leaves the requests alone.    *)
LEMMA QuietSteps ==
    ScreenStep \/ DialogStep => UNCHANGED <<page, reqs, guard>>
BY DEF ScreenStep, DialogStep, Draw, Refresh, Back, Click, AutoSelect, Open, Checked,
       OtherDecides, Loaded, StartApprove, StartReject, Cancel, CloseReject,
       LoginToReject, CloseApprove

(* The requests after a request is handled: answered, or gone.             *)
LEMMA HandledRequests ==
    ASSUME NEW r \in reqs, Handle(r)
    PROVE  /\ UNCHANGED <<page, loads, checking, asking, seen>>
           /\ rejecting' \in {rejecting, NoDoc} /\ approving' \in {approving, NoDoc}
           /\ \/ \E out \in Outs, own \in BOOLEAN :
                    /\ reqs' = (reqs \ {r}) \cup {Answer(r, out, own)} /\ guard' = guard
                    /\ out = "done" => r.out = "sent" /\ server[r.doc] = "pending"
                                       /\ server' = [server EXCEPT ![r.doc] = Result(r.act)]
                    /\ out = "settling" => r.out = "done" /\ server' = server
              \/ reqs' = reqs \ {r} /\ ~guard'
<1>1. CASE Serve(r)
  <2>1. UNCHANGED <<page, loads, checking, asking, rejecting, approving, seen, guard>>
    BY <1>1 DEF Serve, dialogs
  <2>2. \/ /\ reqs' = (reqs \ {r}) \cup {Answer(r, "done", FALSE)}
           /\ r.out = "sent" /\ server[r.doc] = "pending"
           /\ server' = [server EXCEPT ![r.doc] = Result(r.act)]
        \/ reqs' = (reqs \ {r}) \cup {Answer(r, "refused", FALSE)}
    BY <1>1 DEF Serve, Reply, Answer
  <2> QED BY <2>1, <2>2 DEF Outs
<1>2. CASE Answered(r)
  <2>1. UNCHANGED <<page, server, loads, checking, asking, seen, guard>>
    BY <1>2 DEF Answered, dialogs, CloseDialogs
  <2>2. rejecting' \in {rejecting, NoDoc} /\ approving' \in {approving, NoDoc}
    BY <1>2 DEF Answered, dialogs, CloseDialogs
  <2>3. r.out = "done" /\ reqs' = (reqs \ {r}) \cup {Answer(r, "settling", sel.id = r.doc)}
    BY <1>2 DEF Answered, Reply, Answer
  <2>4. (sel.id = r.doc) \in BOOLEAN
    OBVIOUS
  <2> QED BY <2>1, <2>2, <2>3, <2>4 DEF Outs
<1>3. CASE Settled(r)
  <2>1. UNCHANGED <<page, loads, checking, asking, seen>> /\ reqs' = reqs \ {r} /\ ~guard'
    BY <1>3 DEF Settled, dialogs, CloseDialogs
  <2>2. rejecting' \in {rejecting, NoDoc} /\ approving' \in {approving, NoDoc}
    BY <1>3 DEF Settled, dialogs, CloseDialogs
  <2> QED BY <2>1, <2>2
<1>4. CASE Failed(r)
  BY <1>4 DEF Failed, dialogs, GivenBack
<1> QED BY <1>1, <1>2, <1>3, <1>4 DEF Handle

(* What a sending adds, and why it may.  Every decision goes through here. *)
Sending(n, act, d, f) ==
    /\ n \in 1..MaxReqs /\ act \in Acts /\ d \in Docs /\ f \in Docs
    /\ reqs' = reqs \cup {Fresh(n, act, d, f)}
    /\ ~guard /\ guard' = page.guard
    /\ page.reject = "auth" => reqs = {}
    /\ page.select # "load" => d = f \/ server[d] # "pending"
    /\ act = "reject" /\ rejecting # NoDoc => f = rejecting

LEMMA Sends ==
    ASSUME TypeOK, PageFits, FormFits, LoginFits, SendStep
    PROVE  /\ UNCHANGED <<page, server, sel, loads, checking, rejecting, approving, seen>>
           /\ asking' \in {asking, {}}
           /\ \E n, act, d, f : Sending(n, act, d, f)
<1>1. Kind(page)
  BY PageKind
<1>2. ASSUME NEW act \in Acts, NEW d \in Docs, NEW f \in Docs, Send(act, d, f),
             page.reject = "auth" => reqs = {},
             page.select # "load" => d = f \/ server[d] # "pending",
             act = "reject" /\ rejecting # NoDoc => f = rejecting
      PROVE  /\ UNCHANGED <<page, server, sel, loads, checking, rejecting, approving, seen>>
             /\ \E n, a, e, g : Sending(n, a, e, g)
  <2>1. PICK n \in 1..MaxReqs : reqs' = reqs \cup {Fresh(n, act, d, f)}
    BY <1>2 DEF Send, Fresh
  <2>2. ~guard /\ guard' = page.guard
    BY <1>2 DEF Send, MaySend
  <2>3. Sending(n, act, d, f)
    BY <1>2, <2>1, <2>2 DEF Sending
  <2>4. UNCHANGED <<page, server, sel, loads, checking, rejecting, approving, seen>>
    BY <1>2 DEF Send
  <2> QED BY <2>3, <2>4
<1>3. /\ "approve" \in Acts /\ "reject" \in Acts /\ "approve" # "reject"
      /\ sel # None => sel.id \in Docs
      /\ rejecting # NoDoc => rejecting \in Docs
      /\ approving # NoDoc => approving \in Docs
  BY Rows DEF TypeOK, Acts
<1>4. \A d \in {rejecting, approving} \ {NoDoc} :
         page.select # "load" /\ sel # None => sel.id = d \/ server[sel.id] # "pending"
  BY DEF FormFits
<1>5. CASE Confirm
  <2>1. PICK q \in asking : asking' = {} /\ Send(q.act, q.doc, q.doc)
    BY <1>5 DEF Confirm
  <2>2. q.act \in Acts /\ q.doc \in Docs
    BY DEF TypeOK
  <2>3. page.approve = "confirm" \/ page.reject = "confirm"
    BY DEF PageFits
  <2>4. q.act = "reject" => page.reject = "confirm"
    BY <1>3 DEF PageFits
  <2>5. page.reject # "auth"
    BY <1>1, <2>3 DEF Kind
  <2>6. q.act = "reject" => rejecting = NoDoc
    BY <2>4 DEF PageFits
  <2> QED BY <1>2, <2>1, <2>2, <2>5, <2>6
<1>6. CASE Verify
  <2>1. page.reject # "auth"
    BY <1>6, Kinds DEF Verify
  <2> QED BY <1>2, <1>3, <1>6, <2>1 DEF Verify
<1>7. CASE SubmitReject
  BY <1>2, <1>3, <1>4, <1>7 DEF SubmitReject, Submit
<1>8. CASE SubmitApprove
  <2>1. page.reject # "auth"
    BY <1>1, <1>8 DEF SubmitApprove, Kind
  <2> QED BY <1>2, <1>3, <1>4, <1>8, <2>1 DEF SubmitApprove, Submit
<1>9. CASE Login
  <2>1. page.select = "load"
    BY <1>1, <1>9 DEF Login, Kind
  <2>2. page.reject = "auth" => reqs = {}
    <3>1. page.reject = "auth" => Acts \cap UnderWay = {}
      BY <1>9 DEF Login, LoginIdle, LoginActs
    <3>2. \A r \in reqs : r.act \in Acts \cap UnderWay
      BY DecisionType DEF TypeOK, UnderWay
    <3> QED BY <3>1, <3>2
  <2>3. LoginAct \in Acts /\ (LoginAct = "reject" => page.reject = "auth" /\ rejecting # NoDoc)
    BY <1>3 DEF LoginAct
  <2>4. approving # NoDoc /\ sel # None /\ asking' = asking
        /\ Send(LoginAct, sel.id, approving)
    BY <1>9 DEF Login
  <2>5. LoginAct = "reject" => approving = rejecting
    BY <2>3, <2>4 DEF LoginFits
  <2> QED BY <1>2, <1>3, <2>1, <2>2, <2>3, <2>4, <2>5
<1> QED BY <1>5, <1>6, <1>7, <1>8, <1>9 DEF SendStep

(* The server's word is final.                                             *)
LEMMA ServerKeeps ==
    ASSUME TypeOK, Next, NEW d \in Docs, server[d] # "pending"
    PROVE  server'[d] = server[d]
<1> DEFINE Decide(e, act) == /\ server[e] = "pending"
                             /\ server' = [server EXCEPT ![e] = Result(act)]
<1>1. ASSUME NEW e, NEW act, Decide(e, act) PROVE server'[d] = server[d]
  <2>1. server \in [Docs -> Statuses] /\ e # d
    BY <1>1 DEF TypeOK
  <2> QED BY <1>1, <2>1
<1>2. CASE ScreenStep
  <2>1. server' = server \/ \E e \in Docs : OtherDecides(e)
    BY <1>2 DEF ScreenStep, Draw, Refresh, Back, Click, AutoSelect, Open, Checked, Loaded
  <2>2. ASSUME NEW e \in Docs, OtherDecides(e) PROVE \E act \in Acts : Decide(e, act)
    BY <2>2 DEF OtherDecides
  <2> QED BY <1>1, <2>1, <2>2
<1>3. CASE DialogStep
  BY <1>3 DEF DialogStep, StartApprove, StartReject, Cancel, CloseReject, LoginToReject,
              CloseApprove
<1>4. CASE SendStep
  BY <1>4 DEF SendStep, Confirm, Verify, SubmitReject, SubmitApprove, Submit, Login, Send
<1>5. ASSUME NEW r \in reqs, Handle(r) PROVE server'[d] = server[d]
  <2>1. server' = server \/ Decide(r.doc, r.act)
    BY <1>5 DEF Handle, Serve, Answered, Settled, Failed
  <2> QED BY <1>1, <2>1
<1> QED BY <1>2, <1>3, <1>4, <1>5, NextSteps

(* Dialogs open only on the pages that have them.                          *)
LEMMA PageFitsStep ==
    ASSUME TypeOK, PageFits, Next
    PROVE  PageFits'
<1>1. Kind(page)
  BY PageKind
<1>2. CASE ScreenStep
  <2>1. ASSUME NEW d \in Docs, Click(d) \/ AutoSelect(d) PROVE PageFits'
    BY <2>1 DEF Click, AutoSelect, Open, PageFits, dialogs
  <2>2. ASSUME NEW d \in Docs, Checked(d) PROVE PageFits'
    <3>1. page.approve # "confirm"
      BY <1>1, <2>2 DEF Checked, Kind, PageFits
    <3> QED BY <2>2, <3>1 DEF Checked, PageFits
  <2>3. ASSUME NEW l \in loads, Loaded(l) PROVE PageFits'
    BY <2>3 DEF Loaded, PageFits, dialogs
  <2>4. CASE Draw \/ Refresh \/ Back \/ \E d \in Docs : OtherDecides(d)
    BY <2>4 DEF Draw, Refresh, Back, OtherDecides, PageFits, dialogs
  <2> QED BY <1>2, <2>1, <2>2, <2>3, <2>4 DEF ScreenStep
<1>3. CASE StartApprove
  <2>1. CASE page.checks
    <3>1. page.approve # "confirm"
      BY <1>1, <2>1 DEF Kind
    <3>2. /\ checking' = checking \cup {sel.id}
          /\ UNCHANGED <<asking, rejecting, approving, page, loads>>
      BY <1>3, <2>1, <3>1 DEF StartApprove, dialogs
    <3> QED BY <2>1, <3>2 DEF PageFits
  <2>2. CASE ~page.checks /\ page.approve = "confirm"
    BY <1>3, <2>2 DEF StartApprove, Ask, PageFits
  <2>3. CASE ~page.checks /\ page.approve # "confirm"
    BY <1>3, <2>3 DEF StartApprove, PageFits
  <2> QED BY <2>1, <2>2, <2>3
<1>4. CASE StartReject
  BY <1>4 DEF StartReject, Ask, PageFits
<1>5. CASE LoginToReject
  BY <1>1, <1>5 DEF LoginToReject, Kind, PageFits
<1>6. CASE Cancel \/ CloseReject \/ CloseApprove
  BY <1>6 DEF Cancel, CloseReject, CloseApprove, PageFits
<1>7. CASE SendStep
  <2>1. UNCHANGED <<page, loads, checking, rejecting, approving>> /\ asking' \in {asking, {}}
    BY <1>7 DEF SendStep, Confirm, Verify, SubmitReject, SubmitApprove, Submit, Login, Send
  <2> QED BY <2>1 DEF PageFits
<1>8. ASSUME NEW r \in reqs, Handle(r) PROVE PageFits'
  <2>1. /\ UNCHANGED <<page, loads, checking, asking>>
        /\ rejecting' \in {rejecting, NoDoc} /\ approving' \in {approving, NoDoc}
    BY <1>8, HandledRequests
  <2> QED BY <2>1 DEF PageFits
<1> QED BY <1>2, <1>3, <1>4, <1>5, <1>6, <1>7, <1>8, NextSteps DEF DialogStep

(* One decision is under way at a time, and the ref is held as long.       *)
LEMMA OneStep ==
    ASSUME TypeOK, PageFits, FormFits, LoginFits, GuardHeld, OneDecision, Next
    PROVE  GuardHeld' /\ OneDecision'
<1>1. CASE ScreenStep \/ DialogStep
  BY <1>1, QuietSteps DEF GuardHeld, OneDecision
<1>2. CASE SendStep
  <2>1. page' = page
    BY <1>2, Sends
  <2>2. PICK n, act, d, f : Sending(n, act, d, f)
    BY <1>2, Sends
  <2>3. page.guard \/ page.reject = "auth" => reqs = {}
    BY <2>2 DEF Sending, GuardHeld
  <2>4. reqs' = reqs \cup {Fresh(n, act, d, f)} /\ guard' = page.guard
    BY <2>2 DEF Sending
  <2> QED BY <2>1, <2>3, <2>4 DEF GuardHeld, OneDecision
<1>3. ASSUME NEW r \in reqs, Handle(r) PROVE GuardHeld' /\ OneDecision'
  <2>1. page' = page
    BY <1>3, HandledRequests
  <2>2. CASE reqs' = reqs \ {r}
    BY <2>1, <2>2 DEF GuardHeld, OneDecision
  <2>3. CASE \E q : reqs' = (reqs \ {r}) \cup {q} /\ guard' = guard
    BY <2>1, <2>3 DEF GuardHeld, OneDecision
  <2> QED BY <1>3, <2>2, <2>3, HandledRequests
<1> QED BY <1>1, <1>2, <1>3, NextSteps

(* What is said of a document's decision stays true.                       *)
LEMMA TruthfulStep ==
    ASSUME TypeOK, PageFits, FormFits, LoginFits, Truthful, Next
    PROVE  Truthful'
<1>a. /\ \A d \in Docs : server[d] # "pending" => server'[d] = server[d]
      /\ \A act \in Acts : Result(act) # "pending"
      /\ \A r \in reqs : r \in Decision /\ r.doc \in Docs /\ r.act \in Acts
      /\ \A l \in loads : l.doc \in Docs
      /\ sel.status # "pending" => sel # None /\ sel.id \in Docs
      /\ Kind(page)
  <2>1. reqs \subseteq Decision /\ loads \subseteq [doc : Docs, was : Statuses] /\ sel \in Shown
    BY DEF TypeOK
  <2> QED BY <2>1, ServerKeeps, Rows, DecisionType, PageKind
<1> DEFINE Answers(R) ==
             \A r \in R : r.out \in {"done", "settling"} => server'[r.doc] = Result(r.act)
           Loads(L) == \A l \in L : l.was # "pending" => l.was = server'[l.doc]
           Shows(w) == page # Payments /\ w.status # "pending" => w.status = server'[w.id]
<1>b. Answers(reqs) /\ Loads(loads) /\ Shows(sel)
  BY <1>a DEF Truthful, ShownIsDecided, DecidedAtServer
<1>c. Shows(None)
  BY Rows
<1>d. ASSUME page' = page, Answers(reqs'), Loads(loads'), Shows(sel') PROVE Truthful'
  BY <1>d DEF Truthful, ShownIsDecided, DecidedAtServer
<1> HIDE DEF Answers, Loads, Shows
<1>1. CASE SendStep
  <2>1. UNCHANGED <<page, server, sel, loads>>
    BY <1>1, Sends
  <2>2. PICK n, act, d, f : Sending(n, act, d, f)
    BY <1>1, Sends
  <2>3. Answers(reqs')
    <3>1. reqs' = reqs \cup {Fresh(n, act, d, f)} /\ Fresh(n, act, d, f).out = "sent"
      BY <2>2, FreshType DEF Sending
    <3> QED BY <1>b, <3>1 DEF Answers
  <2> QED BY <1>b, <1>d, <2>1, <2>3
<1>2. CASE ScreenStep \/ DialogStep
  <2>1. UNCHANGED <<page, reqs>>
    BY <1>2, QuietSteps
  <2>2. \/ UNCHANGED <<loads, sel>>
        \/ \E d \in Docs : Open(d)
        \/ \E l \in loads : Loaded(l)
        \/ Refresh \/ Back
    BY <1>2 DEF ScreenStep, DialogStep, Draw, Click, AutoSelect, Checked, OtherDecides,
                StartApprove, StartReject, Cancel, CloseReject, LoginToReject, CloseApprove
  <2>3. ASSUME NEW d \in Docs, Open(d) PROVE Loads(loads') /\ Shows(sel')
    <3>1. server' = server
      BY <2>3 DEF Open
    <3>2. CASE page.select = "load"
      BY <1>b, <2>3, <3>1, <3>2 DEF Open, Loads
    <3>3. CASE page.select # "load"
      BY <1>b, <2>3, <3>1, <3>3 DEF Open, Shows
    <3> QED BY <3>2, <3>3
  <2>4. ASSUME NEW l \in loads, Loaded(l) PROVE Loads(loads') /\ Shows(sel')
    <3>1. loads' \subseteq loads /\ server' = server
      BY <2>4 DEF Loaded
    <3>2. sel' = sel \/ \E s \in {l.was, server[l.doc]} : sel' = [id |-> l.doc, status |-> s]
      BY <2>4 DEF Loaded
    <3>3. Shows(sel')
      BY <1>b, <3>1, <3>2 DEF Shows, Loads
    <3> QED BY <1>b, <3>1, <3>3 DEF Loads
  <2>5. ASSUME Refresh PROVE Truthful'
    <3>1. /\ server' = server /\ loads' = loads
          /\ sel'.id = sel.id /\ sel'.status = server[sel.id]
      <4>1. sel' = [sel EXCEPT !.status = server[sel.id]] /\ sel \in Shown /\ sel # None
        BY <2>5 DEF Refresh, TypeOK
      <4>2. server[sel.id] \in Statuses
        BY <4>1, Rows DEF TypeOK
      <4>3. server' = server /\ loads' = loads
        BY <2>5 DEF Refresh
      <4> QED BY <4>1, <4>2, <4>3, Rows
    <3>2. server'[sel'.id] = server[sel.id]
      BY <3>1
    <3> QED BY <1>b, <1>d, <2>1, <3>1, <3>2 DEF Shows, Loads
  <2>6. ASSUME Back PROVE Truthful'
    <3>1. loads' = loads /\ sel' = None
      BY <2>6 DEF Back
    <3> QED BY <1>b, <1>c, <1>d, <2>1, <3>1
  <2> QED BY <1>b, <1>d, <2>1, <2>2, <2>3, <2>4, <2>5, <2>6
<1>3. ASSUME NEW r \in reqs, Handle(r) PROVE Truthful'
  <2>1. page' = page /\ loads' = loads
    BY <1>3, HandledRequests
  <2>2. Answers(reqs')
    <3>1. CASE reqs' = reqs \ {r}
      BY <1>b, <3>1 DEF Answers
    <3>2. ASSUME NEW out \in Outs, NEW own \in BOOLEAN,
                 reqs' = (reqs \ {r}) \cup {Answer(r, out, own)},
                 out = "done" => server' = [server EXCEPT ![r.doc] = Result(r.act)],
                 out = "settling" => r.out = "done"
          PROVE  Answers(reqs')
      <4> DEFINE q == Answer(r, out, own)
      <4>1. q.out = out /\ q.doc = r.doc /\ q.act = r.act
        BY <1>a, AnswerType
      <4>2. out = "done" => server'[r.doc] = Result(r.act)
        BY <1>a, <3>2 DEF TypeOK
      <4>3. out = "settling" => server'[r.doc] = Result(r.act)
        BY <1>b, <3>2 DEF Answers
      <4>4. q.out \in {"done", "settling"} => server'[q.doc] = Result(q.act)
        BY <4>1, <4>2, <4>3
      <4> HIDE DEF q
      <4>5. reqs' = (reqs \ {r}) \cup {q}
        BY <3>2 DEF q
      <4> QED BY <1>b, <4>4, <4>5 DEF Answers
    <3> QED BY <1>3, <3>1, <3>2, HandledRequests
  <2>3. CASE sel' = sel
    BY <1>b, <1>d, <2>1, <2>2, <2>3
  <2>4. CASE Settled(r)
    <3>1. server' = server /\ server[r.doc] = Result(r.act)
      BY <2>4 DEF Settled, Truthful
    <3>2. Shows(Decided(r))
      BY <3>1 DEF Decided, Shows
    <3>3. sel # None /\ sel.id = r.doc => Shows(Patched(r))
      <4> SUFFICES ASSUME sel # None, sel.id = r.doc PROVE Shows(Patched(r))
        OBVIOUS
      <4>1. Patched(r).id = r.doc /\ Patched(r).status = Result(r.act)
        BY <1>a, Rows DEF Patched, TypeOK
      <4> QED BY <3>1, <4>1 DEF Shows
    <3>4. page.answer = "patch shown" => Shows(sel')
      BY <1>a DEF Shows, Kind
    <3>5. page.answer # "patch shown" =>
             sel' \in {sel, None, Decided(r)}
             \/ (sel # None /\ sel.id = r.doc /\ sel' = Patched(r))
      BY <1>a, <2>4 DEF Settled, StillSelected, Kind
    <3>6. Shows(sel')
      BY <1>b, <1>c, <3>2, <3>3, <3>4, <3>5
    <3> QED BY <1>b, <1>d, <2>1, <2>2, <3>6
  <2> QED BY <1>3, <2>3, <2>4 DEF Handle, Serve, Answered, Failed
<1> QED BY <1>1, <1>2, <1>3, NextSteps

(* A form stays over its document, or over one that is decided.            *)
LEMMA FormStep ==
    ASSUME TypeOK, PageFits, FormFits, LoginFits, Truthful, Next
    PROVE  FormFits'
<1>a. /\ Kind(page)
      /\ \A d \in Docs : server[d] # "pending" => server'[d] = server[d]
      /\ \A act \in Acts : Result(act) # "pending"
      /\ \A r \in reqs : r \in Decision /\ r.doc \in Docs /\ r.act \in Acts
      /\ sel # None => sel.id \in Docs
      /\ page' = page
  <2>1. reqs \subseteq Decision /\ sel \in Shown
    BY DEF TypeOK
  <2>2. page' = page
    BY NextSteps, QuietSteps, Sends, HandledRequests
  <2> QED BY <2>1, <2>2, ServerKeeps, Rows, DecisionType, PageKind
<1> DEFINE Forms(d, w, s) == d # NoDoc => /\ w # None => w.id = d \/ s[w.id] # "pending"
                                          /\ page.beside => w # None
           Own(r, s) == r.doc = r.for \/ (r.out \in {"sent", "refused"} /\ s[r.doc] # "pending")
<1>b. /\ Forms(rejecting, sel, server) \/ page.select = "load"
      /\ Forms(approving, sel, server) \/ page.select = "load"
      /\ (\A r \in reqs : Own(r, server)) \/ page.select = "load"
  BY DEF FormFits
<1> SUFFICES ASSUME page.select # "load"
             PROVE  /\ Forms(rejecting', sel', server') /\ Forms(approving', sel', server')
                    /\ \A r \in reqs' : Own(r, server')
  <2>1. CASE page.select = "load"
    BY <1>a, <2>1 DEF FormFits
  <2>2. CASE page.select # "load"
    <3>1. /\ Forms(rejecting', sel', server') /\ Forms(approving', sel', server')
          /\ \A r \in reqs' : Own(r, server')
      BY <2>2
    <3>2. ASSUME NEW d \in {rejecting', approving'} \ {NoDoc}
          PROVE  /\ sel' # None => sel'.id = d \/ server'[sel'.id] # "pending"
                 /\ page'.beside => sel' # None
      <4>1. d # NoDoc /\ (d = rejecting' \/ d = approving') /\ page' = page
        BY <1>a
      <4>2. Forms(d, sel', server')
        BY <3>1, <4>1
      <4> QED BY <4>1, <4>2
    <3> QED BY <3>1, <3>2 DEF FormFits
  <2> QED BY <2>1, <2>2
<1>c. /\ page.approve # "auth" /\ page.reject # "auth" /\ ~page.checks
      /\ loads = {} /\ checking = {} /\ page.answer \in {"take", "clear"}
      /\ page.beside => \/ page.answer = "take"
                        \/ page.approve = "confirm" /\ page.reject = "confirm"
  BY <1>a DEF Kind, PageFits
\* What is true of the dialogs and the requests stays true as the server decides.
<1>d. /\ \A d \in {rejecting, approving, NoDoc} : Forms(d, sel, server')
      /\ \A r \in reqs : Own(r, server')
  BY <1>a, <1>b
<1>1. CASE ScreenStep
  <2>1. reqs' = reqs
    BY <1>1, QuietSteps
  <2>2. CASE UNCHANGED <<sel, rejecting, approving>>
    BY <1>d, <2>1, <2>2
  <2>3. ASSUME NEW d \in Docs, Click(d) \/ AutoSelect(d)
        PROVE  UNCHANGED <<rejecting, approving>> /\ rejecting = NoDoc /\ approving = NoDoc
    <3>1. UNCHANGED <<rejecting, approving>>
      BY <2>3 DEF Click, AutoSelect, Open, dialogs
    <3>2. ~Modal \/ (page.beside /\ sel = None)
      BY <2>3 DEF Click, AutoSelect
    <3> QED BY <1>b, <3>1, <3>2 DEF Modal
  <2>4. CASE Refresh
    <3>1. sel' # None /\ sel'.id = sel.id /\ sel # None
          /\ UNCHANGED <<server, rejecting, approving>>
      <4>1. server[sel.id] \in Statuses /\ sel \in Shown /\ sel # None
        BY <1>a, <2>4 DEF Refresh, TypeOK
      <4> QED BY <2>4, <4>1, Rows DEF Refresh, dialogs
    <3> QED BY <1>b, <1>d, <2>1, <3>1
  <2>5. CASE Back
    <3>1. UNCHANGED <<rejecting, approving>> /\ rejecting = NoDoc /\ approving = NoDoc
      BY <2>5 DEF Back, Modal, dialogs
    <3> QED BY <1>d, <2>1, <3>1
  <2>6. CASE Draw \/ \E d \in Docs : OtherDecides(d)
    BY <2>2, <2>6 DEF Draw, OtherDecides, dialogs
  <2>7. ~ \E d \in Docs : Checked(d)
    BY <1>c DEF Checked
  <2> QED BY <1>1, <1>c, <1>d, <2>1, <2>3, <2>4, <2>5, <2>6, <2>7 DEF ScreenStep
<1>2. CASE DialogStep
  <2>1. /\ UNCHANGED <<sel, server, reqs>>
        /\ rejecting' \in {rejecting, NoDoc} \/ (sel # None /\ rejecting' = sel.id)
        /\ approving' \in {approving, NoDoc} \/ (sel # None /\ approving' = sel.id)
    <3>1. CASE StartApprove \/ StartReject
      BY <1>c, <3>1 DEF StartApprove, StartReject, Offered
    <3>2. CASE Cancel \/ CloseReject \/ CloseApprove
      BY <3>2 DEF Cancel, CloseReject, CloseApprove
    <3>3. ~LoginToReject
      BY <1>c DEF LoginToReject
    <3> QED BY <1>2, <3>1, <3>2, <3>3 DEF DialogStep
  <2> QED BY <1>d, <2>1
<1>3. CASE SendStep
  <2>1. UNCHANGED <<server, sel, rejecting, approving>>
    BY <1>3, Sends
  <2>2. PICK n, act, d, f : Sending(n, act, d, f)
    BY <1>3, Sends
  <2>3. reqs' = reqs \cup {Fresh(n, act, d, f)} /\ Own(Fresh(n, act, d, f), server)
    BY <2>2, FreshType DEF Sending
  <2> QED BY <1>b, <2>1, <2>3
<1>4. ASSUME NEW r \in reqs, Handle(r)
      PROVE  /\ Forms(rejecting', sel', server') /\ Forms(approving', sel', server')
             /\ \A q \in reqs' : Own(q, server')
  <2>1. \A q \in reqs' : Own(q, server')
    <3>1. CASE reqs' = reqs \ {r}
      BY <1>d, <3>1
    <3>2. ASSUME NEW out \in Outs, NEW own \in BOOLEAN,
                 reqs' = (reqs \ {r}) \cup {Answer(r, out, own)},
                 out = "done" => server[r.doc] = "pending", out = "settling" => r.out = "done"
          PROVE  \A q \in reqs' : Own(q, server')
      <4> DEFINE q == Answer(r, out, own)
      <4>1. q.out = out /\ q.doc = r.doc /\ q.for = r.for
        BY <1>a, AnswerType
      <4>2. r.doc = r.for \/ (r.out \in {"sent", "refused"} /\ server'[r.doc] # "pending")
        BY <1>d
      <4>3. out \in {"done", "settling"} => r.doc = r.for
        BY <1>b, <3>2
      <4>4. Own(q, server')
        BY <4>1, <4>2, <4>3 DEF Outs
      <4> HIDE DEF q
      <4>5. reqs' = (reqs \ {r}) \cup {q}
        BY <3>2 DEF q
      <4> QED BY <1>d, <4>4, <4>5
    <3> QED BY <1>4, <3>1, <3>2, HandledRequests
  <2>2. rejecting' \in {rejecting, NoDoc} /\ approving' \in {approving, NoDoc}
    BY <1>4, HandledRequests
  <2>3. CASE sel' = sel
    BY <1>d, <2>1, <2>2, <2>3
  <2>4. CASE Settled(r)
    <3>1. server' = server /\ server[r.doc] # "pending"
      BY <1>a, <2>4 DEF Settled, Truthful
    <3>2. CASE page.answer = "take"
      <4>1. sel' = Decided(r)
        BY <2>4, <3>2 DEF Settled
      <4>2. sel' # None /\ sel'.id = r.doc
        BY <1>a, <4>1, Rows DEF Decided, Row, TypeOK
      <4> QED BY <2>1, <3>1, <4>2
    <3>3. CASE page.answer = "clear"
      <4>1. sel' = None
        BY <2>4, <3>3 DEF Settled
      <4>2. page.beside => rejecting = NoDoc /\ approving = NoDoc
        BY <1>c, <3>3 DEF PageFits
      <4> QED BY <2>1, <2>2, <4>1, <4>2
    <3> QED BY <1>c, <3>2, <3>3
  <2> QED BY <1>4, <2>3, <2>4 DEF Handle, Serve, Answered, Failed
<1> QED BY <1>1, <1>2, <1>3, <1>4, NextSteps

(* A form to reject with opens only when no rejection is under way.        *)
LEMMA LoginStep ==
    ASSUME TypeOK, PageFits, FormFits, LoginFits, DialogKept, Next
    PROVE  LoginFits' /\ DialogKept'
<1>a. /\ Kind(page) /\ page' = page /\ reqs \subseteq Decision
      /\ page.reject = "auth" => ~page.checks
  BY PageKind, NextSteps, QuietSteps, Sends, HandledRequests DEF TypeOK, Kind
<1>1. CASE ScreenStep
  <2>1. reqs' = reqs /\ rejecting' = rejecting
        /\ (approving' = approving \/ \E d \in Docs : Checked(d))
    BY <1>1 DEF ScreenStep, Draw, Refresh, Back, Click, AutoSelect, Open, Checked,
                OtherDecides, Loaded, dialogs
  <2>2. page.reject = "auth" => ~ \E d \in Docs : Checked(d)
    BY <1>a DEF Checked, PageFits
  <2> QED BY <1>a, <2>1, <2>2 DEF LoginFits, DialogKept
<1>2. CASE StartReject
  <2>1. reqs' = reqs /\ approving' = approving /\ approving = NoDoc /\ rejecting = NoDoc
    BY <1>2 DEF StartReject, Offered, Modal
  <2>2. page # Expenses => \A r \in reqs : r.act # "reject"
    <3>1. seen = UnderWay /\ ~Locked("reject")
      BY <1>2 DEF StartReject, Offered, Drawn
    <3>2. page # Expenses => page.lock \in {"own", "any"}
      BY <1>a DEF Kind
    <3>3. page # Expenses => "reject" \notin UnderWay
      BY <3>1, <3>2 DEF Locked
    <3> QED BY <3>3 DEF UnderWay
  <2> QED BY <1>a, <2>1, <2>2 DEF LoginFits, DialogKept
<1>3. CASE StartApprove
  <2>1. reqs' = reqs /\ rejecting' = rejecting /\ rejecting = NoDoc
    BY <1>3 DEF StartApprove, Offered, Modal, dialogs
  <2> QED BY <1>a, <2>1 DEF LoginFits, DialogKept
<1>4. CASE LoginToReject \/ Cancel \/ CloseReject \/ CloseApprove
  <2>1. /\ reqs' = reqs /\ rejecting' \in {rejecting, NoDoc}
        /\ approving' \in {approving, NoDoc, rejecting}
        /\ rejecting' = NoDoc \/ approving' \in {approving, NoDoc} \/ approving' = rejecting'
    BY <1>4 DEF LoginToReject, Cancel, CloseReject, CloseApprove
  <2>2. rejecting' # NoDoc => rejecting' = rejecting
    BY <2>1
  <2> QED BY <1>a, <2>1, <2>2 DEF LoginFits, DialogKept
<1>5. CASE SendStep
  <2>1. UNCHANGED <<rejecting, approving>>
    BY <1>5, Sends
  <2>2. PICK n, act, d, f : Sending(n, act, d, f)
    BY <1>5, Sends
  <2>3. /\ reqs' = reqs \cup {Fresh(n, act, d, f)}
        /\ Fresh(n, act, d, f).act = act /\ Fresh(n, act, d, f).for = f
        /\ act = "reject" /\ rejecting # NoDoc => f = rejecting
    BY <2>2, FreshType DEF Sending
  <2> QED BY <1>a, <2>1, <2>3 DEF LoginFits, DialogKept
<1>6. ASSUME NEW r \in reqs, Handle(r) PROVE LoginFits' /\ DialogKept'
  <2>1. rejecting' \in {rejecting, NoDoc} /\ approving' \in {approving, NoDoc}
    BY <1>6, HandledRequests
  <2>2. CASE reqs' = reqs \ {r}
    BY <1>a, <2>1, <2>2 DEF LoginFits, DialogKept
  <2>3. ASSUME NEW out \in Outs, NEW own \in BOOLEAN,
               reqs' = (reqs \ {r}) \cup {Answer(r, out, own)}
        PROVE  LoginFits' /\ DialogKept'
    <3> DEFINE q == Answer(r, out, own)
    <3>1. q.act = r.act /\ q.for = r.for
      BY <1>a, AnswerType
    <3> HIDE DEF q
    <3>2. reqs' = (reqs \ {r}) \cup {q}
      BY <2>3 DEF q
    <3> QED BY <1>a, <2>1, <3>1, <3>2 DEF LoginFits, DialogKept
  <2> QED BY <1>6, <2>2, <2>3, HandledRequests
<1> QED BY <1>1, <1>2, <1>3, <1>4, <1>5, <1>6, NextSteps DEF DialogStep

LEMMA InductiveInit == Init => IInv
<1> SUFFICES ASSUME Init PROVE IInv
  OBVIOUS
<1>1. sel.status = "pending" /\ sel = None
  BY Rows DEF Init
<1> QED BY <1>1, TypedInit
        DEF Init, IInv, PageFits, GuardHeld, OneDecision, Truthful, ShownIsDecided,
            DecidedAtServer, FormFits, LoginFits, DialogKept

LEMMA InductiveStep == IInv /\ [Next]_vars => IInv'
<1> SUFFICES ASSUME IInv, [Next]_vars PROVE IInv'
  OBVIOUS
<1>1. CASE Next
  BY <1>1, TypedStep, PageFitsStep, OneStep, TruthfulStep, FormStep, LoginStep DEF IInv
<1>2. CASE UNCHANGED vars
  BY <1>2 DEF vars, dialogs, IInv, TypeOK, PageFits, GuardHeld, OneDecision, Truthful,
              ShownIsDecided, DecidedAtServer, FormFits, LoginFits, DialogKept
<1> QED BY <1>1, <1>2

(* The strengthening of the three properties below that every step keeps:  *)
(* which dialogs are open, what the forms lie over and what is known of    *)
(* the server's decisions.                                                 *)
THEOREM Invariant == Spec => []IInv
BY InductiveInit, InductiveStep, PTL DEF Spec

(* On the pages that keep a second decision out, by a ref or by one login  *)
(* for both, one decision is under way at a time.                          *)
THEOREM OneDecisionAlways == Spec => []OneDecision
<1>1. IInv => OneDecision
  BY DEF IInv
<1> QED BY <1>1, Invariant, PTL

(* A dialog decides the document it was opened for where rows are          *)
(* selected, or one that is decided and refuses; a rejection that is       *)
(* answered closes its own form.                                           *)
THEOREM DialogsAgreeAlways == Spec => []DialogsAgree
<1>1. IInv => DialogsAgree
  BY DEF IInv, DialogsAgree, OwnDecision, FormFits
<1> QED BY <1>1, Invariant, PTL

(* A document shown as decided is decided so at the server, on every page  *)
(* but the payments'.                                                      *)
THEOREM ShownIsDecidedAlways == Spec => []ShownIsDecided
<1>1. IInv => ShownIsDecided
  BY DEF IInv, Truthful
<1> QED BY <1>1, Invariant, PTL
=============================================================================
