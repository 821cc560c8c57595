----------------------------- MODULE PaymentEntry -----------------------------
(***************************************************************************)
(* The two payment wizards of the finance module: money received from a    *)
(* customer (CustomerPaymentsPage.tsx) and paid to a supplier              *)
(* (SupplierPaymentsPage.tsx).  Select a party, choose its open documents, *)
(* enter the amounts, review, confirm, post.  The pages share their        *)
(* structure; where they differ the definition says so.                    *)
(*                                                                         *)
(* The lists a page shows are loaded asynchronously: answers arrive in any *)
(* order, after the user has moved on, or never.  A POST may be executed   *)
(* and its answer lost.  Other users pay the same documents.               *)
(***************************************************************************)
EXTENDS Integers, FiniteSets, SequencesExt, Sums

CONSTANTS Parties, NoParty,
          Newest,        \* open documents are numbered, oldest first
          PartyOf,       \* of each document
          Opening,       \* what each document owes at first
          Amounts,       \* amounts typed into a payment row
          Percents,      \* service charges of the cards
          MaxRows        \* bound: payment rows

Docs == 1 .. Newest

ASSUME PaymentAssumption ==
    /\ Newest \in Nat
    /\ PartyOf \in [Docs -> Parties] /\ NoParty \notin Parties
    /\ Opening \in [Docs -> Nat] /\ Amounts \subseteq Nat /\ Percents \subseteq Nat
    /\ MaxRows \in Nat \ {0}

VARIABLES
    kind,        \* which page: "customer" or "supplier"
    balance,     \* the server: what each document still owes
    selected,    \* the party shown
    view,        \* viewMode
    shown,       \* the documents loaded, with the balance as of the load
    loads,       \* loads of documents in flight, by the party asked for
    lines,       \* payment lines: document -> [due, amount]
    rows,        \* the split payment rows (customer page)
    dialog,      \* the confirmation is open
    inFlight,    \* postInFlightRef
    posts        \* POSTs in flight: what was sent, and whether the server has executed it

data == <<shown, loads>>
form == <<lines, rows>>
post == <<dialog, inFlight, posts>>
entryVars == <<kind, balance, selected, view, data, form, post>>

Lowest(a, b) == IF a < b THEN a ELSE b
Highest(a, b) == IF a > b THEN a ELSE b
Round(a, b) == (2 * a + b) \div (2 * b)          \* Math.round(a / b)
Total(s) == SumOf(s, DOMAIN s)
OfParty(p) == {d \in Docs : PartyOf[d] = p}
NoLines == [d \in {} |-> 0]
Row == [amount : Nat, card : BOOLEAN, pct : Nat]
FreshRows == <<[amount |-> 0, card |-> FALSE, pct |-> 0]>>
Line == [due : Nat, amount : Nat]

\* What a POST settles: amount and service charge that one of the rows, 0 on
\* the supplier page, pays of one document.
Settlement == [row : 0 .. MaxRows, doc : Docs, amount : Nat, charge : Nat]

\* What is sent to the server.
Sent == [party : Parties, batch : SUBSET Settlement, announced : Nat,
         done : {"no", "yes", "refused"}]

\* A function from some of the documents.
Partial(f, T) == DOMAIN f \subseteq Docs /\ f \in [DOMAIN f -> T]

EntryTypeOK ==
    /\ kind \in {"customer", "supplier"}
    /\ balance \in [Docs -> Nat]
    /\ selected \in Parties \cup {NoParty}
    /\ view \in {"overview", "documents", "payment", "review"}
    /\ Partial(shown, Nat)
    /\ loads \subseteq Parties
    /\ Partial(lines, Line)
    /\ rows \in Seq(Row) /\ Len(rows) <= MaxRows
    /\ dialog \in BOOLEAN /\ inFlight \in BOOLEAN
    /\ posts \subseteq Sent

EntryInit ==
    /\ kind \in {"customer", "supplier"}
    /\ balance = Opening
    /\ selected = NoParty /\ view = "overview"
    /\ shown = NoLines /\ loads = {}
    /\ lines = NoLines /\ rows = FreshRows
    /\ dialog = FALSE /\ inFlight = FALSE /\ posts = {}

----------------------------------------------------------------------------
(* Selecting a party.  The confirmation dialog is modal; otherwise the     *)
(* list of parties stays usable, also while a payment is posting.  The     *)
(* payment rows keep what was typed.  The customer page's list is built    *)
(* from one query over all customers, the supplier page shows the former   *)
(* supplier's documents until the new ones arrive.                         *)
SelectCustomer(p) ==
    /\ kind = "customer" /\ ~dialog
    /\ selected' = p /\ view' = "overview"
    /\ lines' = NoLines
    /\ shown' = [d \in OfParty(p) |-> balance[d]]
    /\ UNCHANGED <<kind, balance, loads, rows, post>>

SelectSupplier(p) ==
    /\ kind = "supplier" /\ ~dialog
    /\ selected' = p /\ view' = "overview"
    /\ lines' = NoLines
    /\ loads' = loads \cup {p}
    /\ UNCHANGED <<kind, balance, shown, rows, post>>

(* An answer with documents of a party that is not selected any more is    *)
(* thrown away; a failed load empties the list.                            *)
Latest(p) == p = selected
DocsLoaded(p) ==
    /\ p \in loads
    /\ loads' = loads \ {p}
    /\ IF ~Latest(p) THEN UNCHANGED shown
       ELSE \E ok \in BOOLEAN :
              shown' = [d \in {x \in OfParty(p) : ok /\ balance[x] > 0} |-> balance[d]]
    /\ UNCHANGED <<kind, balance, selected, view, lines, rows, post>>

----------------------------------------------------------------------------
(* The wizard.                                                             *)
StartPayment ==
    /\ view = "overview" /\ DOMAIN shown # {}
    /\ ~inFlight
    /\ view' = "documents"
    /\ UNCHANGED <<kind, balance, selected, data, form, post>>

\* What a document can take of the amount that is left.
Share(left, d) == IF d \in DOMAIN shown THEN Lowest(left, shown[d]) ELSE 0

\* The lines that take something, by what is left when their turn comes.
Taking(before) ==
    [d \in {x \in DOMAIN shown : Share(before[x], x) > 0} |->
       [due |-> shown[d], amount |-> Share(before[d], d)]]

(* Mutant: the list is walked from its end.                                *)
AllocateLIFO(amount) ==
    LET left[d \in 1 .. Newest + 1] ==
          IF d > Newest THEN amount ELSE left[d + 1] - Share(left[d + 1], d)
    IN Taking([d \in Docs |-> left[d + 1]])

(* allocateFIFO: the amount goes to the oldest documents first; what is    *)
(* left after each.                                                        *)
Remaining(amount) ==
    LET left[d \in 0 .. Newest] ==
          IF d = 0 THEN amount ELSE left[d - 1] - Share(left[d - 1], d)
    IN left
AllocateFIFO(amount) == Taking([d \in Docs |-> Remaining(amount)[d - 1]])

ProceedFIFO(amount) ==
    /\ view = "documents" /\ selected # NoParty /\ amount > 0
    /\ AllocateFIFO(amount) # NoLines
    /\ lines' = AllocateFIFO(amount)
    /\ view' = "payment"
    /\ UNCHANGED <<kind, balance, selected, data, rows, post>>

(* The documents ticked by then, of those listed, each at its balance.     *)
ProceedChosen(ticked) ==
    /\ view = "documents" /\ selected # NoParty
    /\ ticked # {} /\ ticked \subseteq DOMAIN shown
    /\ lines' = [d \in ticked |-> [due |-> shown[d], amount |-> shown[d]]]
    /\ view' = "payment"
    /\ UNCHANGED <<kind, balance, selected, data, rows, post>>

(* A line's amount is clamped to the balance as it was loaded.             *)
Clamp(amount, due) == Lowest(Highest(0, amount), due)
ChangeLine(d, amount) ==
    /\ view = "payment" /\ d \in DOMAIN lines
    /\ lines' = [lines EXCEPT ![d].amount = Clamp(amount, lines[d].due)]
    /\ UNCHANGED <<kind, balance, selected, view, data, rows, post>>

RemoveLine(d) ==
    /\ view = "payment" /\ d \in DOMAIN lines
    /\ lines' = [x \in DOMAIN lines \ {d} |-> lines[x]]
    /\ UNCHANGED <<kind, balance, selected, view, data, rows, post>>

(* The split rows of the customer page.                                    *)
SetRow(i, r) ==
    /\ kind = "customer" /\ view = "payment"
    /\ i \in 1..(Len(rows) + 1) /\ i <= MaxRows
    /\ rows' = IF i > Len(rows) THEN Append(rows, r) ELSE [rows EXCEPT ![i] = r]
    /\ UNCHANGED <<kind, balance, selected, view, data, lines, post>>

DropRow(i) ==
    /\ kind = "customer" /\ view = "payment" /\ i \in DOMAIN rows
    /\ rows' = RemoveAt(rows, i)
    /\ UNCHANGED <<kind, balance, selected, view, data, lines, post>>

LineTotal(ls) == Total([d \in DOMAIN ls |-> ls[d].amount])
Entered == Total([i \in DOMAIN rows |-> rows[i].amount])

(* What the rows may add up to: the lines plus the service charge of the   *)
(* first card row on the part that is not paid otherwise.                  *)
SplitDue ==
    LET cards == {i \in DOMAIN rows : rows[i].card}
        pct == IF cards = {} THEN 0 ELSE rows[Min(cards)].pct
        other == Total([i \in DOMAIN rows |-> IF rows[i].card THEN 0 ELSE rows[i].amount])
        base == LineTotal(lines)
    IN base + Round(Highest(0, base - other) * pct, 100)

(* The settlements that will be posted: each row, net of its service       *)
(* charge, fills the lines in order; the charge goes with its portions,    *)
(* what is left of it with the last.                                       *)
RowBase(r) == IF r.pct > 0 THEN Round(r.amount * 100, 100 + r.pct) ELSE r.amount

\* What a document with the amounts room still open takes of a base.
Portion(base, room, d) == IF d \in DOMAIN room THEN Lowest(base, room[d]) ELSE 0
Charge(base, charge, portion, pct) ==
    IF portion = 0 THEN 0
    ELSE IF base = portion THEN charge
    ELSE Lowest(charge, Round(portion * pct, 100))

\* Base and charge that are left of a row after each document.
Filling(r, room) ==
    LET left[d \in 0 .. Newest] ==
          IF d = 0 THEN [base |-> RowBase(r), charge |-> r.amount - RowBase(r)]
          ELSE LET old == left[d - 1]
                   a == Portion(old.base, room, d)
               IN [base |-> old.base - a,
                   charge |-> old.charge - Charge(old.base, old.charge, a, r.pct)]
    IN left

\* What is open of the lines after each row.
Room ==
    LET open[i \in 0 .. Len(rows)] ==
          IF i = 0 THEN [d \in DOMAIN lines |-> lines[d].amount]
          ELSE [d \in DOMAIN lines |->
                  open[i - 1][d]
                    - Portion(Filling(rows[i], open[i - 1])[d - 1].base, open[i - 1], d)]
    IN open

\* A row before and after a document.
Settled(i, d) ==
    LET left == Filling(rows[i], Room[i - 1])
    IN [row |-> i, doc |-> d, amount |-> left[d - 1].base - left[d].base,
        charge |-> left[d - 1].charge - left[d].charge]
SettlementRows ==
    {s \in {Settled(i, d) : i \in DOMAIN rows, d \in DOMAIN lines} : s.amount > 0}

(* The supplier page posts its lines, the customer page its settlements.   *)
Batch ==
    IF kind = "customer" THEN SettlementRows
    ELSE {[row |-> 0, doc |-> d, amount |-> lines[d].amount, charge |-> 0] :
            d \in {x \in DOMAIN lines : lines[x].amount > 0}}

\* What settlements take in all, and what a POST takes from a document.
Taken(S) == SumOf([s \in S |-> s.amount], S)
Paid(S) == SumOf([s \in S |-> s.amount + s.charge], S)
TakenBy(p, d) == Taken({s \in p.batch : s.doc = d})

Announced == IF kind = "customer" THEN Entered ELSE LineTotal(lines)

ProceedToReview ==
    /\ view = "payment" /\ LineTotal(lines) > 0
    /\ kind = "customer" => /\ Entered <= SplitDue
                            /\ \A i \in DOMAIN rows : rows[i].amount > 0
    /\ view' = "review"
    /\ UNCHANGED <<kind, balance, selected, data, form, post>>

Back ==
    /\ view \in {"documents", "payment", "review"} /\ ~dialog
    /\ view' = CASE view = "documents" -> "overview"
                 [] view = "payment" -> "documents"
                 [] view = "review" -> "payment"
    /\ UNCHANGED <<kind, balance, selected, data, form, post>>

CancelPayment ==
    /\ view # "overview" /\ ~dialog
    /\ view' = "overview" /\ lines' = NoLines
    /\ UNCHANGED <<kind, balance, selected, data, rows, post>>

----------------------------------------------------------------------------
(* Posting: the guard is taken before the confirmation is awaited.         *)
\* Mutant: no guard against a second click.
MayPostAgain == TRUE
MayPost == ~inFlight
ClickPost ==
    /\ view = "review" /\ selected # NoParty /\ Batch # {}
    /\ MayPost
    /\ inFlight' = TRUE /\ dialog' = TRUE
    /\ UNCHANGED <<kind, balance, selected, view, data, form, posts>>

Decline ==
    /\ dialog
    /\ dialog' = FALSE /\ inFlight' = FALSE
    /\ UNCHANGED <<kind, balance, selected, view, data, form, posts>>

Confirm ==
    /\ dialog
    /\ dialog' = FALSE
    /\ posts' = posts \cup {[party |-> selected, batch |-> Batch,
                             announced |-> Announced, done |-> "no"]}
    /\ UNCHANGED <<kind, balance, selected, view, data, form, inFlight>>

(* Mutants: one of the two checks is missing.                              *)
AcceptsOverpayment(p) ==
    \A d \in Docs : (kind = "supplier" /\ TakenBy(p, d) > 0) => PartyOf[d] = p.party
AcceptsAnySupplier(p) == \A d \in Docs : TakenBy(p, d) <= balance[d]

(* The server executes all of a batch or nothing: a document of another    *)
(* supplier and an amount above the balance are refused.                   *)
Acceptable(p) ==
    \A d \in Docs : /\ TakenBy(p, d) <= balance[d]
                    /\ (kind = "supplier" /\ TakenBy(p, d) > 0) => PartyOf[d] = p.party
Execute(p) ==
    /\ p \in posts /\ p.done = "no"
    /\ IF Acceptable(p)
       THEN /\ balance' = [d \in Docs |-> balance[d] - TakenBy(p, d)]
            /\ posts' = (posts \ {p}) \cup {[p EXCEPT !.done = "yes"]}
       ELSE /\ posts' = (posts \ {p}) \cup {[p EXCEPT !.done = "refused"]}
            /\ UNCHANGED balance
    /\ UNCHANGED <<kind, selected, view, data, form, dialog, inFlight>>

(* Success reloads the lists and leaves the wizard, whatever party and     *)
(* form are on the screen by then.                                         *)
\* Mutant: the finally branch is missing.
NotReleased == TRUE
Release == FALSE
Answered(p) ==
    /\ p \in posts /\ p.done = "yes"
    /\ posts' = posts \ {p} /\ inFlight' = Release
    /\ view' = "overview" /\ lines' = NoLines
    /\ rows' = IF kind = "customer" THEN FreshRows ELSE rows
    /\ shown' = IF kind = "customer" /\ selected # NoParty
                THEN [d \in {x \in OfParty(selected) : balance[x] > 0} |-> balance[d]] ELSE shown
    /\ loads' = IF kind = "supplier" THEN loads \cup {p.party} ELSE loads
    /\ UNCHANGED <<kind, balance, selected, dialog>>

(* A refusal, or no answer within 30 s, executed or not: the form stays.   *)
Failed(p) ==
    /\ p \in posts
    /\ posts' = posts \ {p} /\ inFlight' = Release
    /\ UNCHANGED <<kind, balance, selected, view, data, form, dialog>>

(* Another user pays part of a document.                                   *)
PaidElsewhere(d) ==
    /\ balance[d] > 0
    /\ balance' = [balance EXCEPT ![d] = @ - 1]
    /\ UNCHANGED <<kind, selected, view, data, form, post>>

EntryNext ==
    \/ \E p \in Parties : SelectCustomer(p) \/ SelectSupplier(p) \/ DocsLoaded(p)
    \/ StartPayment \/ ProceedToReview \/ Back \/ CancelPayment
    \/ \E d \in Docs : RemoveLine(d) \/ PaidElsewhere(d)
    \/ \E S \in SUBSET Docs : ProceedChosen(S)
    \/ \E a \in Amounts : ProceedFIFO(a) \/ \E d \in Docs : ChangeLine(d, a)
    \/ \E i \in 1..MaxRows : \/ DropRow(i)
                             \/ \E a \in Amounts :
                                  \/ SetRow(i, [amount |-> a, card |-> FALSE, pct |-> 0])
                                  \/ \E q \in Percents : SetRow(i, [amount |-> a, card |-> TRUE, pct |-> q])
    \/ ClickPost \/ Decline \/ Confirm
    \/ \E p \in posts : Execute(p) \/ Answered(p) \/ Failed(p)

EntrySpec == EntryInit /\ [][EntryNext]_entryVars
FairSpec == EntrySpec /\ WF_entryVars(\E p \in posts : Execute(p) \/ Answered(p) \/ Failed(p))

----------------------------------------------------------------------------
(* One payment at a time: while a POST is in flight neither a second one   *)
(* nor a second confirmation is open, however often the button is pressed  *)
(* and whatever party is selected meanwhile.                               *)
OnePost ==
    /\ Cardinality(posts) <= 1
    /\ dialog => posts = {}
    /\ dialog \/ posts # {} => inFlight

(* A settlement never takes from a document more than its line allots, nor *)
(* from the rows more than was typed into them, and no part of it is       *)
(* negative.                                                               *)
SettlesWithinForm ==
    /\ \A d \in DOMAIN lines :
          Taken({s \in SettlementRows : s.doc = d}) <= lines[d].amount
    /\ Paid(SettlementRows) <= Entered
    /\ \A s \in SettlementRows : s.amount > 0 /\ s.charge >= 0

(* Oldest first: whatever amount is spread over the documents shown, no    *)
(* document is paid while an older one is left short, and either the       *)
(* amount or every document is used up.                                    *)
OldestFirst ==
    \A a \in Amounts :
        LET ls == AllocateFIFO(a)
            owing == {d \in DOMAIN shown : shown[d] > 0}
            full(d) == d \in DOMAIN ls /\ ls[d].amount = shown[d]
        IN /\ \A d, e \in owing : d < e /\ e \in DOMAIN ls => full(d)
           /\ LineTotal(ls) = a \/ \A d \in owing : full(d)

(* The money goes where the form says, and the form fills oldest first.    *)
PlacedInOrder == SettlesWithinForm /\ OldestFirst

(* Whatever was loaded when, the server's balance is never overdrawn and a *)
(* supplier's document is only paid by a payment to that supplier.         *)
NeverOverpaid ==
    /\ \A d \in Docs : balance[d] >= 0
    /\ \A p \in posts : (p.done = "yes" /\ kind = "supplier") =>
                            \A d \in Docs : TakenBy(p, d) > 0 => PartyOf[d] = p.party

(* A POST that was sent comes to an end and gives the button back.         *)
PostEnds == (posts # {}) ~> ~inFlight

(* What the page says of its review step: an overpayment is blocked there. *)
(* Once the form passes, all the money typed in is posted.                 *)
EnteredIsPosted ==
    view = "review" /\ kind = "customer" =>
        Paid(SettlementRows) = Entered
=============================================================================
