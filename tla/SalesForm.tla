------------------------------ MODULE SalesForm ------------------------------
(***************************************************************************)
(* The sales order page (SalesPage.tsx): a form whose handlers wait for    *)
(* the server in the middle.  A scanned unit, a coupon and the credit      *)
(* check are answered while the user goes on typing; what is sent in the   *)
(* end is the form as it was when Save was clicked.  A lookup may find a   *)
(* unit that is in another order by the time the form is sent.             *)
(*                                                                         *)
(* One product at the price Price, sold by serial unit; the coupon is      *)
(* worth 1 a line.  Customer, branch, tax, agent, vouchers and credit      *)
(* notes are left out: like the lines they enter the total, nothing else.  *)
(***************************************************************************)
EXTENDS Integers, FiniteSets

CONSTANTS Units, Orders, NoOrder, NoUnit,
          Existing,     \* orders there are at first: their units and status
          MaxLines,     \* bound: lines on the form
          MaxChecks     \* bound: coupon checks in flight

ASSUME FormAssumption ==
    /\ NoOrder \notin Orders /\ NoUnit \notin Units /\ IsFiniteSet(Units)
    /\ MaxLines \in Nat \ {0} /\ MaxChecks \in Nat \ {0}
    /\ Existing \in [DOMAIN Existing -> [units : SUBSET Units, status : {"pending", "completed"}]]
    /\ DOMAIN Existing \subseteq Orders
    /\ \A o \in DOMAIN Existing : Cardinality(Existing[o].units) <= MaxLines
    /\ \A o, p \in DOMAIN Existing : o # p => Existing[o].units \cap Existing[p].units = {}

VARIABLES
    orders,          \* the server's orders
    sel,             \* the row of the list that is open, as it was then
    creating, editing, step,
    lines,           \* how many lines hold the unit
    code, coupon,    \* couponCode is typed; couponValidation: the discount, or Off
    timer, checks,   \* the debounce of a coupon's revalidation, checks in flight
    pay, prev,       \* splitPayments: a first row in cash, a row on credit or
                     \* None of it; prevGrandTotalRef
    scan,            \* the barcode being looked up
    save             \* the run of handleSave and its request

form == <<lines, code, coupon, timer, pay, prev>>
view == <<sel, creating, editing, step>>
formVars == <<orders, view, form, checks, scan, save>>

Price == 2
Off == -1
None == -1
Bare == [u \in Units |-> 0]
Count(ls) == Cardinality({x \in Units \X (1 .. MaxLines) : x[2] <= ls[x[1]]})
\* Mutant: amounts below zero are kept.
Signed(x) == x
\* Math.max(0, x)
UpTo0(x) == IF x > 0 THEN x ELSE 0
Discount(cp) == UpTo0(cp)
\* grandTotal of calcOrderTotals
Total(ls, cp) == UpTo0(Price * Count(ls) - Discount(cp))
Entered(p) == p.cash + UpTo0(p.credit)
\* What customersApi.validateCreditSale is asked about.
CreditAsked(ls, cp, p) == IF p.credit > 0 THEN p.credit ELSE Total(ls, cp)

NoSave == [phase |-> "idle"]
Phases == {"checking", "asking", "sent", "created", "updated", "refused"}

Amounts == 0 .. 2 * Price * MaxLines
FormTypeOK ==
    /\ DOMAIN orders \subseteq Orders
    /\ \A o \in DOMAIN orders :
        orders[o].units \subseteq Units /\ orders[o].status \in {"pending", "completed"}
    /\ sel = NoOrder \/ (sel.id \in DOMAIN orders /\ sel.status \in {"pending", "completed"})
    /\ creating \in BOOLEAN /\ editing \in BOOLEAN /\ step \in 0 .. 1
    /\ lines \in [Units -> 0 .. MaxLines] /\ Count(lines) <= MaxLines
    /\ code \in BOOLEAN /\ coupon \in {Off} \cup 0 .. MaxLines /\ timer \in BOOLEAN
    /\ checks \subseteq [n : 1 .. MaxLines, apply : BOOLEAN]
    /\ pay.cash \in Amounts /\ pay.credit \in {None} \cup Amounts /\ prev \in Amounts
    /\ scan \in Units \cup {NoUnit}
    /\ save = NoSave \/ (save.phase \in Phases /\ save.of \in DOMAIN orders \cup {NoOrder})

FormInit ==
    /\ orders = Existing
    /\ sel = NoOrder /\ creating = FALSE /\ editing = FALSE /\ step = 0
    /\ lines = Bare /\ code = FALSE /\ coupon = Off /\ timer = FALSE /\ checks = {}
    /\ pay = [cash |-> 0, credit |-> None] /\ prev = 0
    /\ scan = NoUnit /\ save = NoSave

----------------------------------------------------------------------------
(* A render with the lines ls, the coupon cp and code cd, and the rows p.  *)
(* One effect moves the first row by what the total changed since it last  *)
(* ran: it runs for lines and rows, not for the coupon.  The other one     *)
(* runs when the lines or the code differ: it drops the timer, sets it     *)
(* again where there is a coupon to revalidate, and takes the coupon off   *)
(* an order without lines.                                                 *)
Rendered(ls, cp, cd, p) ==
    LET differs == ls # lines \/ cd # code
    IN  /\ lines' = ls /\ code' = cd
        /\ coupon' = IF differs /\ Count(ls) = 0 THEN Off ELSE cp
        /\ timer' = IF differs THEN cp # Off /\ cd /\ Count(ls) > 0 ELSE timer
        /\ pay' = [p EXCEPT !.cash = UpTo0(@ + Total(ls, cp) - prev)]
        /\ prev' = Total(ls, cp)

(* What a closed form leaves behind is overwritten when the next one is    *)
(* opened: it is forgotten here.  Coupon and rows are not shown or sent in *)
(* an edit: they are followed in the form of a new order alone.            *)
NoRows == [cash |-> 0, credit |-> None]
Emptied ==
    /\ lines' = Bare /\ code' = FALSE /\ coupon' = Off /\ timer' = FALSE
    /\ pay' = NoRows /\ prev' = 0

WithLines(ls) ==
    IF creating THEN Rendered(ls, coupon, code, pay)
    ELSE lines' = ls /\ UNCHANGED <<code, coupon, timer, pay, prev>>

(* A request reaches the server before anything else happens, its answer   *)
(* takes any time: page and server share nothing, so the order of what     *)
(* they do meanwhile makes no difference.                                  *)
Meanwhile == save.phase # "sent"
\* The warning about a credit sale is modal.
Free == save.phase # "asking" /\ Meanwhile
Pending == save.phase \in {"sent", "created", "updated", "refused"}
TableShown == sel = NoOrder /\ ~creating
FormShown == ~TableShown /\ (creating \/ editing)

OpenRow(o) ==
    /\ Free /\ TableShown /\ o \in DOMAIN orders
    /\ sel' = [id |-> o, status |-> orders[o].status] /\ creating' = FALSE
    /\ UNCHANGED <<orders, editing, step, form, checks, scan, save>>

\* handleCreate: edit mode is left as it is.
New ==
    /\ Free /\ TableShown
    /\ sel' = NoOrder /\ creating' = TRUE /\ step' = 0
    /\ Emptied
    /\ UNCHANGED <<orders, editing, checks, scan, save>>

\* handleEdit, of an order whose lines are loaded.
Edit ==
    /\ Free /\ sel # NoOrder /\ ~creating /\ ~editing
    /\ sel.status = "pending"
    /\ editing' = TRUE /\ step' = 0
    /\ WithLines([u \in Units |-> IF u \in orders[sel.id].units THEN 1 ELSE 0])
    /\ UNCHANGED <<orders, sel, creating, checks, scan, save>>

Cancel ==
    /\ Free /\ FormShown /\ ~Pending
    /\ creating' = FALSE /\ editing' = FALSE /\ step' = 0
    /\ Emptied
    /\ UNCHANGED <<orders, sel, checks, scan, save>>

\* handleBackToSales, also while a save is pending: a new order's form is
\* closed, an edited one's stays in edit mode.
Back ==
    /\ Free /\ ~TableShown
    /\ sel' = NoOrder /\ creating' = FALSE /\ editing' = (editing /\ ~creating)
    /\ IF creating THEN Emptied ELSE UNCHANGED form
    /\ UNCHANGED <<orders, step, checks, scan, save>>

\* handleNextStep puts the whole total on the first row.
NextStep ==
    /\ Free /\ FormShown /\ step = 0 /\ step' = 1
    /\ IF creating
       THEN Rendered(lines, coupon, code, [NoRows EXCEPT !.cash = Total(lines, coupon)])
       ELSE UNCHANGED form
    /\ UNCHANGED <<orders, sel, creating, editing, checks, scan, save>>

PreviousStep ==
    /\ Free /\ FormShown /\ step = 1 /\ step' = 0
    /\ UNCHANGED <<orders, sel, creating, editing, form, checks, scan, save>>

----------------------------------------------------------------------------
(* The lines.                                                              *)
Entering == Free /\ FormShown /\ step = 1
Plus(u) == [lines EXCEPT ![u] = @ + 1]

\* handleAddManualStockItem, from a list of units that may be out of date.
AddManual(u) ==
    /\ Entering /\ lines[u] = 0 /\ Count(lines) < MaxLines
    /\ WithLines(Plus(u))
    /\ UNCHANGED <<orders, view, checks, scan, save>>

\* handleValidateBarcode: the lines are searched before the lookup.
Scan(u) ==
    /\ Entering /\ scan = NoUnit /\ lines[u] = 0
    /\ scan' = u
    /\ UNCHANGED <<orders, view, form, checks, save>>

\* The answer adds the line to the form there is by then.
Scanned(found) ==
    /\ Meanwhile /\ scan # NoUnit /\ scan' = NoUnit
    /\ found => Count(lines) < MaxLines
    /\ IF found /\ (creating \/ editing) THEN WithLines(Plus(scan)) ELSE UNCHANGED form
    /\ UNCHANGED <<orders, view, checks, save>>

RemoveLine(u) ==
    /\ Entering /\ lines[u] > 0
    /\ WithLines([lines EXCEPT ![u] = @ - 1])
    /\ UNCHANGED <<orders, view, checks, scan, save>>

----------------------------------------------------------------------------
(* The coupon and the payment rows, which are hidden in edit mode.         *)
Paying == Entering /\ creating /\ ~editing /\ Count(lines) > 0
Applying == \E c \in checks : c.apply
Ask(apply) == checks' = checks \cup {[n |-> Count(lines), apply |-> apply]}

\* The code alone is no cause for the effect on the rows.
ApplyCoupon ==
    /\ Paying /\ coupon = Off /\ ~Applying
    /\ code' = TRUE /\ timer' = (timer /\ code)
    /\ Cardinality(checks) < MaxChecks /\ Ask(TRUE)
    /\ UNCHANGED <<orders, view, lines, coupon, pay, prev, scan, save>>

\* handleClearCoupon: a check that is on its way is not called back.
ClearCoupon ==
    /\ Paying /\ coupon # Off
    /\ code' = FALSE /\ coupon' = Off /\ timer' = FALSE
    /\ UNCHANGED <<orders, view, lines, pay, prev, checks, scan, save>>

\* Half a second after the last change of the lines.
TimerFires ==
    /\ Meanwhile /\ timer /\ timer' = FALSE
    /\ Cardinality(checks) < MaxChecks /\ Ask(FALSE)
    /\ UNCHANGED <<orders, view, lines, code, coupon, pay, prev, scan, save>>

\* The answer to a check counts, whatever is on the form by then.
Checked(c, valid) ==
    /\ Meanwhile /\ c \in checks /\ checks' = checks \ {c}
    /\ coupon' = IF creating /\ valid THEN c.n ELSE Off
    /\ UNCHANGED <<orders, view, lines, code, timer, pay, prev, scan, save>>

\* handlePaymentAmountChange of the row on credit takes from the first row,
\* where there is as much (what users enter is bounded).
SetCredit(x) ==
    /\ Paying /\ pay.credit = None /\ x <= pay.cash
    /\ Rendered(lines, coupon, code,
                [cash |-> UpTo0(pay.cash - x), credit |-> x])
    /\ UNCHANGED <<orders, view, checks, scan, save>>

\* removeSplitRow gives it back.
RemoveCredit ==
    /\ Paying /\ pay.credit # None
    /\ Rendered(lines, coupon, code, [cash |-> Entered(pay), credit |-> None])
    /\ UNCHANGED <<orders, view, checks, scan, save>>

\* The user enters the rest in the first row.
SetCash ==
    /\ Paying
    /\ Rendered(lines, coupon, code,
                [pay EXCEPT !.cash = UpTo0(Total(lines, coupon) - UpTo0(pay.credit))])
    /\ UNCHANGED <<orders, view, checks, scan, save>>

----------------------------------------------------------------------------
(* Saving.  handleSave takes the form as it was rendered when Save was     *)
(* clicked through both awaits: of a credit sale the server is asked about *)
(* first, and the user when it objects or warns.                           *)
Snapshot(phase) ==
    [phase |-> phase, of |-> NoOrder, inEdit |-> editing,
     lines |-> lines, coupon |-> Discount(coupon), pay |-> pay,
     asked |-> IF phase = "checking" THEN CreditAsked(lines, coupon, pay) ELSE 0]

\* Cannot save: total payments entered must equal the grand total
Balanced == Entered(pay) = Total(lines, coupon)

\* saveInProgressRef, createMutation.isPending, updateMutation.isPending
MaySave == save = NoSave

Save ==
    /\ Entering /\ Count(lines) > 0 /\ MaySave
    /\ IF editing /\ sel # NoOrder
       THEN save' = [phase |-> "sent", of |-> sel.id, inEdit |-> TRUE, lines |-> lines]
       ELSE /\ editing \/ Balanced
            /\ save' = Snapshot(IF ~editing /\ pay.credit # None THEN "checking" ELSE "sent")
    /\ UNCHANGED <<orders, view, form, checks, scan>>

\* Mutant: what is on the form after the wait.
FormNow == [save EXCEPT !.lines = lines, !.coupon = Discount(coupon), !.pay = pay]
\* The variables of the run of handleSave.
AsClicked == save

CreditAnswered ==
    /\ save.phase = "checking"
    /\ save' \in {[AsClicked EXCEPT !.phase = "sent"], [save EXCEPT !.phase = "asking"], NoSave}
    /\ UNCHANGED <<orders, view, form, checks, scan>>

WarningAnswered ==
    /\ save.phase = "asking"
    /\ save' \in {[AsClicked EXCEPT !.phase = "sent"], NoSave}
    /\ UNCHANGED <<orders, view, form, checks, scan>>

----------------------------------------------------------------------------
(* The server (sales/service.py).                                          *)
Held == UNION {orders[o].units : o \in DOMAIN orders}
UnitsOf(ls) == {u \in Units : ls[u] > 0}

\* Mutant: each line is found in the stock on its own.
Sellable(ls, own) == TRUE
\* No barcode twice, and each unit available: locked and checked first.
Available(ls, own) ==
    /\ \A u \in Units : ls[u] <= 1
    /\ UnitsOf(ls) \cap (Held \ own) = {}

\* Server-side coupon validation: never trust the client-sent amount.
WithinCoupon(cp, n) == cp <= n

ServeCreate(o) ==
    /\ save.phase = "sent" /\ save.of = NoOrder /\ o \in Orders \ DOMAIN orders
    /\ Available(save.lines, {}) /\ WithinCoupon(save.coupon, Count(save.lines))
    /\ orders' = [p \in DOMAIN orders \cup {o} |->
                     IF p # o THEN orders[p]
                     ELSE [units |-> UnitsOf(save.lines),
                           status |-> IF save.pay.credit > 0 THEN "pending" ELSE "completed"]]
    /\ save' = [phase |-> "created", of |-> o]
    /\ UNCHANGED <<view, form, checks, scan>>

\* Items cannot be changed on a completed or approved invoice.
MayChange(o) == orders[o].status = "pending"

ServeUpdate ==
    /\ save.phase = "sent" /\ save.of # NoOrder
    /\ MayChange(save.of) /\ Available(save.lines, orders[save.of].units)
    /\ orders' = [orders EXCEPT ![save.of].units = UnitsOf(save.lines)]
    /\ save' = [phase |-> "updated", of |-> save.of]
    /\ UNCHANGED <<view, form, checks, scan>>

Refuse ==
    /\ save.phase = "sent"
    /\ save' = [phase |-> "refused", of |-> NoOrder]
    /\ UNCHANGED <<orders, view, form, checks, scan>>

(* The answers, applied to whatever is on the screen.  The lines on it are *)
(* emptied, of whichever order they were.                                  *)
Opened(o) == sel' = [id |-> o, status |-> orders[o].status]

Created ==
    /\ save.phase = "created" /\ save' = NoSave
    /\ creating' = FALSE /\ editing' = (editing /\ ~creating) /\ step' = 0
    /\ Opened(save.of) /\ Emptied
    /\ UNCHANGED <<orders, checks, scan>>

Updated ==
    /\ save.phase = "updated" /\ save' = NoSave
    /\ creating' = FALSE /\ editing' = FALSE /\ step' = 0
    /\ Opened(save.of) /\ Emptied
    /\ UNCHANGED <<orders, checks, scan>>

\* Refused, or no answer in time whatever the server did.
Failed ==
    /\ save.phase \in {"created", "updated", "refused"} /\ save' = NoSave
    /\ UNCHANGED <<orders, view, form, checks, scan>>

User ==
    \/ New \/ Edit \/ Cancel \/ Back \/ NextStep \/ PreviousStep
    \/ ApplyCoupon \/ ClearCoupon \/ RemoveCredit \/ SetCash \/ Save
    \/ \E o \in Orders : OpenRow(o)
    \/ \E u \in Units : AddManual(u) \/ Scan(u) \/ RemoveLine(u)
    \/ \E x \in {Price} : SetCredit(x)

FormNext ==
    \/ User \/ TimerFires \/ CreditAnswered \/ WarningAnswered
    \/ Created \/ Updated \/ Failed \/ ServeUpdate \/ Refuse
    \/ \E b \in BOOLEAN : Scanned(b) \/ \E c \in checks : Checked(c, b)
    \/ \E o \in Orders : ServeCreate(o)

FormSpec == FormInit /\ [][FormNext]_formVars

----------------------------------------------------------------------------
(* Whatever is scanned, applied or revalidated while Save waits for the    *)
(* credit check and the user, a new order is sent with payments that make  *)
(* up its total, and on credit only what was asked about.                  *)
SentFoots ==
    save.phase = "sent" /\ ~save.inEdit =>
        /\ Entered(save.pay) = UpTo0(Price * Count(save.lines) - save.coupon)
        /\ save.pay.credit > 0 => save.asked = save.pay.credit

(* A unit is in one order: a line added by a late lookup, an edit form     *)
(* that is left open over another order and a second save after a lost     *)
(* answer notwithstanding.                                                 *)
UnitInOneOrder ==
    \A o, p \in DOMAIN orders : o # p => orders[o].units \cap orders[p].units = {}

(* "Only an order that is still waiting for approval can be changed": the  *)
(* form is in edit mode over such an order alone.                          *)
EditsPending == editing /\ sel # NoOrder => sel.status = "pending"
=============================================================================
