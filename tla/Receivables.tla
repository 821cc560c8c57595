----------------------------- MODULE Receivables -----------------------------
(***************************************************************************)
(* What a customer owes on one sales order, as the order row says it       *)
(* (balance_due) and as the ledger says it (account 1110 Trade Debtors).   *)
(* Settlements, bank transfers, bounced cheques, write-offs and returns    *)
(* move the former; each is to be matched by a journal entry, which may    *)
(* fail, wait in the table of posting failures, and be tried again         *)
(* (modules/sales/service.py and accounting_integration.py; of             *)
(* modules/finance gl_posting_service.py, gl_regenerators.py,              *)
(* write_off_service.py and cheque_service.py).  Every operation locks the *)
(* order row, so it is one action; the journal entry of a settlement comes *)
(* in a transaction of its own.                                            *)
(***************************************************************************)
EXTENDS Integers, FiniteSets, Sums

CONSTANTS MaxTotal,    \* bound on the order's total
          Payments,    \* slots for customer_credits_settle rows
          Returns,     \* slots for sale_return rows
          WriteOffs,   \* slots for customer_write_offs rows
          Calls        \* the risky events that may happen

(***************************************************************************)
(*   mixed_transfer  credit order with an unverified bank transfer part    *)
(*   late_transfer   return processed while a transfer is unverified       *)
(*   written_off     return processed after a write-off                    *)
(*   bounce_dead     tender cheque of a cancelled order bounces            *)
(*   bounce_refunded cheque bounces after money was refunded               *)
(*   sale_unbooked   return or bounce before the sale is in the ledger     *)
(*   retry_refund    retry of the entry of a return refunded in money      *)
(*   lost_booking    crash between the two transactions of a settlement    *)
(*   retry_undone    retry of the entry of an approval or a return whose   *)
(*                   transaction was rolled back                           *)
(***************************************************************************)
RiskyCalls == {"mixed_transfer", "late_transfer", "written_off",
               "bounce_dead", "bounce_refunded", "sale_unbooked",
               "retry_refund", "lost_booking", "retry_undone"}

ASSUME MaxTotalAssumption == MaxTotal \in Nat \ {0}
ASSUME CallsAssumption == Calls \subseteq RiskyCalls
ASSUME SlotsAssumption ==
  /\ "sale" \notin Payments \cup Returns
  /\ Payments \cap Returns = {}
  /\ IsFiniteSet(Payments) /\ IsFiniteSet(Returns) /\ IsFiniteSet(WriteOffs)

VARIABLES order,       \* the invoices row
          cheque,      \* state of the cheque tendered for the order
          pay,         \* settlement rows
          ret,         \* returns
          writtenOff,  \* amount of each write-off that stands
          ar,          \* what the ledger has on 1110 for the order
          booked,      \* documents with a journal entry
          queued,      \* documents with a pending gl_posting_failures row
          booking      \* settlements committed, their entry still to come

documents == <<cheque, pay, ret, writtenOff>>
ledger == <<ar, booked, queued>>
vars == <<order, documents, ledger, booking>>

-----------------------------------------------------------------------------
Documents == {"sale"} \cup Payments \cup Returns
Amount == 1..MaxTotal

Posted == {"approved", "completed"}
OrderRow ==
  [status : {"none", "pending", "cancelled"} \cup Posted,
   method : {"cash", "cheque", "credit"},
   total : Nat, cash : Nat, cheque : Nat, transfer : Nat,
   credit : Nat, paid : Nat, balance : Nat]
PaymentRow == [status : {"none", "pending", "completed", "rejected"},
               method : {"cash", "cheque", "transfer"}, amount : Nat]
ReturnRow == [status : {"none", "open", "processed"},
              value : Nat, note : BOOLEAN, ar : Nat]

NoPayment == [status |-> "none", method |-> "cash", amount |-> 0]
NoReturn == [status |-> "none", value |-> 0, note |-> FALSE, ar |-> 0]

TypeOK ==
  /\ order \in OrderRow
  /\ cheque \in {"none", "received", "bounced"}
  /\ pay \in [Payments -> PaymentRow]
  /\ ret \in [Returns -> ReturnRow]
  /\ writtenOff \in [WriteOffs -> Nat]
  /\ ar \in Int
  /\ booked \subseteq Documents
  /\ queued \subseteq Documents
  /\ booking \subseteq Payments

-----------------------------------------------------------------------------
(* Sums over the documents of the order *)

PaymentsIn(status) == {p \in Payments : pay[p].status = status}
AmountOf(S) == SumOf([p \in Payments |-> pay[p].amount], S)

PendingTransfers == AmountOf(PaymentsIn("pending"))

\* Mutant: a transfer that is not verified does not hold back anything.
WholeBalance == order.balance

\* What can still be settled or written off.
Available == order.balance - PendingTransfers

WrittenOff == SumOf(writtenOff, WriteOffs)
ReturnsIn(status) == {r \in Returns : ret[r].status = status}
ValueOf(S) == SumOf([r \in Returns |-> ret[r].value], S)
ReturnedValue == ValueOf(ReturnsIn("open") \cup ReturnsIn("processed"))

\* The order counts as a credit sale, by its method or its credit part.
IsCredit == order.method = "credit" \/ order.credit > 0

\* Settlements whose money came in at least for a while: a rejected cheque was
\* completed once, a rejected transfer never was.
WasReceived(p) == \/ pay[p].status = "completed"
                  \/ pay[p].status = "rejected" /\ pay[p].method = "cheque"

\* The documents that belong in the ledger.
Due == (IF order.status \in Posted THEN {"sale"} ELSE {})
         \cup {p \in Payments : WasReceived(p)} \cup ReturnsIn("processed")

Clip(n) == IF n > 0 THEN n ELSE 0

-----------------------------------------------------------------------------
Init ==
  /\ order = [status |-> "none", method |-> "cash", total |-> 0, cash |-> 0,
              cheque |-> 0, transfer |-> 0, credit |-> 0, paid |-> 0,
              balance |-> 0]
  /\ cheque = "none"
  /\ pay = [p \in Payments |-> NoPayment]
  /\ ret = [r \in Returns |-> NoReturn]
  /\ writtenOff = [w \in WriteOffs |-> 0]
  /\ ar = 0 /\ booked = {} /\ queued = {} /\ booking = {}

-----------------------------------------------------------------------------
(* Posting to the ledger *)

\* Mutant: a failed posting leaves no trace.
PostOrForget(d, receivable) ==
  \/ d \in booked /\ UNCHANGED ledger
  \/ /\ d \notin booked
     /\ ar' = ar + receivable /\ booked' = booked \cup {d}
     /\ UNCHANGED queued
  \/ d \notin booked /\ UNCHANGED ledger

\* GLPostingService.post: skipped when the document is booked already; else
\* booked, or (account missing, period closed, lines that do not balance, any
\* exception) recorded among the pending failures.  receivable is what the
\* lines put on 1110.
Post(d, receivable) ==
  \/ d \in booked /\ UNCHANGED ledger
  \/ /\ d \notin booked
     /\ ar' = ar + receivable /\ booked' = booked \cup {d}
     /\ UNCHANGED queued
  \/ /\ d \notin booked
     /\ queued' = queued \cup {d}
     /\ UNCHANGED <<ar, booked>>

\* post_sale_to_gl debits each tender, and the credit part to 1110 ...
CreditPart(o) == o.credit

Tenders(o) == o.cash + o.cheque + o.transfer + CreditPart(o)

\* ... and without any, the whole total to the account of the method.
SaleReceivable(o) ==
  IF Tenders(o) = 0 /\ o.method = "credit" THEN o.total ELSE CreditPart(o)

SaleBalances(o) == Tenders(o) \in {o.total, 0}

\* post_all_for_invoice: lines that do not balance are a failure
PostSale(o) ==
  \/ SaleBalances(o) /\ Post("sale", SaleReceivable(o))
  \/ /\ ~SaleBalances(o) /\ "sale" \notin booked
     /\ queued' = queued \cup {"sale"}
     /\ UNCHANGED <<ar, booked>>
  \/ ~SaleBalances(o) /\ "sale" \in booked /\ UNCHANGED ledger

-----------------------------------------------------------------------------
(* The order *)

\* create_invoice: the credit part is the total less the tenders.  An order
\* with a credit part waits for approval, the others are complete and posted.
\* Only method cheque creates a cheque row; the balance does not count a
\* transfer as a tender.
Create(method, total, cash, chq, transfer) ==
  LET credit == Clip(total - cash - chq - transfer)
      row == [status |-> IF credit > 0 \/ method = "credit" THEN "pending"
                                                            ELSE "completed",
              method |-> method, total |-> total, cash |-> cash,
              cheque |-> chq, transfer |-> transfer, credit |-> credit,
              paid |-> cash + chq, balance |-> total - cash - chq]
  IN  /\ order.status = "none"
      /\ cash + chq + transfer <= total
      /\ chq > 0 <=> method = "cheque"
      /\ method = "cash" => cash = total
      /\ transfer > 0 => method = "credit" /\ "mixed_transfer" \in Calls
      /\ order' = row
      /\ cheque' = IF chq > 0 THEN "received" ELSE "none"
      /\ IF row.status = "completed" THEN PostSale(row) ELSE UNCHANGED ledger
      /\ UNCHANGED <<pay, ret, writtenOff, booking>>

\* approve_invoice: approved while something is open, else completed
Approve ==
  /\ order.status = "pending"
  /\ order' = [order EXCEPT !.status =
                 IF IsCredit /\ order.balance > 0 THEN "approved" ELSE "completed"]
  /\ PostSale(order)
  /\ UNCHANGED <<documents, booking>>

\* An approval or a processing whose transaction is rolled back: the failure
\* was recorded in a session of its own and stays.
RolledBack(d) ==
  /\ \/ d = "sale" /\ order.status = "pending"
     \/ d \in Returns /\ ret[d].status = "open"
  /\ queued' = queued \cup {d}
  /\ UNCHANGED <<order, documents, ar, booked, booking>>

\* complete_invoice, which posts again what is not booked
Complete ==
  /\ order.status = "approved"
  /\ order' = [order EXCEPT !.status = "completed"]
  /\ PostSale(order)
  /\ UNCHANGED <<documents, booking>>

\* cancel_invoice, reject_invoice
Cancel ==
  /\ order.status = "pending"
  /\ order' = [order EXCEPT !.status = "cancelled", !.balance = 0, !.credit = 0]
  /\ UNCHANGED <<documents, ledger, booking>>

-----------------------------------------------------------------------------
(* Settlements *)

\* Mutant: the payment status written where the approval status belongs.
PaidAsStatus(o) == IF o.balance = 0 THEN [o EXCEPT !.status = "paid"] ELSE o

\* An order with nothing open any more is complete.
CompletedIfClear(o) == IF o.balance = 0 THEN [o EXCEPT !.status = "completed"]
                                        ELSE o

\* A payment of a, as settlement and verification apply it.
Received(a) ==
  CompletedIfClear([order EXCEPT !.paid = @ + a, !.balance = Clip(@ - a)])

Settlable == order.status \in Posted /\ IsCredit

\* _apply_credit_payment: what waits for verification is not available.  A
\* transfer is only recorded; cash, card and cheque count at once.
Settle(p, method, a) ==
  /\ pay[p].status = "none"
  /\ Settlable
  /\ a <= Available
  /\ pay' = [pay EXCEPT ![p] =
       [status |-> IF method = "transfer" THEN "pending" ELSE "completed",
        method |-> method, amount |-> a]]
  /\ IF method = "transfer"
     THEN UNCHANGED <<order, booking>>
     ELSE order' = Received(a) /\ booking' = booking \cup {p}
  /\ UNCHANGED <<cheque, ret, writtenOff, ledger>>

\* confirm_credit_settlement_bank_transfer, verify
VerifyTransfer(p) ==
  /\ pay[p].status = "pending"
  /\ pay' = [pay EXCEPT ![p].status = "completed"]
  /\ order' = Received(pay[p].amount)
  /\ booking' = booking \cup {p}
  /\ UNCHANGED <<cheque, ret, writtenOff, ledger>>

\* ... and reject
RejectTransfer(p) ==
  /\ pay[p].status = "pending"
  /\ pay' = [pay EXCEPT ![p].status = "rejected"]
  /\ UNCHANGED <<order, cheque, ret, writtenOff, ledger, booking>>

\* _after_credit_payments_commit: the settlement's entry, in a transaction of
\* its own.  When the process ends before it, or its commit fails, nothing but
\* a line in the log remains.
BookSettlement(p) ==
  /\ p \in booking
  /\ booking' = booking \ {p}
  /\ \/ Post(p, -pay[p].amount)
     \/ "lost_booking" \in Calls /\ UNCHANGED ledger
  /\ UNCHANGED <<order, documents>>

-----------------------------------------------------------------------------
(* Write-offs and bounced cheques post their entry in the same transaction,  *)
(* and are refused when it cannot be posted.                                 *)

ReopenedWith(a) ==
  [order EXCEPT !.balance = @ + a,
                !.status = IF @ = "completed" THEN "approved" ELSE @]

\* write_off
WriteOff(w, a) ==
  /\ writtenOff[w] = 0
  /\ order.credit > 0 /\ order.status \in Posted
  /\ a <= Available
  /\ writtenOff' = [writtenOff EXCEPT ![w] = a]
  /\ order' = CompletedIfClear([order EXCEPT !.balance = @ - a])
  /\ ar' = ar - a
  /\ UNCHANGED <<cheque, pay, ret, booked, queued, booking>>

\* reverse
ReverseWriteOff(w) ==
  /\ writtenOff[w] > 0
  /\ writtenOff' = [writtenOff EXCEPT ![w] = 0]
  /\ order' = ReopenedWith(writtenOff[w])
  /\ ar' = ar + writtenOff[w]
  /\ UNCHANGED <<cheque, pay, ret, booked, queued, booking>>

MoneyRefunded == \E r \in ReturnsIn("processed") :
                   ~ret[r].note /\ ret[r].value > ret[r].ar
SaleInLedger == order.status \in Posted /\ "sale" \in booked

\* bounce of the cheque the order was paid with, whatever the order's status
BounceTender ==
  /\ cheque = "received"
  /\ \/ SaleInLedger
     \/ order.status = "cancelled" /\ "bounce_dead" \in Calls
     \/ order.status # "cancelled" /\ "sale_unbooked" \in Calls
  /\ MoneyRefunded => "bounce_refunded" \in Calls
  /\ cheque' = "bounced"
  /\ order' = [ReopenedWith(order.cheque) EXCEPT
                 !.credit = @ + order.cheque, !.paid = Clip(@ - order.cheque)]
  /\ ar' = ar + order.cheque
  /\ UNCHANGED <<pay, ret, writtenOff, booked, queued, booking>>

\* bounce of a settlement cheque; the settlement's own entry may be to come
BounceSettlement(p) ==
  /\ pay[p].method = "cheque" /\ pay[p].status = "completed"
  /\ MoneyRefunded => "bounce_refunded" \in Calls
  /\ pay' = [pay EXCEPT ![p].status = "rejected"]
  /\ order' = [ReopenedWith(pay[p].amount) EXCEPT !.paid = Clip(@ - pay[p].amount)]
  /\ ar' = ar + pay[p].amount
  /\ UNCHANGED <<cheque, ret, writtenOff, booked, queued, booking>>

-----------------------------------------------------------------------------
(* Returns; their approval is part of module SalesOrders. *)

\* create_sale_return
CreateReturn(r, value, note) ==
  /\ ret[r].status = "none"
  /\ order.status \in Posted
  /\ ReturnedValue + value <= order.total
  /\ ret' = [ret EXCEPT ![r] = [status |-> "open", value |-> value,
                                note |-> note, ar |-> 0]]
  /\ UNCHANGED <<order, cheque, pay, writtenOff, ledger, booking>>

\* reject_sale_return, delete_sale_return; the slot is free for a new return,
\* which no failure refers to yet.
DropReturn(r) ==
  /\ ret[r].status = "open"
  /\ ret' = [ret EXCEPT ![r] = NoReturn]
  /\ queued' = queued \ {r} /\ booked' = booked \ {r}
  /\ UNCHANGED <<order, cheque, pay, writtenOff, ar, booking>>

\* Mutant: the whole value goes back to the customer, owed or not.
NothingCancelled(r) == 0

\* Receivable first: what the return cancels of the debt; the rest is refunded.
Cancelled(r) == IF ~IsCredit THEN 0
                ELSE IF ret[r].value < order.balance THEN ret[r].value
                ELSE order.balance

\* Money handed back; a credit note is not.
MoneyBack(r) == IF ret[r].note THEN 0 ELSE ret[r].value - Cancelled(r)

\* A credit order that is approved and cleared by the return is complete.
AfterReturn(o) == IF IsCredit /\ o.status = "approved" THEN CompletedIfClear(o)
                                                       ELSE o

\* process_sale_return
ProcessReturn(r) ==
  /\ ret[r].status = "open"
  /\ SaleInLedger \/ "sale_unbooked" \in Calls
  /\ PendingTransfers > 0 => "late_transfer" \in Calls
  /\ WrittenOff > 0 => "written_off" \in Calls
  /\ ret' = [ret EXCEPT ![r].status = "processed", ![r].ar = Cancelled(r)]
  /\ order' = AfterReturn(
       [order EXCEPT !.credit = Clip(@ - Cancelled(r)),
                     !.balance = @ - Cancelled(r),
                     !.paid = Clip(@ - MoneyBack(r))])
  /\ Post(r, -Cancelled(r))
  /\ UNCHANGED <<cheque, pay, writtenOff, booking>>

-----------------------------------------------------------------------------
(* Trying a failed posting again *)

\* sale_return_ar_applied: of a credit note the refund is known; the refund of
\* money is read off the cashbook, which the missing entry did not write.
DerivedReceivable(r) ==
  CASE ret[r].note -> ret[r].ar
    [] ~ret[r].note /\ IsCredit -> ret[r].value
    [] ~ret[r].note /\ ~IsCredit -> 0

\* retry_failure: the entry of a sale or a return is made from the document as
\* it is now, whatever its status; the entry of a settlement from the lines
\* the failure kept.  A row whose document is booked by now is closed.
Retry(d) ==
  /\ d \in queued
  /\ d \notin Due => "retry_undone" \in Calls
  /\ d \in Returns /\ ~ret[d].note => "retry_refund" \in Calls
  /\ d = "sale" /\ d \notin booked => SaleBalances(order)
  /\ queued' = queued \ {d}
  /\ booked' = booked \cup {d}
  /\ ar' = CASE d \in booked -> ar
             [] d = "sale" /\ d \notin booked -> ar + SaleReceivable(order)
             [] d \in Payments \ booked -> ar - pay[d].amount
             [] d \in Returns \ booked -> ar - DerivedReceivable(d)
  /\ UNCHANGED <<order, documents, booking>>

\* The endpoint that posts a completed order by hand.
PostByHand ==
  /\ order.status = "completed" /\ "sale" \notin booked
  /\ PostSale(order)
  /\ UNCHANGED <<order, documents, booking>>

-----------------------------------------------------------------------------
Sell == \/ \E method \in {"cash", "cheque", "credit"}, total \in Amount,
              cash, chq, transfer \in 0..MaxTotal :
             Create(method, total, cash, chq, transfer)
        \/ Approve \/ Complete \/ Cancel \/ BounceTender

Collect ==
  \E p \in Payments :
    \/ \E method \in {"cash", "cheque", "transfer"}, a \in Amount : Settle(p, method, a)
    \/ VerifyTransfer(p) \/ RejectTransfer(p)
    \/ BookSettlement(p) \/ BounceSettlement(p)

GiveUp == \E w \in WriteOffs : \/ \E a \in Amount : WriteOff(w, a)
                               \/ ReverseWriteOff(w)

TakeBack ==
  \E r \in Returns :
    \/ \E value \in Amount, note \in BOOLEAN : CreateReturn(r, value, note)
    \/ DropReturn(r) \/ ProcessReturn(r)

Repair == \/ \E d \in Documents : Retry(d) \/ RolledBack(d)
          \/ PostByHand

Next == Sell \/ Collect \/ GiveUp \/ TakeBack \/ Repair

Spec == Init /\ [][Next]_vars

-----------------------------------------------------------------------------
(* Properties *)

\* What the returns S took off the debt, and what they handed back.
DebtOf(S) == SumOf([r \in Returns |-> ret[r].ar], S)
RefundOf(S) == SumOf([r \in Returns |-> ret[r].value - ret[r].ar], S)

\* What the entries of the documents D have to put on 1110, whenever they are made.
Owed(D) == (IF "sale" \in D THEN order.total - order.cash - order.cheque ELSE 0)
             - AmountOf(D \cap Payments) - DebtOf(D \cap Returns)

Receipts == order.cash + (IF cheque = "bounced" THEN 0 ELSE order.cheque)
              + AmountOf(PaymentsIn("completed"))
Refunds == RefundOf(ReturnsIn("processed"))
MoneyRefunds == RefundOf({r \in ReturnsIn("processed") : ~ret[r].note})

\* The sub-ledger agrees with the control account: the ledger and the entries
\* still to be made add up to the balance of the order, through late entries,
\* retries, bounces, write-offs and returns in any order.
LedgerAgrees ==
  order.status \in Posted =>
    order.balance = ar + Owed(Due \ booked)

\* An order that is pending or cancelled has nothing in the ledger: sales are
\* posted on completion, approval or verification.
UnsoldNotBooked ==
  order.status \in {"none", "pending", "cancelled"} => ar = 0 /\ booked = {}

\* The balance is what the documents leave of the total: no payment, bounce,
\* write-off or return is counted twice or swallowed by a clip at zero.
DebtIsWhatIsLeft ==
  order.status \in Posted =>
    order.balance = order.total - Receipts - WrittenOff - DebtOf(ReturnsIn("processed"))

\* The transfers that wait for verification never exceed what is owed, so
\* each of them can still be verified in full.
TransfersCovered == PendingTransfers <= order.balance

\* An approved credit order still owes something; a cleared one is completed,
\* whichever of settlement, write-off and return cleared it.
ClearedIsCompleted == order.status = "approved" => order.balance > 0

\* A cancelled order owes nothing and holds no credit.
CancelledOwesNothing ==
  order.status = "cancelled" => order.balance = 0 /\ order.credit = 0

\* paid_amount is the money kept: receipts less what was handed back.
PaidIsKept == order.status \in Posted => order.paid = Clip(Receipts - MoneyRefunds)

\* A document that lacks its journal entry is visible: among the posting
\* failures, or about to be booked by the request that wrote it.
NoSilentGap == Due \ booked \subseteq queued \cup booking

\* A failure of a sale can be repaired: its lines, made again from the order,
\* balance.
RetryCanSucceed ==
  "sale" \in queued \ booked /\ order.status \in Posted => SaleBalances(order)

\* Only money that was really received is refunded.
RefundsWithinReceipts == [][Refunds' > Refunds => Refunds' <= Receipts']_vars

\* The books agree with the documents, or say where they do not and can be
\* made to: what the ledger lacks is waiting, visible and repairable.
BooksAgree == LedgerAgrees /\ UnsoldNotBooked /\ NoSilentGap /\ RetryCanSucceed

\* The order agrees with its documents: what is owed, what was paid, and the
\* status that says whether anything is owed.
DebtAgrees ==
  DebtIsWhatIsLeft /\ TransfersCovered /\ ClearedIsCompleted /\ CancelledOwesNothing /\ PaidIsKept
=============================================================================
