---------------------------- MODULE SalesOrders ----------------------------
(***************************************************************************)
(* The life of a sales order and of the serial units it sells              *)
(* (modules/sales/service.py, with the calls of quotation_service.py,      *)
(* approval_service.py, write_off_service.py and cheque_service.py that    *)
(* change an order's status or a unit).  One action per service method;    *)
(* a method that commits twice is two actions.  Prices and money are left  *)
(* to module Receivables.                                                  *)
(***************************************************************************)
EXTENDS FiniteSets, Functions

CONSTANTS Orders,      \* slots for rows of invoices
          Units,       \* rows of sales_stock, one serial unit each
          Returns,     \* slots for rows of sale_returns
          QuoteItems,  \* quotation lines that hold procured stock
          None,        \* NULL
          Calls        \* the risky requests that clients do send

(***************************************************************************)
(* Requests the code accepts although their outcome contradicts another    *)
(* part of it.  With a name in Calls the request may arrive at any moment; *)
(* without it the users are assumed to refrain from it.                    *)
(*   delete_cancelled    delete of an order that is already cancelled      *)
(*   complete_returned   complete of an order with a processed return      *)
(*   edit_completed      remarks edit of a completed credit order          *)
(*   held_pool           use or release of a quotation line's reservation  *)
(*                       while an order already holds one of its units     *)
(*   stale_delete        delete of a return during its approval            *)
(***************************************************************************)
RiskyCalls == {"delete_cancelled", "complete_returned", "edit_completed",
               "held_pool", "stale_delete"}

ASSUME CallsAssumption == Calls \subseteq RiskyCalls
ASSUME NoneAssumption == None \notin QuoteItems /\ None \notin Orders

VARIABLES stock,      \* sales_stock.status
          link,       \* sales_stock.reserved_for_quote_item_id
          assets,     \* units that have a company_assets row
          order,      \* invoices: approval_status, payment method, lines
          approval,   \* the approvals row of the order
          payments,   \* settlement rows that refer to the order
          ret,        \* sale_returns with their items
          reopening,  \* orders with an edit between its two commits
          deleting    \* returns a delete has read and not yet removed

vars == <<stock, link, assets, order, approval, payments, ret,
          reopening, deleting>>

-----------------------------------------------------------------------------
\* Mutant: an approved order counts as one that can still be cancelled.
PendingOrApproved == {"pending_approval", "pending_bank", "approved"}

Pending == {"pending_approval", "pending_bank"}
Posted == {"approved", "completed"}
OrderStatus == {"none", "cancelled"} \cup Pending \cup Posted
Methods == {"credit", "bank", "cash"}
ReturnStatus == {"none", "pending", "approved", "processed", "rejected"}
StockStatus == {"available", "reserved", "sold", "returned"}

NoOrder == [status |-> "none", method |-> "cash", lines |-> {}]
NoReturn == [status |-> "none", order |-> None, units |-> {}, good |-> {}]

OrderRow == [status : OrderStatus, method : Methods, lines : SUBSET Units]
ReturnRow == [status : ReturnStatus, order : Orders \cup {None},
              units : SUBSET Units, good : SUBSET Units]

TypeOK ==
  /\ stock \in [Units -> StockStatus]
  /\ link \in [Units -> QuoteItems \cup {None}]
  /\ assets \subseteq Units
  /\ order \in [Orders -> OrderRow]
  /\ approval \in [Orders -> {"none", "pending", "approved", "rejected",
                              "cancelled"}]
  /\ payments \in [Orders -> {"none", "pending", "final"}]
  /\ ret \in [Returns -> ReturnRow]
  /\ reopening \subseteq Orders
  /\ deleting \subseteq Returns

-----------------------------------------------------------------------------
(* What an order has, what came back of it *)

\* Mutant: allocation looks at is_active, which a reserved unit still has.
AvailableIfActive == {u \in Units : stock[u] \in {"available", "reserved"}}

Available == {u \in Units : stock[u] = "available"}

\* Mutant: the release forgets the status and trusts the kept link.
PoolByLink(q) == {u \in Units : link[u] = q}

\* Units received for a quotation line and still reserved for it.
Pool(q) == {u \in Units : stock[u] = "reserved" /\ link[u] = q}

ReturnsOf(o, statuses) ==
  {r \in Returns : ret[r].order = o /\ ret[r].status \in statuses}

UnitsBack(o, statuses) == UNION {ret[r].units : r \in ReturnsOf(o, statuses)}

\* Mutant: a return that waits for approval does not count yet.
ActiveOnceApproved == {"approved", "processed"}

\* The over-return filter: every return that is not rejected counts.
ActiveStatus == {"pending", "approved", "processed"}

\* Order o answers for unit u: it is live and u has not come back.
Holds(o, u) ==
  /\ order[o].status \in Pending \cup Posted
  /\ u \in order[o].lines
  /\ u \notin UnitsBack(o, {"processed"})

Held(u) == \E o \in Orders : Holds(o, u)

SetStock(S, value) == [u \in Units |-> IF u \in S THEN value ELSE stock[u]]
Unlink(S) == [u \in Units |-> IF u \in S THEN None ELSE link[u]]

WithStatus(s, S) == {u \in S : stock[u] = s}

-----------------------------------------------------------------------------
(* Procured stock arrives reserved for the quotation line it was bought for. *)
Init ==
  /\ link \in [Units -> QuoteItems \cup {None}]
  /\ stock = [u \in Units |-> IF link[u] = None THEN "available" ELSE "reserved"]
  /\ assets = {}
  /\ order = [o \in Orders |-> NoOrder]
  /\ approval = [o \in Orders |-> "none"]
  /\ payments = [o \in Orders |-> "none"]
  /\ ret = [r \in Returns |-> NoReturn]
  /\ reopening = {}
  /\ deleting = {}

-----------------------------------------------------------------------------
(* Creating and editing an order *)

PoolUndisturbed(q) == "held_pool" \in Calls \/ \A u \in Pool(q) : ~Held(u)

FirstStatus(method) ==
  CASE method = "credit" -> "pending_approval"
    [] method = "bank" -> "pending_bank"
    [] method = "cash" -> "completed"

\* create_invoice: scanned units come from the shelf, the others from the
\* reservation of the source quotation line and then from the shelf.  The link
\* to the quotation line stays on the units.
CreateOrder(o, method, q, lines) ==
  /\ order[o].status = "none"
  /\ lines # {}
  /\ q # None => PoolUndisturbed(q)
  /\ lines \subseteq Available \cup (IF q = None THEN {} ELSE Pool(q))
  /\ order' = [order EXCEPT ![o] = [status |-> FirstStatus(method),
                                    method |-> method, lines |-> lines]]
  /\ stock' = SetStock(lines, IF method = "cash" THEN "sold" ELSE "reserved")
  /\ approval' = [approval EXCEPT ![o] = IF method = "credit" THEN "pending"
                                                              ELSE "none"]
  /\ UNCHANGED <<link, assets, payments, ret, reopening, deleting>>

\* create_partial_so: whatever the payment method, the order waits for an
\* approval nobody has requested yet; the link is dropped.
CreatePartialOrder(o, method, q, lines) ==
  /\ order[o].status = "none"
  /\ lines # {}
  /\ PoolUndisturbed(q)
  /\ lines \subseteq Available \cup Pool(q)
  /\ order' = [order EXCEPT ![o] = [status |-> "pending_approval",
                                    method |-> method, lines |-> lines]]
  /\ stock' = SetStock(lines, "reserved")
  /\ link' = Unlink(lines)
  /\ UNCHANGED <<assets, approval, payments, ret, reopening, deleting>>

\* The units an edit or a delete puts back: only those still sold or reserved.
Releasable(o) == WithStatus("sold", order[o].lines)
                   \cup WithStatus("reserved", order[o].lines)

\* update_invoice with items, _store_edited_lines: the old lines are released
\* and deleted (return items refer to them), the new ones taken from the shelf.
EditLines(o, lines) ==
  /\ order[o].status = "pending_approval"
  /\ ReturnsOf(o, ReturnStatus) = {}
  /\ lines # {}
  /\ lines \subseteq Available \cup Releasable(o)
  /\ order' = [order EXCEPT ![o].lines = lines]
  /\ stock' = [u \in Units |-> CASE u \in lines -> "reserved"
                                 [] u \in Releasable(o) \ lines -> "available"
                                 [] OTHER -> stock[u]]
  /\ UNCHANGED <<link, assets, approval, payments, ret, reopening, deleting>>

\* update_invoice of the remarks, first commit: the order was read completed.
SaveCompleted(o) ==
  /\ "edit_completed" \in Calls
  /\ order[o].status = "completed" /\ order[o].method = "credit"
  /\ reopening' = reopening \cup {o}
  /\ UNCHANGED <<stock, link, assets, order, approval, payments, ret, deleting>>

\* ... second commit, without the order's lock: back to pending whatever the
\* order has become.  Another edit of the same order may still be half way.
Reopen(o) ==
  /\ o \in reopening
  /\ reopening' \in {reopening, reopening \ {o}}
  /\ order' = [order EXCEPT ![o].status = "pending_approval"]
  /\ approval' = [approval EXCEPT ![o] = "pending"]
  /\ stock' = SetStock(WithStatus("sold", order[o].lines), "reserved")
  /\ UNCHANGED <<link, assets, payments, ret, deleting>>

-----------------------------------------------------------------------------
(* Deciding about an order *)

\* approve_invoice, and resolve_decision with approve.  A credit order with an
\* open balance is approved, every other one completed.
Approve(o) ==
  /\ order[o].status = "pending_approval"
  /\ approval[o] \in {"none", "pending"}
  /\ \E s \in IF order[o].method = "credit" THEN Posted ELSE {"completed"} :
        order' = [order EXCEPT ![o].status = s]
  /\ approval' = [approval EXCEPT ![o] = "approved"]
  /\ stock' = SetStock(WithStatus("reserved", order[o].lines), "sold")
  /\ UNCHANGED <<link, assets, payments, ret, reopening, deleting>>

\* complete_invoice: every unit of the order becomes sold, whatever it was.
Complete(o) ==
  /\ order[o].status = "approved"
  /\ "complete_returned" \in Calls \/ ReturnsOf(o, {"processed"}) = {}
  /\ order' = [order EXCEPT ![o].status = "completed"]
  /\ stock' = SetStock(order[o].lines, "sold")
  /\ UNCHANGED <<link, assets, approval, payments, ret, reopening, deleting>>

\* What cancel_invoice does to the rows, with the approval's final status.
CancelInto(o, decision) ==
  /\ order[o].status \in Pending
  /\ order' = [order EXCEPT ![o].status = "cancelled"]
  /\ stock' = SetStock(order[o].lines, "available")
  /\ link' = Unlink(order[o].lines)
  /\ approval' = [approval EXCEPT ![o] = decision]
  /\ UNCHANGED <<assets, payments, ret, reopening, deleting>>

\* Mutant: the approval request is not closed.
CancelLeavesRequest(o) == CancelInto(o, approval[o])

\* cancel_invoice closes a request that is still open.
Cancel(o) ==
  CancelInto(o, IF approval[o] = "pending" THEN "cancelled" ELSE approval[o])

\* reject_invoice, and resolve_decision with reject.  The former records the
\* rejection in a second commit, which a crash can lose: then it is a Cancel.
Reject(o) ==
  /\ order[o].status = "pending_approval"
  /\ approval[o] = "pending"
  /\ CancelInto(o, "rejected")

\* delete_invoice.  Rows that refer to the order (returns, settlements) make
\* the database refuse it; the slot is free afterwards.
Delete(o) ==
  /\ order[o].status \in Pending
       \cup IF "delete_cancelled" \in Calls THEN {"cancelled"} ELSE {}
  /\ ReturnsOf(o, ReturnStatus) = {} /\ payments[o] = "none"
  /\ stock' = SetStock(Releasable(o), "available")
  /\ link' = Unlink(Releasable(o))
  /\ order' = [order EXCEPT ![o] = NoOrder]
  /\ approval' = [approval EXCEPT ![o] = "none"]
  /\ reopening' = reopening \ {o}
  /\ UNCHANGED <<assets, payments, ret, deleting>>

\* Mutant: the status of the order is not checked before verifying.
VerifyBankAgain(o) ==
  /\ order[o].method = "bank" /\ order[o].status # "none"
  /\ order' = [order EXCEPT ![o].status = "completed"]
  /\ stock' = SetStock(WithStatus("reserved", order[o].lines), "sold")
  /\ UNCHANGED <<link, assets, approval, payments, ret, reopening, deleting>>

\* confirm_bank_transfer, verify
VerifyBank(o) ==
  /\ order[o].status = "pending_bank"
  /\ order' = [order EXCEPT ![o].status = "completed"]
  /\ stock' = SetStock(WithStatus("reserved", order[o].lines), "sold")
  /\ UNCHANGED <<link, assets, approval, payments, ret, reopening, deleting>>

\* confirm_bank_transfer, reject: the quotation link is left on the units.
RejectBank(o) ==
  /\ order[o].status = "pending_bank"
  /\ order' = [order EXCEPT ![o].status = "cancelled"]
  /\ stock' = SetStock(WithStatus("reserved", order[o].lines), "available")
  /\ UNCHANGED <<link, assets, approval, payments, ret, reopening, deleting>>

-----------------------------------------------------------------------------
(* Settlement of credit orders, as far as it moves an order's status.  How    *)
(* much is open is not modelled here: a payment may or may not clear it.      *)

Open(o) == order[o].status \in Posted /\ order[o].method = "credit"

MaybeCompleted(o) == \/ order' = [order EXCEPT ![o].status = "completed"]
                     \/ UNCHANGED order

\* _apply_credit_payment with cash, card or cheque; write_off
SettleNow(o) ==
  /\ Open(o)
  /\ MaybeCompleted(o)
  /\ payments' = [payments EXCEPT ![o] = IF @ = "none" THEN "final" ELSE @]
  /\ UNCHANGED <<stock, link, assets, approval, ret, reopening, deleting>>

\* _apply_credit_payment with a bank transfer: waits for verification
SubmitTransfer(o) ==
  /\ Open(o)
  /\ payments' = [payments EXCEPT ![o] = "pending"]
  /\ UNCHANGED <<stock, link, assets, order, approval, ret, reopening, deleting>>

\* confirm_credit_settlement_bank_transfer: the order's status is not looked at
VerifyTransfer(o) ==
  /\ payments[o] = "pending"
  /\ payments' = [payments EXCEPT ![o] = "final"]
  /\ MaybeCompleted(o)
  /\ UNCHANGED <<stock, link, assets, approval, ret, reopening, deleting>>

RejectTransfer(o) ==
  /\ payments[o] = "pending"
  /\ payments' = [payments EXCEPT ![o] = "final"]
  /\ UNCHANGED <<stock, link, assets, order, approval, ret, reopening, deleting>>

\* bounce of a settlement cheque, reverse of a write-off
BalanceReopened(o) ==
  /\ order[o].status = "completed"
  /\ payments[o] # "none"
  /\ order' = [order EXCEPT ![o].status = "approved"]
  /\ UNCHANGED <<stock, link, assets, approval, payments, ret, reopening,
                 deleting>>

\* bounce of a cheque the order was paid with: it is a debt from now on (the
\* code asks for method credit or credit_amount > 0), in whatever status it is.
\* An order paid by transfer has no cheque.
TenderBounced(o) ==
  /\ order[o].status # "none" /\ order[o].method # "bank"
  /\ order' = [order EXCEPT
       ![o].method = "credit",
       ![o].status = IF @ = "completed" THEN "approved" ELSE @]
  /\ UNCHANGED <<stock, link, assets, approval, payments, ret, reopening,
                 deleting>>

-----------------------------------------------------------------------------
(* Returns *)

\* create_sale_return, create_full_invoice_return; good says which units the
\* customer brings back fit for resale.
CreateReturn(r, o, units, good) ==
  /\ ret[r].status = "none"
  /\ order[o].status \in Posted
  /\ units # {} /\ good \subseteq units
  /\ units \subseteq order[o].lines \ UnitsBack(o, ActiveStatus)
  /\ ret' = [ret EXCEPT ![r] = [status |-> "pending", order |-> o,
                                units |-> units, good |-> good]]
  /\ UNCHANGED <<stock, link, assets, order, approval, payments, reopening,
                 deleting>>

\* approve_sale_return
ApproveReturn(r) ==
  /\ ret[r].status = "pending"
  /\ ret' = [ret EXCEPT ![r].status = "approved"]
  /\ UNCHANGED <<stock, link, assets, order, approval, payments, reopening,
                 deleting>>

\* reject_sale_return
RejectReturn(r) ==
  /\ ret[r].status \in {"pending", "approved"}
  /\ ret' = [ret EXCEPT ![r].status = "rejected"]
  /\ UNCHANGED <<stock, link, assets, order, approval, payments, reopening,
                 deleting>>

\* Units of a return that go back on the shelf, and those that become assets
\* of the company (once: a unit with an asset row is left alone).
Restocked(r) == WithStatus("sold", ret[r].good)
Scrapped(r) == (ret[r].units \ ret[r].good) \ assets

\* process_sale_return
ProcessReturn(r) ==
  /\ ret[r].status = "approved"
  /\ ret' = [ret EXCEPT ![r].status = "processed"]
  /\ stock' = [u \in Units |-> CASE u \in Restocked(r) -> "available"
                                 [] u \in Scrapped(r) -> "returned"
                                 [] OTHER -> stock[u]]
  /\ assets' = assets \cup Scrapped(r)
  /\ LET o == ret[r].order
     IN  IF order[o].status = "approved" THEN MaybeCompleted(o)
                                         ELSE UNCHANGED order
  /\ UNCHANGED <<link, approval, payments, reopening, deleting>>

Deletable(r) == ret[r].status \in {"pending", "rejected"}

\* delete_sale_return reads the status without a lock ...
ReadForDelete(r) ==
  /\ "stale_delete" \in Calls
  /\ Deletable(r)
  /\ deleting' = deleting \cup {r}
  /\ UNCHANGED <<stock, link, assets, order, approval, payments, ret, reopening>>

\* ... and deletes by key whatever the row has become since.
DeleteReturn(r) ==
  /\ r \in deleting \/ Deletable(r)
  /\ ret' = [ret EXCEPT ![r] = NoReturn]
  /\ deleting' = deleting \ {r}
  /\ UNCHANGED <<stock, link, assets, order, approval, payments, reopening>>

\* release_reservation_for_quote_item, from release_reservation or cancel_quote
ReleaseReservation(q) ==
  /\ Pool(q) # {}
  /\ PoolUndisturbed(q)
  /\ stock' = SetStock(Pool(q), "available")
  /\ UNCHANGED <<link, assets, order, approval, payments, ret, reopening,
                 deleting>>

-----------------------------------------------------------------------------
NewOrder(o) ==
  \E method \in Methods, lines \in SUBSET Units :
    \/ \E q \in QuoteItems \cup {None} : CreateOrder(o, method, q, lines)
    \/ \E q \in QuoteItems : CreatePartialOrder(o, method, q, lines)

Edit(o) == \/ \E lines \in SUBSET Units : EditLines(o, lines)
           \/ SaveCompleted(o)
           \/ Reopen(o)

Decide(o) == \/ Approve(o) \/ Complete(o) \/ Cancel(o) \/ Reject(o)
             \/ Delete(o) \/ VerifyBank(o) \/ RejectBank(o)

Settle(o) == \/ SettleNow(o) \/ SubmitTransfer(o) \/ VerifyTransfer(o)
             \/ RejectTransfer(o) \/ BalanceReopened(o) \/ TenderBounced(o)

TakeBack(r) ==
  \/ \E o \in Orders, units, good \in SUBSET Units : CreateReturn(r, o, units, good)
  \/ ApproveReturn(r) \/ RejectReturn(r) \/ ProcessReturn(r)
  \/ ReadForDelete(r) \/ DeleteReturn(r)

Next ==
  \/ \E o \in Orders : NewOrder(o) \/ Edit(o) \/ Decide(o) \/ Settle(o)
  \/ \E r \in Returns : TakeBack(r)
  \/ \E q \in QuoteItems : ReleaseReservation(q)

Spec == Init /\ [][Next]_vars

-----------------------------------------------------------------------------
(* Properties *)

\* A physical unit is answered for by at most one order, through every
\* interleaving of create, edit, cancel, delete, return and resale (the
\* barcode locks of create_invoice are there for this).
OneHolder ==
  \A o1, o2 \in Orders : \A u \in Units :
    Holds(o1, u) /\ Holds(o2, u) => o1 = o2

\* The stock row agrees with the order that answers for the unit: held while
\* the order is pending, sold once it is approved, completed or verified.
HolderMatchesStock ==
  \A o \in Orders, u \in Units :
    Holds(o, u) => stock[u] = IF order[o].status \in Pending THEN "reserved"
                                                            ELSE "sold"

\* No unit is lost: one that is not for sale is held by an order, waits for
\* its quotation, or was scrapped into the company's assets.
NoStrandedUnit ==
  \A u \in Units : \/ stock[u] = "available"
                   \/ Held(u)
                   \/ stock[u] = "reserved" /\ link[u] # None
                   \/ stock[u] = "returned" /\ u \in assets

\* A pending credit order is never forgotten: its request is open, or, for an
\* order made from a quotation, still to be written by its first approval.
PendingIsQueued ==
  \A o \in Orders : order[o].status = "pending_approval"
                      => approval[o] \in {"pending", "none"}

\* And a decided order does not stay in the approvers' queue
\* (_close_approval_request says so of cancelled and deleted ones).
QueuedIsPending ==
  \A o \in Orders : approval[o] = "pending"
                      => order[o].status = "pending_approval"

\* A unit is in at most one return of its sale that is not rejected, and only
\* in returns of an order that lists it, even while orders are edited,
\* returns rejected and deleted, and slots used again.
ReturnedOnce ==
  \A r \in Returns : ret[r].status # "none" =>
    /\ ret[r].units \subseteq order[ret[r].order].lines
    /\ \A s \in Returns \ {r} :
         /\ {ret[r].status, ret[s].status} \cap {"none", "rejected"} = {}
         /\ ret[r].order = ret[s].order
         => ret[r].units \cap ret[s].units = {}

\* Whatever refers to an order was written after its sale was posted: returns
\* and settlements never hang on an order that is pending, cancelled or gone
\* (delete_invoice relies on it, a foreign key only catches some of it).
ReferredIsPosted ==
  /\ \A r \in Returns : ret[r].status # "none" =>
       /\ ret[r].order \in Orders
       /\ order[ret[r].order].status \in Posted
       /\ ret[r].good \subseteq ret[r].units
  /\ \A o \in Orders : payments[o] # "none" => order[o].status \in Posted

\* A processed return has refunded money: it is never removed nor reopened
\* (delete_sale_return: "Cannot delete a processed or approved sale return").
ProcessedIsFinal ==
  \A r \in Returns : ret[r].status = "processed" => ret'[r] = ret[r]

\* A posted order stays posted: what is in the ledger leaves it through a
\* return only, never by going back to pending, cancelled or deleted.
PostedIsFinal ==
  \A o \in Orders : order[o].status \in Posted =>
     order'[o].status \in Posted /\ order'[o].lines = order[o].lines

\* A cancelled order is over; it can only be deleted (update_invoice: "A
\* cancelled order cannot be edited").
CancelledIsFinal ==
  \A o \in Orders : order[o].status = "cancelled" =>
     order'[o].status \in {"cancelled", "none"}

\* The papers of an order agree with it and with the stock: no unit is out of
\* stock without a paper that says why, the approvers' queue holds the pending
\* orders, and returns and settlements refer to posted sales, once per unit.
PapersAgree ==
  NoStrandedUnit /\ PendingIsQueued /\ QueuedIsPending /\ ReferredIsPosted /\ ReturnedOnce

\* What is decided stays decided, whatever is called next: a processed return,
\* a posted order and a cancelled one.
FinalStaysFinal == [][ProcessedIsFinal /\ PostedIsFinal /\ CancelledIsFinal]_vars

-----------------------------------------------------------------------------
(* The promise of StockCustody, read off the stock row and the order lines *)

Custody(u) ==
  CASE stock[u] = "available" -> [at |-> "shelf", by |-> None]
    [] stock[u] = "returned" -> [at |-> "gone", by |-> None]
    [] OTHER -> IF Held(u) THEN [at |-> "order", by |-> CHOOSE o \in Orders : Holds(o, u)]
                           ELSE [at |-> "reservation", by |-> link[u]]

Promise == INSTANCE StockCustody WITH custody <- [u \in Units |-> Custody(u)]

\* Every step of the service is a step of the promise, or invisible to it.
KeepsCustody == Promise!Spec
=============================================================================
