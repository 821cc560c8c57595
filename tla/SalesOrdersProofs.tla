------------------------- MODULE SalesOrdersProofs -------------------------
(***************************************************************************)
(* SalesOrders, proved for any number of orders, units, returns and        *)
(* quotation lines: custody of the units first, then the papers.           *)
(***************************************************************************)
EXTENDS SalesOrders, TLAPS

-----------------------------------------------------------------------------
(* The updates the actions are made of *)

\* Writing one order's status leaves its lines and every other order alone.
LEMMA StatusSet ==
  ASSUME order \in [Orders -> OrderRow], NEW o, NEW s \in OrderStatus,
         order' = [order EXCEPT ![o].status = s]
  PROVE  /\ order' \in [Orders -> OrderRow]
         /\ \A x \in Orders : /\ order'[x].lines = order[x].lines
                              /\ order'[x].method = order[x].method
                              /\ x # o => order'[x].status = order[x].status
         /\ o \in Orders => order'[o].status = s
<1>1. \A x \in Orders : /\ order'[x] \in OrderRow
                        /\ order'[x].lines = order[x].lines
                        /\ order'[x].method = order[x].method
                        /\ x # o => order'[x].status = order[x].status
                        /\ x = o => order'[x].status = s
  <2> TAKE x \in Orders
  <2>1. CASE x = o
    <3>1. order'[x] = [order[x] EXCEPT !.status = s]
      BY <2>1
    <3> QED BY <2>1, <3>1 DEF OrderRow
  <2>2. CASE x # o
    <3>1. order'[x] = order[x]
      BY <2>2
    <3> QED BY <2>2, <3>1 DEF OrderRow
  <2> QED BY <2>1, <2>2
<1>2. order' = [x \in Orders |-> order'[x]]
  OBVIOUS
<1>3. order' \in [Orders -> OrderRow]
  BY <1>1, <1>2
<1> QED BY <1>1, <1>3

\* The same for a return.
LEMMA ReturnStatusSet ==
  ASSUME ret \in [Returns -> ReturnRow], NEW r \in Returns,
         NEW s \in ReturnStatus, ret' = [ret EXCEPT ![r].status = s]
  PROVE  /\ ret' \in [Returns -> ReturnRow]
         /\ \A x \in Returns : /\ ret'[x].order = ret[x].order
                               /\ ret'[x].units = ret[x].units
                               /\ ret'[x].good = ret[x].good
                               /\ x # r => ret'[x].status = ret[x].status
         /\ ret'[r].status = s
<1>1. ret'[r] = [ret[r] EXCEPT !.status = s]
  OBVIOUS
<1>2. \A x \in Returns \ {r} : ret'[x] = ret[x]
  OBVIOUS
<1>3. /\ ret'[r] \in ReturnRow
      /\ ret'[r].order = ret[r].order
      /\ ret'[r].units = ret[r].units
      /\ ret'[r].good = ret[r].good
      /\ ret'[r].status = s
  BY <1>1 DEF ReturnRow
<1>4. \A x \in Returns : ret'[x] \in ReturnRow
  BY <1>2, <1>3
<1>5. ret' = [x \in Returns |-> ret'[x]]
  OBVIOUS
<1>6. ret' \in [Returns -> ReturnRow]
  BY <1>4, <1>5
<1> QED BY <1>2, <1>3, <1>6

LEMMA StockSet ==
  ASSUME stock \in [Units -> StockStatus], NEW S, NEW v \in StockStatus
  PROVE  /\ SetStock(S, v) \in [Units -> StockStatus]
         /\ \A u \in Units : SetStock(S, v)[u] = IF u \in S THEN v ELSE stock[u]
BY DEF SetStock

LEMMA Unlinked ==
  ASSUME link \in [Units -> QuoteItems \cup {None}], NEW S
  PROVE  Unlink(S) \in [Units -> QuoteItems \cup {None}]
BY DEF Unlink

LEMMA FirstStatusIsStatus ==
  ASSUME NEW m \in Methods
  PROVE  FirstStatus(m) \in Pending \cup Posted
<1>1. m = "credit" \/ m = "bank" \/ m = "cash"
  BY DEF Methods
<1> QED BY <1>1 DEF FirstStatus, Pending, Posted

-----------------------------------------------------------------------------
\* Every status, link and line stays of its type, whatever requests arrive:
\* no path of the service writes a status the enumerations do not have.
THEOREM TypeCorrect == Spec => []TypeOK
<1>1. Init => TypeOK
  BY DEF Init, TypeOK, NoOrder, NoReturn, StockStatus, OrderStatus, Methods,
         ReturnStatus, OrderRow, ReturnRow
<1>2. TypeOK /\ [Next]_vars => TypeOK'
  <2> SUFFICES ASSUME TypeOK, [Next]_vars PROVE TypeOK'
    OBVIOUS
  <2> USE DEF TypeOK
  <2>a. {"available", "reserved", "sold", "returned"} \subseteq StockStatus
    BY DEF StockStatus
  <2>b. /\ Pending \cup Posted \subseteq OrderStatus
        /\ {"approved", "completed"} \subseteq OrderStatus
        /\ {"pending_approval", "cancelled", "none"} \subseteq OrderStatus
    BY DEF OrderStatus, Pending, Posted
  <2>c. {"none", "pending", "approved", "processed", "rejected"}
          \subseteq ReturnStatus
    BY DEF ReturnStatus
  <2>1. ASSUME NEW o \in Orders, NEW m \in Methods, NEW q,
               NEW lines \in SUBSET Units, CreateOrder(o, m, q, lines)
        PROVE  TypeOK'
    <3>1. [status |-> FirstStatus(m), method |-> m, lines |-> lines] \in OrderRow
      BY FirstStatusIsStatus, <2>b DEF OrderRow
    <3>2. order' \in [Orders -> OrderRow]
      BY <2>1, <3>1 DEF CreateOrder
    <3>3. stock' \in [Units -> StockStatus]
      BY <2>1, <2>a, StockSet DEF CreateOrder
    <3> QED BY <2>1, <3>2, <3>3 DEF CreateOrder
  <2>2. ASSUME NEW o \in Orders, NEW m \in Methods, NEW q,
               NEW lines \in SUBSET Units, CreatePartialOrder(o, m, q, lines)
        PROVE  TypeOK'
    <3>1. [status |-> "pending_approval", method |-> m, lines |-> lines]
            \in OrderRow
      BY <2>b DEF OrderRow
    <3>2. order' \in [Orders -> OrderRow]
      BY <2>2, <3>1 DEF CreatePartialOrder
    <3>3. stock' \in [Units -> StockStatus]
      BY <2>2, <2>a, StockSet DEF CreatePartialOrder
    <3> QED BY <2>2, <3>2, <3>3, Unlinked DEF CreatePartialOrder
  <2>3. ASSUME NEW o \in Orders, NEW lines \in SUBSET Units, EditLines(o, lines)
        PROVE  TypeOK'
    <3>1. [order[o] EXCEPT !.lines = lines] \in OrderRow
      BY DEF OrderRow
    <3>2. order' \in [Orders -> OrderRow]
      BY <2>3, <3>1 DEF EditLines
    <3>3. stock' \in [Units -> StockStatus]
      BY <2>3, <2>a DEF EditLines
    <3> QED BY <2>3, <3>2, <3>3 DEF EditLines
  <2>4. ASSUME NEW o \in Orders, SaveCompleted(o) PROVE TypeOK'
    BY <2>4 DEF SaveCompleted
  <2>5. ASSUME NEW o \in Orders, Reopen(o) PROVE TypeOK'
    <3>1. order' \in [Orders -> OrderRow]
      BY <2>5, <2>b, StatusSet DEF Reopen
    <3>2. stock' \in [Units -> StockStatus]
      BY <2>5, <2>a, StockSet DEF Reopen
    <3> QED BY <2>5, <3>1, <3>2 DEF Reopen
  <2>6. ASSUME NEW o \in Orders, Approve(o) PROVE TypeOK'
    <3>1. PICK s \in Posted : order' = [order EXCEPT ![o].status = s]
      BY <2>6 DEF Approve, Posted
    <3>2. order' \in [Orders -> OrderRow]
      BY <3>1, <2>b, StatusSet
    <3>3. stock' \in [Units -> StockStatus]
      BY <2>6, <2>a, StockSet DEF Approve
    <3> QED BY <2>6, <3>2, <3>3 DEF Approve
  <2>7. ASSUME NEW o \in Orders, Complete(o) PROVE TypeOK'
    <3>1. order' \in [Orders -> OrderRow]
      BY <2>7, <2>b, StatusSet DEF Complete
    <3>2. stock' \in [Units -> StockStatus]
      BY <2>7, <2>a, StockSet DEF Complete
    <3> QED BY <2>7, <3>1, <3>2 DEF Complete
  <2>8. ASSUME NEW o \in Orders,
               NEW d \in {"none", "pending", "approved", "rejected", "cancelled"},
               CancelInto(o, d)
        PROVE  TypeOK'
    <3>1. order' \in [Orders -> OrderRow]
      BY <2>8, <2>b, StatusSet DEF CancelInto
    <3>2. stock' \in [Units -> StockStatus]
      BY <2>8, <2>a, StockSet DEF CancelInto
    <3>3. link' \in [Units -> QuoteItems \cup {None}]
      BY <2>8, Unlinked DEF CancelInto
    <3> QED BY <2>8, <3>1, <3>2, <3>3 DEF CancelInto
  <2>9. ASSUME NEW o \in Orders, Cancel(o) \/ Reject(o) PROVE TypeOK'
    BY <2>8, <2>9 DEF Cancel, Reject
  <2>10. ASSUME NEW o \in Orders, Delete(o) PROVE TypeOK'
    <3>1. NoOrder \in OrderRow
      BY <2>b DEF NoOrder, OrderRow, Methods
    <3>2. order' \in [Orders -> OrderRow]
      BY <2>10, <3>1 DEF Delete
    <3>3. stock' \in [Units -> StockStatus]
      BY <2>10, <2>a, StockSet DEF Delete
    <3>4. link' \in [Units -> QuoteItems \cup {None}]
      BY <2>10, Unlinked DEF Delete
    <3> QED BY <2>10, <3>2, <3>3, <3>4 DEF Delete
  <2>11. ASSUME NEW o \in Orders, VerifyBank(o) PROVE TypeOK'
    <3>1. order' \in [Orders -> OrderRow]
      BY <2>11, <2>b, StatusSet DEF VerifyBank
    <3>2. stock' \in [Units -> StockStatus]
      BY <2>11, <2>a, StockSet DEF VerifyBank
    <3> QED BY <2>11, <3>1, <3>2 DEF VerifyBank
  <2>12. ASSUME NEW o \in Orders, RejectBank(o) PROVE TypeOK'
    <3>1. order' \in [Orders -> OrderRow]
      BY <2>12, <2>b, StatusSet DEF RejectBank
    <3>2. stock' \in [Units -> StockStatus]
      BY <2>12, <2>a, StockSet DEF RejectBank
    <3> QED BY <2>12, <3>1, <3>2 DEF RejectBank
  <2>13. ASSUME NEW o, MaybeCompleted(o) PROVE order' \in [Orders -> OrderRow]
    BY <2>13, <2>b, StatusSet DEF MaybeCompleted
  <2>14. ASSUME NEW o \in Orders, SettleNow(o) PROVE TypeOK'
    BY <2>13, <2>14 DEF SettleNow
  <2>15. ASSUME NEW o \in Orders, SubmitTransfer(o) PROVE TypeOK'
    BY <2>15 DEF SubmitTransfer
  <2>16. ASSUME NEW o \in Orders, VerifyTransfer(o) PROVE TypeOK'
    BY <2>13, <2>16 DEF VerifyTransfer
  <2>17. ASSUME NEW o \in Orders, RejectTransfer(o) PROVE TypeOK'
    BY <2>17 DEF RejectTransfer
  <2>18. ASSUME NEW o \in Orders, BalanceReopened(o) PROVE TypeOK'
    BY <2>18, <2>b, StatusSet DEF BalanceReopened
  <2>31. ASSUME NEW o \in Orders, TenderBounced(o) PROVE TypeOK'
    <3>a. order[o] \in OrderRow /\ order \in [Orders -> OrderRow]
      OBVIOUS
    <3>b. order'[o] = [order[o] EXCEPT
                         !.method = "credit",
                         !.status = IF @ = "completed" THEN "approved" ELSE @]
      BY <2>31, <3>a DEF TenderBounced
    <3>1. order'[o] = [status |-> IF order[o].status = "completed" THEN "approved"
                                                            ELSE order[o].status,
                       method |-> "credit", lines |-> order[o].lines]
      BY <3>a, <3>b DEF OrderRow
    <3>2. order'[o] \in OrderRow
      BY <3>1, <2>b, StatusSet DEF OrderRow, Methods
    <3> QED BY <2>31, <2>b, <3>2 DEF TenderBounced
  <2>19. ASSUME NEW r \in Returns, NEW o \in Orders, NEW units \in SUBSET Units,
                NEW good \in SUBSET Units, CreateReturn(r, o, units, good)
         PROVE  TypeOK'
    <3>1. [status |-> "pending", order |-> o, units |-> units, good |-> good]
            \in ReturnRow
      BY <2>c DEF ReturnRow
    <3> QED BY <2>19, <3>1 DEF CreateReturn
  <2>20. ASSUME NEW r \in Returns, ApproveReturn(r) \/ RejectReturn(r)
         PROVE  TypeOK'
    BY <2>20, <2>c, ReturnStatusSet DEF ApproveReturn, RejectReturn
  <2>21. ASSUME NEW r \in Returns, ProcessReturn(r) PROVE TypeOK'
    <3>1. ret' \in [Returns -> ReturnRow]
      BY <2>21, <2>c, ReturnStatusSet DEF ProcessReturn
    <3>2. stock' \in [Units -> StockStatus]
      BY <2>21, <2>a DEF ProcessReturn
    <3>3. order' \in [Orders -> OrderRow]
      BY <2>21, <2>13 DEF ProcessReturn
    <3>4. assets' \subseteq Units
      BY <2>21 DEF ProcessReturn, Scrapped, ReturnRow
    <3> QED BY <2>21, <3>1, <3>2, <3>3, <3>4 DEF ProcessReturn
  <2>22. ASSUME NEW r \in Returns, ReadForDelete(r) PROVE TypeOK'
    BY <2>22 DEF ReadForDelete
  <2>23. ASSUME NEW r \in Returns, DeleteReturn(r) PROVE TypeOK'
    <3>1. NoReturn \in ReturnRow
      BY <2>c DEF NoReturn, ReturnRow
    <3> QED BY <2>23, <3>1 DEF DeleteReturn
  <2>24. ASSUME NEW q \in QuoteItems, ReleaseReservation(q) PROVE TypeOK'
    BY <2>24, <2>a, StockSet DEF ReleaseReservation
  <2>25. CASE UNCHANGED vars
    BY <2>25 DEF vars
  <2>26. ASSUME NEW o \in Orders, NewOrder(o) PROVE TypeOK'
    BY <2>26, <2>1, <2>2 DEF NewOrder
  <2>27. ASSUME NEW o \in Orders, Edit(o) PROVE TypeOK'
    BY <2>27, <2>3, <2>4, <2>5 DEF Edit
  <2>28. ASSUME NEW o \in Orders, Decide(o) PROVE TypeOK'
    BY <2>28, <2>6, <2>7, <2>9, <2>10, <2>11, <2>12 DEF Decide
  <2>29. ASSUME NEW o \in Orders, Settle(o) PROVE TypeOK'
    BY <2>29, <2>14, <2>15, <2>16, <2>17, <2>18, <2>31 DEF Settle
  <2>30. ASSUME NEW r \in Returns, TakeBack(r) PROVE TypeOK'
    BY <2>30, <2>19, <2>20, <2>21, <2>22, <2>23 DEF TakeBack
  <2> HIDE DEF TypeOK
  <2> QED BY <2>24, <2>25, <2>26, <2>27, <2>28, <2>29, <2>30 DEF Next
<1> QED BY <1>1, <1>2, PTL DEF Spec

-----------------------------------------------------------------------------
(* Who holds a unit.  The proofs use a form of Holds without sets of sets.    *)

CameBack(o, u) ==
  \E r \in Returns : /\ ret[r].order = o
                     /\ ret[r].status = "processed"
                     /\ u \in ret[r].units

LEMMA HoldsMeans ==
  \A o, u : Holds(o, u) <=> /\ order[o].status \in Pending \cup Posted
                            /\ u \in order[o].lines
                            /\ ~CameBack(o, u)
BY DEF Holds, CameBack, UnitsBack, ReturnsOf

LEMMA HoldsMeansNext ==
  \A o, u : Holds(o, u)' <=> /\ order'[o].status \in Pending \cup Posted
                             /\ u \in order'[o].lines
                             /\ ~CameBack(o, u)'
BY DEF Holds, CameBack, UnitsBack, ReturnsOf

HeldAs(o) == IF order[o].status \in Pending THEN "reserved" ELSE "sold"

\* A step that serves order o keeps custody: the other orders hold nothing new
\* and nothing they hold moves, and what o holds is o's alone.
LEMMA Handover ==
  ASSUME NEW o \in Orders, OneHolder, HolderMatchesStock,
         \A x \in Orders \ {o}, u \in Units :
           Holds(x, u)' => /\ Holds(x, u)
                           /\ stock'[u] = stock[u]
                           /\ order'[x].status = order[x].status,
         \A u \in Units :
           Holds(o, u)' => /\ \A x \in Orders \ {o} : ~Holds(x, u)
                           /\ stock'[u] = HeldAs(o)'
  PROVE  OneHolder' /\ HolderMatchesStock'
<1>1. OneHolder'
  BY DEF OneHolder
<1>2. ASSUME NEW x \in Orders, NEW u \in Units, Holds(x, u)'
      PROVE  stock'[u] = HeldAs(x)'
  <2>1. CASE x = o
    BY <2>1, <1>2
  <2>2. CASE x # o
    BY <2>2, <1>2 DEF HolderMatchesStock, HeldAs
  <2> QED BY <2>1, <2>2
<1>3. HolderMatchesStock'
  BY <1>2 DEF HolderMatchesStock, HeldAs
<1> QED BY <1>1, <1>3

\* The inductive invariant: custody as the orders and the stock rows have it,
\* and what keeps the returns from disturbing it.
CustodyInv ==
  /\ TypeOK
  /\ reopening = {} /\ deleting = {}
  /\ ReferredIsPosted
  /\ ReturnedOnce
  /\ OneHolder
  /\ HolderMatchesStock

-----------------------------------------------------------------------------
(* What refers to orders *)

\* A step on an order that is not posted disturbs no return and no payment:
\* none refers to it.
LEMMA ReferencesOfUnposted ==
  ASSUME CustodyInv, NEW o \in Orders, order[o].status \notin Posted,
         UNCHANGED <<ret, payments>>,
         \A x \in Orders \ {o} : order'[x] = order[x]
  PROVE  ReferredIsPosted' /\ ReturnedOnce'
<1> USE DEF CustodyInv
<1>1. \A r \in Returns : ret[r].status # "none" =>
         ret[r].order \in Orders \ {o} /\ order'[ret[r].order] = order[ret[r].order]
  BY DEF ReferredIsPosted
<1>2. payments[o] = "none"
  BY DEF ReferredIsPosted
<1>3. ReferredIsPosted'
  BY <1>1, <1>2 DEF ReferredIsPosted
<1>4. ReturnedOnce'
  BY <1>1 DEF ReturnedOnce
<1> QED BY <1>3, <1>4

\* Nor does a step that leaves posted orders posted, with their lines, and
\* writes payments for posted orders only.
LEMMA ReferencesOfPosted ==
  ASSUME CustodyInv, UNCHANGED ret,
         \A x \in Orders : /\ order'[x].lines = order[x].lines
                           /\ order[x].status \in Posted => order'[x].status \in Posted
                           /\ payments'[x] # "none" =>
                                payments[x] # "none" \/ order[x].status \in Posted
  PROVE  ReferredIsPosted' /\ ReturnedOnce'
<1> USE DEF CustodyInv
<1>1. \A r \in Returns : ret[r].status # "none" => ret[r].order \in Orders
  BY DEF ReferredIsPosted
<1>2. ReferredIsPosted'
  BY <1>1 DEF ReferredIsPosted
<1>3. ReturnedOnce'
  BY <1>1 DEF ReturnedOnce
<1> QED BY <1>2, <1>3

LEMMA Maybe ==
  ASSUME TypeOK, NEW o, MaybeCompleted(o), o \in Orders => order[o].status \in Posted
  PROVE  \A x \in Orders : /\ order'[x].lines = order[x].lines
                           /\ x # o => order'[x].status = order[x].status
                           /\ order[x].status \in Posted => order'[x].status \in Posted
                           /\ order'[x].status \in Posted => order[x].status \in Posted
<1>1. "completed" \in OrderStatus /\ "completed" \in Posted
  BY DEF OrderStatus, Posted
<1>2. CASE order' = [order EXCEPT ![o].status = "completed"]
  BY <1>1, <1>2, StatusSet DEF TypeOK
<1>3. CASE UNCHANGED order
  BY <1>3
<1> QED BY <1>2, <1>3 DEF MaybeCompleted

LEMMA StatusNames ==
  /\ Pending \cap Posted = {}
  /\ {"none", "cancelled"} \cap (Pending \cup Posted) = {}
  /\ {"pending_approval", "pending_bank"} \subseteq Pending
  /\ {"approved", "completed"} \subseteq Posted
  /\ Pending \cup Posted \cup {"none", "cancelled"} \subseteq OrderStatus
BY DEF Pending, Posted, OrderStatus

\* A bounced tender cheque leaves the lines alone and keeps posted orders posted.
LEMMA BouncedTender ==
  ASSUME TypeOK, NEW o \in Orders, TenderBounced(o)
  PROVE  \A x \in Orders : /\ order'[x].lines = order[x].lines
                           /\ x # o => order'[x].status = order[x].status
                           /\ \/ order'[x].status = order[x].status
                              \/ {order[x].status, order'[x].status} \subseteq Posted
<1>1. order \in [Orders -> OrderRow] /\ order[o] \in OrderRow
  BY DEF TypeOK
<1>2. order'[o] = [order[o] EXCEPT
        !.method = "credit",
        !.status = IF order[o].status = "completed" THEN "approved" ELSE @]
  BY <1>1 DEF TenderBounced
<1>3. /\ order'[o].lines = order[o].lines
      /\ order'[o].status = IF order[o].status = "completed" THEN "approved"
                                                             ELSE order[o].status
  BY <1>1, <1>2 DEF OrderRow
<1>4. \A x \in Orders \ {o} : order'[x] = order[x]
  BY <1>1 DEF TenderBounced
<1> QED BY <1>3, <1>4, StatusNames

LEMMA ReferencesKept ==
  ASSUME CustodyInv, Calls = {}, [Next]_vars
  PROVE  ReferredIsPosted' /\ ReturnedOnce'
<1> DEFINE Goal == ReferredIsPosted /\ ReturnedOnce
<1>a. TypeOK /\ ReferredIsPosted /\ ReturnedOnce /\ deleting = {} /\ reopening = {}
  BY DEF CustodyInv
<1>1. ASSUME NEW o \in Orders, NewOrder(o) PROVE Goal'
  <2>1. order[o].status = "none" /\ UNCHANGED <<ret, payments>>
        /\ \A x \in Orders \ {o} : order'[x] = order[x]
    BY <1>1, <1>a DEF NewOrder, CreateOrder, CreatePartialOrder, TypeOK
  <2> QED BY <2>1, ReferencesOfUnposted, StatusNames
<1>2. ASSUME NEW o \in Orders, Edit(o) PROVE Goal'
  <2>1. ~SaveCompleted(o) /\ ~Reopen(o)
    BY <1>a DEF SaveCompleted, Reopen
  <2>2. order[o].status = "pending_approval" /\ UNCHANGED <<ret, payments>>
        /\ \A x \in Orders \ {o} : order'[x] = order[x]
    BY <1>2, <2>1, <1>a DEF Edit, EditLines, TypeOK
  <2> QED BY <2>2, ReferencesOfUnposted, StatusNames
<1>3. ASSUME NEW o \in Orders, Decide(o), ~Complete(o) PROVE Goal'
  <2>1. UNCHANGED <<ret, payments>>
    BY <1>3 DEF Decide, Approve, Cancel, Reject, CancelInto, Delete, VerifyBank,
                RejectBank
  <2>2. order[o].status \in Pending
    BY <1>3, StatusNames DEF Decide, Approve, Cancel, Reject, CancelInto, Delete,
                VerifyBank, RejectBank
  <2>3. \A x \in Orders \ {o} : order'[x] = order[x]
    BY <1>3, <1>a DEF Decide, Approve, Cancel, Reject, CancelInto, Delete,
                VerifyBank, RejectBank, TypeOK
  <2> QED BY <2>1, <2>2, <2>3, ReferencesOfUnposted, StatusNames
<1>4. ASSUME NEW o \in Orders, Complete(o) PROVE Goal'
  <2>1. UNCHANGED <<ret, payments>> /\ order' = [order EXCEPT ![o].status = "completed"]
    BY <1>4 DEF Complete
  <2>2. \A x \in Orders : /\ order'[x].lines = order[x].lines
                          /\ order[x].status \in Posted => order'[x].status \in Posted
    BY <2>1, <1>a, StatusSet, StatusNames DEF TypeOK
  <2> QED BY <2>1, <2>2, ReferencesOfPosted
<1>5. ASSUME NEW o \in Orders, TenderBounced(o) PROVE Goal'
  <2>1. UNCHANGED <<ret, payments>>
    BY <1>5 DEF TenderBounced
  <2>2. \A x \in Orders : /\ order'[x].lines = order[x].lines
                          /\ order[x].status \in Posted => order'[x].status \in Posted
    BY <1>5, <1>a, BouncedTender
  <2> QED BY <2>1, <2>2, <1>a DEF ReferredIsPosted, ReturnedOnce
<1>9. ASSUME NEW o \in Orders, Settle(o), ~TenderBounced(o) PROVE Goal'
  <2>1. order[o].status \in Posted
    BY <1>9, <1>a, StatusNames DEF Settle, SettleNow, SubmitTransfer, VerifyTransfer,
          RejectTransfer, BalanceReopened, Open, ReferredIsPosted
  <2>2. UNCHANGED ret /\ \A x \in Orders \ {o} : payments'[x] = payments[x]
    BY <1>9, <1>a DEF Settle, SettleNow, SubmitTransfer, VerifyTransfer,
          RejectTransfer, BalanceReopened, TypeOK
  <2>3. CASE BalanceReopened(o)
    <3>1. order' = [order EXCEPT ![o].status = "approved"]
      BY <2>3 DEF BalanceReopened
    <3>2. \A x \in Orders : /\ order'[x].lines = order[x].lines
                            /\ order[x].status \in Posted => order'[x].status \in Posted
      BY <3>1, <1>a, StatusSet, StatusNames DEF TypeOK
    <3> QED BY <2>1, <2>2, <3>2, ReferencesOfPosted
  <2>4. CASE ~BalanceReopened(o)
    <3>1. MaybeCompleted(o)
      BY <1>9, <2>4 DEF Settle, SettleNow, SubmitTransfer, VerifyTransfer,
            RejectTransfer, MaybeCompleted
    <3>2. \A x \in Orders : /\ order'[x].lines = order[x].lines
                            /\ order[x].status \in Posted => order'[x].status \in Posted
      BY <3>1, <2>1, <1>a, Maybe
    <3> QED BY <2>1, <2>2, <3>2, ReferencesOfPosted
  <2> QED BY <2>3, <2>4
<1>6. ASSUME NEW r \in Returns, TakeBack(r) PROVE Goal'
  <2>1. ASSUME NEW o \in Orders, NEW units \in SUBSET Units,
               NEW good \in SUBSET Units, CreateReturn(r, o, units, good)
        PROVE  Goal'
    <3>1. /\ UNCHANGED <<order, payments>>
          /\ ret'[r] = [status |-> "pending", order |-> o, units |-> units,
                        good |-> good]
          /\ \A x \in Returns \ {r} : ret'[x] = ret[x]
          /\ order[o].status \in Posted /\ good \subseteq units
          /\ units \subseteq order[o].lines
      BY <2>1, <1>a DEF CreateReturn, TypeOK
    <3>2. ReferredIsPosted'
      BY <3>1, <1>a DEF ReferredIsPosted
    <3>3. ASSUME NEW x \in Returns \ {r}, ret[x].order = o,
                 ret[x].status # "none", ret[x].status # "rejected"
          PROVE  units \cap ret[x].units = {}
      <4>1. ret[x].status \in ActiveStatus
        BY <3>3, <1>a DEF ActiveStatus, TypeOK, ReturnRow, ReturnStatus
      <4>2. ret[x].units \subseteq UnitsBack(o, ActiveStatus)
        BY <3>3, <4>1 DEF UnitsBack, ReturnsOf
      <4> QED BY <4>2, <2>1 DEF CreateReturn
    <3>5. ReturnedOnce'
      <4> SUFFICES ASSUME NEW x \in Returns, ret'[x].status # "none"
                   PROVE  /\ ret'[x].units \subseteq order'[ret'[x].order].lines
                          /\ \A y \in Returns \ {x} :
                               /\ {ret'[x].status, ret'[y].status} \cap {"none", "rejected"} = {}
                               /\ ret'[x].order = ret'[y].order
                               => ret'[x].units \cap ret'[y].units = {}
        BY DEF ReturnedOnce
      <4>1. CASE x = r
        <5>1. ret'[x].units = units /\ ret'[x].order = o
          BY <4>1, <3>1
        <5>2. ASSUME NEW y \in Returns \ {x}, ret'[y].order = o,
                     {ret'[x].status, ret'[y].status} \cap {"none", "rejected"} = {}
              PROVE  units \cap ret'[y].units = {}
          BY <4>1, <5>2, <3>1, <3>3
        <5> QED BY <5>1, <5>2, <3>1
      <4>2. CASE x # r
        <5>1. ret'[x] = ret[x] /\ ret[x].status # "none"
          BY <4>2, <3>1
        <5>2. ret[x].units \subseteq order[ret[x].order].lines
          BY <5>1, <1>a DEF ReturnedOnce
        <5>3. ASSUME NEW y \in Returns \ {x, r}, ret[x].order = ret[y].order,
                     {ret[x].status, ret[y].status} \cap {"none", "rejected"} = {}
              PROVE  ret[x].units \cap ret[y].units = {}
          BY <5>1, <5>3, <1>a DEF ReturnedOnce
        <5>4. ASSUME ret[x].order = o, ret[x].status # "rejected"
              PROVE  ret[x].units \cap units = {}
          BY <5>1, <5>4, <4>2, <3>3
        <5>5. ASSUME NEW y \in Returns \ {x}, ret'[x].order = ret'[y].order,
                     {ret'[x].status, ret'[y].status} \cap {"none", "rejected"} = {}
              PROVE  ret'[x].units \cap ret'[y].units = {}
          <6>1. CASE y = r
            <7>1. ret'[y].order = o /\ ret'[y].units = units
              BY <6>1, <3>1
            <7>2. ret[x].status # "rejected"
              BY <5>1, <5>5
            <7>3. ret[x].order = o
              BY <5>1, <5>5, <7>1
            <7> QED BY <7>1, <7>2, <7>3, <5>1, <5>4
          <6>2. CASE y # r
            BY <6>2, <5>1, <5>3, <5>5, <3>1
          <6> QED BY <6>1, <6>2
        <5> QED BY <5>1, <5>2, <5>5, <3>1
      <4> QED BY <4>1, <4>2
    <3> QED BY <3>2, <3>5
  <2>2. ASSUME ApproveReturn(r) \/ RejectReturn(r) PROVE Goal'
    <3>1. /\ UNCHANGED <<order, payments>>
          /\ ret[r].status \in {"pending", "approved"}
          /\ \A x \in Returns : /\ ret'[x].order = ret[x].order
                                /\ ret'[x].units = ret[x].units
                                /\ ret'[x].good = ret[x].good
                                /\ x # r => ret'[x].status = ret[x].status
      BY <2>2, <1>a, ReturnStatusSet
         DEF ApproveReturn, RejectReturn, TypeOK, ReturnStatus
    <3>2. ReferredIsPosted'
      BY <3>1, <1>a DEF ReferredIsPosted
    <3>3. ReturnedOnce'
      BY <3>1, <1>a DEF ReturnedOnce
    <3> QED BY <3>2, <3>3
  <2>3. ASSUME ProcessReturn(r) PROVE Goal'
    <3>1. /\ UNCHANGED payments
          /\ ret[r].status = "approved"
          /\ \A x \in Returns : /\ ret'[x].order = ret[x].order
                                /\ ret'[x].units = ret[x].units
                                /\ ret'[x].good = ret[x].good
                                /\ x # r => ret'[x].status = ret[x].status
      BY <2>3, <1>a, ReturnStatusSet DEF ProcessReturn, TypeOK, ReturnStatus
    <3>2. ret[r].order \in Orders /\ order[ret[r].order].status \in Posted
      BY <3>1, <1>a DEF ReferredIsPosted
    <3>3. MaybeCompleted(ret[r].order)
      BY <2>3 DEF ProcessReturn, MaybeCompleted
    <3>4. \A x \in Orders : /\ order'[x].lines = order[x].lines
                            /\ order[x].status \in Posted => order'[x].status \in Posted
      BY <3>2, <3>3, <1>a, Maybe
    <3>5. ReferredIsPosted'
      BY <3>1, <3>4, <1>a DEF ReferredIsPosted
    <3>6. \A x \in Returns : ret[x].status # "none" => ret[x].order \in Orders
      BY <1>a DEF ReferredIsPosted
    <3>7. ReturnedOnce'
      BY <3>1, <3>4, <3>6, <1>a DEF ReturnedOnce
    <3> QED BY <3>5, <3>7
  <2>4. ASSUME ReadForDelete(r) PROVE FALSE
    BY <2>4 DEF ReadForDelete
  <2>5. ASSUME DeleteReturn(r) PROVE Goal'
    <3>1. /\ UNCHANGED <<order, payments>>
          /\ ret'[r].status = "none"
          /\ \A x \in Returns \ {r} : ret'[x] = ret[x]
      BY <2>5, <1>a DEF DeleteReturn, NoReturn, TypeOK
    <3>2. ReferredIsPosted'
      BY <3>1, <1>a DEF ReferredIsPosted
    <3>3. ReturnedOnce'
      BY <3>1, <1>a DEF ReturnedOnce
    <3> QED BY <3>2, <3>3
  <2> QED BY <1>6, <2>1, <2>2, <2>3, <2>4, <2>5 DEF TakeBack
<1>7. ASSUME NEW q \in QuoteItems, ReleaseReservation(q) PROVE Goal'
  BY <1>7, ReferencesOfPosted DEF ReleaseReservation
<1>8. CASE UNCHANGED vars
  BY <1>8, ReferencesOfPosted DEF vars
<1> QED BY <1>1, <1>2, <1>3, <1>4, <1>5, <1>6, <1>7, <1>8, <1>9 DEF Next

-----------------------------------------------------------------------------
(* Custody *)

\* Nothing has come back of an order that is not posted.
LEMMA NothingBack ==
  ASSUME CustodyInv, NEW o \in Orders, order[o].status \notin Posted
  PROVE  \A u : ~CameBack(o, u)
BY DEF CustodyInv, ReferredIsPosted, CameBack

\* So a pending order holds every unit on its lines.
LEMMA PendingHoldsAll ==
  ASSUME CustodyInv, NEW o \in Orders, order[o].status \in Pending,
         NEW u \in order[o].lines
  PROVE  Holds(o, u)
BY NothingBack, HoldsMeans, StatusNames

\* A step on an order that is not posted: what the order holds afterwards is on
\* its new lines, and the others hold what they held.
LEMMA HoldsAfterUnposted ==
  ASSUME CustodyInv, NEW o \in Orders, UNCHANGED ret,
         \A x \in Orders \ {o} : order'[x] = order[x]
  PROVE  /\ \A x \in Orders \ {o}, u \in Units : Holds(x, u)' => Holds(x, u)
         /\ \A u \in Units : Holds(o, u)' =>
              /\ order'[o].status \in Pending \cup Posted
              /\ u \in order'[o].lines
              /\ ~CameBack(o, u)
<1>1. \A x, u : CameBack(x, u)' <=> CameBack(x, u)
  BY DEF CameBack
<1> QED BY <1>1, HoldsMeans, HoldsMeansNext

\* Neither the shelf nor an undisturbed reservation holds a unit of an order.
LEMMA UnheldSources ==
  ASSUME CustodyInv, Calls = {}, NEW u \in Units, NEW x \in Orders
  PROVE  /\ u \in Available => ~Holds(x, u)
         /\ \A q : PoolUndisturbed(q) /\ u \in Pool(q) => ~Holds(x, u)
<1>1. u \in Available => ~Holds(x, u)
  BY DEF CustodyInv, HolderMatchesStock, Available
<1>2. ASSUME NEW q, PoolUndisturbed(q), u \in Pool(q) PROVE ~Holds(x, u)
  BY <1>2 DEF PoolUndisturbed, Held
<1> QED BY <1>1, <1>2

\* A live order keeps its units to itself.
LEMMA NoOtherHolder ==
  ASSUME CustodyInv, NEW o \in Orders, NEW x \in Orders \ {o}, NEW u \in Units,
         Holds(o, u)
  PROVE  ~Holds(x, u)
BY DEF CustodyInv, OneHolder

\* A step that serves one order keeps custody if the units it touches are no
\* one else's and those left on a live order have the status that goes with it.
LEMMA Served ==
  ASSUME CustodyInv, NEW o \in Orders, NEW S, UNCHANGED ret,
         \A x \in Orders \ {o} : order'[x] = order[x],
         \A u \in Units \ S : stock'[u] = stock[u],
         \A u \in S \cap Units, x \in Orders \ {o} : ~Holds(x, u),
         order'[o].status \in Pending \cup Posted =>
           \A u \in order'[o].lines \cap Units : u \in S /\ stock'[u] = HeldAs(o)'
  PROVE  OneHolder' /\ HolderMatchesStock'
<1>1. \A x \in Orders \ {o}, u \in Units :
        Holds(x, u)' => /\ Holds(x, u)
                        /\ stock'[u] = stock[u]
                        /\ order'[x].status = order[x].status
  BY HoldsAfterUnposted
<1>2. \A u \in Units : Holds(o, u)' => /\ \A x \in Orders \ {o} : ~Holds(x, u)
                                       /\ stock'[u] = HeldAs(o)'
  BY HoldsAfterUnposted
<1> QED BY <1>1, <1>2, Handover DEF CustodyInv

\* A step that moves no unit, and no order in or out of the posted ones, keeps
\* custody, as long as nothing comes back.
LEMMA Untouched ==
  ASSUME CustodyInv,
         \A x, u : CameBack(x, u)' <=> CameBack(x, u),
         \A u \in Units : Held(u) => stock'[u] = stock[u],
         \A x \in Orders : /\ order'[x].lines = order[x].lines
                           /\ \/ order'[x].status = order[x].status
                              \/ {order[x].status, order'[x].status} \subseteq Posted
  PROVE  OneHolder' /\ HolderMatchesStock'
<1>1. \A x \in Orders : \A u : Holds(x, u)' => Holds(x, u)
  <2> TAKE x \in Orders
  <2> TAKE u
  <2>1. order'[x].status \in Pending \cup Posted => order[x].status \in Pending \cup Posted
    OBVIOUS
  <2> QED BY <2>1, HoldsMeans, HoldsMeansNext
<1>2. OneHolder'
  BY <1>1 DEF OneHolder, CustodyInv
<1>3. \A x \in Orders : order'[x].status \in Pending <=> order[x].status \in Pending
  BY StatusNames
<1>4. HolderMatchesStock'
  BY <1>1, <1>3 DEF HolderMatchesStock, CustodyInv, Held
<1> QED BY <1>2, <1>4

LEMMA SameReturns ==
  ASSUME UNCHANGED ret PROVE \A x, u : CameBack(x, u)' <=> CameBack(x, u)
BY DEF CameBack

LEMMA CustodyOfCreation ==
  ASSUME CustodyInv, Calls = {}, NEW o \in Orders, NewOrder(o)
  PROVE  OneHolder' /\ HolderMatchesStock'
<1>a. TypeOK
  BY DEF CustodyInv
<1>1. ASSUME NEW m \in Methods, NEW q \in QuoteItems \cup {None},
             NEW lines \in SUBSET Units, CreateOrder(o, m, q, lines)
      PROVE  OneHolder' /\ HolderMatchesStock'
  <2>1. /\ \A x \in Orders \ {o} : order'[x] = order[x]
        /\ order'[o].status = FirstStatus(m) /\ order'[o].lines = lines
        /\ UNCHANGED ret
    BY <1>1, <1>a DEF CreateOrder, TypeOK
  <2>2. \A u \in Units : stock'[u] = IF u \in lines
                                       THEN IF m = "cash" THEN "sold" ELSE "reserved"
                                       ELSE stock[u]
    BY <1>1, <1>a DEF CreateOrder, SetStock
  <2>3. \A u \in lines, x \in Orders : ~Holds(x, u)
    BY <1>1, UnheldSources DEF CreateOrder
  <2>4. FirstStatus(m) \in Pending <=> m # "cash"
    <3>1. m = "credit" \/ m = "bank" \/ m = "cash"
      BY DEF Methods
    <3> QED BY <3>1 DEF FirstStatus, Pending
  <2>5. \A u \in lines : stock'[u] = HeldAs(o)'
    BY <2>1, <2>2, <2>4 DEF HeldAs
  <2> QED BY <2>1, <2>2, <2>3, <2>5, Served
<1>2. ASSUME NEW m \in Methods, NEW q \in QuoteItems,
             NEW lines \in SUBSET Units, CreatePartialOrder(o, m, q, lines)
      PROVE  OneHolder' /\ HolderMatchesStock'
  <2>1. /\ \A x \in Orders \ {o} : order'[x] = order[x]
        /\ order'[o].status = "pending_approval" /\ order'[o].lines = lines
        /\ UNCHANGED ret
    BY <1>2, <1>a DEF CreatePartialOrder, TypeOK
  <2>2. \A u \in Units : stock'[u] = IF u \in lines THEN "reserved" ELSE stock[u]
    BY <1>2, <1>a DEF CreatePartialOrder, SetStock
  <2>3. \A u \in lines, x \in Orders : ~Holds(x, u)
    BY <1>2, UnheldSources DEF CreatePartialOrder
  <2>5. \A u \in lines : stock'[u] = HeldAs(o)'
    BY <2>1, <2>2, StatusNames DEF HeldAs
  <2> QED BY <2>1, <2>2, <2>3, <2>5, Served
<1> QED BY <1>1, <1>2 DEF NewOrder

LEMMA CustodyOfEdit ==
  ASSUME CustodyInv, Calls = {}, NEW o \in Orders, Edit(o)
  PROVE  OneHolder' /\ HolderMatchesStock'
<1>a. TypeOK /\ reopening = {}
  BY DEF CustodyInv
<1>1. PICK lines \in SUBSET Units : EditLines(o, lines)
  BY <1>a DEF Edit, SaveCompleted, Reopen
<1>2. /\ \A x \in Orders \ {o} : order'[x] = order[x]
      /\ order'[o].status = "pending_approval" /\ order'[o].lines = lines
      /\ UNCHANGED ret
  BY <1>1, <1>a DEF EditLines, TypeOK, OrderRow
<1>3. \A u \in Units : /\ u \in lines => stock'[u] = "reserved"
                       /\ u \notin lines \cup Releasable(o) => stock'[u] = stock[u]
  BY <1>1, <1>a DEF EditLines
<1>4. \A u \in Releasable(o) : Holds(o, u)
  BY <1>1, PendingHoldsAll, StatusNames DEF EditLines, Releasable, WithStatus
<1>5. \A u \in Units \cap (lines \cup Releasable(o)), x \in Orders \ {o} : ~Holds(x, u)
  BY <1>1, <1>4, UnheldSources, NoOtherHolder DEF EditLines
<1>6. \A u \in lines : stock'[u] = HeldAs(o)'
  BY <1>2, <1>3, StatusNames DEF HeldAs
<1> DEFINE S == lines \cup Releasable(o)
<1>7. \A u \in Units \ S : stock'[u] = stock[u]
  BY <1>3
<1> HIDE DEF S
<1>8. lines \subseteq S /\ \A u \in S \cap Units, x \in Orders \ {o} : ~Holds(x, u)
  BY <1>5 DEF S
<1> QED BY <1>2, <1>6, <1>7, <1>8, Served

\* Decisions about an order that is not posted yet.
LEMMA CustodyOfPendingDecision ==
  ASSUME CustodyInv, Calls = {}, NEW o \in Orders,
         Approve(o) \/ Cancel(o) \/ Reject(o) \/ Delete(o) \/ VerifyBank(o)
           \/ RejectBank(o)
  PROVE  OneHolder' /\ HolderMatchesStock'
<1>a. TypeOK /\ HolderMatchesStock
  BY DEF CustodyInv
<1> DEFINE S == order[o].lines
<1>1. order[o].status \in Pending
  BY StatusNames DEF Approve, Cancel, Reject, CancelInto, Delete, VerifyBank, RejectBank
<1>2. UNCHANGED ret /\ \A x \in Orders \ {o} : order'[x] = order[x]
  BY <1>a DEF Approve, Cancel, Reject, CancelInto, Delete, VerifyBank, RejectBank, TypeOK
<1>3. S \subseteq Units
  BY <1>a DEF TypeOK, OrderRow
<1>4. \A u \in S : Holds(o, u) /\ stock[u] = "reserved"
  BY <1>1, <1>3, <1>a, PendingHoldsAll DEF HolderMatchesStock
<1>5. \A u \in S, x \in Orders \ {o} : ~Holds(x, u)
  BY <1>3, <1>4, NoOtherHolder
<1>6. \A u \in Units \ S : stock'[u] = stock[u]
  BY <1>a DEF Approve, Cancel, Reject, CancelInto, Delete, VerifyBank, RejectBank,
              SetStock, WithStatus, Releasable
<1>7. ASSUME order'[o].status \in Pending \cup Posted
      PROVE  /\ order'[o].status \in Posted /\ order'[o].lines = S
             /\ \A u \in S : stock'[u] = "sold"
  <2>1. ~Cancel(o) /\ ~Reject(o) /\ ~RejectBank(o)
    BY <1>7, <1>a, StatusSet, StatusNames DEF Cancel, Reject, CancelInto, RejectBank, TypeOK
  <2>2. ~Delete(o)
    BY <1>7, <1>a, StatusNames DEF Delete, NoOrder, TypeOK
  <2>3. /\ order'[o].status \in Posted /\ order'[o].lines = S
    <3>1. PICK s \in Posted : order' = [order EXCEPT ![o].status = s]
      BY <2>1, <2>2, StatusNames DEF Approve, VerifyBank
    <3> QED BY <3>1, <1>a, StatusSet, StatusNames DEF TypeOK
  <2>4. \A u \in S : stock'[u] = "sold"
    BY <2>1, <2>2, <1>3, <1>4 DEF Approve, VerifyBank, SetStock, WithStatus
  <2> QED BY <2>3, <2>4
<1>8. order'[o].status \in Pending \cup Posted =>
        \A u \in order'[o].lines \cap Units : u \in S /\ stock'[u] = HeldAs(o)'
  BY <1>7, StatusNames DEF HeldAs
<1> HIDE DEF S
<1> QED BY <1>2, <1>5, <1>6, <1>8, Served

\* complete_invoice marks every line sold: right as long as none came back.
LEMMA CustodyOfComplete ==
  ASSUME CustodyInv, Calls = {}, NEW o \in Orders, Complete(o)
  PROVE  OneHolder' /\ HolderMatchesStock'
<1>a. TypeOK
  BY DEF CustodyInv
<1> DEFINE S == order[o].lines
<1>1. /\ UNCHANGED ret /\ \A x \in Orders \ {o} : order'[x] = order[x]
      /\ order'[o].status = "completed" /\ order'[o].lines = S
      /\ order[o].status = "approved"
  <2>1. order' = [order EXCEPT ![o].status = "completed"]
    BY DEF Complete
  <2>2. \A x \in Orders \ {o} : order'[x] = order[x]
    BY <2>1, <1>a DEF TypeOK
  <2>3. order'[o].status = "completed" /\ order'[o].lines = S
    BY <2>1, <1>a, StatusSet, StatusNames DEF TypeOK
  <2> QED BY <2>2, <2>3 DEF Complete
<1>2. S \subseteq Units
  BY <1>a DEF TypeOK, OrderRow
<1>3. \A u \in S : Holds(o, u)
  <2>1. \A u : ~CameBack(o, u)
    BY DEF Complete, ReturnsOf, CameBack
  <2> QED BY <1>1, <2>1, HoldsMeans, StatusNames
<1>4. \A u \in Units : stock'[u] = IF u \in S THEN "sold" ELSE stock[u]
  BY <1>a DEF Complete, SetStock
<1>5. \A u \in S, x \in Orders \ {o} : ~Holds(x, u)
  BY <1>2, <1>3, NoOtherHolder
<1>6. \A u \in order'[o].lines \cap Units : u \in S /\ stock'[u] = HeldAs(o)'
  BY <1>1, <1>4, StatusNames DEF HeldAs
<1> HIDE DEF S
<1> QED BY <1>1, <1>4, <1>5, <1>6, Served

LEMMA CustodyOfSettlement ==
  ASSUME CustodyInv, NEW o \in Orders, Settle(o)
  PROVE  OneHolder' /\ HolderMatchesStock'
<1>a. TypeOK /\ ReferredIsPosted
  BY DEF CustodyInv
<1>1. UNCHANGED <<stock, ret>>
  BY DEF Settle, SettleNow, SubmitTransfer, VerifyTransfer, RejectTransfer,
        BalanceReopened, TenderBounced
<1>2. \A x \in Orders : /\ order'[x].lines = order[x].lines
                        /\ \/ order'[x].status = order[x].status
                           \/ {order[x].status, order'[x].status} \subseteq Posted
  <2>1. CASE TenderBounced(o)
    BY <2>1, <1>a, BouncedTender
  <2>2. CASE BalanceReopened(o)
    BY <2>2, <1>a, StatusSet, StatusNames DEF BalanceReopened, TypeOK
  <2>3. CASE ~TenderBounced(o) /\ ~BalanceReopened(o)
    <3>1. MaybeCompleted(o) /\ order[o].status \in Posted
      BY <2>3, <1>a DEF Settle, SettleNow, SubmitTransfer, VerifyTransfer,
            RejectTransfer, MaybeCompleted, Open, ReferredIsPosted
    <3> QED BY <3>1, <1>a, Maybe
  <2> QED BY <2>1, <2>2, <2>3
<1> QED BY <1>1, <1>2, SameReturns, Untouched

\* A return changes hands only when it is processed: its units leave the order.
LEMMA CustodyOfProcess ==
  ASSUME CustodyInv, NEW r \in Returns, ProcessReturn(r)
  PROVE  OneHolder' /\ HolderMatchesStock'
<1>a. TypeOK /\ ReferredIsPosted /\ ReturnedOnce /\ HolderMatchesStock
  BY DEF CustodyInv
<1>b. ret[r].status = "approved" /\ ret[r].order \in Orders
  BY <1>a DEF ProcessReturn, ReferredIsPosted
<1>0. PICK o \in Orders, S \in {ret[r].units} :
        o = ret[r].order /\ S = ret[r].units
  BY <1>b
<1>1. /\ \A x \in Returns : /\ ret'[x].order = ret[x].order
                            /\ ret'[x].units = ret[x].units
                            /\ x # r => ret'[x].status = ret[x].status
      /\ ret[r].status = "approved" /\ ret'[r].status = "processed"
  BY <1>a, ReturnStatusSet DEF ProcessReturn, TypeOK, ReturnStatus
<1>2. o \in Orders /\ order[o].status \in Posted /\ S \subseteq order[o].lines
      /\ ret[r].good \subseteq S
  BY <1>0, <1>1, <1>a DEF ReferredIsPosted, ReturnedOnce
<1>3. \A x \in Orders : /\ order'[x].lines = order[x].lines
                        /\ x # o => order'[x].status = order[x].status
                        /\ order'[x].status \in Posted <=> order[x].status \in Posted
  <2>1. MaybeCompleted(o)
    BY <1>0 DEF ProcessReturn, MaybeCompleted
  <2> QED BY <2>1, <1>2, <1>a, Maybe
<1>4. \A u \in S : Holds(o, u)
  <2> TAKE u \in S
  <2>1. ~CameBack(o, u)
    <3> SUFFICES ASSUME NEW x \in Returns, ret[x].order = o,
                        ret[x].status = "processed", u \in ret[x].units
                 PROVE  FALSE
      BY DEF CameBack
    <3>1. x # r
      BY <1>1
    <3>2. {ret[r].status, ret[x].status} \cap {"none", "rejected"} = {}
      BY <1>1
    <3>3. ret[r].units \cap ret[x].units = {}
      BY <1>0, <3>1, <3>2, <1>1, <1>a DEF ReturnedOnce
    <3> QED BY <1>0, <3>3
  <2> QED BY <2>1, <1>2, HoldsMeans
<1>5. S \subseteq Units
  BY <1>0, <1>a DEF TypeOK, ReturnRow
<1>6. \A u \in S, x \in Orders \ {o} : ~Holds(x, u)
  BY <1>2, <1>4, <1>5, NoOtherHolder
<1>7. \A x, u : CameBack(x, u)' <=> CameBack(x, u) \/ (x = o /\ u \in S)
  BY <1>0, <1>1 DEF CameBack
<1>8. \A u \in Units \ S : stock'[u] = stock[u]
  BY <1>0, <1>2, <1>a DEF ProcessReturn, Restocked, Scrapped, WithStatus
<1>9. \A x \in Orders \ {o}, u \in Units :
        Holds(x, u)' => /\ Holds(x, u)
                        /\ stock'[u] = stock[u]
                        /\ order'[x].status = order[x].status
  BY <1>3, <1>6, <1>7, <1>8, HoldsMeans, HoldsMeansNext
<1>10. \A u \in Units : Holds(o, u)' => /\ \A x \in Orders \ {o} : ~Holds(x, u)
                                        /\ stock'[u] = HeldAs(o)'
  <2> SUFFICES ASSUME NEW u \in Units, Holds(o, u)'
               PROVE  /\ \A x \in Orders \ {o} : ~Holds(x, u)
                      /\ stock'[u] = HeldAs(o)'
    OBVIOUS
  <2>1. Holds(o, u) /\ u \notin S
    BY <1>2, <1>3, <1>7, HoldsMeans, HoldsMeansNext
  <2>2. stock'[u] = "sold" /\ order'[o].status \notin Pending
    BY <2>1, <1>2, <1>3, <1>8, <1>a, StatusNames DEF HolderMatchesStock
  <2> QED BY <2>1, <2>2, <1>2, NoOtherHolder DEF HeldAs
<1> QED BY <1>2, <1>9, <1>10, Handover DEF CustodyInv

LEMMA CustodyOfReturn ==
  ASSUME CustodyInv, Calls = {}, NEW r \in Returns, TakeBack(r)
  PROVE  OneHolder' /\ HolderMatchesStock'
<1>a. TypeOK /\ deleting = {}
  BY DEF CustodyInv
<1>1. ASSUME NEW o \in Orders, NEW units \in SUBSET Units,
             NEW good \in SUBSET Units, CreateReturn(r, o, units, good)
      PROVE  OneHolder' /\ HolderMatchesStock'
  <2>1. \A x, u : CameBack(x, u)' <=> CameBack(x, u)
    BY <1>1, <1>a DEF CreateReturn, CameBack, TypeOK
  <2> QED BY <1>1, <2>1, Untouched DEF CreateReturn
<1>2. ASSUME ApproveReturn(r) \/ RejectReturn(r)
      PROVE  OneHolder' /\ HolderMatchesStock'
  <2>1. /\ ret[r].status # "processed" /\ ret'[r].status # "processed"
        /\ \A x \in Returns \ {r} : ret'[x] = ret[x]
    BY <1>2, <1>a, ReturnStatusSet DEF ApproveReturn, RejectReturn, TypeOK, ReturnStatus
  <2>2. \A x, u : CameBack(x, u)' <=> CameBack(x, u)
    BY <2>1 DEF CameBack
  <2> QED BY <1>2, <2>2, Untouched DEF ApproveReturn, RejectReturn
<1>3. ASSUME DeleteReturn(r) PROVE OneHolder' /\ HolderMatchesStock'
  <2>1. /\ ret[r].status # "processed" /\ ret'[r].status # "processed"
        /\ \A x \in Returns \ {r} : ret'[x] = ret[x]
    BY <1>3, <1>a DEF DeleteReturn, Deletable, NoReturn, TypeOK
  <2>2. \A x, u : CameBack(x, u)' <=> CameBack(x, u)
    BY <2>1 DEF CameBack
  <2> QED BY <1>3, <2>2, Untouched DEF DeleteReturn
<1> QED BY <1>1, <1>2, <1>3, CustodyOfProcess DEF TakeBack, ReadForDelete

LEMMA CustodyKept ==
  ASSUME CustodyInv, Calls = {}, [Next]_vars
  PROVE  OneHolder' /\ HolderMatchesStock'
<1>1. ASSUME NEW o \in Orders, Decide(o) PROVE OneHolder' /\ HolderMatchesStock'
  BY <1>1, CustodyOfPendingDecision, CustodyOfComplete DEF Decide
<1>2. ASSUME NEW q \in QuoteItems, ReleaseReservation(q)
      PROVE  OneHolder' /\ HolderMatchesStock'
  <2>1. \A u \in Units : Held(u) => stock'[u] = stock[u]
    BY <1>2 DEF ReleaseReservation, SetStock, PoolUndisturbed
  <2> QED BY <1>2, <2>1, SameReturns, Untouched DEF ReleaseReservation
<1>3. CASE UNCHANGED vars
  BY <1>3, SameReturns, Untouched DEF vars
<1> QED BY <1>1, <1>2, <1>3, CustodyOfCreation, CustodyOfEdit, CustodyOfSettlement,
           CustodyOfReturn DEF Next

-----------------------------------------------------------------------------
\* With the risky requests excluded, the invariant holds in every state.
THEOREM CustodyInvariant == ASSUME Calls = {} PROVE Spec => []CustodyInv
<1>1. Init => CustodyInv
  <2> SUFFICES ASSUME Init PROVE CustodyInv
    OBVIOUS
  <2>1. \A o \in Orders : \A u : ~Holds(o, u)
    BY DEF Init, NoOrder, Holds, Pending, Posted
  <2>2. TypeOK
    BY DEF Init, TypeOK, NoOrder, NoReturn, StockStatus, OrderStatus, Methods,
           ReturnStatus, OrderRow, ReturnRow
  <2> QED BY <2>1, <2>2 DEF Init, CustodyInv, ReferredIsPosted, ReturnedOnce,
             OneHolder, HolderMatchesStock, NoReturn
<1>2. CustodyInv /\ [Next]_vars /\ TypeOK' => CustodyInv'
  <2> SUFFICES ASSUME CustodyInv, [Next]_vars, TypeOK' PROVE CustodyInv'
    OBVIOUS
  <2>1. (reopening = {} /\ deleting = {})'
    <3>a. Calls = {} /\ reopening = {} /\ deleting = {}
      BY DEF CustodyInv
    <3>1. ASSUME NEW o \in Orders, NewOrder(o) \/ Edit(o)
          PROVE  (reopening = {} /\ deleting = {})'
      BY <3>1, <3>a DEF NewOrder, CreateOrder, CreatePartialOrder, Edit,
            EditLines, SaveCompleted, Reopen
    <3>2. ASSUME NEW o \in Orders, Decide(o)
          PROVE  (reopening = {} /\ deleting = {})'
      BY <3>2, <3>a DEF Decide, Approve, Complete, Cancel, Reject, CancelInto,
            Delete, VerifyBank, RejectBank
    <3>3. ASSUME NEW o \in Orders, Settle(o)
          PROVE  (reopening = {} /\ deleting = {})'
      BY <3>3, <3>a DEF Settle, SettleNow, SubmitTransfer, VerifyTransfer,
            RejectTransfer, BalanceReopened, TenderBounced
    <3>4. ASSUME NEW r \in Returns, TakeBack(r)
          PROVE  (reopening = {} /\ deleting = {})'
      BY <3>4, <3>a DEF TakeBack, CreateReturn, ApproveReturn, RejectReturn,
            ProcessReturn, ReadForDelete, DeleteReturn
    <3>5. ASSUME NEW q \in QuoteItems, ReleaseReservation(q)
          PROVE  (reopening = {} /\ deleting = {})'
      BY <3>5, <3>a DEF ReleaseReservation
    <3> QED BY <3>a, <3>1, <3>2, <3>3, <3>4, <3>5 DEF Next, vars
  <2> QED BY <2>1, ReferencesKept, CustodyKept DEF CustodyInv
<1> QED BY <1>1, <1>2, TypeCorrect, PTL DEF Spec

\* At most one order answers for a physical unit, for any number of orders,
\* units and returns: what the barcode locks of create_invoice are for.
THEOREM OneHolderAlways == ASSUME Calls = {} PROVE Spec => []OneHolder
<1>1. CustodyInv => OneHolder
  BY DEF CustodyInv
<1> QED BY <1>1, CustodyInvariant, PTL

\* The stock row says what the order that holds the unit says.
THEOREM HolderMatchesStockAlways ==
  ASSUME Calls = {} PROVE Spec => []HolderMatchesStock
<1>1. CustodyInv => HolderMatchesStock
  BY DEF CustodyInv
<1> QED BY <1>1, CustodyInvariant, PTL

\* No unit is returned twice on one sale, and only units of the sale are.
THEOREM ReturnedOnceAlways == ASSUME Calls = {} PROVE Spec => []ReturnedOnce
<1>1. CustodyInv => ReturnedOnce
  BY DEF CustodyInv
<1> QED BY <1>1, CustodyInvariant, PTL

-----------------------------------------------------------------------------
(***************************************************************************)
(* The papers: what SalesOrders keeps besides custody.  The approvers'     *)
(* queue, a paper for every unit that is out of stock, and what is never   *)
(* undone.                                                                 *)
(***************************************************************************)

\* The queue as one order sees it.  A slot nobody uses has no request: what
\* delete_invoice leaves behind would otherwise pass for a decision about the
\* next order.
Queued(o) ==
  /\ order[o].status = "pending_approval" => approval[o] \in {"pending", "none"}
  /\ approval[o] = "pending" => order[o].status = "pending_approval"
  /\ order[o].status = "none" => approval[o] = "none"

QueueInv == \A o \in Orders : Queued(o)

\* A scrapped unit never gets into stock again, so that a later return cannot
\* meet a unit that has its asset row already.
AssetsAreGone == \A u \in assets : stock[u] = "returned"

PapersInv == CustodyInv /\ QueueInv /\ NoStrandedUnit /\ AssetsAreGone

-----------------------------------------------------------------------------
(* What is decided stays decided *)

LEMMA PostedStays ==
  ASSUME CustodyInv, Calls = {}, Next
  PROVE  PostedIsFinal /\ CancelledIsFinal
<1> DEFINE Goal == \A x \in Orders :
             /\ order[x].status \in Posted =>
                  order'[x].status \in Posted /\ order'[x].lines = order[x].lines
             /\ order[x].status = "cancelled" => order'[x].status = "cancelled"
<1>a. TypeOK /\ ReferredIsPosted /\ reopening = {} /\ deleting = {}
  BY DEF CustodyInv
<1>1. ASSUME NEW o \in Orders, order[o].status \notin Posted \cup {"cancelled"},
             \A x \in Orders \ {o} : order'[x] = order[x]
      PROVE  Goal
  BY <1>1
<1>2. ASSUME NEW o \in Orders, NewOrder(o) \/ Edit(o) PROVE Goal
  <2>1. ~SaveCompleted(o) /\ ~Reopen(o)
    BY <1>a DEF SaveCompleted, Reopen
  <2>2. order[o].status \in {"none", "pending_approval"}
        /\ \A x \in Orders \ {o} : order'[x] = order[x]
    BY <1>2, <2>1, <1>a
       DEF NewOrder, CreateOrder, CreatePartialOrder, Edit, EditLines, TypeOK
  <2> QED BY <2>2, <1>1, StatusNames
<1>3. ASSUME NEW o \in Orders, Decide(o), ~Complete(o) PROVE Goal
  <2>1. order[o].status \in Pending
    BY <1>3, StatusNames DEF Decide, Approve, Cancel, Reject, CancelInto, Delete,
          VerifyBank, RejectBank
  <2>2. \A x \in Orders \ {o} : order'[x] = order[x]
    BY <1>3, <1>a DEF Decide, Approve, Cancel, Reject, CancelInto, Delete,
          VerifyBank, RejectBank, TypeOK
  <2> QED BY <2>1, <2>2, <1>1, StatusNames
<1>4. ASSUME \A x \in Orders :
               /\ order'[x].lines = order[x].lines
               /\ \/ order'[x].status = order[x].status
                  \/ {order[x].status, order'[x].status} \subseteq Posted
      PROVE  Goal
  BY <1>4, StatusNames
<1>5. ASSUME NEW o \in Orders, order[o].status \in Posted,
             MaybeCompleted(o) \/ BalanceReopened(o) \/ Complete(o)
      PROVE  Goal
  <2>1. CASE MaybeCompleted(o)
    BY <2>1, <1>5, <1>a, <1>4, Maybe
  <2>2. CASE BalanceReopened(o) \/ Complete(o)
    BY <2>2, <1>5, <1>a, <1>4, StatusSet, StatusNames
       DEF BalanceReopened, Complete, TypeOK
  <2> QED BY <1>5, <2>1, <2>2
<1>6. ASSUME NEW o \in Orders, Settle(o) PROVE Goal
  <2>1. CASE TenderBounced(o)
    BY <2>1, <1>a, <1>4, BouncedTender
  <2>2. CASE ~TenderBounced(o)
    <3>1. order[o].status \in Posted
      BY <1>6, <2>2, <1>a, StatusNames DEF Settle, SettleNow, SubmitTransfer,
            VerifyTransfer, RejectTransfer, BalanceReopened, Open, ReferredIsPosted
    <3>2. MaybeCompleted(o) \/ BalanceReopened(o)
      BY <1>6, <2>2 DEF Settle, SettleNow, SubmitTransfer, VerifyTransfer,
            RejectTransfer, MaybeCompleted
    <3> QED BY <3>1, <3>2, <1>5
  <2> QED BY <2>1, <2>2
<1>7. ASSUME NEW r \in Returns, ProcessReturn(r) PROVE Goal
  <2>1. ret[r].order \in Orders /\ order[ret[r].order].status \in Posted
    BY <1>7, <1>a DEF ProcessReturn, ReferredIsPosted
  <2>2. MaybeCompleted(ret[r].order)
    BY <1>7 DEF ProcessReturn, MaybeCompleted
  <2> QED BY <2>1, <2>2, <1>5
<1>8. ASSUME UNCHANGED order PROVE Goal
  BY <1>8
<1>9. Goal
  <2>1. ASSUME NEW o \in Orders, Complete(o) PROVE Goal
    BY <2>1, <1>5, StatusNames DEF Complete
  <2>2. ASSUME NEW r \in Returns, TakeBack(r), ~ProcessReturn(r)
        PROVE  UNCHANGED order
    BY <2>2 DEF TakeBack, CreateReturn, ApproveReturn, RejectReturn, ReadForDelete,
          DeleteReturn
  <2>3. ASSUME NEW q \in QuoteItems, ReleaseReservation(q) PROVE UNCHANGED order
    BY <2>3 DEF ReleaseReservation
  <2> HIDE DEF Goal
  <2> QED BY <1>2, <1>3, <1>6, <1>7, <1>8, <2>1, <2>2, <2>3 DEF Next
<1> QED BY <1>9 DEF PostedIsFinal, CancelledIsFinal

LEMMA ProcessedStays ==
  ASSUME CustodyInv, Next
  PROVE  ProcessedIsFinal
<1>a. ret \in [Returns -> ReturnRow] /\ deleting = {}
  BY DEF CustodyInv, TypeOK
<1>1. ASSUME NEW r \in Returns, TakeBack(r)
      PROVE  ret[r].status = "processed" => UNCHANGED ret
  BY <1>1, <1>a DEF TakeBack, CreateReturn, ApproveReturn, RejectReturn,
        ProcessReturn, ReadForDelete, DeleteReturn, Deletable
<1>2. ASSUME NEW r \in Returns, TakeBack(r)
      PROVE  \A x \in Returns \ {r} : ret'[x] = ret[x]
  BY <1>2, <1>a DEF TakeBack, CreateReturn, ApproveReturn, RejectReturn,
        ProcessReturn, ReadForDelete, DeleteReturn
<1>3. ASSUME NEW o \in Orders, NewOrder(o) \/ Edit(o) \/ Decide(o) \/ Settle(o)
      PROVE  UNCHANGED ret
  <2>1. CASE NewOrder(o) \/ Edit(o)
    BY <2>1 DEF NewOrder, CreateOrder, CreatePartialOrder, Edit, EditLines,
          SaveCompleted, Reopen
  <2>2. CASE Decide(o)
    BY <2>2 DEF Decide, Approve, Complete, Cancel, Reject, CancelInto, Delete,
          VerifyBank, RejectBank
  <2>3. CASE Settle(o)
    BY <2>3 DEF Settle, SettleNow, SubmitTransfer, VerifyTransfer, RejectTransfer,
          BalanceReopened, TenderBounced
  <2> QED BY <1>3, <2>1, <2>2, <2>3
<1>4. ASSUME NEW q \in QuoteItems, ReleaseReservation(q) PROVE UNCHANGED ret
  BY <1>4 DEF ReleaseReservation
<1>5. CASE UNCHANGED ret
  BY <1>5 DEF ProcessedIsFinal
<1>6. ASSUME NEW r \in Returns, TakeBack(r) PROVE ProcessedIsFinal
  <2>1. ASSUME NEW x \in Returns, ret[x].status = "processed"
        PROVE  ret'[x] = ret[x]
    BY <1>1, <1>2, <1>6, <2>1
  <2> QED BY <2>1 DEF ProcessedIsFinal
<1> QED BY <1>3, <1>4, <1>5, <1>6 DEF Next

\* A processed return, a posted order and a cancelled one are never undone by
\* any sequence of the requests the code guards, for any number of each.
THEOREM FinalStaysFinalAlways ==
  ASSUME Calls = {} PROVE Spec => FinalStaysFinal
<1>1. CustodyInv /\ [Next]_vars
        => [ProcessedIsFinal /\ PostedIsFinal /\ CancelledIsFinal]_vars
  BY PostedStays, ProcessedStays
<1> QED BY <1>1, CustodyInvariant, PTL DEF Spec, FinalStaysFinal

-----------------------------------------------------------------------------
(* The approvers' queue *)

\* A step that writes the status or the request of one order only.
LEMMA QueueOfOne ==
  ASSUME QueueInv, NEW o \in Orders, Queued(o)',
         \A x \in Orders \ {o} : /\ order'[x].status = order[x].status
                                 /\ approval'[x] = approval[x]
  PROVE  QueueInv'
BY DEF QueueInv, Queued

\* A step that moves orders between the posted statuses only.
LEMMA QueueOfPosted ==
  ASSUME QueueInv, UNCHANGED approval,
         \A x \in Orders : \/ order'[x].status = order[x].status
                           \/ {order[x].status, order'[x].status} \subseteq Posted
  PROVE  QueueInv'
<1>1. \A s \in Posted : s \notin {"pending_approval", "none"}
  BY StatusNames DEF Pending
<1> QED BY <1>1 DEF QueueInv, Queued

LEMMA QueueKept ==
  ASSUME PapersInv, Calls = {}, [Next]_vars
  PROVE  QueueInv'
<1>a. TypeOK /\ ReferredIsPosted /\ reopening = {} /\ QueueInv
  BY DEF PapersInv, CustodyInv
<1>b. approval \in [Orders -> {"none", "pending", "approved", "rejected", "cancelled"}]
  BY <1>a DEF TypeOK
<1>1. ASSUME NEW o \in Orders, NewOrder(o) PROVE QueueInv'
  <2>a. order[o].status = "none" /\ approval[o] = "none"
        /\ \A x \in Orders \ {o} : order'[x] = order[x] /\ approval'[x] = approval[x]
    BY <1>1, <1>a, <1>b
       DEF NewOrder, CreateOrder, CreatePartialOrder, TypeOK, QueueInv, Queued
  <2>1. ASSUME NEW m \in Methods, NEW q, NEW lines \in SUBSET Units,
               CreateOrder(o, m, q, lines)
        PROVE  Queued(o)'
    <3>1. m \in {"credit", "bank", "cash"}
      BY DEF Methods
    <3>2. order'[o].status = FirstStatus(m)
          /\ approval'[o] = IF m = "credit" THEN "pending" ELSE "none"
      BY <2>1, <1>a, <1>b DEF CreateOrder, TypeOK
    <3> QED BY <3>1, <3>2 DEF FirstStatus, Queued
  <2>2. ASSUME NEW m \in Methods, NEW q, NEW lines \in SUBSET Units,
               CreatePartialOrder(o, m, q, lines)
        PROVE  Queued(o)'
    BY <2>2, <2>a, <1>a DEF CreatePartialOrder, TypeOK, Queued
  <2>3. Queued(o)'
    BY <1>1, <2>1, <2>2 DEF NewOrder
  <2> QED BY <2>a, <2>3, <1>a, QueueOfOne
<1>2. ASSUME NEW o \in Orders, Edit(o) PROVE QueueInv'
  <2>1. PICK lines \in SUBSET Units : EditLines(o, lines)
    BY <1>2, <1>a DEF Edit, SaveCompleted, Reopen
  <2>2. \A x \in Orders : order'[x].status = order[x].status
    BY <2>1, <1>a DEF EditLines, TypeOK, OrderRow
  <2> QED BY <2>1, <2>2, <1>a, QueueOfPosted DEF EditLines
<1>3. ASSUME NEW o \in Orders, Decide(o), ~Complete(o) PROVE QueueInv'
  <2>a. \A x \in Orders \ {o} : order'[x].status = order[x].status
                                /\ approval'[x] = approval[x]
    BY <1>3, <1>a, <1>b DEF Decide, Approve, Cancel, Reject, CancelInto, Delete,
          VerifyBank, RejectBank, TypeOK
  <2>1. CASE Approve(o)
    <3>1. PICK s \in Posted : order' = [order EXCEPT ![o].status = s]
      BY <2>1, StatusNames DEF Approve
    <3>2. order'[o].status \in Posted /\ approval'[o] = "approved"
      BY <2>1, <3>1, <1>a, <1>b, StatusSet, StatusNames DEF Approve, TypeOK
    <3>3. Queued(o)'
      BY <3>2, StatusNames DEF Queued, Pending
    <3> QED BY <3>3, <2>a, <1>a, QueueOfOne
  <2>2. ASSUME NEW d \in {"approved", "rejected", "cancelled", "none"},
               CancelInto(o, d)
        PROVE  QueueInv'
    <3>1. order'[o].status = "cancelled" /\ approval'[o] = d
      BY <2>2, <1>a, <1>b, StatusSet, StatusNames DEF CancelInto, TypeOK
    <3>2. Queued(o)'
      BY <3>1 DEF Queued
    <3> QED BY <3>2, <2>a, <1>a, QueueOfOne
  <2>3. CASE Cancel(o) \/ Reject(o)
    BY <2>2, <2>3, <1>b DEF Cancel, Reject
  <2>4. CASE Delete(o)
    <3>1. order'[o].status = "none" /\ approval'[o] = "none"
      BY <2>4, <1>a, <1>b DEF Delete, NoOrder, TypeOK
    <3>2. Queued(o)'
      BY <3>1 DEF Queued
    <3> QED BY <3>2, <2>a, <1>a, QueueOfOne
  <2>5. CASE VerifyBank(o) \/ RejectBank(o)
    <3>1. order'[o].status \in {"completed", "cancelled"}
          /\ approval'[o] = approval[o] /\ order[o].status = "pending_bank"
      BY <2>5, <1>a, StatusSet, StatusNames DEF VerifyBank, RejectBank, TypeOK
    <3>2. Queued(o)'
      BY <3>1, <1>a DEF Queued, QueueInv
    <3> QED BY <3>2, <2>a, <1>a, QueueOfOne
  <2> QED BY <1>3, <2>1, <2>3, <2>4, <2>5 DEF Decide
<1>4. ASSUME NEW o \in Orders, order[o].status \in Posted, UNCHANGED approval,
             MaybeCompleted(o) \/ BalanceReopened(o) \/ Complete(o)
      PROVE  QueueInv'
  <2>1. CASE MaybeCompleted(o)
    BY <2>1, <1>4, <1>a, Maybe, QueueOfPosted
  <2>2. CASE BalanceReopened(o) \/ Complete(o)
    BY <2>2, <1>4, <1>a, StatusSet, StatusNames, QueueOfPosted
       DEF BalanceReopened, Complete, TypeOK
  <2> QED BY <1>4, <2>1, <2>2
<1>5. ASSUME NEW o \in Orders, Complete(o) PROVE QueueInv'
  BY <1>4, <1>5, StatusNames DEF Complete
<1>6. ASSUME NEW o \in Orders, Settle(o) PROVE QueueInv'
  <2>0. UNCHANGED approval
    BY <1>6 DEF Settle, SettleNow, SubmitTransfer, VerifyTransfer, RejectTransfer,
          BalanceReopened, TenderBounced
  <2>1. CASE TenderBounced(o)
    BY <2>0, <2>1, <1>a, BouncedTender, QueueOfPosted
  <2>2. CASE ~TenderBounced(o)
    <3>1. order[o].status \in Posted
      BY <1>6, <2>2, <1>a, StatusNames DEF Settle, SettleNow, SubmitTransfer,
            VerifyTransfer, RejectTransfer, BalanceReopened, Open, ReferredIsPosted
    <3>2. MaybeCompleted(o) \/ BalanceReopened(o)
      BY <1>6, <2>2 DEF Settle, SettleNow, SubmitTransfer, VerifyTransfer,
            RejectTransfer, MaybeCompleted
    <3> QED BY <2>0, <3>1, <3>2, <1>4
  <2> QED BY <2>1, <2>2
<1>7. ASSUME NEW r \in Returns, ProcessReturn(r) PROVE QueueInv'
  <2>1. ret[r].order \in Orders /\ order[ret[r].order].status \in Posted
    BY <1>7, <1>a DEF ProcessReturn, ReferredIsPosted
  <2>2. MaybeCompleted(ret[r].order) /\ UNCHANGED approval
    BY <1>7 DEF ProcessReturn, MaybeCompleted
  <2> QED BY <2>1, <2>2, <1>4
<1>8. ASSUME UNCHANGED <<order, approval>> PROVE QueueInv'
  BY <1>8, <1>a, QueueOfPosted
<1>9. ASSUME NEW r \in Returns, TakeBack(r), ~ProcessReturn(r)
      PROVE  UNCHANGED <<order, approval>>
  BY <1>9 DEF TakeBack, CreateReturn, ApproveReturn, RejectReturn, ReadForDelete,
        DeleteReturn
<1>10. ASSUME NEW q \in QuoteItems, ReleaseReservation(q)
       PROVE  UNCHANGED <<order, approval>>
  BY <1>10 DEF ReleaseReservation
<1>11. CASE UNCHANGED vars
  BY <1>8, <1>11 DEF vars
<1> QED BY <1>1, <1>2, <1>3, <1>5, <1>6, <1>7, <1>8, <1>9, <1>10, <1>11 DEF Next

-----------------------------------------------------------------------------
(* Which units change hands *)

UnitsInv == NoStrandedUnit /\ AssetsAreGone

LEMMA CustodyFacts ==
  ASSUME PapersInv
  PROVE  /\ TypeOK /\ CustodyInv /\ UnitsInv /\ NoStrandedUnit /\ AssetsAreGone
         /\ ReferredIsPosted /\ ReturnedOnce /\ OneHolder /\ HolderMatchesStock
         /\ reopening = {} /\ deleting = {}
         /\ assets \subseteq Units
BY DEF PapersInv, CustodyInv, UnitsInv, TypeOK

\* The step moves units between order o and the shelf, a reservation or the
\* assets, and no other unit.
Moves(o) ==
  /\ \A x \in Orders \ {o}, u \in Units : Holds(x, u)' <=> Holds(x, u)
  /\ \A u \in Units :
       \/ Holds(o, u)' /\ (Holds(o, u) \/ stock[u] \in {"available", "reserved"})
       \/ /\ Holds(o, u) /\ ~Holds(o, u)'
          /\ \/ stock'[u] = "available"
             \/ stock'[u] = "returned" /\ u \in assets'
       \/ /\ ~Holds(o, u) /\ ~Holds(o, u)'
          /\ stock'[u] = stock[u] /\ link'[u] = link[u]
  /\ assets \subseteq assets'
  /\ \A u \in assets' \ assets : u \in Units /\ stock'[u] = "returned"

\* The step moves no unit at all.
MovesNothing ==
  /\ \A x \in Orders, u \in Units : Holds(x, u)' <=> Holds(x, u)
  /\ UNCHANGED <<stock, link, assets>>

LEMMA HoldsSame ==
  ASSUME UNCHANGED ret, NEW x, order'[x] = order[x]
  PROVE  \A u : Holds(x, u)' <=> Holds(x, u)
BY SameReturns, HoldsMeans, HoldsMeansNext

\* Statuses that change among the posted ones leave every unit where it is.
LEMMA HoldsPosted ==
  ASSUME \A x \in Orders : /\ order'[x].lines = order[x].lines
                           /\ \/ order'[x].status = order[x].status
                              \/ {order[x].status, order'[x].status} \subseteq Posted,
         \A x, u : CameBack(x, u)' <=> CameBack(x, u)
  PROVE  \A x \in Orders, u \in Units : Holds(x, u)' <=> Holds(x, u)
<1>1. \A x \in Orders : order'[x].status \in Pending \cup Posted
                          <=> order[x].status \in Pending \cup Posted
  OBVIOUS
<1> QED BY <1>1, HoldsMeans, HoldsMeansNext

LEMMA MovesOfCreation ==
  ASSUME PapersInv, NEW o \in Orders, NewOrder(o)
  PROVE  Moves(o)
<1>a. TypeOK /\ CustodyInv
  BY CustodyFacts
<1> DEFINE Shape(lines) ==
      /\ order[o].status = "none"
      /\ \A x \in Orders \ {o} : order'[x] = order[x]
      /\ order'[o].status \in Pending \cup Posted /\ order'[o].lines = lines
      /\ \A u \in lines : stock[u] \in {"available", "reserved"}
      /\ \A u \in Units \ lines : stock'[u] = stock[u] /\ link'[u] = link[u]
      /\ UNCHANGED <<ret, assets>>
<1>1. PICK lines \in SUBSET Units : Shape(lines)
  <2>1. ASSUME NEW m \in Methods, NEW q, NEW lines \in SUBSET Units,
               CreateOrder(o, m, q, lines)
        PROVE  Shape(lines)
    BY <2>1, <1>a, FirstStatusIsStatus
       DEF CreateOrder, TypeOK, Available, Pool, SetStock
  <2>2. ASSUME NEW m \in Methods, NEW q, NEW lines \in SUBSET Units,
               CreatePartialOrder(o, m, q, lines)
        PROVE  Shape(lines)
    BY <2>2, <1>a, StatusNames
       DEF CreatePartialOrder, TypeOK, Available, Pool, SetStock, Unlink
  <2> HIDE DEF Shape
  <2> QED BY <2>1, <2>2 DEF NewOrder
<1>2. \A u \in Units : Holds(o, u)' <=> u \in lines
  BY <1>1, <1>a, NothingBack, SameReturns, HoldsMeansNext, StatusNames
<1>3. \A u : ~Holds(o, u)
  BY <1>1, HoldsMeans, StatusNames
<1>4. \A x \in Orders \ {o}, u \in Units : Holds(x, u)' <=> Holds(x, u)
  BY <1>1, HoldsSame
<1> QED BY <1>1, <1>2, <1>3, <1>4 DEF Moves

LEMMA MovesOfEdit ==
  ASSUME PapersInv, Calls = {}, NEW o \in Orders, Edit(o)
  PROVE  Moves(o)
<1>a. TypeOK /\ CustodyInv /\ HolderMatchesStock /\ reopening = {}
  BY CustodyFacts
<1>1. PICK lines \in SUBSET Units : EditLines(o, lines)
  BY <1>a DEF Edit, SaveCompleted, Reopen
<1>2. /\ \A x \in Orders \ {o} : order'[x] = order[x]
      /\ order'[o].status = "pending_approval" /\ order'[o].lines = lines
      /\ order[o].status = "pending_approval"
      /\ UNCHANGED <<ret, link, assets>>
  BY <1>1, <1>a DEF EditLines, TypeOK, OrderRow
<1>3. \A u \in Units : Holds(o, u)' <=> u \in lines
  BY <1>2, <1>a, NothingBack, SameReturns, HoldsMeansNext, StatusNames
<1>4. \A u \in Units : Holds(o, u) <=> u \in Releasable(o)
  <2>1. \A u \in Units : Holds(o, u) => stock[u] = "reserved" /\ u \in order[o].lines
    BY <1>2, <1>a, HoldsMeans, StatusNames DEF HolderMatchesStock
  <2>2. \A u \in Units : u \in order[o].lines => Holds(o, u)
    BY <1>2, <1>a, PendingHoldsAll, StatusNames
  <2> QED BY <2>1, <2>2 DEF Releasable, WithStatus
<1>5. \A u \in Units :
        /\ u \in lines => u \in Releasable(o) \/ stock[u] = "available"
        /\ u \in Releasable(o) \ lines => stock'[u] = "available"
        /\ u \notin lines \cup Releasable(o) => stock'[u] = stock[u]
  BY <1>1 DEF EditLines, Available
<1>6. \A x \in Orders \ {o}, u \in Units : Holds(x, u)' <=> Holds(x, u)
  BY <1>2, HoldsSame
<1> QED BY <1>2, <1>3, <1>4, <1>5, <1>6 DEF Moves

LEMMA MovesOfPendingDecision ==
  ASSUME PapersInv, Calls = {}, NEW o \in Orders,
         Approve(o) \/ Cancel(o) \/ Reject(o) \/ Delete(o) \/ VerifyBank(o)
           \/ RejectBank(o)
  PROVE  Moves(o)
<1>a. TypeOK /\ CustodyInv /\ HolderMatchesStock
  BY CustodyFacts
<1> DEFINE S == order[o].lines
<1>1. order[o].status \in Pending
  BY StatusNames DEF Approve, Cancel, Reject, CancelInto, Delete, VerifyBank, RejectBank
<1>2. UNCHANGED <<ret, assets>> /\ \A x \in Orders \ {o} : order'[x] = order[x]
  BY <1>a DEF Approve, Cancel, Reject, CancelInto, Delete, VerifyBank, RejectBank, TypeOK
<1>3. S \subseteq Units
  BY <1>a DEF TypeOK, OrderRow
<1>4. \A u \in S : Holds(o, u) /\ stock[u] = "reserved"
  BY <1>1, <1>3, <1>a, PendingHoldsAll DEF HolderMatchesStock
<1>5. \A u \in Units \ S : stock'[u] = stock[u] /\ link'[u] = link[u]
  BY <1>a DEF Approve, Cancel, Reject, CancelInto, Delete, VerifyBank, RejectBank,
              SetStock, Unlink, WithStatus, Releasable, TypeOK
<1>6. \A u \in Units \ S : ~Holds(o, u)
  BY HoldsMeans
<1>7. order'[o].lines \subseteq S
  <2>1. CASE Delete(o)
    BY <2>1, <1>a DEF Delete, NoOrder, TypeOK
  <2>2. CASE ~Delete(o)
    <3>1. PICK s \in OrderStatus : order' = [order EXCEPT ![o].status = s]
      BY <2>2, StatusNames DEF Approve, Cancel, Reject, CancelInto, VerifyBank, RejectBank
    <3> QED BY <3>1, <1>a, StatusSet DEF TypeOK
  <2> QED BY <2>1, <2>2
<1>8. \A u \in Units \ S : ~Holds(o, u)'
  BY <1>7, HoldsMeansNext
<1>9. ASSUME NEW u \in S, ~Holds(o, u)' PROVE stock'[u] = "available"
  <2>1. CASE Approve(o) \/ VerifyBank(o)
    <3>1. PICK s \in Posted : order' = [order EXCEPT ![o].status = s]
      BY <2>1, StatusNames DEF Approve, VerifyBank
    <3>2. order'[o].status \in Posted /\ order'[o].lines = S
      BY <3>1, <1>a, StatusSet, StatusNames DEF TypeOK
    <3>3. ~CameBack(o, u)'
      BY <1>1, <1>2, <1>a, NothingBack, SameReturns, StatusNames
    <3> HIDE DEF S
    <3> QED BY <3>2, <3>3, <1>9, HoldsMeansNext
  <2>2. CASE Cancel(o) \/ Reject(o) \/ Delete(o) \/ RejectBank(o)
    BY <2>2, <1>3, <1>4, <1>9
       DEF Cancel, Reject, CancelInto, Delete, RejectBank, SetStock, WithStatus,
           Releasable
  <2> QED BY <2>1, <2>2
<1>10. \A x \in Orders \ {o}, u \in Units : Holds(x, u)' <=> Holds(x, u)
  BY <1>2, HoldsSame
<1> HIDE DEF S
<1> QED BY <1>2, <1>3, <1>4, <1>5, <1>6, <1>8, <1>9, <1>10 DEF Moves

LEMMA NothingMovesOfComplete ==
  ASSUME PapersInv, Calls = {}, NEW o \in Orders, Complete(o)
  PROVE  MovesNothing
<1>a. TypeOK /\ CustodyInv /\ HolderMatchesStock
  BY CustodyFacts
<1>1. /\ order[o].status = "approved"
      /\ order' = [order EXCEPT ![o].status = "completed"]
      /\ UNCHANGED <<ret, link, assets>>
  BY DEF Complete
<1>2. \A x \in Orders : /\ order'[x].lines = order[x].lines
                        /\ \/ order'[x].status = order[x].status
                           \/ {order[x].status, order'[x].status} \subseteq Posted
  BY <1>1, <1>a, StatusSet, StatusNames DEF TypeOK
<1>3. \A x \in Orders, u \in Units : Holds(x, u)' <=> Holds(x, u)
  BY <1>1, <1>2, SameReturns, HoldsPosted
<1>4. \A u \in Units : u \in order[o].lines => stock[u] = "sold"
  <2>1. \A u : ~CameBack(o, u)
    BY DEF Complete, ReturnsOf, CameBack
  <2>2. \A u \in Units : u \in order[o].lines => Holds(o, u)
    BY <2>1, <1>1, HoldsMeans, StatusNames
  <2> QED BY <2>2, <1>1, <1>a, StatusNames DEF HolderMatchesStock
<1>5. UNCHANGED stock
  <2>1. stock' = [u \in Units |-> stock[u]]
    BY <1>4 DEF Complete, SetStock
  <2> QED BY <2>1, <1>a DEF TypeOK
<1> QED BY <1>1, <1>3, <1>5 DEF MovesNothing

LEMMA NothingMovesOfSettlement ==
  ASSUME PapersInv, NEW o \in Orders, Settle(o)
  PROVE  MovesNothing
<1>a. TypeOK /\ ReferredIsPosted
  BY CustodyFacts
<1>1. UNCHANGED <<stock, ret, link, assets>>
  BY DEF Settle, SettleNow, SubmitTransfer, VerifyTransfer, RejectTransfer,
        BalanceReopened, TenderBounced
<1>2. \A x \in Orders : /\ order'[x].lines = order[x].lines
                        /\ \/ order'[x].status = order[x].status
                           \/ {order[x].status, order'[x].status} \subseteq Posted
  <2>1. CASE TenderBounced(o)
    BY <2>1, <1>a, BouncedTender
  <2>2. CASE BalanceReopened(o)
    BY <2>2, <1>a, StatusSet, StatusNames DEF BalanceReopened, TypeOK
  <2>3. CASE ~TenderBounced(o) /\ ~BalanceReopened(o)
    <3>1. MaybeCompleted(o) /\ order[o].status \in Posted
      BY <2>3, <1>a DEF Settle, SettleNow, SubmitTransfer, VerifyTransfer,
            RejectTransfer, MaybeCompleted, Open, ReferredIsPosted
    <3> QED BY <3>1, <1>a, Maybe
  <2> QED BY <2>1, <2>2, <2>3
<1> QED BY <1>1, <1>2, SameReturns, HoldsPosted DEF MovesNothing

\* Every unit of a processed return goes on the shelf or into the assets: none
\* of them was scrapped before, since its order still held it.
LEMMA MovesOfProcess ==
  ASSUME PapersInv, NEW r \in Returns, ProcessReturn(r)
  PROVE  \E o \in Orders : Moves(o)
<1>a. /\ TypeOK /\ ReferredIsPosted /\ ReturnedOnce /\ HolderMatchesStock
      /\ AssetsAreGone
  BY CustodyFacts
<1>0. PICK o \in Orders, S \in {ret[r].units} :
        o = ret[r].order /\ S = ret[r].units
  BY <1>a DEF ProcessReturn, ReferredIsPosted
<1>1. /\ \A x \in Returns : /\ ret'[x].order = ret[x].order
                            /\ ret'[x].units = ret[x].units
                            /\ x # r => ret'[x].status = ret[x].status
      /\ ret[r].status = "approved" /\ ret'[r].status = "processed"
  BY <1>a, ReturnStatusSet DEF ProcessReturn, TypeOK, ReturnStatus
<1>2. o \in Orders /\ order[o].status \in Posted /\ S \subseteq order[o].lines
      /\ ret[r].good \subseteq S /\ S \subseteq Units
  BY <1>0, <1>1, <1>a DEF ReferredIsPosted, ReturnedOnce, TypeOK, ReturnRow
<1>3. \A x \in Orders : /\ order'[x].lines = order[x].lines
                        /\ order'[x].status \in Pending \cup Posted
                             <=> order[x].status \in Pending \cup Posted
  <2>1. MaybeCompleted(o)
    BY <1>0 DEF ProcessReturn, MaybeCompleted
  <2> QED BY <2>1, <1>2, <1>a, Maybe
<1>4. \A u \in S : ~CameBack(o, u)
  <2> SUFFICES ASSUME NEW u \in S, NEW x \in Returns, ret[x].order = o,
                      ret[x].status = "processed", u \in ret[x].units
               PROVE  FALSE
    BY DEF CameBack
  <2>1. x # r /\ {ret[r].status, ret[x].status} \cap {"none", "rejected"} = {}
    BY <1>1
  <2>2. ret[r].units \cap ret[x].units = {}
    BY <1>0, <2>1, <1>1, <1>a DEF ReturnedOnce
  <2> QED BY <1>0, <2>2
<1>5. \A u \in S : Holds(o, u) /\ stock[u] = "sold" /\ u \notin assets
  <2> TAKE u \in S
  <2>1. Holds(o, u)
    BY <1>2, <1>4, HoldsMeans
  <2>2. stock[u] = "sold"
    BY <2>1, <1>2, <1>a, StatusNames DEF HolderMatchesStock
  <2> QED BY <2>1, <2>2, <1>a DEF AssetsAreGone
<1>6. /\ \A u \in Units \ S : stock'[u] = stock[u]
      /\ \A u \in S : \/ stock'[u] = "available"
                      \/ stock'[u] = "returned" /\ u \in assets'
      /\ assets \subseteq assets' /\ assets' \subseteq assets \cup S
      /\ UNCHANGED link
  BY <1>0, <1>2, <1>5, <1>a DEF ProcessReturn, Restocked, Scrapped, WithStatus
<1>7. \A u \in assets' \ assets : stock'[u] = "returned"
  BY <1>0, <1>2, <1>5, <1>a DEF ProcessReturn, Restocked, Scrapped, WithStatus
<1>8. \A x, u : CameBack(x, u)' <=> CameBack(x, u) \/ (x = o /\ u \in S)
  BY <1>0, <1>1 DEF CameBack
<1>9. /\ \A x \in Orders \ {o}, u \in Units : Holds(x, u)' <=> Holds(x, u)
      /\ \A u \in Units : Holds(o, u)' <=> Holds(o, u) /\ u \notin S
  BY <1>3, <1>8, HoldsMeans, HoldsMeansNext
<1>10. ASSUME NEW u \in assets' \ assets PROVE u \in Units
  BY <1>2, <1>6
<1>11. Moves(o)
  BY <1>2, <1>5, <1>6, <1>7, <1>9, <1>10 DEF Moves
<1> QED BY <1>11

LEMMA NothingMovesOfReturn ==
  ASSUME PapersInv, Calls = {}, NEW r \in Returns, TakeBack(r), ~ProcessReturn(r)
  PROVE  MovesNothing
<1>a. TypeOK /\ deleting = {}
  BY CustodyFacts
<1>0. UNCHANGED <<stock, link, assets, order>>
  BY DEF TakeBack, CreateReturn, ApproveReturn, RejectReturn, ReadForDelete, DeleteReturn
<1>1. \A x, u : CameBack(x, u)' <=> CameBack(x, u)
  <2>1. ASSUME NEW o \in Orders, NEW units \in SUBSET Units,
               NEW good \in SUBSET Units, CreateReturn(r, o, units, good)
        PROVE  ret[r].status # "processed" /\ ret'[r].status # "processed"
               /\ \A x \in Returns \ {r} : ret'[x] = ret[x]
    BY <2>1, <1>a DEF CreateReturn, TypeOK
  <2>2. ASSUME ApproveReturn(r) \/ RejectReturn(r)
        PROVE  ret[r].status # "processed" /\ ret'[r].status # "processed"
               /\ \A x \in Returns \ {r} : ret'[x] = ret[x]
    BY <2>2, <1>a, ReturnStatusSet DEF ApproveReturn, RejectReturn, TypeOK, ReturnStatus
  <2>3. ASSUME DeleteReturn(r)
        PROVE  ret[r].status # "processed" /\ ret'[r].status # "processed"
               /\ \A x \in Returns \ {r} : ret'[x] = ret[x]
    BY <2>3, <1>a DEF DeleteReturn, Deletable, NoReturn, TypeOK
  <2>4. /\ ret[r].status # "processed" /\ ret'[r].status # "processed"
        /\ \A x \in Returns \ {r} : ret'[x] = ret[x]
    BY <2>1, <2>2, <2>3 DEF TakeBack, ReadForDelete
  <2> QED BY <2>4 DEF CameBack
<1>2. \A x \in Orders, u \in Units : Holds(x, u)' <=> Holds(x, u)
  BY <1>0, <1>1, HoldsPosted
<1> QED BY <1>0, <1>2 DEF MovesNothing

LEMMA StepMoves ==
  ASSUME PapersInv, Calls = {}, [Next]_vars
  PROVE  \/ \E o \in Orders : Moves(o)
         \/ MovesNothing
         \/ \E q \in QuoteItems : ReleaseReservation(q)
<1>1. CASE UNCHANGED vars
  <2>1. \A x \in Orders, u \in Units : Holds(x, u)' <=> Holds(x, u)
    BY <1>1, HoldsSame DEF vars
  <2> QED BY <2>1, <1>1 DEF MovesNothing, vars
<1>2. ASSUME NEW o \in Orders, NewOrder(o) \/ Edit(o) \/ Decide(o) \/ Settle(o)
      PROVE  Moves(o) \/ MovesNothing
  BY <1>2, MovesOfCreation, MovesOfEdit, MovesOfPendingDecision,
     NothingMovesOfComplete, NothingMovesOfSettlement DEF Decide
<1>3. ASSUME NEW r \in Returns, TakeBack(r)
      PROVE  (\E o \in Orders : Moves(o)) \/ MovesNothing
  BY <1>3, MovesOfProcess, NothingMovesOfReturn
<1> QED BY <1>1, <1>2, <1>3 DEF Next

-----------------------------------------------------------------------------
(* A paper for every unit *)

LEMMA UnitsKept ==
  ASSUME PapersInv, Calls = {}, [Next]_vars
  PROVE  UnitsInv'
<1>a. HolderMatchesStock /\ NoStrandedUnit /\ AssetsAreGone /\ assets \subseteq Units
  BY CustodyFacts
<1>1. ASSUME NEW o \in Orders, Moves(o) PROVE UnitsInv'
  <2>1. ASSUME NEW u \in Units, ~Holds(o, u), Held(u) PROVE Held(u)'
    BY <1>1, <2>1 DEF Moves, Held
  <2>2. NoStrandedUnit'
    <3> SUFFICES ASSUME NEW u \in Units
                 PROVE  \/ stock'[u] = "available" \/ Held(u)'
                        \/ stock'[u] = "reserved" /\ link'[u] # None
                        \/ stock'[u] = "returned" /\ u \in assets'
      BY DEF NoStrandedUnit
    <3>1. CASE Holds(o, u)'
      BY <3>1 DEF Held
    <3>2. CASE Holds(o, u) /\ ~Holds(o, u)'
      BY <3>2, <1>1 DEF Moves
    <3>3. CASE ~Holds(o, u) /\ ~Holds(o, u)'
      <4>1. stock'[u] = stock[u] /\ link'[u] = link[u] /\ assets \subseteq assets'
        BY <3>3, <1>1 DEF Moves
      <4> QED BY <3>3, <4>1, <2>1, <1>a DEF NoStrandedUnit
    <3> QED BY <3>1, <3>2, <3>3
  <2>3. AssetsAreGone'
    <3> SUFFICES ASSUME NEW u \in assets' PROVE stock'[u] = "returned"
      BY DEF AssetsAreGone
    <3>1. CASE u \in assets
      <4>1. u \in Units /\ stock[u] = "returned"
        BY <3>1, <1>a DEF AssetsAreGone
      <4>2. ~Holds(o, u)
        BY <4>1, <1>a DEF HolderMatchesStock
      <4> QED BY <4>1, <4>2, <1>1 DEF Moves
    <3>2. CASE u \notin assets
      BY <3>2, <1>1 DEF Moves
    <3> QED BY <3>1, <3>2
  <2> QED BY <2>2, <2>3 DEF UnitsInv
<1>2. CASE MovesNothing
  <2>1. \A u \in Units : Held(u) => Held(u)'
    BY <1>2 DEF MovesNothing, Held
  <2>2. NoStrandedUnit'
    BY <2>1, <1>2, <1>a DEF MovesNothing, NoStrandedUnit
  <2> QED BY <2>2, <1>2, <1>a DEF MovesNothing, AssetsAreGone, UnitsInv
<1>3. ASSUME NEW q \in QuoteItems, ReleaseReservation(q) PROVE UnitsInv'
  <2>1. /\ \A u \in Units : \/ stock'[u] = stock[u]
                            \/ stock[u] # "returned" /\ stock'[u] = "available"
        /\ UNCHANGED <<order, ret, link, assets>>
    BY <1>3 DEF ReleaseReservation, SetStock, Pool
  <2>2. \A u \in Units : Held(u) => Held(u)'
    BY <2>1, HoldsSame DEF Held
  <2>3. NoStrandedUnit'
    BY <2>1, <2>2, <1>a DEF NoStrandedUnit
  <2>4. AssetsAreGone'
    BY <2>1, <1>a DEF AssetsAreGone
  <2> QED BY <2>3, <2>4 DEF UnitsInv
<1> QED BY <1>1, <1>2, <1>3, StepMoves

-----------------------------------------------------------------------------
\* With the risky requests excluded, orders, stock rows and the approvers'
\* queue account for each other in every state.
THEOREM PapersInvariant == ASSUME Calls = {} PROVE Spec => []PapersInv
<1>1. Init => QueueInv /\ UnitsInv
  <2> SUFFICES ASSUME Init PROVE QueueInv /\ UnitsInv
    OBVIOUS
  <2>1. QueueInv
    BY DEF Init, NoOrder, QueueInv, Queued
  <2>2. NoStrandedUnit
    BY DEF Init, NoStrandedUnit
  <2>3. AssetsAreGone
    BY DEF Init, AssetsAreGone
  <2> QED BY <2>1, <2>2, <2>3 DEF UnitsInv
<1>2. CustodyInv /\ QueueInv /\ UnitsInv /\ [Next]_vars => QueueInv' /\ UnitsInv'
  BY QueueKept, UnitsKept DEF PapersInv, UnitsInv
<1>3. CustodyInv /\ QueueInv /\ UnitsInv => PapersInv
  BY DEF PapersInv, UnitsInv
<1> QED BY <1>1, <1>2, <1>3, CustodyInvariant, PTL DEF Spec

\* No unit is out of stock without a paper that says why, the approvers' queue
\* is the pending orders, and returns and settlements refer to posted sales,
\* once per unit: for any number of orders, units, returns and quotation lines.
THEOREM PapersAgreeAlways == ASSUME Calls = {} PROVE Spec => []PapersAgree
<1>1. PapersInv => PapersAgree
  BY DEF PapersInv, CustodyInv, QueueInv, Queued, PapersAgree, PendingIsQueued,
         QueuedIsPending
<1> QED BY <1>1, PapersInvariant, PTL

-----------------------------------------------------------------------------
(* The service implements StockCustody.  Where a unit is, in the words of the *)
(* promise, follows from its stock row and from who holds it.                 *)

Whereabouts ==
  \A u \in Units :
    /\ stock[u] = "available" => Custody(u) = Promise!Shelf
    /\ stock[u] = "returned" => Custody(u) = Promise!Gone
    /\ \A o \in Orders : Holds(o, u) => Custody(u) = Promise!With(o)
    /\ stock[u] \notin {"available", "returned"} /\ ~Held(u) =>
         /\ stock[u] = "reserved" /\ link[u] \in QuoteItems
         /\ Custody(u) = Promise!SetAside(link[u])

LEMMA WhereaboutsKnown == PapersInv => Whereabouts
<1> SUFFICES ASSUME PapersInv PROVE Whereabouts
  OBVIOUS
<1>a. TypeOK /\ HolderMatchesStock /\ OneHolder /\ NoStrandedUnit
  BY CustodyFacts
<1>1. ASSUME NEW u \in Units, stock[u] = "available"
      PROVE  Custody(u) = Promise!Shelf
  BY <1>1 DEF Custody, Promise!Shelf
<1>2. ASSUME NEW u \in Units, stock[u] = "returned"
      PROVE  Custody(u) = Promise!Gone
  BY <1>2 DEF Custody, Promise!Gone
<1>3. ASSUME NEW u \in Units, NEW o \in Orders, Holds(o, u)
      PROVE  Custody(u) = Promise!With(o)
  <2>1. stock[u] \notin {"available", "returned"}
    BY <1>3, <1>a DEF HolderMatchesStock
  <2>2. (CHOOSE x \in Orders : Holds(x, u)) = o
    BY <1>3, <1>a DEF OneHolder
  <2>3. Held(u)
    BY <1>3 DEF Held
  <2> QED BY <2>1, <2>2, <2>3 DEF Custody, Promise!With
<1>4. ASSUME NEW u \in Units, stock[u] \notin {"available", "returned"}, ~Held(u)
      PROVE  /\ stock[u] = "reserved" /\ link[u] \in QuoteItems
             /\ Custody(u) = Promise!SetAside(link[u])
  <2>1. stock[u] = "reserved" /\ link[u] # None
    BY <1>4, <1>a DEF NoStrandedUnit
  <2>2. link[u] \in QuoteItems
    BY <2>1, <1>a DEF TypeOK
  <2>3. Custody(u) = Promise!SetAside(link[u])
    BY <1>4 DEF Custody, Promise!SetAside
  <2> QED BY <2>1, <2>2, <2>3
<1> QED BY <1>1, <1>2, <1>3, <1>4 DEF Whereabouts

LEMMA WhereaboutsKnownNext == PapersInv' => Whereabouts'
BY WhereaboutsKnown, PTL

LEMMA ServesPromise ==
  ASSUME PapersInv, PapersInv', NEW o \in Orders, Moves(o)
  PROVE  Promise!Serve(o)
<1>a. HolderMatchesStock /\ Whereabouts
  BY CustodyFacts, WhereaboutsKnown
<1>b. Whereabouts' /\ OneHolder'
  BY WhereaboutsKnownNext DEF PapersInv, CustodyInv
<1>1. ASSUME NEW u \in Units
      PROVE  \/ Custody(u)' = Custody(u)
             \/ /\ Custody(u) \in {Promise!Shelf} \cup Promise!Reservations
                /\ Custody(u)' = Promise!With(o)
             \/ /\ Custody(u) = Promise!With(o)
                /\ Custody(u)' \in {Promise!Shelf, Promise!Gone}
  <2>1. CASE Holds(o, u) /\ Holds(o, u)'
    BY <2>1, <1>a, <1>b DEF Whereabouts
  <2>2. CASE ~Holds(o, u) /\ Holds(o, u)'
    <3>1. stock[u] \in {"available", "reserved"}
      BY <2>2, <1>1 DEF Moves
    <3>2. ASSUME NEW x \in Orders, Holds(x, u) PROVE FALSE
      <4>1. x # o /\ Holds(x, u)'
        BY <2>2, <3>2 DEF Moves
      <4> QED BY <2>2, <4>1, <1>b DEF OneHolder
    <3>3. Custody(u) \in {Promise!Shelf} \cup Promise!Reservations
      <4>1. CASE stock[u] = "available"
        BY <4>1, <1>a DEF Whereabouts
      <4>2. CASE stock[u] = "reserved"
        <5>1. ~Held(u)
          BY <3>2 DEF Held
        <5>2. link[u] \in QuoteItems /\ Custody(u) = Promise!SetAside(link[u])
          BY <4>2, <5>1, <1>a DEF Whereabouts
        <5> QED BY <5>2 DEF Promise!Reservations
      <4> QED BY <3>1, <4>1, <4>2
    <3>4. Custody(u)' = Promise!With(o)
      BY <2>2, <1>b DEF Whereabouts
    <3> QED BY <3>3, <3>4
  <2>3. CASE Holds(o, u) /\ ~Holds(o, u)'
    <3>1. stock'[u] = "available" \/ stock'[u] = "returned"
      BY <2>3, <1>1 DEF Moves
    <3>2. Custody(u)' \in {Promise!Shelf, Promise!Gone}
      BY <3>1, <1>b DEF Whereabouts
    <3>3. Custody(u) = Promise!With(o)
      BY <2>3, <1>a DEF Whereabouts
    <3> QED BY <3>2, <3>3
  <2>4. CASE ~Holds(o, u) /\ ~Holds(o, u)'
    <3>1. stock'[u] = stock[u] /\ link'[u] = link[u]
      BY <2>4, <1>1 DEF Moves
    <3>2. CASE stock[u] \in {"available", "returned"}
      BY <3>1, <3>2, <1>a, <1>b DEF Whereabouts
    <3>3. ASSUME NEW x \in Orders, Holds(x, u) PROVE Custody(u)' = Custody(u)
      <4>1. Holds(x, u)'
        BY <2>4, <3>3 DEF Moves
      <4> QED BY <3>3, <4>1, <1>a, <1>b DEF Whereabouts
    <3>4. CASE stock[u] \notin {"available", "returned"} /\ ~Held(u)
      <4>1. ~Held(u)'
        BY <2>4, <3>4 DEF Moves, Held
      <4> QED BY <3>1, <3>4, <4>1, <1>a, <1>b DEF Whereabouts
    <3> QED BY <3>2, <3>3, <3>4 DEF Held
  <2> QED BY <2>1, <2>2, <2>3, <2>4
<1> QED BY <1>1 DEF Promise!Serve

LEMMA StaysPut ==
  ASSUME PapersInv, PapersInv', MovesNothing
  PROVE  \A u \in Units : Custody(u)' = Custody(u)
<1>1. TAKE u \in Units
<1>a. Whereabouts /\ Whereabouts'
  BY WhereaboutsKnown, WhereaboutsKnownNext
<1>2. CASE stock[u] \in {"available", "returned"}
  BY <1>2, <1>a DEF Whereabouts, MovesNothing
<1>3. ASSUME NEW x \in Orders, Holds(x, u) PROVE Custody(u)' = Custody(u)
  BY <1>3, <1>a DEF Whereabouts, MovesNothing
<1>4. CASE stock[u] \notin {"available", "returned"} /\ ~Held(u)
  <2>1. ~Held(u)'
    BY <1>4 DEF MovesNothing, Held
  <2> QED BY <1>4, <2>1, <1>a DEF Whereabouts, MovesNothing
<1> QED BY <1>2, <1>3, <1>4 DEF Held

LEMMA ReleasesPromise ==
  ASSUME PapersInv, PapersInv', Calls = {}, NEW q \in QuoteItems,
         ReleaseReservation(q)
  PROVE  Promise!Release(q)
<1>a. Whereabouts /\ Whereabouts' /\ HolderMatchesStock
  BY CustodyFacts, WhereaboutsKnown, WhereaboutsKnownNext
<1>1. /\ \A u \in Units : stock'[u] = IF u \in Pool(q) THEN "available" ELSE stock[u]
      /\ UNCHANGED <<order, ret, link>>
  BY DEF ReleaseReservation, SetStock
<1>2. \A x, u : Holds(x, u)' <=> Holds(x, u)
  BY <1>1, HoldsSame
<1>3. \A u \in Pool(q) : ~Held(u)
  BY DEF ReleaseReservation, PoolUndisturbed
<1>4. ASSUME NEW u \in Units
      PROVE  Custody(u)' = IF Custody(u) = Promise!SetAside(q) THEN Promise!Shelf
                                                              ELSE Custody(u)
  <2>1. CASE u \in Pool(q)
    <3>1. Custody(u) = Promise!SetAside(q)
      BY <2>1, <1>3, <1>a DEF Pool, Whereabouts
    <3>2. Custody(u)' = Promise!Shelf
      BY <2>1, <1>1, <1>a DEF Whereabouts
    <3> QED BY <3>1, <3>2
  <2>2. CASE u \notin Pool(q)
    <3>0. stock'[u] = stock[u] /\ link'[u] = link[u]
      BY <2>2, <1>1
    <3>1. CASE stock[u] \in {"available", "returned"}
      <4>1. Custody(u) # Promise!SetAside(q)
        BY <3>1, <1>a DEF Whereabouts, Promise!Shelf, Promise!Gone, Promise!SetAside
      <4>2. Custody(u)' = Custody(u)
        BY <3>0, <3>1, <1>a DEF Whereabouts
      <4> QED BY <4>1, <4>2
    <3>2. ASSUME NEW x \in Orders, Holds(x, u)
          PROVE  Custody(u)' = Custody(u) /\ Custody(u) # Promise!SetAside(q)
      <4>1. Custody(u)' = Promise!With(x) /\ Custody(u) = Promise!With(x)
        BY <3>2, <1>2, <1>a DEF Whereabouts
      <4> QED BY <4>1 DEF Promise!With, Promise!SetAside
    <3>3. CASE stock[u] \notin {"available", "returned"} /\ ~Held(u)
      <4>1. ~Held(u)'
        BY <1>2, <3>3 DEF Held
      <4>2. /\ stock[u] = "reserved"
            /\ Custody(u) = Promise!SetAside(link[u])
            /\ Custody(u)' = Promise!SetAside(link[u])
        BY <3>0, <3>3, <4>1, <1>a DEF Whereabouts
      <4>3. link[u] # q
        BY <2>2, <4>2 DEF Pool
      <4> QED BY <4>2, <4>3 DEF Promise!SetAside
    <3> QED BY <3>1, <3>2, <3>3 DEF Held
  <2> QED BY <2>1, <2>2
<1> QED BY <1>4 DEF Promise!Release

\* Every step of the sales service, for any number of orders, units, returns
\* and quotation lines, is a step of StockCustody or invisible to it: goods
\* pass between orders over the shelf only, and a scrapped unit is gone.
THEOREM KeepsCustodyAlways == ASSUME Calls = {} PROVE Spec => KeepsCustody
<1>1. Init => Promise!Init
  <2> SUFFICES ASSUME Init PROVE Promise!Init
    OBVIOUS
  <2>1. ASSUME NEW u \in Units
        PROVE  Custody(u) \in {Promise!Shelf} \cup Promise!Reservations
    <3>1. \A o \in Orders : ~Holds(o, u)
      BY DEF Init, NoOrder, Holds, Pending, Posted
    <3>2. CASE link[u] = None
      BY <3>2 DEF Init, Custody, Promise!Shelf
    <3>3. CASE link[u] \in QuoteItems
      <4>1. stock[u] = "reserved"
        BY <3>3, NoneAssumption DEF Init
      <4>2. Custody(u) = Promise!SetAside(link[u])
        BY <3>1, <4>1 DEF Custody, Held, Promise!SetAside
      <4> QED BY <3>3, <4>2 DEF Promise!Reservations
    <3> QED BY <3>2, <3>3 DEF Init
  <2> QED BY <2>1 DEF Promise!Init
<1>2. PapersInv /\ PapersInv' /\ [Next]_vars
        => [Promise!Next]_([u \in Units |-> Custody(u)])
  <2> SUFFICES ASSUME PapersInv, PapersInv', [Next]_vars
               PROVE  Promise!Next
                      \/ UNCHANGED [u \in Units |-> Custody(u)]
    OBVIOUS
  <2>1. ASSUME NEW o \in Orders, Moves(o) PROVE Promise!Next
    BY <2>1, ServesPromise DEF Promise!Next
  <2>2. ASSUME NEW q \in QuoteItems, ReleaseReservation(q) PROVE Promise!Next
    BY <2>2, ReleasesPromise DEF Promise!Next
  <2>3. CASE MovesNothing
    BY <2>3, StaysPut
  <2> QED BY <2>1, <2>2, <2>3, StepMoves
<1> QED BY <1>1, <1>2, PapersInvariant, PTL DEF Spec, KeepsCustody, Promise!Spec
=============================================================================
