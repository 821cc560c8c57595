---------------------------- MODULE MoneyProofs ----------------------------
(***************************************************************************)
(* Proofs about the money: what a customer owes on a sales order           *)
(* (Receivables), for any total and any finite sets of payments, returns   *)
(* and write-offs, types with the risky calls, the agreement of order,     *)
(* documents and ledger without them; and the two payment wizards          *)
(* (PaymentEntry), for any documents, amounts, service charges and number  *)
(* of payment rows.                                                        *)
(***************************************************************************)
EXTENDS Receivables, PaymentEntry, FiniteSetTheorems, SequenceTheorems,
        WellFoundedInduction, TLAPS

-----------------------------------------------------------------------------
(* Sums                                                                    *)

\* The pairs that SumOf counts.
Units(f, S) == UNION {{x} \X (1..f[x]) : x \in S}

\* They are finitely many.
LEMMA UnitsFinite ==
  ASSUME NEW f, NEW S, IsFiniteSet(S), \A x \in S : f[x] \in Nat
  PROVE  IsFiniteSet(Units(f, S))
<1> DEFINE F == [x \in S |-> {x} \X (1..f[x])]
           T == {{x} \X (1..f[x]) : x \in S}
<1>1. F \in Surjection(S, T)
  BY DEF Surjection
<1>2. IsFiniteSet(T)
  BY <1>1, FS_Surjection
<1>3. ASSUME NEW x \in S
      PROVE  IsFiniteSet({x} \X (1..f[x]))
  <2>1. IsFiniteSet({x})
    BY FS_Singleton
  <2>2. f[x] \in Int
    BY <1>3
  <2>3. IsFiniteSet(1..f[x])
    BY <2>2, FS_Interval
  <2> QED BY <2>1, <2>3, FS_Product
<1>4. \A U \in T : IsFiniteSet(U)
  BY <1>3
<1>5. IsFiniteSet(UNION T)
  BY <1>2, <1>4, FS_UNION
<1> QED BY <1>5 DEF Units

\* A sum of natural numbers is one.
LEMMA SumIsNat ==
  ASSUME NEW f, NEW S, IsFiniteSet(S), \A x \in S : f[x] \in Nat
  PROVE  SumOf(f, S) \in Nat
BY UnitsFinite, FS_CardinalityType DEF SumOf, Units

\* Nothing to add, or nothing but zeros.
LEMMA SumOfZeros ==
  ASSUME NEW f, NEW S, \A x \in S : f[x] = 0
  PROVE  SumOf(f, S) = 0
<1>1. Units(f, S) = {}
  BY DEF Units
<1> QED BY <1>1, FS_EmptySet DEF SumOf, Units

\* Only the values on the set count.
LEMMA SumOfSame ==
  ASSUME NEW f, NEW g, NEW S, \A x \in S : f[x] = g[x]
  PROVE  SumOf(f, S) = SumOf(g, S)
<1>1. Units(f, S) = Units(g, S)
  BY DEF Units
<1> QED BY <1>1 DEF SumOf, Units

LEMMA SumPlus ==
  ASSUME NEW f, NEW S, IsFiniteSet(S), NEW x, x \notin S,
         \A y \in S \cup {x} : f[y] \in Nat
  PROVE  SumOf(f, S \cup {x}) = SumOf(f, S) + f[x]
<1> DEFINE U == {x} \X (1..f[x])
<1>1. Units(f, S \cup {x}) = Units(f, S) \cup U /\ Units(f, S) \cap U = {}
  BY DEF Units
<1>2. IsFiniteSet({x}) /\ Cardinality({x}) = 1
  BY FS_Singleton
<1>3. IsFiniteSet(1..f[x]) /\ Cardinality(1..f[x]) = f[x]
  BY FS_Interval
<1>4. IsFiniteSet(U) /\ Cardinality(U) = 1 * f[x]
  BY <1>2, <1>3, FS_Product
<1>5. Cardinality(Units(f, S) \cup U) = Cardinality(Units(f, S)) + Cardinality(U)
                                           - Cardinality({})
  BY <1>1, <1>4, UnitsFinite, FS_Union
<1>6. Cardinality(Units(f, S)) \in Nat
  BY UnitsFinite, FS_CardinalityType
<1>7. SumOf(f, S \cup {x}) = Cardinality(Units(f, S) \cup U)
  BY <1>1 DEF SumOf, Units
<1>8. SumOf(f, S) = Cardinality(Units(f, S))
  BY DEF SumOf, Units
<1>9. 1 * f[x] = f[x]
  OBVIOUS
<1> QED BY <1>4, <1>5, <1>6, <1>7, <1>8, <1>9, FS_EmptySet

\* Summing over fewer elements gives no more.
LEMMA SumOfSubset ==
  ASSUME NEW f, NEW S, IsFiniteSet(S), NEW T, T \subseteq S,
         \A y \in S : f[y] \in Nat
  PROVE  SumOf(f, T) <= SumOf(f, S)
<1>1. Units(f, T) \subseteq Units(f, S)
  BY DEF Units
<1> QED BY <1>1, UnitsFinite, FS_Subset DEF SumOf, Units

\* An element that changes, comes or goes, when nothing else does.
LEMMA SumStep ==
  ASSUME NEW f, NEW g, NEW S, NEW T, IsFiniteSet(S), NEW x,
         S \ {x} = T \ {x},
         \A y \in S \ {x} : f[y] \in Nat /\ g[y] = f[y],
         x \in S => f[x] \in Nat, x \in T => g[x] \in Nat
  PROVE  SumOf(g, T) = SumOf(f, S) - (IF x \in S THEN f[x] ELSE 0)
                                   + (IF x \in T THEN g[x] ELSE 0)
<1> DEFINE R == S \ {x}
<1>1. IsFiniteSet(R) /\ x \notin R
  BY FS_RemoveElement
<1>2. SumOf(f, R) \in Nat /\ SumOf(g, R) = SumOf(f, R)
  BY <1>1, SumIsNat, SumOfSame
<1>a. /\ x \in S => S = R \cup {x}
      /\ x \notin S => S = R
      /\ x \in T => T = R \cup {x}
      /\ x \notin T => T = R
      /\ \A y \in R : f[y] \in Nat /\ g[y] \in Nat
  OBVIOUS
<1> HIDE DEF R
<1>3. SumOf(f, S) = SumOf(f, R) + (IF x \in S THEN f[x] ELSE 0)
  <2>1. CASE x \in S
    <3>1. SumOf(f, R \cup {x}) = SumOf(f, R) + f[x]
      BY <1>1, <1>a, <2>1, SumPlus
    <3> QED BY <1>a, <2>1, <3>1
  <2>2. CASE x \notin S
    BY <1>2, <1>a, <2>2
  <2> QED BY <2>1, <2>2
<1>4. SumOf(g, T) = SumOf(g, R) + (IF x \in T THEN g[x] ELSE 0)
  <2>1. CASE x \in T
    <3>1. SumOf(g, R \cup {x}) = SumOf(g, R) + g[x]
      BY <1>1, <1>a, <2>1, SumPlus
    <3> QED BY <1>a, <2>1, <3>1
  <2>2. CASE x \notin T
    BY <1>2, <1>a, <2>2
  <2> QED BY <2>1, <2>2
<1>5. /\ (IF x \in S THEN f[x] ELSE 0) \in Nat
      /\ (IF x \in T THEN g[x] ELSE 0) \in Nat
  OBVIOUS
<1> QED BY <1>2, <1>3, <1>4, <1>5

\* One element is no more than the sum.
LEMMA SumOfOne ==
  ASSUME NEW f, NEW S, IsFiniteSet(S), NEW x \in S, \A y \in S : f[y] \in Nat
  PROVE  f[x] <= SumOf(f, S)
<1>1. IsFiniteSet(S \ {x})
  BY FS_RemoveElement
<1>2. SumOf(f, (S \ {x}) \cup {x}) = SumOf(f, S \ {x}) + f[x]
  BY <1>1, SumPlus
<1>3. (S \ {x}) \cup {x} = S
  OBVIOUS
<1>4. SumOf(f, S \ {x}) \in Nat /\ f[x] \in Nat
  BY <1>1, SumIsNat
<1>5. SumOf(f, S) = SumOf(f, S \ {x}) + f[x]
  BY <1>2, <1>3
<1> QED BY <1>4, <1>5

\* What is taken from each element is taken from the sum.
LEMMA SumOfDifference ==
  ASSUME NEW f, NEW g, NEW h, NEW S, IsFiniteSet(S),
         \A x \in S : /\ f[x] \in Nat /\ g[x] \in Nat /\ g[x] <= f[x]
                      /\ h[x] = f[x] - g[x]
  PROVE  SumOf(h, S) = SumOf(f, S) - SumOf(g, S)
<1> DEFINE Rest == Units(f, S) \ Units(g, S)
           k == [u \in Units(h, S) |-> <<u[1], u[2] + g[u[1]]>>]
<1>1. ASSUME NEW u \in Units(h, S)
      PROVE  /\ u[1] \in S /\ u[2] \in 1..(f[u[1]] - g[u[1]])
             /\ u = <<u[1], u[2]>>
  BY <1>1 DEF Units
<1>2. ASSUME NEW u \in Units(h, S)
      PROVE  k[u] \in Rest
  <2>1. /\ u[1] \in S /\ u[2] + g[u[1]] \in 1..f[u[1]]
        /\ u[2] + g[u[1]] \notin 1..g[u[1]]
    BY <1>1
  <2>2. k[u] = <<u[1], u[2] + g[u[1]]>>
    OBVIOUS
  <2> QED BY <2>1, <2>2 DEF Units
<1>3. ASSUME NEW u \in Units(h, S), NEW v \in Units(h, S), k[u] = k[v]
      PROVE  u = v
  <2>1. u[1] = v[1] /\ u[2] + g[u[1]] = v[2] + g[v[1]]
    BY <1>3
  <2> QED BY <1>1, <2>1
<1>4. ASSUME NEW w \in Rest
      PROVE  \E u \in Units(h, S) : k[u] = w
  <2>1. /\ w[1] \in S /\ w[2] \in 1..f[w[1]] /\ w = <<w[1], w[2]>>
        /\ w[2] \notin 1..g[w[1]]
    BY <1>4 DEF Units
  <2>2. w[2] - g[w[1]] \in 1..h[w[1]]
    BY <2>1
  <2>3. <<w[1], w[2] - g[w[1]]>> \in Units(h, S)
    BY <2>1, <2>2 DEF Units
  <2>4. k[<<w[1], w[2] - g[w[1]]>>] = <<w[1], (w[2] - g[w[1]]) + g[w[1]]>>
    BY <2>3
  <2>5. (w[2] - g[w[1]]) + g[w[1]] = w[2]
    BY <2>1
  <2> QED BY <2>1, <2>3, <2>4, <2>5
<1>5. k \in Bijection(Units(h, S), Rest)
  <2>1. k \in [Units(h, S) -> Rest]
    BY <1>2
  <2>2. /\ \A u, v \in Units(h, S) : k[u] = k[v] => u = v
        /\ \A w \in Rest : \E u \in Units(h, S) : k[u] = w
    BY <1>3, <1>4
  <2> HIDE DEF k, Rest
  <2>3. k \in Injection(Units(h, S), Rest)
    BY <2>1, <2>2 DEF Injection, IsInjective
  <2>4. k \in Surjection(Units(h, S), Rest)
    BY <2>1, <2>2 DEF Surjection
  <2> QED BY <2>3, <2>4 DEF Bijection
<1>6. IsFiniteSet(Units(h, S)) /\ IsFiniteSet(Units(f, S)) /\ IsFiniteSet(Units(g, S))
  BY UnitsFinite
<1>7. Cardinality(Rest) = Cardinality(Units(h, S))
  BY <1>5, <1>6, FS_Bijection DEF ExistsBijection
<1>8. Units(g, S) \cap Units(f, S) = Units(g, S)
      /\ Units(f, S) \cap Units(g, S) = Units(g, S)
  BY DEF Units
<1>9. Cardinality(Rest) = Cardinality(Units(f, S)) - Cardinality(Units(g, S))
  <2>1. Cardinality(Rest) = Cardinality(Units(f, S))
                              - Cardinality(Units(f, S) \cap Units(g, S))
    BY <1>6, FS_Difference
  <2> HIDE DEF Rest
  <2> QED BY <1>8, <2>1
<1> QED BY <1>7, <1>9 DEF SumOf, Units
-----------------------------------------------------------------------------
(* Types                                                                   *)

Settlements == [p \in Payments |-> pay[p].amount]
Values == [r \in Returns |-> ret[r].value]
Debts == [r \in Returns |-> ret[r].ar]
Handed == [r \in Returns |-> ret[r].value - ret[r].ar]

\* The sums over settlements are natural numbers.
LEMMA PaymentAmounts ==
  ASSUME TypeOK
  PROVE  /\ \A p \in Payments : Settlements[p] = pay[p].amount /\ Settlements[p] \in Nat
         /\ \A S \in SUBSET Payments : IsFiniteSet(S) /\ AmountOf(S) \in Nat
         /\ \A s : IsFiniteSet(PaymentsIn(s)) /\ AmountOf(PaymentsIn(s)) \in Nat
         /\ PendingTransfers \in Nat
<1>1. \A p \in Payments : Settlements[p] = pay[p].amount /\ Settlements[p] \in Nat
  BY DEF TypeOK, PaymentRow, Settlements
<1>2. ASSUME NEW S \in SUBSET Payments
      PROVE  IsFiniteSet(S) /\ AmountOf(S) \in Nat
  <2>1. IsFiniteSet(S)
    BY SlotsAssumption, FS_Subset
  <2>2. SumOf(Settlements, S) \in Nat
    BY <1>1, <2>1, SumIsNat
  <2> QED BY <2>1, <2>2 DEF AmountOf, Settlements
<1>3. \A s : PaymentsIn(s) \in SUBSET Payments
  BY DEF PaymentsIn
<1>4. \A s : IsFiniteSet(PaymentsIn(s)) /\ AmountOf(PaymentsIn(s)) \in Nat
  BY <1>2, <1>3
<1> QED BY <1>1, <1>2, <1>4 DEF PendingTransfers

LEMMA WrittenOffIsNat ==
  ASSUME TypeOK
  PROVE  WrittenOff \in Nat
<1>1. IsFiniteSet(WriteOffs) /\ \A w \in WriteOffs : writtenOff[w] \in Nat
  BY SlotsAssumption DEF TypeOK
<1> QED BY <1>1, SumIsNat DEF WrittenOff

\* What is available is no more than the balance.
LEMMA AvailableIsOwed ==
  ASSUME TypeOK
  PROVE  Available \in Int /\ Available <= order.balance
BY PaymentAmounts DEF Available, TypeOK, OrderRow

LEMMA InitTyped == Init => TypeOK
<1> SUFFICES ASSUME Init PROVE TypeOK
  OBVIOUS
<1>1. order \in OrderRow
  BY DEF Init, OrderRow
<1>2. pay \in [Payments -> PaymentRow]
  BY DEF Init, NoPayment, PaymentRow
<1>3. ret \in [Returns -> ReturnRow]
  BY DEF Init, NoReturn, ReturnRow
<1> QED BY <1>1, <1>2, <1>3 DEF Init, TypeOK

\* The ledger's part of the type, after a posting.
LedgerTyped == ar \in Int /\ booked \subseteq Documents /\ queued \subseteq Documents

LEMMA PostTyped ==
  ASSUME LedgerTyped, NEW d \in Documents, NEW n \in Int, Post(d, n)
  PROVE  LedgerTyped'
BY DEF LedgerTyped, Post, ledger

LEMMA PostSaleTyped ==
  ASSUME LedgerTyped, NEW o \in OrderRow, PostSale(o)
  PROVE  LedgerTyped'
<1>1. "sale" \in Documents
  BY DEF Documents
<1>2. SaleReceivable(o) \in Int
  BY DEF SaleReceivable, CreditPart, OrderRow
<1> QED BY <1>1, <1>2, PostTyped DEF PostSale, LedgerTyped, ledger

\* Changes of an order row that keep it one.
LEMMA OrderChanges ==
  ASSUME NEW o \in OrderRow
  PROVE  /\ \A b \in Nat, c \in Nat, m \in Nat :
              [o EXCEPT !.balance = b, !.credit = c, !.paid = m] \in OrderRow
         /\ \A b \in Nat : [o EXCEPT !.balance = b] \in OrderRow
         /\ \A b \in Nat, m \in Nat :
              [o EXCEPT !.paid = m, !.balance = b] \in OrderRow
         /\ \A s \in {"none", "pending", "cancelled"} \cup Posted :
              [o EXCEPT !.status = s] \in OrderRow
BY DEF OrderRow

LEMMA CompletedTyped ==
  ASSUME NEW o \in OrderRow
  PROVE  CompletedIfClear(o) \in OrderRow
BY OrderChanges DEF CompletedIfClear, Posted

LEMMA ReceivedTyped ==
  ASSUME order \in OrderRow, NEW a \in Nat
  PROVE  Received(a) \in OrderRow
<1>1. order.paid + a \in Nat /\ Clip(order.balance - a) \in Nat
  BY DEF OrderRow, Clip
<1>2. [order EXCEPT !.paid = @ + a, !.balance = Clip(@ - a)] \in OrderRow
  BY <1>1, OrderChanges
<1> QED BY <1>2, CompletedTyped DEF Received

LEMMA ReopenedTyped ==
  ASSUME order \in OrderRow, NEW a \in Nat
  PROVE  ReopenedWith(a) \in OrderRow
<1> DEFINE o == [order EXCEPT !.balance = @ + a]
           s == IF order.status = "completed" THEN "approved" ELSE order.status
<1>1. order.balance + a \in Nat /\ s \in {"none", "pending", "cancelled"} \cup Posted
  BY DEF OrderRow, Posted
<1>2. o \in OrderRow
  BY <1>1, OrderChanges
<1>3. [o EXCEPT !.status = s] \in OrderRow
  BY <1>1, <1>2, OrderChanges
<1>4. ReopenedWith(a) = [o EXCEPT !.status = s]
  BY DEF ReopenedWith, OrderRow
<1> QED BY <1>3, <1>4

LEMMA CancelledIsOwed ==
  ASSUME TypeOK, NEW r \in Returns
  PROVE  /\ Cancelled(r) \in Nat
         /\ Cancelled(r) <= order.balance /\ Cancelled(r) <= ret[r].value
         /\ MoneyBack(r) \in Nat
<1>1. order.balance \in Nat /\ ret[r].value \in Nat
  BY DEF TypeOK, OrderRow, ReturnRow
<1>2. /\ Cancelled(r) \in Nat
      /\ Cancelled(r) <= order.balance /\ Cancelled(r) <= ret[r].value
  BY <1>1 DEF Cancelled
<1> QED BY <1>1, <1>2 DEF MoneyBack
\* The type of the documents and of the settlements to be booked.
DocumentsTyped ==
  /\ cheque \in {"none", "received", "bounced"}
  /\ pay \in [Payments -> PaymentRow]
  /\ ret \in [Returns -> ReturnRow]
  /\ writtenOff \in [WriteOffs -> Nat]
  /\ booking \subseteq Payments

LEMMA TypeParts == TypeOK <=> order \in OrderRow /\ DocumentsTyped /\ LedgerTyped
BY DEF TypeOK, DocumentsTyped, LedgerTyped

LEMMA CreateTyped ==
  ASSUME TypeOK, NEW method \in {"cash", "cheque", "credit"}, NEW total \in Amount,
         NEW cash \in 0..MaxTotal, NEW chq \in 0..MaxTotal,
         NEW transfer \in 0..MaxTotal, Create(method, total, cash, chq, transfer)
  PROVE  order' \in OrderRow /\ DocumentsTyped' /\ LedgerTyped'
<1> DEFINE credit == Clip(total - cash - chq - transfer)
           row == [status |-> IF credit > 0 \/ method = "credit" THEN "pending"
                                                                 ELSE "completed",
                   method |-> method, total |-> total, cash |-> cash,
                   cheque |-> chq, transfer |-> transfer, credit |-> credit,
                   paid |-> cash + chq, balance |-> total - cash - chq]
<1>1. /\ order' = row /\ cash + chq + transfer <= total
      /\ IF row.status = "completed" THEN PostSale(row) ELSE UNCHANGED ledger
      /\ cheque' \in {"none", "received"} /\ UNCHANGED <<pay, ret, writtenOff, booking>>
  BY DEF Create
<1>2. /\ total \in Nat /\ cash \in Nat /\ chq \in Nat /\ transfer \in Nat
      /\ total - cash - chq \in Nat /\ cash + chq \in Nat /\ credit \in Nat
  BY <1>1, MaxTotalAssumption DEF Amount, Clip
<1> HIDE DEF credit
<1>3. row \in OrderRow
  BY <1>2 DEF OrderRow, Posted
<1> HIDE DEF row
<1>4. LedgerTyped'
  BY <1>1, <1>3, PostSaleTyped, TypeParts DEF ledger, LedgerTyped
<1> QED BY <1>1, <1>3, <1>4, TypeParts DEF DocumentsTyped

LEMMA SellTyped ==
  ASSUME TypeOK, Sell
  PROVE  order' \in OrderRow /\ DocumentsTyped' /\ LedgerTyped'
<1>0. order \in OrderRow /\ DocumentsTyped /\ LedgerTyped
  BY TypeParts
<1>1. ASSUME NEW method \in {"cash", "cheque", "credit"}, NEW total \in Amount,
             NEW cash \in 0..MaxTotal, NEW chq \in 0..MaxTotal,
             NEW transfer \in 0..MaxTotal, Create(method, total, cash, chq, transfer)
      PROVE  order' \in OrderRow /\ DocumentsTyped' /\ LedgerTyped'
  BY <1>1, CreateTyped
<1>2. ASSUME Approve \/ Complete
      PROVE  order' \in OrderRow /\ DocumentsTyped' /\ LedgerTyped'
  <2>1. order' = [order EXCEPT !.status = "approved"]
          \/ order' = [order EXCEPT !.status = "completed"]
    BY <1>2 DEF Approve, Complete
  <2>2. order' \in OrderRow
    BY <1>0, <2>1, OrderChanges DEF Posted
  <2>3. LedgerTyped'
    BY <1>0, <1>2, PostSaleTyped DEF Approve, Complete
  <2> QED BY <1>0, <1>2, <2>2, <2>3 DEF Approve, Complete, DocumentsTyped, documents
<1>3. ASSUME Cancel
      PROVE  order' \in OrderRow /\ DocumentsTyped' /\ LedgerTyped'
  BY <1>0, <1>3 DEF Cancel, OrderRow, DocumentsTyped, LedgerTyped, documents, ledger
<1>4. ASSUME BounceTender
      PROVE  order' \in OrderRow /\ DocumentsTyped' /\ LedgerTyped'
  <2> DEFINE o == ReopenedWith(order.cheque)
  <2>1. o \in OrderRow /\ order.cheque \in Nat /\ order.paid \in Nat
    BY <1>0, ReopenedTyped DEF OrderRow
  <2>2. o.credit + order.cheque \in Nat /\ Clip(o.paid - order.cheque) \in Nat
    BY <2>1 DEF Clip, OrderRow
  <2>3. order' = [o EXCEPT !.credit = @ + order.cheque, !.paid = Clip(@ - order.cheque)]
    BY <1>4 DEF BounceTender
  <2>4. order' \in OrderRow
    <3> HIDE DEF o
    <3> QED BY <2>1, <2>2, <2>3 DEF OrderRow
  <2> QED BY <1>0, <1>4, <2>1, <2>4 DEF BounceTender, DocumentsTyped, LedgerTyped
<1> QED BY <1>1, <1>2, <1>3, <1>4 DEF Sell

LEMMA CollectTyped ==
  ASSUME TypeOK, Collect
  PROVE  order' \in OrderRow /\ DocumentsTyped' /\ LedgerTyped'
<1>0. order \in OrderRow /\ DocumentsTyped /\ LedgerTyped
  BY TypeParts
<1>1. ASSUME NEW p \in Payments, NEW method \in {"cash", "cheque", "transfer"},
             NEW a \in Amount, Settle(p, method, a)
      PROVE  order' \in OrderRow /\ DocumentsTyped' /\ LedgerTyped'
  <2>1. a \in Nat
    BY MaxTotalAssumption DEF Amount
  <2>2. order' \in OrderRow
    BY <1>0, <1>1, <2>1, ReceivedTyped DEF Settle
  <2>3. pay' \in [Payments -> PaymentRow]
    BY <1>0, <1>1, <2>1 DEF Settle, DocumentsTyped, PaymentRow
  <2> QED BY <1>0, <1>1, <2>2, <2>3 DEF Settle, DocumentsTyped, LedgerTyped, ledger
<1>2. ASSUME NEW p \in Payments, VerifyTransfer(p) \/ RejectTransfer(p)
      PROVE  order' \in OrderRow /\ DocumentsTyped' /\ LedgerTyped'
  <2>1. order' \in OrderRow
    BY <1>0, <1>2, ReceivedTyped DEF VerifyTransfer, RejectTransfer, DocumentsTyped, PaymentRow
  <2>2. pay' \in [Payments -> PaymentRow]
    BY <1>0, <1>2 DEF VerifyTransfer, RejectTransfer, DocumentsTyped, PaymentRow
  <2> QED BY <1>0, <1>2, <2>1, <2>2
          DEF VerifyTransfer, RejectTransfer, DocumentsTyped, LedgerTyped, ledger
<1>3. ASSUME NEW p \in Payments, BookSettlement(p)
      PROVE  order' \in OrderRow /\ DocumentsTyped' /\ LedgerTyped'
  <2>1. p \in Documents /\ -pay[p].amount \in Int
    BY <1>0 DEF Documents, DocumentsTyped, PaymentRow
  <2>2. Post(p, -pay[p].amount) \/ UNCHANGED ledger
    BY <1>3 DEF BookSettlement
  <2>3. LedgerTyped'
    BY <1>0, <2>1, <2>2, PostTyped DEF LedgerTyped, ledger
  <2> QED BY <1>0, <1>3, <2>3 DEF BookSettlement, DocumentsTyped, documents
<1>4. ASSUME NEW p \in Payments, BounceSettlement(p)
      PROVE  order' \in OrderRow /\ DocumentsTyped' /\ LedgerTyped'
  <2> DEFINE o == ReopenedWith(pay[p].amount)
  <2>1. pay[p].amount \in Nat /\ o \in OrderRow
    BY <1>0, ReopenedTyped DEF DocumentsTyped, PaymentRow
  <2>2. Clip(o.paid - pay[p].amount) \in Nat
    BY <2>1 DEF Clip, OrderRow
  <2>3. order' = [o EXCEPT !.paid = Clip(@ - pay[p].amount)]
    BY <1>4 DEF BounceSettlement
  <2>4. order' \in OrderRow
    <3> HIDE DEF o
    <3> QED BY <2>1, <2>2, <2>3 DEF OrderRow
  <2>5. pay' \in [Payments -> PaymentRow]
    BY <1>0, <1>4 DEF BounceSettlement, DocumentsTyped, PaymentRow
  <2> QED BY <1>0, <1>4, <2>1, <2>4, <2>5 DEF BounceSettlement, DocumentsTyped, LedgerTyped
<1> QED BY <1>1, <1>2, <1>3, <1>4 DEF Collect

LEMMA GiveUpTyped ==
  ASSUME TypeOK, GiveUp
  PROVE  order' \in OrderRow /\ DocumentsTyped' /\ LedgerTyped'
<1>0. order \in OrderRow /\ DocumentsTyped /\ LedgerTyped
  BY TypeParts
<1>1. ASSUME NEW w \in WriteOffs, NEW a \in Amount, WriteOff(w, a)
      PROVE  order' \in OrderRow /\ DocumentsTyped' /\ LedgerTyped'
  <2>1. a \in Nat /\ order.balance - a \in Nat
    BY <1>0, <1>1, MaxTotalAssumption, AvailableIsOwed DEF WriteOff, Amount, OrderRow
  <2>2. order' \in OrderRow
    BY <1>0, <1>1, <2>1, OrderChanges, CompletedTyped DEF WriteOff
  <2> QED BY <1>0, <1>1, <2>1, <2>2 DEF WriteOff, DocumentsTyped, LedgerTyped
<1>2. ASSUME NEW w \in WriteOffs, ReverseWriteOff(w)
      PROVE  order' \in OrderRow /\ DocumentsTyped' /\ LedgerTyped'
  <2>1. writtenOff[w] \in Nat
    BY <1>0 DEF DocumentsTyped
  <2>2. order' \in OrderRow
    BY <1>0, <1>2, <2>1, ReopenedTyped DEF ReverseWriteOff
  <2> QED BY <1>0, <1>2, <2>1, <2>2 DEF ReverseWriteOff, DocumentsTyped, LedgerTyped
<1> QED BY <1>1, <1>2 DEF GiveUp

LEMMA TakeBackTyped ==
  ASSUME TypeOK, TakeBack
  PROVE  order' \in OrderRow /\ DocumentsTyped' /\ LedgerTyped'
<1>0. order \in OrderRow /\ DocumentsTyped /\ LedgerTyped
  BY TypeParts
<1>1. ASSUME NEW r \in Returns, NEW value \in Amount, NEW note \in BOOLEAN,
             CreateReturn(r, value, note)
      PROVE  order' \in OrderRow /\ DocumentsTyped' /\ LedgerTyped'
  <2>1. value \in Nat
    BY MaxTotalAssumption DEF Amount
  <2>2. ret' \in [Returns -> ReturnRow]
    BY <1>0, <1>1, <2>1 DEF CreateReturn, DocumentsTyped, ReturnRow
  <2> QED BY <1>0, <1>1, <2>2 DEF CreateReturn, DocumentsTyped, LedgerTyped, ledger
<1>2. ASSUME NEW r \in Returns, DropReturn(r)
      PROVE  order' \in OrderRow /\ DocumentsTyped' /\ LedgerTyped'
  <2>1. ret' \in [Returns -> ReturnRow]
    BY <1>0, <1>2 DEF DropReturn, DocumentsTyped, ReturnRow, NoReturn
  <2> QED BY <1>0, <1>2, <2>1 DEF DropReturn, DocumentsTyped, LedgerTyped
<1>3. ASSUME NEW r \in Returns, ProcessReturn(r)
      PROVE  order' \in OrderRow /\ DocumentsTyped' /\ LedgerTyped'
  <2> DEFINE o == [order EXCEPT !.credit = Clip(@ - Cancelled(r)),
                                !.balance = @ - Cancelled(r),
                                !.paid = Clip(@ - MoneyBack(r))]
  <2>1. /\ Cancelled(r) \in Nat /\ MoneyBack(r) \in Nat /\ -Cancelled(r) \in Int
        /\ Cancelled(r) <= order.balance
    BY CancelledIsOwed
  <2>2. /\ Clip(order.credit - Cancelled(r)) \in Nat
        /\ order.balance - Cancelled(r) \in Nat
        /\ Clip(order.paid - MoneyBack(r)) \in Nat
    BY <1>0, <2>1 DEF Clip, OrderRow
  <2>3. o \in OrderRow
    BY <1>0, <2>2 DEF OrderRow
  <2>4. order' = AfterReturn(o)
    BY <1>3 DEF ProcessReturn
  <2> HIDE DEF o
  <2>5. order' \in OrderRow
    BY <2>3, <2>4, CompletedTyped DEF AfterReturn
  <2>6. ret' \in [Returns -> ReturnRow]
    BY <1>0, <1>3, <2>1 DEF ProcessReturn, DocumentsTyped, ReturnRow
  <2>7. LedgerTyped'
    BY <1>0, <1>3, <2>1, PostTyped DEF ProcessReturn, Documents
  <2> QED BY <1>0, <1>3, <2>5, <2>6, <2>7 DEF ProcessReturn, DocumentsTyped
<1> QED BY <1>1, <1>2, <1>3 DEF TakeBack

LEMMA RepairTyped ==
  ASSUME TypeOK, Repair
  PROVE  order' \in OrderRow /\ DocumentsTyped' /\ LedgerTyped'
<1>0. order \in OrderRow /\ DocumentsTyped /\ LedgerTyped
  BY TypeParts
<1>1. ASSUME NEW d \in Documents, Retry(d)
      PROVE  order' \in OrderRow /\ DocumentsTyped' /\ LedgerTyped'
  <2>1. SaleReceivable(order) \in Int
    BY <1>0 DEF SaleReceivable, CreditPart, OrderRow
  <2>2. d \in Payments => pay[d].amount \in Int
    BY <1>0 DEF DocumentsTyped, PaymentRow
  <2>3. d \in Returns => DerivedReceivable(d) \in Int
    BY <1>0 DEF DocumentsTyped, ReturnRow, DerivedReceivable
  <2>4. ar \in Int
    BY <1>0 DEF LedgerTyped
  <2>5. ar' = CASE d \in booked -> ar
                [] d = "sale" /\ d \notin booked -> ar + SaleReceivable(order)
                [] d \in Payments \ booked -> ar - pay[d].amount
                [] d \in Returns \ booked -> ar - DerivedReceivable(d)
    BY <1>1 DEF Retry
  <2>6. ar' \in Int
    BY <2>1, <2>2, <2>3, <2>4, <2>5 DEF Documents
  <2> QED BY <1>0, <1>1, <2>6 DEF Retry, DocumentsTyped, LedgerTyped, documents
<1>2. ASSUME NEW d \in Documents, RolledBack(d)
      PROVE  order' \in OrderRow /\ DocumentsTyped' /\ LedgerTyped'
  BY <1>0, <1>2 DEF RolledBack, DocumentsTyped, LedgerTyped, documents
<1>3. ASSUME PostByHand
      PROVE  order' \in OrderRow /\ DocumentsTyped' /\ LedgerTyped'
  <2>1. LedgerTyped'
    BY <1>0, <1>3, PostSaleTyped DEF PostByHand
  <2> QED BY <1>0, <1>3, <2>1 DEF PostByHand, DocumentsTyped, documents
<1> QED BY <1>1, <1>2, <1>3 DEF Repair

LEMMA TypeKept == TypeOK /\ [Next]_vars => TypeOK'
<1> SUFFICES ASSUME TypeOK, [Next]_vars PROVE TypeOK'
  OBVIOUS
<1>1. CASE UNCHANGED vars
  BY <1>1 DEF TypeOK, vars, documents, ledger
<1>2. ASSUME Next
      PROVE  order' \in OrderRow /\ DocumentsTyped' /\ LedgerTyped'
  BY <1>2, SellTyped, CollectTyped, GiveUpTyped, TakeBackTyped, RepairTyped DEF Next
<1> QED BY <1>1, <1>2 DEF TypeOK, DocumentsTyped, LedgerTyped

\* Rows, ledger and work in progress keep their types through every operation
\* of modules/sales and modules/finance, the risky ones included: no debt,
\* credit or payment ever becomes negative, whatever is subtracted from it.
THEOREM TypeCorrect == Spec => []TypeOK
BY InitTyped, TypeKept, PTL DEF Spec
-----------------------------------------------------------------------------
(* The sums as the documents change                                        *)

Collected == AmountOf(PaymentsIn("completed"))
Debited == DebtOf(ReturnsIn("processed"))

\* Received settlements, and processed returns, without a journal entry.
UnbookedPayments == {p \in Payments : WasReceived(p)} \ booked
UnbookedReturns == ReturnsIn("processed") \ booked
UnbookedAmount == AmountOf(UnbookedPayments)
UnbookedDebt == DebtOf(UnbookedReturns)
PaidReturns == {r \in ReturnsIn("processed") : ~ret[r].note}

\* A return never takes more off the debt than its value.
DebtsFit == \A r \in Returns : ret[r].ar <= ret[r].value

\* One settlement row that changes.
LEMMA PaymentChanges ==
  ASSUME TypeOK, NEW p \in Payments, NEW row \in PaymentRow,
         pay' = [pay EXCEPT ![p] = row], booked' \ {p} = booked \ {p}
  PROVE  /\ PendingTransfers' = PendingTransfers
              - (IF pay[p].status = "pending" THEN pay[p].amount ELSE 0)
              + (IF row.status = "pending" THEN row.amount ELSE 0)
         /\ Collected' = Collected
              - (IF pay[p].status = "completed" THEN pay[p].amount ELSE 0)
              + (IF row.status = "completed" THEN row.amount ELSE 0)
         /\ UnbookedAmount' = UnbookedAmount
              - (IF p \in UnbookedPayments THEN pay[p].amount ELSE 0)
              + (IF p \in UnbookedPayments' THEN row.amount ELSE 0)
<1>1. /\ Settlements' = [Settlements EXCEPT ![p] = row.amount]
      /\ row.amount \in Nat /\ Settlements[p] = pay[p].amount
      /\ \A q \in Payments : Settlements[q] \in Nat
      /\ \A q \in Payments \ {p} : Settlements'[q] = Settlements[q]
      /\ Settlements'[p] = row.amount
  BY DEF Settlements, TypeOK, PaymentRow
<1>2. \A q \in Payments \ {p} : pay'[q] = pay[q]
  BY DEF TypeOK
<1>3. pay'[p] = row
  BY DEF TypeOK
<1>4. ASSUME NEW S \in SUBSET Payments, NEW T \in SUBSET Payments, S \ {p} = T \ {p}
      PROVE  SumOf(Settlements', T) = SumOf(Settlements, S)
               - (IF p \in S THEN pay[p].amount ELSE 0)
               + (IF p \in T THEN row.amount ELSE 0)
  <2>1. IsFiniteSet(S)
    BY PaymentAmounts
  <2>2. \A q \in S \ {p} : Settlements[q] \in Nat /\ Settlements'[q] = Settlements[q]
    BY <1>1
  <2>3. Settlements[p] \in Nat /\ Settlements'[p] \in Nat
    BY <1>1
  <2>4. SumOf(Settlements', T) = SumOf(Settlements, S)
          - (IF p \in S THEN Settlements[p] ELSE 0) + (IF p \in T THEN Settlements'[p] ELSE 0)
    BY <1>4, <2>1, <2>2, <2>3, SumStep
  <2> QED BY <1>1, <2>4
<1>5. /\ PaymentsIn("pending") \in SUBSET Payments
      /\ PaymentsIn("pending")' \in SUBSET Payments
      /\ PaymentsIn("pending") \ {p} = PaymentsIn("pending")' \ {p}
      /\ p \in PaymentsIn("pending") <=> pay[p].status = "pending"
      /\ p \in PaymentsIn("pending")' <=> row.status = "pending"
  BY <1>2, <1>3 DEF PaymentsIn
<1>6. /\ PaymentsIn("completed") \in SUBSET Payments
      /\ PaymentsIn("completed")' \in SUBSET Payments
      /\ PaymentsIn("completed") \ {p} = PaymentsIn("completed")' \ {p}
      /\ p \in PaymentsIn("completed") <=> pay[p].status = "completed"
      /\ p \in PaymentsIn("completed")' <=> row.status = "completed"
  BY <1>2, <1>3 DEF PaymentsIn
<1>7. /\ UnbookedPayments \in SUBSET Payments
      /\ UnbookedPayments' \in SUBSET Payments
      /\ UnbookedPayments \ {p} = UnbookedPayments' \ {p}
  BY <1>2 DEF UnbookedPayments, WasReceived
<1>8. PendingTransfers' = SumOf(Settlements', PaymentsIn("pending")')
      /\ PendingTransfers = SumOf(Settlements, PaymentsIn("pending"))
  BY DEF PendingTransfers, AmountOf, Settlements
<1>9. Collected' = SumOf(Settlements', PaymentsIn("completed")')
      /\ Collected = SumOf(Settlements, PaymentsIn("completed"))
  BY DEF Collected, AmountOf, Settlements
<1>10. UnbookedAmount' = SumOf(Settlements', UnbookedPayments')
       /\ UnbookedAmount = SumOf(Settlements, UnbookedPayments)
  BY DEF UnbookedAmount, AmountOf, Settlements
<1>11. PendingTransfers' = PendingTransfers
          - (IF pay[p].status = "pending" THEN pay[p].amount ELSE 0)
          + (IF row.status = "pending" THEN row.amount ELSE 0)
  BY <1>4, <1>5, <1>8
<1>12. Collected' = Collected
          - (IF pay[p].status = "completed" THEN pay[p].amount ELSE 0)
          + (IF row.status = "completed" THEN row.amount ELSE 0)
  BY <1>4, <1>6, <1>9
<1>13. UnbookedAmount' = UnbookedAmount
          - (IF p \in UnbookedPayments THEN pay[p].amount ELSE 0)
          + (IF p \in UnbookedPayments' THEN row.amount ELSE 0)
  BY <1>4, <1>7, <1>10
<1> QED BY <1>11, <1>12, <1>13

\* Sums that depend on settlements, returns or write-offs alone.
LEMMA PaymentSumsKept ==
  ASSUME UNCHANGED pay
  PROVE  /\ PendingTransfers' = PendingTransfers /\ Collected' = Collected
         /\ booked' \cap Payments = booked \cap Payments
              => UnbookedAmount' = UnbookedAmount
<1>1. Settlements' = Settlements
  BY DEF Settlements
<1>2. \A s : PaymentsIn(s)' = PaymentsIn(s)
  BY DEF PaymentsIn
<1>3. PendingTransfers' = PendingTransfers /\ Collected' = Collected
  BY DEF PendingTransfers, Collected, AmountOf, PaymentsIn
<1>4. ASSUME booked' \cap Payments = booked \cap Payments
      PROVE  UnbookedAmount' = UnbookedAmount
  <2>1. UnbookedPayments' = UnbookedPayments
    BY <1>4 DEF UnbookedPayments, WasReceived
  <2> QED BY <2>1 DEF UnbookedAmount, AmountOf
<1> QED BY <1>3, <1>4

\* The sums over returns are natural numbers.
LEMMA ReturnValues ==
  ASSUME TypeOK, DebtsFit
  PROVE  /\ \A r \in Returns : /\ Values[r] = ret[r].value /\ Values[r] \in Nat
                               /\ Debts[r] = ret[r].ar /\ Debts[r] \in Nat
                               /\ Handed[r] = ret[r].value - ret[r].ar
                               /\ Handed[r] \in Nat
         /\ \A S \in SUBSET Returns :
              /\ IsFiniteSet(S)
              /\ SumOf(Values, S) \in Nat /\ SumOf(Debts, S) \in Nat
              /\ SumOf(Handed, S) \in Nat
<1>1. \A r \in Returns : /\ Values[r] = ret[r].value /\ Values[r] \in Nat
                         /\ Debts[r] = ret[r].ar /\ Debts[r] \in Nat
                         /\ Handed[r] = ret[r].value - ret[r].ar
                         /\ Handed[r] \in Nat
  BY DEF TypeOK, ReturnRow, DebtsFit, Values, Debts, Handed
<1>2. ASSUME NEW S \in SUBSET Returns
      PROVE  /\ IsFiniteSet(S)
             /\ SumOf(Values, S) \in Nat /\ SumOf(Debts, S) \in Nat
             /\ SumOf(Handed, S) \in Nat
  <2>1. IsFiniteSet(S)
    BY SlotsAssumption, FS_Subset
  <2>2. /\ \A r \in S : Values[r] \in Nat
        /\ \A r \in S : Debts[r] \in Nat
        /\ \A r \in S : Handed[r] \in Nat
    BY <1>1
  <2> QED BY <2>1, <2>2, SumIsNat
<1> QED BY <1>1, <1>2

LEMMA ReturnSums ==
  /\ ReturnedValue = SumOf(Values, ReturnsIn("open") \cup ReturnsIn("processed"))
  /\ Debited = SumOf(Debts, ReturnsIn("processed"))
  /\ Refunds = SumOf(Handed, ReturnsIn("processed"))
  /\ MoneyRefunds = SumOf(Handed, PaidReturns)
  /\ UnbookedDebt = SumOf(Debts, UnbookedReturns)
BY DEF ReturnedValue, ValueOf, Values, Debited, DebtOf, Debts, Refunds, RefundOf, Handed,
       MoneyRefunds, PaidReturns, UnbookedDebt

LEMMA ReturnSumsNext ==
  /\ ReturnedValue' = SumOf(Values', (ReturnsIn("open") \cup ReturnsIn("processed"))')
  /\ Debited' = SumOf(Debts', ReturnsIn("processed")')
  /\ Refunds' = SumOf(Handed', ReturnsIn("processed")')
  /\ MoneyRefunds' = SumOf(Handed', PaidReturns')
  /\ UnbookedDebt' = SumOf(Debts', UnbookedReturns')
BY DEF ReturnedValue, ValueOf, Values, Debited, DebtOf, Debts, Refunds, RefundOf, Handed,
       MoneyRefunds, PaidReturns, UnbookedDebt

\* One return that changes.
LEMMA ReturnChanges ==
  ASSUME TypeOK, DebtsFit, NEW r \in Returns, NEW row \in ReturnRow,
         row.ar <= row.value,
         ret' = [ret EXCEPT ![r] = row], booked' \ {r} = booked \ {r}
  PROVE  /\ ReturnedValue' = ReturnedValue
              - (IF ret[r].status \in {"open", "processed"} THEN ret[r].value ELSE 0)
              + (IF row.status \in {"open", "processed"} THEN row.value ELSE 0)
         /\ Debited' = Debited
              - (IF ret[r].status = "processed" THEN ret[r].ar ELSE 0)
              + (IF row.status = "processed" THEN row.ar ELSE 0)
         /\ Refunds' = Refunds
              - (IF ret[r].status = "processed" THEN ret[r].value - ret[r].ar ELSE 0)
              + (IF row.status = "processed" THEN row.value - row.ar ELSE 0)
         /\ MoneyRefunds' = MoneyRefunds
              - (IF ret[r].status = "processed" /\ ~ret[r].note
                 THEN ret[r].value - ret[r].ar ELSE 0)
              + (IF row.status = "processed" /\ ~row.note
                 THEN row.value - row.ar ELSE 0)
         /\ UnbookedDebt' = UnbookedDebt
              - (IF r \in UnbookedReturns THEN ret[r].ar ELSE 0)
              + (IF r \in UnbookedReturns' THEN row.ar ELSE 0)
<1>1. \A q \in Returns \ {r} : ret'[q] = ret[q]
  BY DEF TypeOK
<1>2. ret'[r] = row
  BY DEF TypeOK
<1>3. /\ row.value \in Nat /\ row.ar \in Nat /\ row.value - row.ar \in Nat
      /\ row.note \in BOOLEAN /\ ret[r].note \in BOOLEAN
  BY DEF ReturnRow, TypeOK
<1>4. /\ Values'[r] = row.value /\ Debts'[r] = row.ar /\ Handed'[r] = row.value - row.ar
      /\ \A q \in Returns \ {r} :
           Values'[q] = Values[q] /\ Debts'[q] = Debts[q] /\ Handed'[q] = Handed[q]
  BY <1>1, <1>2 DEF Values, Debts, Handed
<1>5. ASSUME NEW S \in SUBSET Returns, NEW T \in SUBSET Returns, S \ {r} = T \ {r}
      PROVE  /\ SumOf(Values', T) = SumOf(Values, S)
                  - (IF r \in S THEN ret[r].value ELSE 0)
                  + (IF r \in T THEN row.value ELSE 0)
             /\ SumOf(Debts', T) = SumOf(Debts, S)
                  - (IF r \in S THEN ret[r].ar ELSE 0)
                  + (IF r \in T THEN row.ar ELSE 0)
             /\ SumOf(Handed', T) = SumOf(Handed, S)
                  - (IF r \in S THEN ret[r].value - ret[r].ar ELSE 0)
                  + (IF r \in T THEN row.value - row.ar ELSE 0)
  <2>1. IsFiniteSet(S)
    BY ReturnValues
  <2>2. /\ \A q \in S \ {r} : Values[q] \in Nat /\ Values'[q] = Values[q]
        /\ \A q \in S \ {r} : Debts[q] \in Nat /\ Debts'[q] = Debts[q]
        /\ \A q \in S \ {r} : Handed[q] \in Nat /\ Handed'[q] = Handed[q]
    BY <1>4, ReturnValues
  <2>3. /\ Values[r] \in Nat /\ Debts[r] \in Nat /\ Handed[r] \in Nat
        /\ Values'[r] \in Nat /\ Debts'[r] \in Nat /\ Handed'[r] \in Nat
    BY <1>3, <1>4, ReturnValues
  <2>4. SumOf(Values', T) = SumOf(Values, S)
          - (IF r \in S THEN Values[r] ELSE 0) + (IF r \in T THEN Values'[r] ELSE 0)
    BY <1>5, <2>1, <2>2, <2>3, SumStep
  <2>5. SumOf(Debts', T) = SumOf(Debts, S)
          - (IF r \in S THEN Debts[r] ELSE 0) + (IF r \in T THEN Debts'[r] ELSE 0)
    BY <1>5, <2>1, <2>2, <2>3, SumStep
  <2>6. SumOf(Handed', T) = SumOf(Handed, S)
          - (IF r \in S THEN Handed[r] ELSE 0) + (IF r \in T THEN Handed'[r] ELSE 0)
    BY <1>5, <2>1, <2>2, <2>3, SumStep
  <2>7. Values[r] = ret[r].value /\ Debts[r] = ret[r].ar
        /\ Handed[r] = ret[r].value - ret[r].ar
    BY ReturnValues
  <2> QED BY <1>4, <2>4, <2>5, <2>6, <2>7
<1> DEFINE Standing == ReturnsIn("open") \cup ReturnsIn("processed")
<1>6. /\ Standing \in SUBSET Returns /\ Standing' \in SUBSET Returns
      /\ Standing \ {r} = Standing' \ {r}
      /\ r \in Standing <=> ret[r].status \in {"open", "processed"}
      /\ r \in Standing' <=> row.status \in {"open", "processed"}
  BY <1>1, <1>2 DEF ReturnsIn
<1>7. /\ ReturnsIn("processed") \in SUBSET Returns
      /\ ReturnsIn("processed")' \in SUBSET Returns
      /\ ReturnsIn("processed") \ {r} = ReturnsIn("processed")' \ {r}
      /\ r \in ReturnsIn("processed") <=> ret[r].status = "processed"
      /\ r \in ReturnsIn("processed")' <=> row.status = "processed"
  BY <1>1, <1>2 DEF ReturnsIn
<1>8. /\ PaidReturns \in SUBSET Returns /\ PaidReturns' \in SUBSET Returns
      /\ PaidReturns \ {r} = PaidReturns' \ {r}
      /\ r \in PaidReturns <=> ret[r].status = "processed" /\ ~ret[r].note
      /\ r \in PaidReturns' <=> row.status = "processed" /\ ~row.note
  BY <1>1, <1>2 DEF ReturnsIn, PaidReturns
<1>9. /\ UnbookedReturns \in SUBSET Returns /\ UnbookedReturns' \in SUBSET Returns
      /\ UnbookedReturns \ {r} = UnbookedReturns' \ {r}
  BY <1>7 DEF UnbookedReturns
<1>10. ReturnedValue' = ReturnedValue
         - (IF ret[r].status \in {"open", "processed"} THEN ret[r].value ELSE 0)
         + (IF row.status \in {"open", "processed"} THEN row.value ELSE 0)
  <2> HIDE DEF Standing
  <2>1. ReturnedValue' = SumOf(Values', Standing') /\ ReturnedValue = SumOf(Values, Standing)
    BY ReturnSums, ReturnSumsNext DEF Standing
  <2> QED BY <1>5, <1>6, <2>1
<1>11. /\ Debited' = Debited
            - (IF ret[r].status = "processed" THEN ret[r].ar ELSE 0)
            + (IF row.status = "processed" THEN row.ar ELSE 0)
       /\ Refunds' = Refunds
            - (IF ret[r].status = "processed" THEN ret[r].value - ret[r].ar ELSE 0)
            + (IF row.status = "processed" THEN row.value - row.ar ELSE 0)
  BY <1>5, <1>7, ReturnSums, ReturnSumsNext
<1>12. MoneyRefunds' = MoneyRefunds
         - (IF ret[r].status = "processed" /\ ~ret[r].note
            THEN ret[r].value - ret[r].ar ELSE 0)
         + (IF row.status = "processed" /\ ~row.note
            THEN row.value - row.ar ELSE 0)
  BY <1>5, <1>8, ReturnSums, ReturnSumsNext
<1>13. UnbookedDebt' = UnbookedDebt
         - (IF r \in UnbookedReturns THEN ret[r].ar ELSE 0)
         + (IF r \in UnbookedReturns' THEN row.ar ELSE 0)
  BY <1>5, <1>9, ReturnSums, ReturnSumsNext
<1> QED BY <1>10, <1>11, <1>12, <1>13

LEMMA ReturnSumsKept ==
  ASSUME UNCHANGED ret
  PROVE  /\ ReturnedValue' = ReturnedValue /\ Debited' = Debited
         /\ Refunds' = Refunds /\ MoneyRefunds' = MoneyRefunds
         /\ booked' \cap Returns = booked \cap Returns => UnbookedDebt' = UnbookedDebt
<1>1. Values' = Values /\ Debts' = Debts /\ Handed' = Handed
  BY DEF Values, Debts, Handed
<1>2. /\ ReturnsIn("open")' = ReturnsIn("open")
      /\ ReturnsIn("processed")' = ReturnsIn("processed") /\ PaidReturns' = PaidReturns
  BY DEF ReturnsIn, PaidReturns
<1>3. booked' \cap Returns = booked \cap Returns => UnbookedReturns' = UnbookedReturns
  BY DEF UnbookedReturns, ReturnsIn
<1> QED BY <1>1, <1>2, <1>3, ReturnSums, ReturnSumsNext

\* A settlement or a return that is booked.
LEMMA BookingChanges ==
  ASSUME TypeOK, DebtsFit, UNCHANGED <<pay, ret>>, NEW d, booked' = booked \cup {d}
  PROVE  /\ UnbookedAmount' = UnbookedAmount
              - (IF d \in UnbookedPayments THEN pay[d].amount ELSE 0)
         /\ UnbookedDebt' = UnbookedDebt
              - (IF d \in UnbookedReturns THEN ret[d].ar ELSE 0)
<1>1. /\ UnbookedPayments' = UnbookedPayments \ {d} /\ UnbookedPayments \in SUBSET Payments
      /\ UnbookedReturns' = UnbookedReturns \ {d} /\ UnbookedReturns \in SUBSET Returns
  BY DEF UnbookedPayments, WasReceived, UnbookedReturns, ReturnsIn
<1>2. Settlements' = Settlements /\ Debts' = Debts
  BY DEF Settlements, Debts
<1>3. /\ IsFiniteSet(UnbookedPayments)
      /\ \A q \in UnbookedPayments : Settlements[q] \in Nat /\ Settlements[q] = pay[q].amount
  BY <1>1, PaymentAmounts
<1>4. SumOf(Settlements, UnbookedPayments \ {d}) = SumOf(Settlements, UnbookedPayments)
        - (IF d \in UnbookedPayments THEN Settlements[d] ELSE 0)
        + (IF d \in UnbookedPayments \ {d} THEN Settlements[d] ELSE 0)
  <2>1. UnbookedPayments \ {d} = (UnbookedPayments \ {d}) \ {d}
    OBVIOUS
  <2> QED BY <1>3, <2>1, SumStep
<1>5. /\ IsFiniteSet(UnbookedReturns)
      /\ \A q \in UnbookedReturns : Debts[q] \in Nat /\ Debts[q] = ret[q].ar
  BY <1>1, ReturnValues
<1>6. SumOf(Debts, UnbookedReturns \ {d}) = SumOf(Debts, UnbookedReturns)
        - (IF d \in UnbookedReturns THEN Debts[d] ELSE 0)
        + (IF d \in UnbookedReturns \ {d} THEN Debts[d] ELSE 0)
  <2>1. UnbookedReturns \ {d} = (UnbookedReturns \ {d}) \ {d}
    OBVIOUS
  <2> QED BY <1>5, <2>1, SumStep
<1>7. /\ UnbookedAmount' = SumOf(Settlements', UnbookedPayments')
      /\ UnbookedAmount = SumOf(Settlements, UnbookedPayments)
  BY DEF UnbookedAmount, AmountOf, Settlements
<1>8. UnbookedAmount \in Nat /\ UnbookedDebt \in Nat
  BY <1>1, <1>7, PaymentAmounts, ReturnValues, ReturnSums DEF UnbookedAmount
<1> QED BY <1>1, <1>2, <1>3, <1>4, <1>5, <1>6, <1>7, <1>8, ReturnSums, ReturnSumsNext

\* One write-off that changes.
LEMMA WriteOffChanges ==
  ASSUME TypeOK, NEW w \in WriteOffs, NEW a \in Nat,
         writtenOff' = [writtenOff EXCEPT ![w] = a]
  PROVE  WrittenOff' = WrittenOff - writtenOff[w] + a
<1> DEFINE f == writtenOff
           g == writtenOff'
<1>1. /\ g[w] = a /\ f[w] = writtenOff[w] /\ f[w] \in Nat
      /\ \A v \in WriteOffs \ {w} : f[v] \in Nat /\ g[v] = f[v]
  BY DEF TypeOK
<1>2. IsFiniteSet(WriteOffs)
  BY SlotsAssumption
<1>3. WrittenOff' = SumOf(g, WriteOffs) /\ WrittenOff = SumOf(f, WriteOffs)
  BY DEF WrittenOff
<1> HIDE DEF f, g
<1>4. SumOf(g, WriteOffs) = SumOf(f, WriteOffs)
        - (IF w \in WriteOffs THEN f[w] ELSE 0)
        + (IF w \in WriteOffs THEN g[w] ELSE 0)
  BY <1>1, <1>2, SumStep
<1> QED BY <1>1, <1>3, <1>4

LEMMA WrittenOffKept ==
  ASSUME UNCHANGED writtenOff
  PROVE  WrittenOff' = WrittenOff
BY DEF WrittenOff
-----------------------------------------------------------------------------
(* The invariant                                                           *)

Live == order.status \in {"pending"} \cup Posted

\* What the order was paid with a cheque that is still good.
Tendered == IF cheque = "bounced" THEN 0 ELSE order.cheque

\* Before it is sold, an order has no documents and nothing in the ledger.
Untouched ==
  order.status \notin Posted =>
    /\ ar = 0 /\ booked = {} /\ booking = {} /\ cheque # "bounced"
    /\ \A p \in Payments : pay[p].status = "none"
    /\ \A r \in Returns : ret[r].status = "none"
    /\ \A w \in WriteOffs : writtenOff[w] = 0

Rows ==
  /\ \A p \in Payments : /\ pay[p].status # "none" => pay[p].amount > 0
                         /\ pay[p].status = "pending" => pay[p].method = "transfer"
  /\ DebtsFit
  /\ cheque = "received" => order.cheque > 0
  /\ order.transfer = 0 /\ (order.status # "none" => order.total > 0)

BookedIsDue == booked \subseteq Due /\ booking \subseteq Due

\* Nothing is returned or bounced before the sale is in the ledger.
SaleFirst == "sale" \notin booked => cheque # "bounced" /\ ReturnsIn("processed") = {}

\* The amounts of the order row, from the documents.
Money ==
  Live =>
    /\ order.credit = order.total - order.cash - Tendered - Debited
    /\ order.balance = order.credit - Collected - WrittenOff
    /\ ReturnedValue <= order.total
    /\ MoneyRefunds <= Receipts /\ order.paid = Receipts - MoneyRefunds

\* The ledger, and what it lacks, one kind of document at a time.
LedgerLeft ==
  order.status \in Posted =>
    order.balance = ar + (IF "sale" \in booked THEN 0
                          ELSE order.total - order.cash - order.cheque)
                      - UnbookedAmount - UnbookedDebt

Books == /\ Untouched /\ Rows /\ CancelledOwesNothing
         /\ BookedIsDue /\ SaleFirst /\ NoSilentGap
         /\ Money /\ LedgerLeft /\ TransfersCovered /\ ClearedIsCompleted

Inv == TypeOK /\ Books

\* All the amounts of the invariant are numbers.
LEMMA InvNats ==
  ASSUME Inv
  PROVE  /\ PendingTransfers \in Nat /\ Collected \in Nat /\ UnbookedAmount \in Nat
         /\ ReturnedValue \in Nat /\ Debited \in Nat /\ UnbookedDebt \in Nat
         /\ Refunds \in Nat /\ MoneyRefunds \in Nat /\ WrittenOff \in Nat
         /\ order.total \in Nat /\ order.cash \in Nat /\ order.cheque \in Nat
         /\ order.credit \in Nat /\ order.balance \in Nat /\ order.paid \in Nat
         /\ Tendered \in Nat /\ Receipts = order.cash + Tendered + Collected
         /\ Receipts \in Nat /\ ar \in Int
<1>1. /\ PendingTransfers \in Nat /\ Collected \in Nat /\ WrittenOff \in Nat
  BY PaymentAmounts, WrittenOffIsNat DEF Inv, Collected
<1>2. UnbookedAmount \in Nat
  <2>1. UnbookedPayments \in SUBSET Payments
    BY DEF UnbookedPayments
  <2> QED BY <2>1, PaymentAmounts DEF Inv, UnbookedAmount
<1>3. /\ ReturnedValue \in Nat /\ Debited \in Nat /\ UnbookedDebt \in Nat
      /\ Refunds \in Nat /\ MoneyRefunds \in Nat
  <2>1. /\ ReturnsIn("open") \cup ReturnsIn("processed") \in SUBSET Returns
        /\ ReturnsIn("processed") \in SUBSET Returns
        /\ PaidReturns \in SUBSET Returns /\ UnbookedReturns \in SUBSET Returns
    BY DEF ReturnsIn, PaidReturns, UnbookedReturns
  <2> QED BY <2>1, ReturnValues, ReturnSums DEF Inv, Books, Rows
<1>4. /\ order.total \in Nat /\ order.cash \in Nat /\ order.cheque \in Nat
      /\ order.credit \in Nat /\ order.balance \in Nat /\ order.paid \in Nat /\ ar \in Int
  BY DEF Inv, TypeOK, OrderRow
<1>5. Tendered \in Nat /\ Receipts = order.cash + Tendered + Collected
  BY <1>4 DEF Tendered, Receipts, Collected
<1> QED BY <1>1, <1>2, <1>3, <1>4, <1>5

\* The documents that belong in the ledger, one kind at a time.
LEMMA DueIs ==
  /\ "sale" \in Due <=> order.status \in Posted
  /\ \A p \in Payments : p \in Due <=> WasReceived(p)
  /\ \A r \in Returns : r \in Due <=> ret[r].status = "processed"
  /\ Due \subseteq Documents
BY SlotsAssumption DEF Due, ReturnsIn, Documents

LEMMA DueIsNext ==
  /\ "sale" \in Due' <=> order'.status \in Posted
  /\ \A p \in Payments : p \in Due' <=> WasReceived(p)'
  /\ \A r \in Returns : r \in Due' <=> ret'[r].status = "processed"
  /\ Due' \subseteq Documents
BY SlotsAssumption DEF Due, ReturnsIn, Documents, WasReceived

LEMMA DueKept ==
  ASSUME UNCHANGED <<pay, ret>>, order'.status \in Posted <=> order.status \in Posted
  PROVE  Due' = Due
BY DEF Due, WasReceived, ReturnsIn

\* Nothing has happened to an order that is not sold.
LEMMA UntouchedSums ==
  ASSUME Inv, order.status \notin Posted
  PROVE  /\ PendingTransfers = 0 /\ Collected = 0 /\ UnbookedAmount = 0
         /\ ReturnedValue = 0 /\ Debited = 0 /\ UnbookedDebt = 0
         /\ Refunds = 0 /\ MoneyRefunds = 0 /\ WrittenOff = 0
         /\ Tendered = order.cheque /\ Due = {} /\ booked = {} /\ booking = {} /\ ar = 0
         /\ ReturnsIn("processed") = {}
<1>1. /\ \A s : s # "none" => PaymentsIn(s) = {}
      /\ \A s : s # "none" => ReturnsIn(s) = {}
      /\ UnbookedPayments = {} /\ UnbookedReturns = {} /\ PaidReturns = {}
  BY DEF Inv, Books, Untouched, PaymentsIn, ReturnsIn, UnbookedPayments, WasReceived,
         UnbookedReturns, PaidReturns
<1>2. \A f : SumOf(f, {}) = 0
  BY SumOfZeros
<1>3. PendingTransfers = 0 /\ Collected = 0 /\ UnbookedAmount = 0
  BY <1>1, <1>2 DEF PendingTransfers, Collected, UnbookedAmount, AmountOf
<1>4. /\ ReturnedValue = 0 /\ Debited = 0 /\ UnbookedDebt = 0
      /\ Refunds = 0 /\ MoneyRefunds = 0
  <2>1. /\ ReturnsIn("processed") = {} /\ ReturnsIn("open") = {}
        /\ ReturnsIn("open") \cup ReturnsIn("processed") = {}
    BY <1>1
  <2> QED BY <1>1, <1>2, <2>1, ReturnSums
<1>5. WrittenOff = 0
  BY SumOfZeros DEF Inv, Books, Untouched, WrittenOff
<1>6. Due = {}
  BY <1>1 DEF Inv, Books, Untouched, Due, WasReceived
<1> QED BY <1>1, <1>3, <1>4, <1>5, <1>6 DEF Inv, Books, Untouched, Tendered
-----------------------------------------------------------------------------
(* Entries made, waiting or refused                                        *)

\* What the entry of a document puts on 1110.
EntryOf(d) == IF d = "sale" THEN order.total - order.cash - order.cheque
              ELSE IF d \in Payments THEN -pay[d].amount ELSE -ret[d].ar

\* The order row but for a step of its status among the sold ones.
SameRow ==
  \E s \in {order.status, "completed"} : order' = [order EXCEPT !.status = s]

LEMMA SameRowFields ==
  ASSUME TypeOK, order.status \in Posted, SameRow
  PROVE  /\ order'.total = order.total /\ order'.cash = order.cash
         /\ order'.cheque = order.cheque /\ order'.credit = order.credit
         /\ order'.balance = order.balance /\ order'.paid = order.paid
         /\ order'.transfer = order.transfer
         /\ order'.status \in Posted /\ order'.status \in {order.status, "completed"}
BY DEF SameRow, TypeOK, OrderRow, Posted

\* The amounts of an order depend on its documents, not on the ledger.
LEMMA AmountsKept ==
  ASSUME Inv, order.status \in Posted, SameRow, UNCHANGED documents
  PROVE  /\ Untouched' /\ Rows' /\ CancelledOwesNothing' /\ Money'
         /\ TransfersCovered' /\ ClearedIsCompleted' /\ Due' = Due
<1>1. /\ order'.total = order.total /\ order'.cash = order.cash
      /\ order'.cheque = order.cheque /\ order'.credit = order.credit
      /\ order'.balance = order.balance /\ order'.paid = order.paid
      /\ order'.transfer = order.transfer
      /\ order'.status \in Posted /\ order'.status \in {order.status, "completed"}
  BY SameRowFields DEF Inv
<1>2. UNCHANGED <<cheque, pay, ret, writtenOff>>
  BY DEF documents
<1>3. /\ PendingTransfers' = PendingTransfers /\ Collected' = Collected
      /\ ReturnedValue' = ReturnedValue /\ Debited' = Debited
      /\ Refunds' = Refunds /\ MoneyRefunds' = MoneyRefunds /\ WrittenOff' = WrittenOff
  BY <1>2, PaymentSumsKept, ReturnSumsKept, WrittenOffKept
<1>4. Due' = Due
  BY <1>1, <1>2, DueKept
<1>5. Untouched' /\ CancelledOwesNothing' /\ ClearedIsCompleted'
  BY <1>1 DEF Untouched, CancelledOwesNothing, ClearedIsCompleted, Posted, Inv, Books
<1>6. Rows'
  <2>1. order.status # "none"
    BY DEF Posted
  <2> QED BY <1>1, <1>2, <2>1 DEF Rows, DebtsFit, Inv, Books
<1>7. TransfersCovered'
  BY <1>1, <1>3 DEF TransfersCovered, Inv, Books
<1>8. Money'
  <2>1. Tendered' = Tendered
    BY <1>1, <1>2 DEF Tendered
  <2>2. Receipts' = Receipts
    BY <1>1, <1>2, <1>3 DEF Receipts, Collected
  <2>3. Live
    BY DEF Live
  <2> QED BY <1>1, <1>3, <2>1, <2>2, <2>3 DEF Money, Inv, Books
<1> QED BY <1>4, <1>5, <1>6, <1>7, <1>8

\* An entry that is made: the ledger gets what it lacked.
LEMMA EntryMade ==
  ASSUME Inv, order.status \in Posted, SameRow, UNCHANGED documents,
         NEW d \in Due, d \notin booked, booked' = booked \cup {d},
         ar' = ar + EntryOf(d), booking' \subseteq booking,
         queued \cup booking \subseteq queued' \cup booking' \cup {d}
  PROVE  Books'
<1>1. /\ Untouched' /\ Rows' /\ CancelledOwesNothing' /\ Money'
      /\ TransfersCovered' /\ ClearedIsCompleted' /\ Due' = Due
  BY AmountsKept
<1>2. BookedIsDue' /\ NoSilentGap'
  BY <1>1 DEF BookedIsDue, NoSilentGap, Inv, Books
<1>3. SaleFirst'
  BY DEF SaleFirst, Inv, Books, documents, ReturnsIn
<1>4. LedgerLeft'
  <2>1. /\ order'.total = order.total /\ order'.cash = order.cash
        /\ order'.cheque = order.cheque /\ order'.balance = order.balance
    BY SameRowFields DEF Inv
  <2>2. /\ UnbookedAmount' = UnbookedAmount
              - (IF d \in UnbookedPayments THEN pay[d].amount ELSE 0)
        /\ UnbookedDebt' = UnbookedDebt
              - (IF d \in UnbookedReturns THEN ret[d].ar ELSE 0)
    BY BookingChanges DEF Inv, Books, Rows, documents
  <2>3. order.balance = ar + (IF "sale" \in booked THEN 0
                              ELSE order.total - order.cash - order.cheque)
                          - UnbookedAmount - UnbookedDebt
    BY DEF LedgerLeft, Inv, Books
  <2>4. /\ UnbookedAmount \in Nat /\ UnbookedDebt \in Nat /\ ar \in Int
        /\ order.total \in Nat /\ order.cash \in Nat /\ order.cheque \in Nat
        /\ order.balance \in Nat
    BY InvNats
  <2>5. CASE d = "sale"
    <3>1. d \notin UnbookedPayments /\ d \notin UnbookedReturns
      BY <2>5, SlotsAssumption DEF UnbookedPayments, UnbookedReturns, ReturnsIn
    <3>2. "sale" \in booked' /\ "sale" \notin booked
      BY <2>5
    <3>3. ar' = ar + (order.total - order.cash - order.cheque)
      BY <2>5 DEF EntryOf
    <3> QED BY <2>1, <2>2, <2>3, <2>4, <3>1, <3>2, <3>3 DEF LedgerLeft
  <2>6. CASE d \in Payments
    <3>1. d \in UnbookedPayments /\ d \notin UnbookedReturns /\ d # "sale"
      BY <2>6, SlotsAssumption, DueIs DEF UnbookedPayments, UnbookedReturns, ReturnsIn
    <3>2. "sale" \in booked' <=> "sale" \in booked
      BY <3>1
    <3>3. ar' = ar - pay[d].amount /\ pay[d].amount \in Nat
      BY <2>6, <3>1 DEF EntryOf, Inv, TypeOK, PaymentRow
    <3> QED BY <2>1, <2>2, <2>3, <2>4, <3>1, <3>2, <3>3 DEF LedgerLeft
  <2>7. CASE d \in Returns
    <3>1. d \notin UnbookedPayments /\ d \in UnbookedReturns /\ d # "sale" /\ d \notin Payments
      BY <2>7, SlotsAssumption, DueIs DEF UnbookedPayments, UnbookedReturns, ReturnsIn
    <3>2. "sale" \in booked' <=> "sale" \in booked
      BY <3>1
    <3>3. ar' = ar - ret[d].ar /\ ret[d].ar \in Nat
      BY <2>7, <3>1 DEF EntryOf, Inv, TypeOK, ReturnRow
    <3> QED BY <2>1, <2>2, <2>3, <2>4, <3>1, <3>2, <3>3 DEF LedgerLeft
  <2> QED BY <2>5, <2>6, <2>7, DueIs DEF Documents
<1> QED BY <1>1, <1>2, <1>3, <1>4 DEF Books

\* No entry is made, and none that waits is forgotten.
LEMMA EntryWaits ==
  ASSUME Inv, order.status \in Posted, SameRow, UNCHANGED <<documents, ar, booked>>,
         booking' \subseteq booking,
         queued \cup booking \subseteq queued' \cup booking' \cup booked
  PROVE  Books'
<1>1. /\ Untouched' /\ Rows' /\ CancelledOwesNothing' /\ Money'
      /\ TransfersCovered' /\ ClearedIsCompleted' /\ Due' = Due
  BY AmountsKept
<1>2. BookedIsDue' /\ NoSilentGap'
  BY <1>1 DEF BookedIsDue, NoSilentGap, Inv, Books
<1>3. SaleFirst'
  BY DEF SaleFirst, Inv, Books, documents, ReturnsIn
<1>4. LedgerLeft'
  <2>1. UnbookedAmount' = UnbookedAmount /\ UnbookedDebt' = UnbookedDebt
    BY PaymentSumsKept, ReturnSumsKept DEF documents
  <2> QED BY <2>1, SameRowFields DEF LedgerLeft, Inv, Books
<1> QED BY <1>1, <1>2, <1>3, <1>4 DEF Books

\* A posting, whatever becomes of it, of a document that waits for nothing else.
LEMMA Posting ==
  ASSUME Inv, order.status \in Posted, SameRow, UNCHANGED documents,
         NEW d \in Due, Post(d, EntryOf(d)),
         booking' \subseteq booking, booking \subseteq booking' \cup {d}
  PROVE  Books'
<1>1. CASE d \in booked /\ UNCHANGED ledger
  BY <1>1, EntryWaits DEF ledger
<1>2. CASE d \notin booked /\ booked' = booked \cup {d} /\ ar' = ar + EntryOf(d)
             /\ UNCHANGED queued
  BY <1>2, EntryMade
<1>3. CASE d \notin booked /\ queued' = queued \cup {d} /\ UNCHANGED <<ar, booked>>
  BY <1>3, EntryWaits
<1> QED BY <1>1, <1>2, <1>3 DEF Post

\* The lines of a sale that is not in the ledger balance, and put the open part
\* of the order on 1110.
LEMMA SaleLines ==
  ASSUME Inv, Live, "sale" \notin booked
  PROVE  SaleBalances(order) /\ SaleReceivable(order) = EntryOf("sale")
<1>1. Debited = 0
  <2>1. ReturnsIn("processed") = {}
    BY DEF SaleFirst, Inv, Books
  <2> QED BY <2>1, SumOfZeros, ReturnSums
<1>2. order.credit = order.total - order.cash - order.cheque
  BY <1>1, InvNats DEF Money, Tendered, SaleFirst, Inv, Books
<1>3. order.transfer = 0 /\ order.total > 0
  BY DEF Rows, Inv, Books, Live, Posted
<1>4. Tenders(order) = order.total
  BY <1>2, <1>3, InvNats DEF Tenders, CreditPart
<1> QED BY <1>2, <1>3, <1>4, InvNats DEF SaleBalances, SaleReceivable, CreditPart, EntryOf

LEMMA SalePosting ==
  ASSUME Inv, Live, PostSale(order)
  PROVE  Post("sale", EntryOf("sale"))
<1>1. CASE "sale" \in booked
  BY <1>1 DEF PostSale, Post
<1>2. CASE "sale" \notin booked
  BY <1>2, SaleLines DEF PostSale
<1> QED BY <1>1, <1>2
-----------------------------------------------------------------------------
(* The actions                                                             *)

\* One more failure recorded is the books' business alone.
LEMMA OnlyQueued ==
  ASSUME Inv, UNCHANGED <<order, documents, ar, booked, booking>>, queued \subseteq queued'
  PROVE  Books'
<1>1. UNCHANGED <<cheque, pay, ret, writtenOff>>
  BY DEF documents
<1>2. /\ PendingTransfers' = PendingTransfers /\ Collected' = Collected
      /\ ReturnedValue' = ReturnedValue /\ Debited' = Debited
      /\ Refunds' = Refunds /\ MoneyRefunds' = MoneyRefunds /\ WrittenOff' = WrittenOff
      /\ UnbookedAmount' = UnbookedAmount /\ UnbookedDebt' = UnbookedDebt
  BY <1>1, PaymentSumsKept, ReturnSumsKept, WrittenOffKept
<1>3. Due' = Due
  BY <1>1, DueKept
<1>4. Tendered' = Tendered /\ Receipts' = Receipts
  BY <1>1, <1>2 DEF Tendered, Receipts, Collected
<1>5. Untouched' /\ CancelledOwesNothing' /\ ClearedIsCompleted'
  BY <1>1 DEF Untouched, CancelledOwesNothing, ClearedIsCompleted, Inv, Books
<1>6. Rows'
  BY <1>1 DEF Rows, DebtsFit, Inv, Books
<1>7. BookedIsDue' /\ NoSilentGap'
  BY <1>3 DEF BookedIsDue, NoSilentGap, Inv, Books
<1>8. SaleFirst'
  BY <1>1 DEF SaleFirst, ReturnsIn, Inv, Books
<1>9. Money' /\ LedgerLeft' /\ TransfersCovered'
  BY <1>2, <1>4 DEF Money, Live, LedgerLeft, TransfersCovered, Inv, Books
<1> QED BY <1>5, <1>6, <1>7, <1>8, <1>9 DEF Books

LEMMA CompleteStep ==
  ASSUME Inv, Complete
  PROVE  Books'
<1>1. /\ order.status = "approved" /\ PostSale(order)
      /\ order' = [order EXCEPT !.status = "completed"] /\ UNCHANGED <<documents, booking>>
  BY DEF Complete
<1>2. order.status \in Posted /\ Live /\ SameRow
  BY <1>1 DEF Posted, Live, SameRow
<1>3. "sale" \in Due
  BY <1>2, DueIs
<1> QED BY <1>1, <1>2, <1>3, SalePosting, Posting

LEMMA PostByHandStep ==
  ASSUME Inv, PostByHand
  PROVE  Books'
<1>1. /\ order.status = "completed" /\ PostSale(order)
      /\ UNCHANGED <<order, documents, booking>>
  BY DEF PostByHand
<1>2. order' = [order EXCEPT !.status = order.status]
  BY <1>1 DEF Inv, TypeOK, OrderRow
<1>3. order.status \in Posted /\ Live /\ SameRow
  BY <1>1, <1>2 DEF Posted, Live, SameRow
<1>4. "sale" \in Due
  BY <1>3, DueIs
<1> QED BY <1>1, <1>3, <1>4, SalePosting, Posting

\* A document that is due belongs to an order that is sold.
LEMMA DueIsSold ==
  ASSUME Inv, Due # {} \/ booking # {}
  PROVE  order.status \in Posted
BY UntouchedSums

LEMMA SameOrder ==
  ASSUME TypeOK, UNCHANGED order
  PROVE  SameRow
<1>1. order' = [order EXCEPT !.status = order.status]
  BY DEF TypeOK, OrderRow
<1> QED BY <1>1 DEF SameRow

LEMMA BookSettlementStep ==
  ASSUME Inv, Calls = {}, NEW p \in Payments, BookSettlement(p)
  PROVE  Books'
<1>1. /\ p \in booking /\ booking' = booking \ {p} /\ Post(p, -pay[p].amount)
      /\ UNCHANGED <<order, documents>>
  BY DEF BookSettlement
<1>2. p \in Due /\ order.status \in Posted
  BY <1>1, DueIsSold DEF Inv, Books, BookedIsDue
<1>3. EntryOf(p) = -pay[p].amount
  BY SlotsAssumption DEF EntryOf
<1>4. SameRow
  BY <1>1, SameOrder DEF Inv
<1> QED BY <1>1, <1>2, <1>3, <1>4, Posting

LEMMA RetryStep ==
  ASSUME Inv, Calls = {}, NEW d \in Documents, Retry(d)
  PROVE  Books'
<1>1. /\ d \in queued /\ d \in Due
      /\ d \in Returns => ret[d].note
      /\ queued' = queued \ {d} /\ booked' = booked \cup {d}
      /\ UNCHANGED <<order, documents, booking>>
  <2>1. d \in Returns => ret[d].note \in BOOLEAN
    BY DEF Inv, TypeOK, ReturnRow
  <2>2. /\ d \notin Due => "retry_undone" \in Calls
        /\ d \in Returns /\ ~ret[d].note => "retry_refund" \in Calls
        /\ d \in queued /\ queued' = queued \ {d} /\ booked' = booked \cup {d}
        /\ UNCHANGED <<order, documents, booking>>
    BY DEF Retry
  <2> QED BY <2>1, <2>2
<1>2. order.status \in Posted /\ SameRow /\ Live
  BY <1>1, DueIsSold, SameOrder DEF Inv, Live
<1>3. ar' = CASE d \in booked -> ar
              [] d = "sale" /\ d \notin booked -> ar + SaleReceivable(order)
              [] d \in Payments \ booked -> ar - pay[d].amount
              [] d \in Returns \ booked -> ar - DerivedReceivable(d)
  BY DEF Retry
<1>4. CASE d \in booked
  <2>1. ar' = ar /\ booked' = booked
    BY <1>1, <1>3, <1>4, SlotsAssumption
  <2> QED BY <1>1, <1>2, <1>4, <2>1, EntryWaits
<1>5. CASE d \notin booked
  <2>1. ar' = ar + EntryOf(d)
    <3>1. CASE d = "sale"
      <4>1. ar' = ar + SaleReceivable(order)
        BY <1>3, <1>5, <3>1, SlotsAssumption
      <4> QED BY <1>2, <1>5, <3>1, <4>1, SaleLines
    <3>2. CASE d \in Payments
      <4>1. d # "sale" /\ d \notin Returns
        BY <3>2, SlotsAssumption
      <4>2. ar' = ar - pay[d].amount
        BY <1>3, <1>5, <3>2, <4>1
      <4>3. ar \in Int /\ pay[d].amount \in Nat /\ EntryOf(d) = -pay[d].amount
        BY <3>2, <4>1 DEF EntryOf, Inv, TypeOK, PaymentRow
      <4> QED BY <4>2, <4>3
    <3>3. CASE d \in Returns
      <4>1. d # "sale" /\ d \notin Payments
        BY <3>3, SlotsAssumption
      <4>2. ar' = ar - DerivedReceivable(d)
        BY <1>3, <1>5, <3>3, <4>1
      <4>3. DerivedReceivable(d) = ret[d].ar
        <5>1. ret[d].note = TRUE
          BY <1>1, <3>3 DEF Inv, TypeOK, ReturnRow
        <5> QED BY <5>1 DEF DerivedReceivable
      <4>4. ar \in Int /\ ret[d].ar \in Nat /\ EntryOf(d) = -ret[d].ar
        BY <3>3, <4>1 DEF EntryOf, Inv, TypeOK, ReturnRow
      <4> QED BY <4>2, <4>3, <4>4
    <3> QED BY <3>1, <3>2, <3>3 DEF Documents
  <2> QED BY <1>1, <1>2, <1>5, <2>1, EntryMade
<1> QED BY <1>4, <1>5

LEMMA RepairStep ==
  ASSUME Inv, Calls = {}, Repair
  PROVE  Books'
<1>1. ASSUME NEW d \in Documents, RolledBack(d)
      PROVE  Books'
  BY <1>1, OnlyQueued DEF RolledBack
<1> QED BY <1>1, RetryStep, PostByHandStep DEF Repair

-----------------------------------------------------------------------------
(* The order *)

\* The books of an order without documents: a tender taken, the rest open.
LEMMA FreshBooks ==
  ASSUME Inv, order.status \notin Posted, UNCHANGED <<pay, ret, writtenOff, booking>>,
         order' \in OrderRow, order'.status # "none",
         order'.transfer = 0, order'.total > 0, cheque' # "bounced",
         cheque' = "received" => order'.cheque > 0,
         order'.status = "cancelled" => order'.balance = 0 /\ order'.credit = 0,
         order'.status # "cancelled" =>
           /\ order'.credit = order'.total - order'.cash - order'.cheque
           /\ order'.balance = order'.credit
           /\ order'.paid = order'.cash + order'.cheque,
         order'.status = "approved" => order'.balance > 0,
         order'.status \notin Posted => UNCHANGED ledger,
         order'.status \in Posted =>
           Post("sale", order'.total - order'.cash - order'.cheque)
  PROVE  Books'
<1>1. /\ PendingTransfers' = 0 /\ Collected' = 0
      /\ ReturnedValue' = 0 /\ Debited' = 0 /\ Refunds' = 0 /\ MoneyRefunds' = 0
      /\ WrittenOff' = 0
  BY UntouchedSums, PaymentSumsKept, ReturnSumsKept, WrittenOffKept
<1>2. /\ booked = {} /\ ar = 0 /\ booking = {}
      /\ \A p \in Payments : pay[p].status = "none"
      /\ \A r \in Returns : ret[r].status = "none"
      /\ \A w \in WriteOffs : writtenOff[w] = 0
  BY DEF Inv, Books, Untouched
<1>3. booked' \subseteq {"sale"} /\ booked' \cap Payments = {} /\ booked' \cap Returns = {}
  BY <1>2, SlotsAssumption DEF Post, ledger
<1>4. UnbookedAmount' = 0 /\ UnbookedDebt' = 0
  BY <1>2, <1>3, UntouchedSums, PaymentSumsKept, ReturnSumsKept
<1>5. Due' = IF order'.status \in Posted THEN {"sale"} ELSE {}
  BY <1>2 DEF Due, WasReceived, ReturnsIn
<1>6. Untouched'
  BY <1>2 DEF Untouched, ledger
<1>7. Rows'
  BY DEF Rows, DebtsFit, Inv, Books
<1>8. CancelledOwesNothing' /\ ClearedIsCompleted'
  BY DEF CancelledOwesNothing, ClearedIsCompleted
<1>9. BookedIsDue' /\ NoSilentGap'
  <2>1. CASE order'.status \in Posted
    BY <1>2, <1>5, <2>1 DEF BookedIsDue, NoSilentGap, Post, ledger
  <2>2. CASE order'.status \notin Posted
    BY <1>2, <1>5, <2>2 DEF BookedIsDue, NoSilentGap, ledger
  <2> QED BY <2>1, <2>2
<1>10. SaleFirst'
  BY <1>2 DEF SaleFirst, ReturnsIn
<1>11. /\ order'.total \in Nat /\ order'.cash \in Nat /\ order'.cheque \in Nat
       /\ order'.credit \in Nat /\ order'.balance \in Nat /\ order'.paid \in Nat
  BY DEF OrderRow
<1>12. TransfersCovered'
  BY <1>1, <1>11 DEF TransfersCovered
<1>13. Money'
  <2>1. Tendered' = order'.cheque /\ Receipts' = order'.cash + order'.cheque
    BY <1>1, <1>11 DEF Tendered, Receipts, Collected
  <2>2. Live' => order'.status # "cancelled"
    BY DEF Live, Posted
  <2> QED BY <1>1, <1>11, <2>1, <2>2 DEF Money
<1>14. LedgerLeft'
  <2> SUFFICES ASSUME order'.status \in Posted
               PROVE  order'.balance = ar' + (IF "sale" \in booked' THEN 0
                          ELSE order'.total - order'.cash - order'.cheque)
    BY <1>4, <1>11, PostTyped DEF LedgerLeft, Inv, TypeOK, Post, ledger
  <2>1. order'.status # "cancelled"
    BY DEF Posted
  <2> QED BY <1>2, <1>11, <2>1 DEF Post, ledger
<1> QED BY <1>6, <1>7, <1>8, <1>9, <1>10, <1>12, <1>13, <1>14 DEF Books

\* The operations on the order itself.
LEMMA CreateStep ==
  ASSUME Inv, TypeOK', Calls = {}, NEW method \in {"cash", "cheque", "credit"},
         NEW total \in Amount, NEW cash \in 0..MaxTotal, NEW chq \in 0..MaxTotal,
         NEW transfer \in 0..MaxTotal, Create(method, total, cash, chq, transfer)
  PROVE  Books'
<1> DEFINE credit == Clip(total - cash - chq - transfer)
           row == [status |-> IF credit > 0 \/ method = "credit" THEN "pending"
                                                                 ELSE "completed",
                   method |-> method, total |-> total, cash |-> cash,
                   cheque |-> chq, transfer |-> transfer, credit |-> credit,
                   paid |-> cash + chq, balance |-> total - cash - chq]
<1>1. /\ order.status = "none" /\ cash + chq + transfer <= total
      /\ transfer > 0 => method = "credit" /\ "mixed_transfer" \in Calls
      /\ order' = row /\ cheque' = IF chq > 0 THEN "received" ELSE "none"
      /\ IF row.status = "completed" THEN PostSale(row) ELSE UNCHANGED ledger
      /\ UNCHANGED <<pay, ret, writtenOff, booking>>
  BY DEF Create
<1>2. /\ total \in Nat /\ total > 0 /\ cash \in Nat /\ chq \in Nat /\ transfer = 0
  BY <1>1, MaxTotalAssumption DEF Amount
<1>3. credit = total - cash - chq /\ credit \in Nat
  BY <1>1, <1>2 DEF Clip
<1> HIDE DEF credit
<1>4. /\ order'.total = total /\ order'.cash = cash /\ order'.cheque = chq
      /\ order'.transfer = 0 /\ order'.credit = credit /\ order'.method = method
      /\ order'.balance = total - cash - chq /\ order'.paid = cash + chq
      /\ order'.status \in {"pending", "completed"}
      /\ order'.status = "completed" => credit = 0 /\ method # "credit"
  BY <1>1, <1>2, <1>3
<1>5. order' \in OrderRow
  BY DEF TypeOK
<1>6. ASSUME order'.status = "completed"
      PROVE  Post("sale", order'.total - order'.cash - order'.cheque)
  <2>1. PostSale(row)
    BY <1>1, <1>6
  <2>2. Tenders(row) = total
    BY <1>2, <1>3 DEF Tenders, CreditPart
  <2>3. SaleBalances(row) /\ SaleReceivable(row) = credit
    BY <1>2, <2>2 DEF SaleBalances, SaleReceivable, CreditPart
  <2> QED BY <1>3, <1>4, <2>1, <2>3 DEF PostSale
<1> HIDE DEF row
<1>7. /\ order.status \notin Posted /\ order'.status # "none" /\ cheque' # "bounced"
      /\ cheque' = "received" => order'.cheque > 0
  BY <1>1, <1>2, <1>4 DEF Posted
<1>8. /\ order'.status \notin Posted => UNCHANGED ledger
      /\ order'.status \in Posted => order'.status = "completed"
  BY <1>1, <1>4 DEF Posted
<1> QED BY <1>1, <1>2, <1>3, <1>4, <1>5, <1>6, <1>7, <1>8, FreshBooks

LEMMA ApproveStep ==
  ASSUME Inv, TypeOK', Approve
  PROVE  Books'
<1>1. /\ order.status = "pending" /\ PostSale(order) /\ UNCHANGED <<documents, booking>>
      /\ order' = [order EXCEPT !.status =
                     IF IsCredit /\ order.balance > 0 THEN "approved" ELSE "completed"]
  BY DEF Approve
<1>2. Live /\ order.status \notin Posted
  BY <1>1 DEF Live, Posted
<1>3. Post("sale", EntryOf("sale"))
  BY <1>1, <1>2, SalePosting
<1>4. /\ order'.total = order.total /\ order'.cash = order.cash
      /\ order'.cheque = order.cheque /\ order'.credit = order.credit
      /\ order'.balance = order.balance /\ order'.paid = order.paid
      /\ order'.transfer = order.transfer /\ order'.status \in {"approved", "completed"}
      /\ order'.status = "approved" => order.balance > 0
  <2> DEFINE s == IF IsCredit /\ order.balance > 0 THEN "approved" ELSE "completed"
  <2>1. s \in {"approved", "completed"} /\ (s = "approved" => order.balance > 0)
    OBVIOUS
  <2>2. order' = [order EXCEPT !.status = s] /\ order \in OrderRow
    BY <1>1 DEF Inv, TypeOK
  <2> HIDE DEF s
  <2> QED BY <2>1, <2>2 DEF OrderRow
<1>5. /\ order.credit = order.total - order.cash - order.cheque
      /\ order.balance = order.credit /\ order.paid = order.cash + order.cheque
  BY <1>2, UntouchedSums, InvNats DEF Money, Inv, Books
<1>6. /\ order.transfer = 0 /\ order.total > 0
      /\ cheque = "received" => order.cheque > 0
  BY <1>1 DEF Rows, Inv, Books
<1>7. cheque # "bounced"
  BY <1>2 DEF Untouched, Inv, Books
<1>8. EntryOf("sale") = order'.total - order'.cash - order'.cheque
  BY <1>4 DEF EntryOf
<1>9. order' \in OrderRow /\ order'.status \in Posted
  BY <1>4 DEF TypeOK, Posted
<1> QED BY <1>1, <1>2, <1>3, <1>4, <1>5, <1>6, <1>7, <1>8, <1>9, FreshBooks DEF documents

LEMMA CancelStep ==
  ASSUME Inv, TypeOK', Cancel
  PROVE  Books'
<1>1. /\ order.status = "pending" /\ UNCHANGED <<documents, ledger, booking>>
      /\ order' = [order EXCEPT !.status = "cancelled", !.balance = 0, !.credit = 0]
  BY DEF Cancel
<1>2. /\ order'.total = order.total /\ order'.cheque = order.cheque
      /\ order'.transfer = order.transfer /\ order'.status = "cancelled"
      /\ order'.balance = 0 /\ order'.credit = 0
  <2>1. order \in OrderRow
    BY DEF Inv, TypeOK
  <2> QED BY <1>1, <2>1 DEF OrderRow
<1>3. /\ order.transfer = 0 /\ order.total > 0
      /\ cheque = "received" => order.cheque > 0
  BY <1>1 DEF Rows, Inv, Books
<1>4. order.status \notin Posted /\ order'.status \notin Posted
  BY <1>1, <1>2 DEF Posted
<1>5. cheque # "bounced"
  BY <1>4 DEF Untouched, Inv, Books
<1>6. order' \in OrderRow
  BY DEF TypeOK
<1> QED BY <1>1, <1>2, <1>3, <1>4, <1>5, <1>6, FreshBooks DEF documents
-----------------------------------------------------------------------------
(* Settlements                                                             *)

\* The order row after a payment of what is owed at most ...
LEMMA ReceivedFields ==
  ASSUME TypeOK, order.status \in Posted, NEW a \in Nat, a <= order.balance,
         order' = Received(a)
  PROVE  /\ order'.total = order.total /\ order'.cash = order.cash
         /\ order'.cheque = order.cheque /\ order'.credit = order.credit
         /\ order'.transfer = order.transfer
         /\ order'.balance = order.balance - a /\ order'.paid = order.paid + a
         /\ order'.status \in Posted /\ (order'.status = "approved" => order'.balance > 0)
<1> DEFINE o == [order EXCEPT !.paid = @ + a, !.balance = Clip(@ - a)]
<1>1. order \in OrderRow
  BY DEF TypeOK
<1>2. order.balance \in Nat /\ Clip(order.balance - a) = order.balance - a
  BY <1>1 DEF OrderRow, Clip
<1>3. /\ o.total = order.total /\ o.cash = order.cash
      /\ o.cheque = order.cheque /\ o.credit = order.credit /\ o.transfer = order.transfer
      /\ o.balance = order.balance - a /\ o.paid = order.paid + a
      /\ o.status = order.status
  BY <1>1, <1>2 DEF OrderRow
<1>4. o \in OrderRow
  <2>1. order.paid + a \in Nat /\ Clip(order.balance - a) \in Nat
    BY <1>1, <1>2 DEF OrderRow
  <2> QED BY <1>1, <2>1, OrderChanges
<1>5. order' = CompletedIfClear(o)
  BY DEF Received
<1> HIDE DEF o
<1>6. CASE o.balance = 0
  <2>1. order' = [o EXCEPT !.status = "completed"]
    BY <1>5, <1>6 DEF CompletedIfClear
  <2> QED BY <1>3, <1>4, <2>1 DEF OrderRow, Posted
<1>7. CASE o.balance # 0
  <2>1. order' = o
    BY <1>5, <1>7 DEF CompletedIfClear
  <2> QED BY <1>2, <1>3, <1>4, <1>7, <2>1 DEF OrderRow
<1> QED BY <1>6, <1>7

\* ... and after one that is taken back.
LEMMA ReopenedFields ==
  ASSUME TypeOK, order.status \in Posted, NEW a \in Nat
  PROVE  LET o == ReopenedWith(a)
         IN  /\ o \in OrderRow
             /\ o.total = order.total /\ o.cash = order.cash
             /\ o.cheque = order.cheque /\ o.credit = order.credit
             /\ o.transfer = order.transfer
             /\ o.balance = order.balance + a /\ o.paid = order.paid
             /\ o.status \in Posted
<1>1. order \in OrderRow
  BY DEF TypeOK
<1>2. ReopenedWith(a) \in OrderRow
  BY <1>1, ReopenedTyped
<1> QED BY <1>1, <1>2 DEF ReopenedWith, OrderRow, Posted

IsReceived(row) == \/ row.status = "completed"
                   \/ row.status = "rejected" /\ row.method = "cheque"

LEMMA DuePayment ==
  ASSUME TypeOK, NEW p \in Payments, NEW row, pay' = [pay EXCEPT ![p] = row],
         UNCHANGED ret, order.status \in Posted, order'.status \in Posted
  PROVE  Due' = IF IsReceived(row) THEN Due \cup {p} ELSE Due \ {p}
<1>1. \A q \in Payments : WasReceived(q)' <=> (IF q = p THEN IsReceived(row)
                                                        ELSE WasReceived(q))
  BY DEF TypeOK, WasReceived, IsReceived
<1>2. {q \in Payments : WasReceived(q)}' =
        IF IsReceived(row) THEN {q \in Payments : WasReceived(q)} \cup {p}
                           ELSE {q \in Payments : WasReceived(q)} \ {p}
  BY <1>1
<1>3. ReturnsIn("processed")' = ReturnsIn("processed") /\ p \notin ReturnsIn("processed")
  BY SlotsAssumption DEF ReturnsIn
<1>4. p # "sale"
  BY SlotsAssumption
<1> QED BY <1>2, <1>3, <1>4 DEF Due

LEMMA PaymentRowsKept ==
  ASSUME Inv, NEW p \in Payments, NEW row \in PaymentRow, pay' = [pay EXCEPT ![p] = row],
         row.status # "none" => row.amount > 0,
         row.status = "pending" => row.method = "transfer",
         UNCHANGED <<cheque, ret>>, order.status \in Posted,
         order'.total = order.total, order'.cheque = order.cheque,
         order'.transfer = order.transfer
  PROVE  Rows'
<1>1. \A q \in Payments : pay'[q] = IF q = p THEN row ELSE pay[q]
  BY DEF Inv, TypeOK
<1>2. order.total > 0 /\ order.transfer = 0
  BY DEF Inv, Books, Rows, Posted
<1> QED BY <1>1, <1>2 DEF Rows, DebtsFit, Inv, Books

LEMMA SoldBooks ==
  ASSUME order'.status \in Posted, Rows', BookedIsDue', SaleFirst', NoSilentGap',
         Money', LedgerLeft', TransfersCovered',
         order'.status = "approved" => order'.balance > 0
  PROVE  Books'
BY DEF Books, Untouched, CancelledOwesNothing, ClearedIsCompleted, Posted

\* Money that comes in for the order.
LEMMA MoneyComesIn ==
  ASSUME Inv, order.status \in Posted, NEW p \in Payments, ~WasReceived(p),
         NEW row \in PaymentRow, row.status = "completed", row.amount > 0,
         pay' = [pay EXCEPT ![p] = row],
         row.amount <= order.balance, order' = Received(row.amount),
         (IF pay[p].status = "pending" THEN 0 ELSE row.amount)
            <= order.balance - PendingTransfers,
         pay[p].status = "pending" => pay[p].amount = row.amount,
         booking' = booking \cup {p}, UNCHANGED <<cheque, ret, writtenOff, ledger>>
  PROVE  Books'
<1>1. row.amount \in Nat /\ UNCHANGED <<ar, booked, queued>>
  BY DEF PaymentRow, ledger
<1>2. /\ order'.total = order.total /\ order'.cash = order.cash
      /\ order'.cheque = order.cheque /\ order'.credit = order.credit
      /\ order'.transfer = order.transfer
      /\ order'.balance = order.balance - row.amount /\ order'.paid = order.paid + row.amount
      /\ order'.status \in Posted /\ (order'.status = "approved" => order'.balance > 0)
  BY <1>1, ReceivedFields DEF Inv
<1>3. p \notin booked /\ p \notin UnbookedPayments
  BY DueIs DEF Inv, Books, BookedIsDue, UnbookedPayments
<1>4. p \in UnbookedPayments'
  <2>1. pay'[p] = row
    BY DEF Inv, TypeOK
  <2> QED BY <1>1, <1>3, <2>1 DEF UnbookedPayments, WasReceived
<1>5. pay[p].status # "completed" /\ pay[p].amount \in Nat
  BY DEF WasReceived, Inv, TypeOK, PaymentRow
<1>6. /\ PendingTransfers' = PendingTransfers
           - (IF pay[p].status = "pending" THEN pay[p].amount ELSE 0)
      /\ Collected' = Collected + row.amount
      /\ UnbookedAmount' = UnbookedAmount + row.amount
  <2>1. booked' \ {p} = booked \ {p}
    BY <1>1
  <2>2. /\ PendingTransfers' = PendingTransfers
              - (IF pay[p].status = "pending" THEN pay[p].amount ELSE 0)
              + (IF row.status = "pending" THEN row.amount ELSE 0)
         /\ Collected' = Collected
              - (IF pay[p].status = "completed" THEN pay[p].amount ELSE 0)
              + (IF row.status = "completed" THEN row.amount ELSE 0)
         /\ UnbookedAmount' = UnbookedAmount
              - (IF p \in UnbookedPayments THEN pay[p].amount ELSE 0)
              + (IF p \in UnbookedPayments' THEN row.amount ELSE 0)
    BY <2>1, PaymentChanges DEF Inv
  <2> QED BY <1>1, <1>3, <1>4, <1>5, <2>2, InvNats
<1>7. /\ ReturnedValue' = ReturnedValue /\ Debited' = Debited /\ MoneyRefunds' = MoneyRefunds
      /\ UnbookedDebt' = UnbookedDebt /\ WrittenOff' = WrittenOff
  BY <1>1, ReturnSumsKept, WrittenOffKept
<1>8. Due' = Due \cup {p}
  BY <1>2, DuePayment DEF IsReceived, Inv
<1>9. Rows'
  BY <1>2, PaymentRowsKept
<1>10. BookedIsDue' /\ NoSilentGap'
  BY <1>1, <1>8 DEF BookedIsDue, NoSilentGap, Inv, Books
<1>11. SaleFirst'
  BY <1>1 DEF SaleFirst, ReturnsIn, Inv, Books
<1>12. Tendered' = Tendered /\ Receipts' = Receipts + row.amount
  <2>1. Tendered' = Tendered
    BY <1>2 DEF Tendered
  <2>2. Receipts' = order'.cash + Tendered' + Collected'
    BY DEF Receipts, Tendered, Collected
  <2> QED BY <1>1, <1>2, <1>6, <2>1, <2>2, InvNats
<1>13. Money'
  <2>1. Live
    BY DEF Live
  <2> QED BY <1>1, <1>2, <1>6, <1>7, <1>12, <2>1, InvNats DEF Money, Inv, Books
<1>14. LedgerLeft'
  BY <1>1, <1>2, <1>6, <1>7, InvNats DEF LedgerLeft, Inv, Books
<1>15. TransfersCovered'
  BY <1>1, <1>2, <1>5, <1>6, InvNats DEF TransfersCovered
<1> QED BY <1>2, <1>9, <1>10, <1>11, <1>13, <1>14, <1>15, SoldBooks

\* A transfer that is recorded or refused moves no money.
LEMMA TransferNoted ==
  ASSUME Inv, order.status \in Posted, NEW p \in Payments, ~WasReceived(p),
         NEW row \in PaymentRow, row.status \in {"pending", "rejected"},
         row.method = "transfer", row.amount > 0, pay' = [pay EXCEPT ![p] = row],
         row.status = "pending" =>
           pay[p].status = "none" /\ row.amount <= order.balance - PendingTransfers,
         UNCHANGED <<order, cheque, ret, writtenOff, ledger, booking>>
  PROVE  Books'
<1>1. row.amount \in Nat /\ UNCHANGED <<ar, booked, queued>>
  BY DEF PaymentRow, ledger
<1>2. p \notin UnbookedPayments /\ p \notin UnbookedPayments'
  <2>1. pay'[p] = row
    BY DEF Inv, TypeOK
  <2> QED BY <2>1 DEF UnbookedPayments, WasReceived
<1>3. pay[p].status # "completed" /\ pay[p].amount \in Nat
  BY DEF WasReceived, Inv, TypeOK, PaymentRow
<1>4. /\ PendingTransfers' = PendingTransfers
           - (IF pay[p].status = "pending" THEN pay[p].amount ELSE 0)
           + (IF row.status = "pending" THEN row.amount ELSE 0)
      /\ Collected' = Collected /\ UnbookedAmount' = UnbookedAmount
  <2>1. booked' \ {p} = booked \ {p}
    BY <1>1
  <2>2. /\ PendingTransfers' = PendingTransfers
              - (IF pay[p].status = "pending" THEN pay[p].amount ELSE 0)
              + (IF row.status = "pending" THEN row.amount ELSE 0)
         /\ Collected' = Collected
              - (IF pay[p].status = "completed" THEN pay[p].amount ELSE 0)
              + (IF row.status = "completed" THEN row.amount ELSE 0)
         /\ UnbookedAmount' = UnbookedAmount
              - (IF p \in UnbookedPayments THEN pay[p].amount ELSE 0)
              + (IF p \in UnbookedPayments' THEN row.amount ELSE 0)
    BY <2>1, PaymentChanges DEF Inv
  <2> QED BY <1>2, <1>3, <2>2, InvNats
<1>5. /\ ReturnedValue' = ReturnedValue /\ Debited' = Debited /\ MoneyRefunds' = MoneyRefunds
      /\ UnbookedDebt' = UnbookedDebt /\ WrittenOff' = WrittenOff
  BY <1>1, ReturnSumsKept, WrittenOffKept
<1>6. Due' = Due
  <2>1. p \notin Due
    BY DueIs
  <2> QED BY <2>1, DuePayment DEF IsReceived, Inv
<1>7. Rows'
  BY PaymentRowsKept
<1>8. BookedIsDue' /\ NoSilentGap'
  BY <1>1, <1>6 DEF BookedIsDue, NoSilentGap, Inv, Books
<1>9. SaleFirst'
  BY <1>1 DEF SaleFirst, ReturnsIn, Inv, Books
<1>10. Money'
  <2>1. Tendered' = Tendered
    BY DEF Tendered
  <2>2. Receipts' = Receipts
    BY <1>4 DEF Receipts, Collected
  <2> QED BY <1>4, <1>5, <2>1, <2>2 DEF Money, Live, Inv, Books
<1>11. LedgerLeft'
  BY <1>1, <1>4, <1>5 DEF LedgerLeft, Inv, Books
<1>12. TransfersCovered'
  BY <1>1, <1>3, <1>4, InvNats DEF TransfersCovered, Inv, Books
<1>13. order.status = "approved" => order.balance > 0
  BY DEF ClearedIsCompleted, Inv, Books
<1> QED BY <1>7, <1>8, <1>9, <1>10, <1>11, <1>12, <1>13, SoldBooks

LEMMA SettleStep ==
  ASSUME Inv, NEW p \in Payments, NEW method \in {"cash", "cheque", "transfer"},
         NEW a \in Amount, Settle(p, method, a)
  PROVE  Books'
<1> DEFINE row == [status |-> IF method = "transfer" THEN "pending" ELSE "completed",
                   method |-> method, amount |-> a]
<1>1. /\ pay[p].status = "none" /\ order.status \in Posted
      /\ a <= order.balance - PendingTransfers /\ pay' = [pay EXCEPT ![p] = row]
      /\ UNCHANGED <<cheque, ret, writtenOff, ledger>>
      /\ IF method = "transfer"
         THEN UNCHANGED <<order, booking>>
         ELSE order' = Received(a) /\ booking' = booking \cup {p}
  BY DEF Settle, Settlable, Available
<1>2. a \in Nat /\ a > 0 /\ a <= order.balance
  BY <1>1, MaxTotalAssumption, InvNats DEF Amount
<1>3. row \in PaymentRow
  BY <1>2 DEF PaymentRow
<1>4. row.amount = a /\ row.method = method /\ ~WasReceived(p)
  BY <1>1 DEF WasReceived
<1>5. row.status = IF method = "transfer" THEN "pending" ELSE "completed"
  OBVIOUS
<1> HIDE DEF row
<1>6. CASE method = "transfer"
  BY <1>1, <1>2, <1>3, <1>4, <1>5, <1>6, TransferNoted
<1>7. CASE method # "transfer"
  BY <1>1, <1>2, <1>3, <1>4, <1>5, <1>7, MoneyComesIn
<1> QED BY <1>6, <1>7

\* A settlement that is more than an empty slot belongs to a sold order.
LEMMA PaymentIsSold ==
  ASSUME Inv, NEW p \in Payments, pay[p].status # "none"
  PROVE  order.status \in Posted /\ pay[p].amount > 0 /\ pay[p].amount \in Nat
BY DEF Inv, Books, Untouched, Rows, TypeOK, PaymentRow

LEMMA VerifyStep ==
  ASSUME Inv, NEW p \in Payments, VerifyTransfer(p)
  PROVE  Books'
<1> DEFINE row == [pay[p] EXCEPT !.status = "completed"]
<1>1. /\ pay[p].status = "pending" /\ pay' = [pay EXCEPT ![p] = row]
      /\ order' = Received(pay[p].amount) /\ booking' = booking \cup {p}
      /\ UNCHANGED <<cheque, ret, writtenOff, ledger>>
  BY DEF VerifyTransfer
<1>2. /\ row \in PaymentRow /\ row.status = "completed" /\ row.amount = pay[p].amount
  BY DEF Inv, TypeOK, PaymentRow
<1>3. order.status \in Posted /\ pay[p].amount > 0 /\ pay[p].amount \in Nat
  BY <1>1, PaymentIsSold
<1>4. ~WasReceived(p)
  BY <1>1 DEF WasReceived
<1>5. PendingTransfers <= order.balance
  BY DEF TransfersCovered, Inv, Books
<1>6. pay[p].amount <= PendingTransfers
  <2>1. p \in PaymentsIn("pending") /\ IsFiniteSet(PaymentsIn("pending"))
    BY <1>1, PaymentAmounts DEF PaymentsIn, Inv
  <2>2. \A q \in PaymentsIn("pending") : Settlements[q] \in Nat /\ Settlements[q] = pay[q].amount
    BY PaymentAmounts DEF PaymentsIn, Inv
  <2>3. Settlements[p] <= SumOf(Settlements, PaymentsIn("pending"))
    BY <2>1, <2>2, SumOfOne
  <2> QED BY <2>1, <2>2, <2>3 DEF PendingTransfers, AmountOf, Settlements
<1>7. row.amount <= order.balance /\ 0 <= order.balance - PendingTransfers
  BY <1>2, <1>3, <1>5, <1>6, InvNats
<1> HIDE DEF row
<1> QED BY <1>1, <1>2, <1>3, <1>4, <1>7, MoneyComesIn

LEMMA RejectStep ==
  ASSUME Inv, NEW p \in Payments, RejectTransfer(p)
  PROVE  Books'
<1> DEFINE row == [pay[p] EXCEPT !.status = "rejected"]
<1>1. /\ pay[p].status = "pending" /\ pay' = [pay EXCEPT ![p] = row]
      /\ UNCHANGED <<order, cheque, ret, writtenOff, ledger, booking>>
  BY DEF RejectTransfer
<1>2. /\ row \in PaymentRow /\ row.status = "rejected" /\ row.amount = pay[p].amount
      /\ row.method = pay[p].method
  BY DEF Inv, TypeOK, PaymentRow
<1>3. order.status \in Posted /\ pay[p].amount > 0
  BY <1>1, PaymentIsSold
<1>4. ~WasReceived(p) /\ pay[p].method = "transfer"
  BY <1>1 DEF WasReceived, Inv, Books, Rows
<1> HIDE DEF row
<1> QED BY <1>1, <1>2, <1>3, <1>4, TransferNoted
-----------------------------------------------------------------------------
(* Bounced cheques and write-offs                                          *)

LEMMA NothingRefunded ==
  ASSUME Inv, ~MoneyRefunded
  PROVE  MoneyRefunds = 0
<1>1. ASSUME NEW r \in PaidReturns
      PROVE  Handed[r] = 0
  <2>1. r \in Returns /\ ret[r].value <= ret[r].ar /\ ret[r].ar <= ret[r].value
    BY <1>1 DEF PaidReturns, ReturnsIn, MoneyRefunded, Inv, Books, Rows, DebtsFit,
                TypeOK, ReturnRow
  <2> QED BY <2>1 DEF Handed, Inv, TypeOK, ReturnRow
<1> QED BY <1>1, SumOfZeros, ReturnSums

LEMMA BounceTenderStep ==
  ASSUME Inv, Calls = {}, BounceTender
  PROVE  Books'
<1> DEFINE o == ReopenedWith(order.cheque)
<1>1. /\ cheque = "received" /\ SaleInLedger /\ ~MoneyRefunded /\ cheque' = "bounced"
      /\ order' = [o EXCEPT !.credit = @ + order.cheque, !.paid = Clip(@ - order.cheque)]
      /\ ar' = ar + order.cheque
      /\ UNCHANGED <<pay, ret, writtenOff, booked, queued, booking>>
  BY DEF BounceTender
<1>2. order.status \in Posted /\ "sale" \in booked
  BY <1>1 DEF SaleInLedger
<1>3. /\ o \in OrderRow /\ o.total = order.total /\ o.cash = order.cash
      /\ o.cheque = order.cheque /\ o.credit = order.credit /\ o.transfer = order.transfer
      /\ o.balance = order.balance + order.cheque /\ o.paid = order.paid
      /\ o.status \in Posted
  BY <1>2, ReopenedFields, InvNats DEF Inv
<1> HIDE DEF o
<1>4. /\ order'.total = order.total /\ order'.cash = order.cash
      /\ order'.cheque = order.cheque /\ order'.credit = order.credit + order.cheque
      /\ order'.transfer = order.transfer
      /\ order'.balance = order.balance + order.cheque
      /\ order'.paid = Clip(order.paid - order.cheque) /\ order'.status \in Posted
  BY <1>1, <1>3 DEF OrderRow
<1>5. order.cheque > 0 /\ order.total > 0 /\ order.transfer = 0
  BY <1>1, <1>2 DEF Rows, Inv, Books, Posted
<1>6. /\ PendingTransfers' = PendingTransfers /\ Collected' = Collected
      /\ ReturnedValue' = ReturnedValue /\ Debited' = Debited
      /\ MoneyRefunds' = 0 /\ MoneyRefunds = 0 /\ WrittenOff' = WrittenOff
      /\ UnbookedAmount' = UnbookedAmount /\ UnbookedDebt' = UnbookedDebt
  BY <1>1, NothingRefunded, PaymentSumsKept, ReturnSumsKept, WrittenOffKept
<1>7. Due' = Due
  BY <1>1, <1>2, <1>4, DueKept
<1>8. Rows'
  BY <1>1, <1>4, <1>5 DEF Rows, DebtsFit, Inv, Books
<1>9. BookedIsDue' /\ NoSilentGap' /\ SaleFirst'
  BY <1>1, <1>2, <1>7 DEF BookedIsDue, NoSilentGap, SaleFirst, Inv, Books
<1>10. Money'
  <2>1. Tendered = order.cheque /\ Tendered' = 0 /\ Live
    BY <1>1, <1>2 DEF Tendered, Live
  <2>2. Receipts' = order'.cash + Tendered' + Collected'
    BY DEF Receipts, Tendered, Collected
  <2>3. /\ order.credit = order.total - order.cash - order.cheque - Debited
        /\ order.balance = order.credit - Collected - WrittenOff
        /\ ReturnedValue <= order.total
        /\ order.paid = order.cash + order.cheque + Collected
    BY <1>6, <2>1, InvNats DEF Money, Inv, Books
  <2>4. order'.paid = order.cash + Collected
    BY <1>4, <2>3, InvNats DEF Clip
  <2> QED BY <1>4, <1>6, <2>1, <2>2, <2>3, <2>4, InvNats DEF Money
<1>11. LedgerLeft'
  BY <1>1, <1>2, <1>4, <1>6, InvNats DEF LedgerLeft, Inv, Books
<1>12. TransfersCovered' /\ order'.balance > 0
  BY <1>4, <1>5, <1>6, InvNats DEF TransfersCovered, Inv, Books
<1> QED BY <1>4, <1>8, <1>9, <1>10, <1>11, <1>12, SoldBooks

LEMMA BounceSettlementStep ==
  ASSUME Inv, Calls = {}, NEW p \in Payments, BounceSettlement(p)
  PROVE  Books'
<1> DEFINE a == pay[p].amount
           row == [pay[p] EXCEPT !.status = "rejected"]
           o == ReopenedWith(a)
<1>1. /\ pay[p].method = "cheque" /\ pay[p].status = "completed" /\ ~MoneyRefunded
      /\ pay' = [pay EXCEPT ![p] = row]
      /\ order' = [o EXCEPT !.paid = Clip(@ - a)]
      /\ ar' = ar + a
      /\ UNCHANGED <<cheque, ret, writtenOff, booked, queued, booking>>
  BY DEF BounceSettlement
<1>2. order.status \in Posted /\ a > 0 /\ a \in Nat
  BY <1>1, PaymentIsSold
<1>3. /\ row \in PaymentRow /\ row.status = "rejected" /\ row.amount = a
      /\ row.method = "cheque"
  BY <1>1 DEF Inv, TypeOK, PaymentRow
<1>4. /\ o \in OrderRow /\ o.total = order.total /\ o.cash = order.cash
      /\ o.cheque = order.cheque /\ o.credit = order.credit /\ o.transfer = order.transfer
      /\ o.balance = order.balance + a /\ o.paid = order.paid /\ o.status \in Posted
  BY <1>2, ReopenedFields DEF Inv
<1> HIDE DEF o, row
<1>5. /\ order'.total = order.total /\ order'.cash = order.cash
      /\ order'.cheque = order.cheque /\ order'.credit = order.credit
      /\ order'.transfer = order.transfer /\ order'.balance = order.balance + a
      /\ order'.paid = Clip(order.paid - a) /\ order'.status \in Posted
  BY <1>1, <1>4 DEF OrderRow
<1>6. p \in UnbookedPayments' <=> p \in UnbookedPayments
  <2>1. pay'[p] = row
    BY <1>1 DEF Inv, TypeOK
  <2> QED BY <1>1, <1>3, <2>1 DEF UnbookedPayments, WasReceived
<1>7. /\ PendingTransfers' = PendingTransfers /\ Collected' = Collected - a
      /\ UnbookedAmount' = UnbookedAmount
  <2>1. booked' \ {p} = booked \ {p}
    BY <1>1
  <2>2. /\ PendingTransfers' = PendingTransfers
              - (IF pay[p].status = "pending" THEN a ELSE 0)
              + (IF row.status = "pending" THEN row.amount ELSE 0)
         /\ Collected' = Collected
              - (IF pay[p].status = "completed" THEN a ELSE 0)
              + (IF row.status = "completed" THEN row.amount ELSE 0)
         /\ UnbookedAmount' = UnbookedAmount
              - (IF p \in UnbookedPayments THEN a ELSE 0)
              + (IF p \in UnbookedPayments' THEN row.amount ELSE 0)
    BY <1>1, <1>3, <2>1, PaymentChanges DEF Inv
  <2> HIDE DEF a
  <2> QED BY <1>1, <1>2, <1>3, <1>6, <2>2, InvNats
<1>8. /\ ReturnedValue' = ReturnedValue /\ Debited' = Debited
      /\ MoneyRefunds' = 0 /\ MoneyRefunds = 0
      /\ UnbookedDebt' = UnbookedDebt /\ WrittenOff' = WrittenOff
  BY <1>1, NothingRefunded, ReturnSumsKept, WrittenOffKept
<1>9. Due' = Due
  <2>1. p \in Due
    BY <1>1, DueIs DEF WasReceived
  <2> QED BY <1>1, <1>2, <1>3, <1>5, <2>1, DuePayment DEF IsReceived, Inv
<1>10. Rows'
  BY <1>1, <1>2, <1>3, <1>5, PaymentRowsKept
<1>11. BookedIsDue' /\ NoSilentGap' /\ SaleFirst'
  BY <1>1, <1>9 DEF BookedIsDue, NoSilentGap, SaleFirst, ReturnsIn, Inv, Books
<1> HIDE DEF a
<1>12. Money'
  <2>1. Tendered' = Tendered /\ Live /\ Live'
    BY <1>1, <1>2, <1>5 DEF Tendered, Live
  <2>2. Receipts' = order'.cash + Tendered' + Collected'
    BY DEF Receipts, Tendered, Collected
  <2>3. /\ order.credit = order.total - order.cash - Tendered - Debited
        /\ order.balance = order.credit - Collected - WrittenOff
        /\ ReturnedValue <= order.total
        /\ order.paid = order.cash + Tendered + Collected
    BY <1>8, <2>1, InvNats DEF Money, Inv, Books
  <2>4. a <= Collected
    <3>1. p \in PaymentsIn("completed") /\ IsFiniteSet(PaymentsIn("completed"))
      BY <1>1, PaymentAmounts DEF PaymentsIn, Inv
    <3>2. \A q \in PaymentsIn("completed") : Settlements[q] \in Nat
      BY PaymentAmounts DEF PaymentsIn, Inv
    <3>3. Settlements[p] <= SumOf(Settlements, PaymentsIn("completed"))
      BY <3>1, <3>2, SumOfOne
    <3>4. Settlements[p] = a
      BY DEF Settlements, a
    <3> QED BY <3>3, <3>4 DEF Collected, AmountOf, Settlements
  <2>5. order'.paid = order.cash + Tendered + Collected - a
    BY <1>2, <1>5, <2>3, <2>4, InvNats DEF Clip
  <2>6. Receipts' = order.cash + Tendered + Collected - a
    BY <1>2, <1>5, <1>7, <2>1, <2>2, InvNats
  <2>7. /\ order'.credit = order'.total - order'.cash - Tendered' - Debited'
        /\ order'.balance = order'.credit - Collected' - WrittenOff'
        /\ ReturnedValue' <= order'.total
    BY <1>2, <1>5, <1>7, <1>8, <2>1, <2>3, InvNats
  <2> QED BY <1>2, <1>8, <2>4, <2>5, <2>6, <2>7, InvNats DEF Money
<1>13. LedgerLeft'
  BY <1>1, <1>2, <1>5, <1>7, <1>8, InvNats DEF LedgerLeft, Inv, Books
<1>14. TransfersCovered' /\ order'.balance > 0
  BY <1>2, <1>5, <1>7, InvNats DEF TransfersCovered, Inv, Books
<1> QED BY <1>5, <1>10, <1>11, <1>12, <1>13, <1>14, SoldBooks

\* A write-off that comes or goes: the ledger follows at once.
LEMMA WriteOffMoves ==
  ASSUME Inv, order.status \in Posted, NEW n \in Int,
         WrittenOff' = WrittenOff + n, ar' = ar - n,
         order'.total = order.total, order'.cash = order.cash,
         order'.cheque = order.cheque, order'.credit = order.credit,
         order'.transfer = order.transfer, order'.paid = order.paid,
         order'.balance = order.balance - n, order'.status \in Posted,
         order'.status = "approved" => order'.balance > 0,
         PendingTransfers <= order'.balance,
         UNCHANGED <<cheque, pay, ret, booked, queued, booking>>
  PROVE  Books'
<1>1. /\ PendingTransfers' = PendingTransfers /\ Collected' = Collected
      /\ ReturnedValue' = ReturnedValue /\ Debited' = Debited
      /\ MoneyRefunds' = MoneyRefunds
      /\ UnbookedAmount' = UnbookedAmount /\ UnbookedDebt' = UnbookedDebt
  BY PaymentSumsKept, ReturnSumsKept
<1>2. Due' = Due
  BY DueKept
<1>3. Rows'
  BY DEF Rows, DebtsFit, Inv, Books, Posted
<1>4. BookedIsDue' /\ NoSilentGap' /\ SaleFirst'
  BY <1>2 DEF BookedIsDue, NoSilentGap, SaleFirst, ReturnsIn, Inv, Books
<1>5. Money'
  <2>1. Tendered' = Tendered /\ Live
    BY DEF Tendered, Live
  <2>2. Receipts' = Receipts
    BY <1>1 DEF Receipts, Collected
  <2> QED BY <1>1, <2>1, <2>2, InvNats DEF Money, Inv, Books
<1>6. LedgerLeft'
  BY <1>1, InvNats DEF LedgerLeft, Inv, Books
<1>7. TransfersCovered'
  BY <1>1 DEF TransfersCovered
<1> QED BY <1>3, <1>4, <1>5, <1>6, <1>7, SoldBooks

\* Closing a row that owes nothing.
LEMMA ClearedFields ==
  ASSUME NEW o \in OrderRow, o.status \in Posted
  PROVE  LET c == CompletedIfClear(o)
         IN  /\ c.total = o.total /\ c.cash = o.cash /\ c.cheque = o.cheque
             /\ c.credit = o.credit /\ c.transfer = o.transfer
             /\ c.balance = o.balance /\ c.paid = o.paid /\ c.status \in Posted
             /\ c.status = "approved" => c.balance > 0
<1>1. CASE o.balance = 0
  BY <1>1 DEF CompletedIfClear, OrderRow, Posted
<1>2. CASE o.balance # 0
  BY <1>2 DEF CompletedIfClear, OrderRow
<1> QED BY <1>1, <1>2

LEMMA WriteOffStep ==
  ASSUME Inv, NEW w \in WriteOffs, NEW a \in Amount, WriteOff(w, a)
  PROVE  Books'
<1> DEFINE o == [order EXCEPT !.balance = @ - a]
<1>1. /\ writtenOff[w] = 0 /\ order.status \in Posted
      /\ a <= order.balance - PendingTransfers
      /\ writtenOff' = [writtenOff EXCEPT ![w] = a]
      /\ order' = CompletedIfClear(o) /\ ar' = ar - a
      /\ UNCHANGED <<cheque, pay, ret, booked, queued, booking>>
  BY DEF WriteOff, Available
<1>2. a \in Nat /\ order.balance - a \in Nat /\ PendingTransfers <= order.balance - a
  BY <1>1, MaxTotalAssumption, InvNats DEF Amount
<1>3. o \in OrderRow
  BY <1>2, OrderChanges DEF Inv, TypeOK
<1>4. /\ o.total = order.total /\ o.cash = order.cash /\ o.cheque = order.cheque
      /\ o.credit = order.credit /\ o.transfer = order.transfer
      /\ o.balance = order.balance - a /\ o.paid = order.paid
      /\ o.status = order.status
  BY DEF Inv, TypeOK, OrderRow
<1> HIDE DEF o
<1>5. WrittenOff' = WrittenOff + a
  <2>1. WrittenOff' = WrittenOff - writtenOff[w] + a
    BY <1>1, <1>2, WriteOffChanges DEF Inv
  <2> QED BY <1>1, <1>2, <2>1, InvNats
<1> QED BY <1>1, <1>2, <1>3, <1>4, <1>5, ClearedFields, WriteOffMoves

LEMMA ReverseStep ==
  ASSUME Inv, NEW w \in WriteOffs, ReverseWriteOff(w)
  PROVE  Books'
<1> DEFINE a == writtenOff[w]
           o == ReopenedWith(a)
<1>1. /\ a > 0 /\ writtenOff' = [writtenOff EXCEPT ![w] = 0]
      /\ order' = o /\ ar' = ar + a
      /\ UNCHANGED <<cheque, pay, ret, booked, queued, booking>>
  BY DEF ReverseWriteOff
<1>2. a \in Nat
  BY DEF Inv, TypeOK
<1>3. order.status \in Posted
  BY <1>1, <1>2 DEF Untouched, Inv, Books
<1>4. /\ o.total = order.total /\ o.cash = order.cash
      /\ o.cheque = order.cheque /\ o.credit = order.credit /\ o.transfer = order.transfer
      /\ o.balance = order.balance + a /\ o.paid = order.paid /\ o.status \in Posted
  BY <1>2, <1>3, ReopenedFields DEF Inv
<1>5. WrittenOff' = WrittenOff - a + 0
  BY <1>1, WriteOffChanges DEF Inv
<1> HIDE DEF o, a
<1>6. /\ -a \in Int /\ WrittenOff' = WrittenOff + (-a) /\ ar' = ar - (-a)
      /\ order'.balance = order.balance - (-a) /\ order'.balance > 0
      /\ PendingTransfers <= order'.balance
  BY <1>1, <1>2, <1>4, <1>5, InvNats DEF TransfersCovered, Inv, Books
<1> QED BY <1>1, <1>3, <1>4, <1>6, WriteOffMoves
-----------------------------------------------------------------------------
(* Returns                                                                 *)

LEMMA DueReturn ==
  ASSUME TypeOK, NEW r \in Returns, NEW row, ret' = [ret EXCEPT ![r] = row],
         UNCHANGED pay, order.status \in Posted, order'.status \in Posted
  PROVE  Due' = IF row.status = "processed" THEN Due \cup {r} ELSE Due \ {r}
<1>1. \A q \in Returns : ret'[q] = IF q = r THEN row ELSE ret[q]
  BY DEF TypeOK
<1>2. ReturnsIn("processed")' =
        IF row.status = "processed" THEN ReturnsIn("processed") \cup {r}
                                    ELSE ReturnsIn("processed") \ {r}
  BY <1>1 DEF ReturnsIn
<1>3. {q \in Payments : WasReceived(q)}' = {q \in Payments : WasReceived(q)}
  BY DEF WasReceived
<1>4. r # "sale" /\ r \notin Payments
  BY SlotsAssumption
<1> QED BY <1>2, <1>3, <1>4 DEF Due

\* A return that is not processed, before or after, moves no money.
LEMMA ReturnNoted ==
  ASSUME Inv, order.status \in Posted, NEW r \in Returns, ret[r].status # "processed",
         NEW row \in ReturnRow, row.status # "processed", row.ar = 0,
         ret' = [ret EXCEPT ![r] = row],
         (IF row.status = "open" THEN row.value ELSE 0) + ReturnedValue
           <= order.total + (IF ret[r].status = "open" THEN ret[r].value ELSE 0),
         queued \subseteq queued' \cup {r},
         UNCHANGED <<order, cheque, pay, writtenOff, ar, booked, booking>>
  PROVE  Books'
<1>1. row.value \in Nat /\ row.ar <= row.value /\ ret[r].value \in Nat
  BY DEF ReturnRow, Inv, TypeOK
<1>2. r \notin UnbookedReturns /\ r \notin UnbookedReturns'
  <2>1. ret'[r] = row
    BY DEF Inv, TypeOK
  <2> QED BY <2>1 DEF UnbookedReturns, ReturnsIn
<1>3. row.status \in {"none", "open"} /\ ret[r].status \in {"none", "open"}
  BY DEF ReturnRow, Inv, TypeOK
<1>4. /\ ReturnedValue' = ReturnedValue
           - (IF ret[r].status = "open" THEN ret[r].value ELSE 0)
           + (IF row.status = "open" THEN row.value ELSE 0)
      /\ Debited' = Debited /\ MoneyRefunds' = MoneyRefunds
      /\ UnbookedDebt' = UnbookedDebt
  <2>1. DebtsFit
    BY DEF Inv, Books, Rows
  <2>2. booked' \ {r} = booked \ {r}
    OBVIOUS
  <2>3. /\ ReturnedValue' = ReturnedValue
              - (IF ret[r].status \in {"open", "processed"} THEN ret[r].value ELSE 0)
              + (IF row.status \in {"open", "processed"} THEN row.value ELSE 0)
        /\ Debited' = Debited
              - (IF ret[r].status = "processed" THEN ret[r].ar ELSE 0)
              + (IF row.status = "processed" THEN row.ar ELSE 0)
        /\ MoneyRefunds' = MoneyRefunds
              - (IF ret[r].status = "processed" /\ ~ret[r].note
                 THEN ret[r].value - ret[r].ar ELSE 0)
              + (IF row.status = "processed" /\ ~row.note
                 THEN row.value - row.ar ELSE 0)
        /\ UnbookedDebt' = UnbookedDebt
              - (IF r \in UnbookedReturns THEN ret[r].ar ELSE 0)
              + (IF r \in UnbookedReturns' THEN row.ar ELSE 0)
    BY <1>1, <2>1, <2>2, ReturnChanges DEF Inv
  <2> QED BY <1>1, <1>2, <1>3, <2>3, InvNats
<1>5. /\ PendingTransfers' = PendingTransfers /\ Collected' = Collected
      /\ UnbookedAmount' = UnbookedAmount /\ WrittenOff' = WrittenOff
  BY PaymentSumsKept, WrittenOffKept
<1>6. Due' = Due
  <2>1. r \notin Due
    BY DueIs
  <2>2. TypeOK /\ order'.status \in Posted
    BY DEF Inv
  <2>3. Due' = IF row.status = "processed" THEN Due \cup {r} ELSE Due \ {r}
    BY <2>2, DueReturn
  <2> QED BY <2>1, <2>3
<1>7. Rows'
  <2>1. \A q \in Returns : ret'[q] = IF q = r THEN row ELSE ret[q]
    BY DEF Inv, TypeOK
  <2> QED BY <1>1, <2>1 DEF Rows, DebtsFit, Inv, Books
<1>8. BookedIsDue' /\ NoSilentGap'
  <2>1. r \notin Due
    BY DueIs
  <2> QED BY <1>6, <2>1 DEF BookedIsDue, NoSilentGap, Inv, Books
<1>9. SaleFirst'
  <2>1. ReturnsIn("processed")' = ReturnsIn("processed")
    <3>1. \A q \in Returns : ret'[q] = IF q = r THEN row ELSE ret[q]
      BY DEF Inv, TypeOK
    <3> QED BY <3>1 DEF ReturnsIn
  <2> QED BY <2>1 DEF SaleFirst, Inv, Books
<1>10. Money'
  <2>1. Tendered' = Tendered /\ Live
    BY DEF Tendered, Live
  <2>2. Receipts' = Receipts
    BY <1>5 DEF Receipts, Collected
  <2>3. ReturnedValue' <= order.total
    BY <1>1, <1>4, InvNats
  <2> QED BY <1>4, <1>5, <2>1, <2>2, <2>3 DEF Money, Inv, Books
<1>11. LedgerLeft'
  BY <1>4, <1>5 DEF LedgerLeft, Inv, Books
<1>12. TransfersCovered'
  BY <1>5 DEF TransfersCovered, Inv, Books
<1>13. order.status = "approved" => order.balance > 0
  BY DEF ClearedIsCompleted, Inv, Books
<1> QED BY <1>7, <1>8, <1>9, <1>10, <1>11, <1>12, <1>13, SoldBooks

LEMMA CreateReturnStep ==
  ASSUME Inv, NEW r \in Returns, NEW value \in Amount, NEW note \in BOOLEAN,
         CreateReturn(r, value, note)
  PROVE  Books'
<1> DEFINE row == [status |-> "open", value |-> value, note |-> note, ar |-> 0]
<1>1. /\ ret[r].status = "none" /\ order.status \in Posted
      /\ ReturnedValue + value <= order.total /\ ret' = [ret EXCEPT ![r] = row]
      /\ UNCHANGED <<order, cheque, pay, writtenOff, ar, booked, queued, booking>>
  BY DEF CreateReturn, ledger
<1>2. value \in Nat
  BY MaxTotalAssumption DEF Amount
<1>3. row \in ReturnRow /\ row.status = "open" /\ row.ar = 0 /\ row.value = value
  BY <1>2 DEF ReturnRow
<1> HIDE DEF row
<1>4. (IF row.status = "open" THEN row.value ELSE 0) + ReturnedValue
        <= order.total + (IF ret[r].status = "open" THEN ret[r].value ELSE 0)
  BY <1>1, <1>2, <1>3, InvNats
<1>5. queued \subseteq queued' \cup {r}
  BY <1>1
<1> QED BY <1>1, <1>3, <1>4, <1>5, ReturnNoted

LEMMA DropReturnStep ==
  ASSUME Inv, NEW r \in Returns, DropReturn(r)
  PROVE  Books'
<1>1. /\ ret[r].status = "open" /\ ret' = [ret EXCEPT ![r] = NoReturn]
      /\ queued' = queued \ {r} /\ booked' = booked \ {r}
      /\ UNCHANGED <<order, cheque, pay, writtenOff, ar, booking>>
  BY DEF DropReturn
<1>2. order.status \in Posted
  BY <1>1 DEF Untouched, Inv, Books
<1>3. booked' = booked
  BY <1>1, DueIs DEF BookedIsDue, Inv, Books
<1>4. /\ NoReturn \in ReturnRow /\ NoReturn.status = "none" /\ NoReturn.ar = 0
  BY DEF NoReturn, ReturnRow
<1>5. (IF NoReturn.status = "open" THEN NoReturn.value ELSE 0) + ReturnedValue
        <= order.total + (IF ret[r].status = "open" THEN ret[r].value ELSE 0)
  <2>1. ReturnedValue <= order.total /\ ret[r].value \in Nat
    BY <1>2 DEF Money, Live, Inv, Books, TypeOK, ReturnRow
  <2> QED BY <1>1, <1>4, <2>1, InvNats
<1>6. queued \subseteq queued' \cup {r}
  BY <1>1
<1> QED BY <1>1, <1>2, <1>3, <1>4, <1>5, <1>6, ReturnNoted

\* The value of the processed returns is what they took off the debt and what
\* they handed back; with one more it is within the value of all.
LEMMA ReturnFits ==
  ASSUME Inv, NEW r \in Returns, ret[r].status = "open"
  PROVE  Refunds + Debited + ret[r].value <= ReturnedValue /\ MoneyRefunds <= Refunds
<1> DEFINE P == ReturnsIn("processed")
           A == ReturnsIn("open") \cup ReturnsIn("processed")
<1>1. /\ P \in SUBSET Returns /\ A \in SUBSET Returns /\ PaidReturns \subseteq P
      /\ r \notin P /\ P \cup {r} \subseteq A
  BY DEF ReturnsIn, PaidReturns
<1>2. /\ \A q \in Returns : /\ Values[q] \in Nat /\ Debts[q] \in Nat /\ Handed[q] \in Nat
                            /\ Handed[q] = Values[q] - Debts[q]
                            /\ Debts[q] <= Values[q]
      /\ Values[r] = ret[r].value
  BY ReturnValues DEF Inv, Books, Rows, DebtsFit
<1>3. IsFiniteSet(P) /\ IsFiniteSet(A)
  BY <1>1, ReturnValues DEF Inv, Books, Rows
<1>4. SumOf(Handed, P) = SumOf(Values, P) - SumOf(Debts, P)
  <2>1. \A q \in P : /\ Values[q] \in Nat /\ Debts[q] \in Nat /\ Debts[q] <= Values[q]
                     /\ Handed[q] = Values[q] - Debts[q]
    BY <1>1, <1>2
  <2> HIDE DEF P
  <2> QED BY <1>3, <2>1, SumOfDifference
<1>5. SumOf(Values, P \cup {r}) = SumOf(Values, P) + Values[r]
  <2>1. \A q \in P \cup {r} : Values[q] \in Nat
    BY <1>1, <1>2
  <2> HIDE DEF P
  <2> QED BY <1>1, <1>3, <2>1, SumPlus
<1>6. SumOf(Values, P \cup {r}) <= SumOf(Values, A)
  <2>1. \A q \in A : Values[q] \in Nat
    BY <1>1, <1>2
  <2> HIDE DEF P, A
  <2> QED BY <1>1, <1>3, <2>1, SumOfSubset
<1>7. SumOf(Handed, PaidReturns) <= SumOf(Handed, P)
  <2>1. \A q \in P : Handed[q] \in Nat
    BY <1>1, <1>2
  <2> HIDE DEF P
  <2> QED BY <1>1, <1>3, <2>1, SumOfSubset
<1>8. SumOf(Values, P) \in Nat /\ SumOf(Debts, P) \in Nat /\ Values[r] \in Nat
      /\ SumOf(Values, A) \in Nat
  BY <1>1, <1>2, ReturnValues DEF Inv, Books, Rows
<1>9. /\ Refunds = SumOf(Handed, P) /\ Debited = SumOf(Debts, P)
      /\ MoneyRefunds = SumOf(Handed, PaidReturns) /\ ReturnedValue = SumOf(Values, A)
  BY ReturnSums
<1> HIDE DEF P, A
<1>10. Refunds + Debited = SumOf(Values, P)
  BY <1>4, <1>8, <1>9
<1>11. SumOf(Values, P) + ret[r].value <= ReturnedValue
  BY <1>2, <1>5, <1>6, <1>9
<1> QED BY <1>7, <1>9, <1>10, <1>11

\* An order that is no credit sale owes nothing.
LEMMA CreditOwes ==
  ASSUME Inv, order.status \in Posted, ~IsCredit
  PROVE  order.balance = 0
<1>1. order.balance = order.credit - Collected - WrittenOff
  BY DEF Money, Live, Inv, Books
<1> QED BY <1>1, InvNats DEF IsCredit

\* What processing a return does to the money of the order.
LEMMA ReturnPays ==
  ASSUME Inv, Calls = {}, NEW r \in Returns, ProcessReturn(r)
  PROVE  /\ order.status \in Posted /\ ret[r].status = "open" /\ WrittenOff = 0
         /\ PendingTransfers = 0
         /\ Cancelled(r) \in Nat /\ Cancelled(r) <= order.balance
         /\ Cancelled(r) <= ret[r].value /\ ret[r].value \in Nat
         /\ MoneyBack(r) \in Nat /\ ret[r].note \in BOOLEAN
         /\ MoneyBack(r) = IF ret[r].note THEN 0 ELSE ret[r].value - Cancelled(r)
         /\ ret[r].value > Cancelled(r) =>
              /\ Cancelled(r) = order.balance
              /\ Refunds + (ret[r].value - Cancelled(r)) <= Receipts
         /\ MoneyRefunds + MoneyBack(r) <= Receipts
<1>1. order.status \in Posted /\ ret[r].status = "open"
  BY DEF ProcessReturn, SaleInLedger
<1>2. WrittenOff = 0 /\ PendingTransfers = 0
  BY InvNats DEF ProcessReturn
<1>3. /\ Cancelled(r) \in Nat /\ Cancelled(r) <= order.balance
      /\ Cancelled(r) <= ret[r].value /\ MoneyBack(r) \in Nat
      /\ ret[r].value \in Nat /\ ret[r].note \in BOOLEAN
  BY CancelledIsOwed DEF Inv, TypeOK, ReturnRow
<1>4. MoneyBack(r) = IF ret[r].note THEN 0 ELSE ret[r].value - Cancelled(r)
  BY DEF MoneyBack
<1>5. /\ order.credit = order.total - order.cash - Tendered - Debited
      /\ order.balance = order.credit - Collected - WrittenOff
      /\ ReturnedValue <= order.total /\ MoneyRefunds <= Receipts
  BY <1>1 DEF Money, Live, Inv, Books
<1>6. Refunds + Debited + ret[r].value <= ReturnedValue /\ MoneyRefunds <= Refunds
  BY <1>1, ReturnFits
<1>7. ASSUME ret[r].value > Cancelled(r)
      PROVE  /\ Cancelled(r) = order.balance
             /\ Refunds + (ret[r].value - Cancelled(r)) <= Receipts
  <2>1. Cancelled(r) = order.balance
    BY <1>1, <1>3, <1>7, CreditOwes, InvNats DEF Cancelled
  <2> QED BY <1>2, <1>3, <1>5, <1>6, <2>1, InvNats
<1>8. MoneyRefunds + MoneyBack(r) <= Receipts
  <2>1. CASE MoneyBack(r) = 0
    BY <1>5, <2>1, InvNats
  <2>2. CASE MoneyBack(r) > 0
    <3>1. MoneyBack(r) = ret[r].value - Cancelled(r)
      BY <1>4, <2>2
    <3> QED BY <1>3, <1>6, <1>7, <2>2, <3>1, InvNats
  <2> QED BY <1>3, <2>1, <2>2
<1> QED BY <1>1, <1>2, <1>3, <1>4, <1>7, <1>8

\* A return is processed: the debt goes down by what it cancels, the rest is
\* handed back, and both agree with the ledger's entry.
LEMMA ProcessReturnStep ==
  ASSUME Inv, Calls = {}, NEW r \in Returns, ProcessReturn(r)
  PROVE  /\ Books'
         /\ Refunds' = Refunds + (ret[r].value - Cancelled(r))
         /\ Receipts' = Receipts
<1> DEFINE c == Cancelled(r)
           m == MoneyBack(r)
           v == ret[r].value
           row == [ret[r] EXCEPT !.status = "processed", !.ar = c]
           o == [order EXCEPT !.credit = Clip(@ - c), !.balance = @ - c,
                              !.paid = Clip(@ - m)]
<1>1. /\ "sale" \in booked /\ order' = AfterReturn(o) /\ Post(r, -c)
      /\ UNCHANGED <<cheque, pay, writtenOff, booking>>
  BY DEF ProcessReturn, SaleInLedger
<1>2. ret' = [ret EXCEPT ![r] = row]
  BY DEF ProcessReturn, Inv, TypeOK
<1>3. /\ order.status \in Posted /\ ret[r].status = "open" /\ WrittenOff = 0
      /\ PendingTransfers = 0
      /\ c \in Nat /\ c <= order.balance /\ c <= v /\ v \in Nat
      /\ m \in Nat /\ ret[r].note \in BOOLEAN
      /\ m = IF ret[r].note THEN 0 ELSE v - c
      /\ MoneyRefunds + m <= Receipts
  BY ReturnPays
<1>4. /\ order.credit = order.total - order.cash - Tendered - Debited
      /\ order.balance = order.credit - Collected - WrittenOff
      /\ ReturnedValue <= order.total
      /\ order.paid = Receipts - MoneyRefunds
  BY <1>3 DEF Money, Live, Inv, Books
<1> HIDE DEF c, m, v
<1>5. /\ row \in ReturnRow /\ row.status = "processed" /\ row.ar = c /\ row.value = v
      /\ row.note = ret[r].note
  BY <1>3 DEF Inv, TypeOK, ReturnRow, v
<1>6. /\ Clip(order.credit - c) = order.credit - c /\ order.credit - c \in Nat
      /\ order.balance - c \in Nat
      /\ Clip(order.paid - m) = order.paid - m /\ order.paid - m \in Nat
  BY <1>3, <1>4, InvNats DEF Clip
<1>7. o \in OrderRow
  <2>1. order \in OrderRow
    BY DEF Inv, TypeOK
  <2>2. o = [order EXCEPT !.balance = order.balance - c,
                          !.credit = order.credit - c, !.paid = order.paid - m]
    BY <1>6, <2>1 DEF OrderRow
  <2>3. \A b \in Nat, d \in Nat, n \in Nat :
          [order EXCEPT !.balance = b, !.credit = d, !.paid = n] \in OrderRow
    BY <2>1, OrderChanges
  <2> HIDE DEF o
  <2> QED BY <1>6, <2>2, <2>3
<1>8. /\ o.total = order.total /\ o.cash = order.cash /\ o.cheque = order.cheque
      /\ o.credit = order.credit - c /\ o.transfer = order.transfer
      /\ o.balance = order.balance - c /\ o.paid = order.paid - m
      /\ o.status = order.status
  BY <1>6 DEF Inv, TypeOK, OrderRow
<1> HIDE DEF o, row
<1>9. /\ order'.total = order.total /\ order'.cash = order.cash
      /\ order'.cheque = order.cheque /\ order'.credit = order.credit - c
      /\ order'.transfer = order.transfer
      /\ order'.balance = order.balance - c /\ order'.paid = order.paid - m
      /\ order'.status \in Posted /\ (order'.status = "approved" => order'.balance > 0)
  <2>1. CASE IsCredit /\ o.status = "approved"
    <3>1. order' = CompletedIfClear(o)
      BY <1>1, <2>1 DEF AfterReturn
    <3> QED BY <1>3, <1>7, <1>8, <3>1, ClearedFields
  <2>2. CASE ~(IsCredit /\ o.status = "approved")
    <3>1. order' = o
      BY <1>1, <2>2 DEF AfterReturn
    <3>2. order.status # "approved"
      BY <1>3, <1>8, <2>2, CreditOwes DEF ClearedIsCompleted, Inv, Books
    <3> QED BY <1>3, <1>8, <3>1, <3>2
  <2> QED BY <2>1, <2>2
<1>10. r \notin booked /\ r \notin UnbookedReturns
  BY <1>3, DueIs DEF BookedIsDue, Inv, Books, UnbookedReturns, ReturnsIn
<1>11. r \in UnbookedReturns' <=> r \notin booked'
  <2>1. ret'[r] = row
    BY <1>2 DEF Inv, TypeOK
  <2> QED BY <1>5, <2>1 DEF UnbookedReturns, ReturnsIn
<1>12. /\ booked' \ {r} = booked \ {r} /\ "sale" \in booked'
       /\ booked' \cap Payments = booked \cap Payments
       /\ ar' = ar - (IF r \in booked' THEN c ELSE 0)
       /\ booked' \subseteq booked \cup {r} /\ booked \subseteq booked'
       /\ queued \subseteq queued' /\ r \in booked' \cup queued'
  <2>1. r # "sale" /\ r \notin Payments
    BY SlotsAssumption
  <2>2. CASE booked' = booked \cup {r} /\ ar' = ar + (-c) /\ queued' = queued
    BY <1>1, <1>3, <2>1, <2>2, InvNats
  <2>3. CASE booked' = booked /\ ar' = ar /\ queued' = queued \cup {r}
    BY <1>1, <1>10, <2>1, <2>3, InvNats
  <2> QED BY <1>1, <1>10, <2>2, <2>3 DEF Post
<1>13. /\ ReturnedValue' = ReturnedValue /\ Debited' = Debited + c
       /\ Refunds' = Refunds + (v - c) /\ MoneyRefunds' = MoneyRefunds + m
       /\ UnbookedDebt' = UnbookedDebt + (IF r \in booked' THEN 0 ELSE c)
  <2>1. DebtsFit /\ row.ar <= row.value
    BY <1>3, <1>5 DEF Inv, Books, Rows
  <2>2. /\ ReturnedValue' = ReturnedValue
              - (IF ret[r].status \in {"open", "processed"} THEN ret[r].value ELSE 0)
              + (IF row.status \in {"open", "processed"} THEN row.value ELSE 0)
         /\ Debited' = Debited
              - (IF ret[r].status = "processed" THEN ret[r].ar ELSE 0)
              + (IF row.status = "processed" THEN row.ar ELSE 0)
         /\ Refunds' = Refunds
              - (IF ret[r].status = "processed" THEN ret[r].value - ret[r].ar ELSE 0)
              + (IF row.status = "processed" THEN row.value - row.ar ELSE 0)
         /\ MoneyRefunds' = MoneyRefunds
              - (IF ret[r].status = "processed" /\ ~ret[r].note
                 THEN ret[r].value - ret[r].ar ELSE 0)
              + (IF row.status = "processed" /\ ~row.note
                 THEN row.value - row.ar ELSE 0)
         /\ UnbookedDebt' = UnbookedDebt
              - (IF r \in UnbookedReturns THEN ret[r].ar ELSE 0)
              + (IF r \in UnbookedReturns' THEN row.ar ELSE 0)
    BY <1>2, <1>5, <1>12, <2>1, ReturnChanges DEF Inv
  <2>3. ReturnedValue' = ReturnedValue - v + v
    BY <1>3, <1>5, <2>2 DEF v
  <2>4. /\ Debited' = Debited - 0 + c /\ Refunds' = Refunds - 0 + (v - c)
        /\ MoneyRefunds' = MoneyRefunds - 0 + m
    BY <1>3, <1>5, <2>2
  <2>5. UnbookedDebt' = UnbookedDebt - 0 + (IF r \in booked' THEN 0 ELSE c)
    BY <1>5, <1>10, <1>11, <2>2
  <2> QED BY <1>3, <2>3, <2>4, <2>5, InvNats
<1>14. /\ PendingTransfers' = PendingTransfers /\ Collected' = Collected
       /\ UnbookedAmount' = UnbookedAmount /\ WrittenOff' = WrittenOff
  BY <1>1, <1>12, PaymentSumsKept, WrittenOffKept
<1>15. Due' = Due \cup {r}
  BY <1>1, <1>2, <1>3, <1>5, <1>9, DueReturn DEF Inv
<1>16. Rows'
  <2>1. \A q \in Returns : ret'[q] = IF q = r THEN row ELSE ret[q]
    BY <1>2 DEF Inv, TypeOK
  <2>2. DebtsFit'
    BY <1>3, <1>5, <2>1 DEF DebtsFit, Rows, Inv, Books
  <2>3. order.total > 0
    BY <1>3 DEF Rows, Inv, Books, Posted
  <2> QED BY <1>1, <1>9, <2>2, <2>3 DEF Rows, Inv, Books
<1>17. BookedIsDue' /\ NoSilentGap'
  BY <1>1, <1>12, <1>15 DEF BookedIsDue, NoSilentGap, Inv, Books
<1>18. SaleFirst'
  BY <1>12 DEF SaleFirst
<1>19. Tendered' = Tendered /\ Receipts' = Receipts
  <2>1. Tendered' = Tendered
    BY <1>1, <1>9 DEF Tendered
  <2> QED BY <1>1, <1>9, <1>14, <2>1 DEF Receipts, Collected
<1>20. Money'
  BY <1>3, <1>4, <1>9, <1>13, <1>14, <1>19, InvNats DEF Money
<1>21. LedgerLeft'
  BY <1>1, <1>3, <1>9, <1>12, <1>13, <1>14, InvNats DEF LedgerLeft, Inv, Books
<1>22. TransfersCovered'
  BY <1>3, <1>6, <1>9, <1>14 DEF TransfersCovered
<1>23. Books'
  BY <1>9, <1>16, <1>17, <1>18, <1>20, <1>21, <1>22, SoldBooks
<1> QED BY <1>13, <1>19, <1>23 DEF c, v
-----------------------------------------------------------------------------
(* The results                                                             *)

LEMMA InitBooks == Init => Inv
<1> SUFFICES ASSUME Init PROVE Inv
  OBVIOUS
<1>1. TypeOK
  BY InitTyped
<1>2. /\ order.status = "none" /\ order.transfer = 0 /\ cheque = "none"
      /\ ar = 0 /\ booked = {} /\ queued = {} /\ booking = {}
      /\ order.balance = 0
  BY DEF Init
<1>3. /\ \A p \in Payments : pay[p].status = "none"
      /\ \A r \in Returns : ret[r].status = "none" /\ ret[r].ar <= ret[r].value
      /\ \A w \in WriteOffs : writtenOff[w] = 0
  BY DEF Init, NoPayment, NoReturn
<1>4. PaymentsIn("pending") = {} /\ ReturnsIn("processed") = {}
  BY <1>3 DEF PaymentsIn, ReturnsIn
<1>5. PendingTransfers = 0
  BY <1>4, SumOfZeros DEF PendingTransfers, AmountOf
<1>6. Due = {}
  BY <1>2, <1>3, <1>4 DEF Due, WasReceived, Posted
<1>7. Untouched /\ CancelledOwesNothing /\ ClearedIsCompleted
  BY <1>2, <1>3 DEF Untouched, CancelledOwesNothing, ClearedIsCompleted
<1>8. Rows
  BY <1>2, <1>3 DEF Rows, DebtsFit
<1>9. BookedIsDue /\ NoSilentGap /\ SaleFirst
  BY <1>2, <1>4, <1>6 DEF BookedIsDue, NoSilentGap, SaleFirst
<1>10. Money /\ LedgerLeft /\ TransfersCovered
  BY <1>2, <1>5 DEF Money, Live, LedgerLeft, TransfersCovered, Posted
<1> QED BY <1>1, <1>7, <1>8, <1>9, <1>10 DEF Inv, Books

\* Every action keeps the books in order.
LEMMA BooksKept ==
  ASSUME Inv, Calls = {}, TypeOK', [Next]_vars
  PROVE  Books'
<1>1. CASE UNCHANGED vars
  BY <1>1, OnlyQueued DEF vars, ledger
<1>2. CASE Sell
  BY <1>2, CreateStep, ApproveStep, CompleteStep, CancelStep, BounceTenderStep DEF Sell
<1>3. CASE Collect
  BY <1>3, SettleStep, VerifyStep, RejectStep, BookSettlementStep, BounceSettlementStep
     DEF Collect
<1>4. CASE GiveUp
  BY <1>4, WriteOffStep, ReverseStep DEF GiveUp
<1>5. CASE TakeBack
  BY <1>5, CreateReturnStep, DropReturnStep, ProcessReturnStep DEF TakeBack
<1>6. CASE Repair
  BY <1>6, RepairStep
<1> QED BY <1>1, <1>2, <1>3, <1>4, <1>5, <1>6 DEF Next

\* Without the risky calls every operation keeps the books in order: the order
\* row is computed from its documents, the ledger holds what the booked
\* documents put there, and what it lacks is queued or about to be booked.
THEOREM Invariant ==
  ASSUME Calls = {}
  PROVE  Spec => []Inv
<1>1. Inv /\ [Next]_vars => Inv'
  BY TypeKept, BooksKept DEF Inv
<1> QED BY InitBooks, <1>1, PTL DEF Spec

\* The ledger and the entries still to be made are the balance.
LEMMA LedgerAgreesWithOrder == Inv => LedgerAgrees
<1> SUFFICES ASSUME Inv, order.status \in Posted
             PROVE  order.balance = ar + Owed(Due \ booked)
  BY DEF LedgerAgrees
<1>1. /\ (Due \ booked) \cap Payments = UnbookedPayments
      /\ (Due \ booked) \cap Returns = UnbookedReturns
      /\ "sale" \in Due \ booked <=> "sale" \notin booked
  BY DueIs DEF UnbookedPayments, UnbookedReturns, ReturnsIn
<1>2. Owed(Due \ booked) =
        (IF "sale" \notin booked THEN order.total - order.cash - order.cheque ELSE 0)
          - UnbookedAmount - UnbookedDebt
  BY <1>1 DEF Owed, UnbookedAmount, UnbookedDebt
<1>3. order.balance = ar + (IF "sale" \in booked THEN 0
                            ELSE order.total - order.cash - order.cheque)
                        - UnbookedAmount - UnbookedDebt
  BY DEF Inv, Books, LedgerLeft
<1> QED BY <1>2, <1>3, InvNats

\* The properties follow from the invariant.
LEMMA BooksFollow == Inv => BooksAgree
<1> SUFFICES ASSUME Inv PROVE BooksAgree
  OBVIOUS
<1>1. UnsoldNotBooked
  BY DEF UnsoldNotBooked, Inv, Books, Untouched, Posted
<1>2. NoSilentGap
  BY DEF Inv, Books
<1>3. RetryCanSucceed
  BY SaleLines DEF RetryCanSucceed, Live
<1> QED BY <1>1, <1>2, <1>3, LedgerAgreesWithOrder DEF BooksAgree

LEMMA DebtFollows == Inv => DebtAgrees
<1> SUFFICES ASSUME Inv PROVE DebtAgrees
  OBVIOUS
<1>1. ASSUME order.status \in Posted
      PROVE  /\ order.credit = order.total - order.cash - Tendered - Debited
             /\ order.balance = order.credit - Collected - WrittenOff
             /\ MoneyRefunds <= Receipts /\ order.paid = Receipts - MoneyRefunds
  BY <1>1 DEF Inv, Books, Money, Live
<1>2. DebtIsWhatIsLeft
  <2> SUFFICES ASSUME order.status \in Posted
               PROVE  order.balance = order.total - Receipts - WrittenOff - Debited
    BY DEF DebtIsWhatIsLeft, Debited
  <2> QED BY <1>1, InvNats
<1>3. PaidIsKept
  <2> SUFFICES ASSUME order.status \in Posted
               PROVE  order.paid = Clip(Receipts - MoneyRefunds)
    BY DEF PaidIsKept
  <2> QED BY <1>1, InvNats DEF Clip
<1>4. TransfersCovered /\ ClearedIsCompleted /\ CancelledOwesNothing
  BY DEF Inv, Books
<1> QED BY <1>2, <1>3, <1>4 DEF DebtAgrees

\* Account 1110 and the entries still to be made add up to balance_due; what
\* the ledger lacks is a posting failure or about to be booked, and the entry
\* of a sale can be made again (_record_failure, retry_failure).
THEOREM BooksAgreeAlways ==
  ASSUME Calls = {}
  PROVE  Spec => []BooksAgree
BY Invariant, BooksFollow, PTL

\* balance_due is what receipts, write-offs and returns leave of the total,
\* paid_amount the money kept, and the status says whether anything is owed,
\* through settlements, bounced cheques, write-offs and returns in any order.
THEOREM DebtAgreesAlways ==
  ASSUME Calls = {}
  PROVE  Spec => []DebtAgrees
BY Invariant, DebtFollows, PTL

\* Only a processed return raises what was refunded.
LEMMA RefundStep ==
  ASSUME Inv, Calls = {}, [Next]_vars, Refunds' > Refunds
  PROVE  Refunds' <= Receipts'
<1>1. ASSUME UNCHANGED ret
      PROVE  FALSE
  BY <1>1, ReturnSumsKept, InvNats
<1>2. ASSUME NEW r \in Returns, ProcessReturn(r)
      PROVE  Refunds' <= Receipts'
  <2>1. Refunds' = Refunds + (ret[r].value - Cancelled(r)) /\ Receipts' = Receipts
    BY <1>2, ProcessReturnStep
  <2>2. ret[r].value > Cancelled(r) => Refunds + (ret[r].value - Cancelled(r)) <= Receipts
    BY <1>2, ReturnPays
  <2>3. ret[r].value \in Nat /\ Cancelled(r) \in Nat
    BY <1>2, ReturnPays
  <2> QED BY <2>1, <2>2, <2>3, InvNats
<1>3. ASSUME NEW r \in Returns, NEW row \in ReturnRow, ret[r].status # "processed",
             row.status # "processed", row.ar = 0,
             ret' = [ret EXCEPT ![r] = row], booked' \ {r} = booked \ {r}
      PROVE  FALSE
  <2>1. DebtsFit /\ row.ar <= row.value
    BY <1>3 DEF Inv, Books, Rows, ReturnRow
  <2>2. Refunds' = Refunds
              - (IF ret[r].status = "processed" THEN ret[r].value - ret[r].ar ELSE 0)
              + (IF row.status = "processed" THEN row.value - row.ar ELSE 0)
    BY <1>3, <2>1, ReturnChanges DEF Inv
  <2> QED BY <1>3, <2>2, InvNats
<1>4. ASSUME NEW r \in Returns, NEW value \in Amount, NEW note \in BOOLEAN,
             CreateReturn(r, value, note)
      PROVE  FALSE
  <2> DEFINE row == [status |-> "open", value |-> value, note |-> note, ar |-> 0]
  <2>1. ret' = [ret EXCEPT ![r] = row] /\ ret[r].status = "none" /\ booked' = booked
    BY <1>4 DEF CreateReturn, ledger
  <2>2. row \in ReturnRow /\ row.status = "open" /\ row.ar = 0
    BY MaxTotalAssumption DEF ReturnRow, Amount
  <2> HIDE DEF row
  <2> QED BY <1>3, <2>1, <2>2
<1>5. ASSUME NEW r \in Returns, DropReturn(r)
      PROVE  FALSE
  <2>1. /\ ret' = [ret EXCEPT ![r] = NoReturn] /\ ret[r].status = "open"
        /\ booked' \ {r} = booked \ {r}
    BY <1>5 DEF DropReturn
  <2>2. NoReturn \in ReturnRow /\ NoReturn.status = "none" /\ NoReturn.ar = 0
    BY DEF NoReturn, ReturnRow
  <2> QED BY <1>3, <2>1, <2>2
<1>6. CASE UNCHANGED vars
  BY <1>1, <1>6 DEF vars, documents
<1>7. CASE Sell
  <2>1. ASSUME NEW method, NEW total, NEW cash, NEW chq, NEW transfer,
               Create(method, total, cash, chq, transfer)
        PROVE  UNCHANGED ret
    BY <2>1 DEF Create
  <2>2. Approve \/ Complete \/ Cancel \/ BounceTender => UNCHANGED ret
    BY DEF Approve, Complete, Cancel, BounceTender, documents
  <2> QED BY <1>1, <1>7, <2>1, <2>2 DEF Sell
<1>8. CASE Collect
  BY <1>1, <1>8 DEF Collect, Settle, VerifyTransfer, RejectTransfer, BookSettlement,
                    BounceSettlement, documents
<1>9. CASE GiveUp
  BY <1>1, <1>9 DEF GiveUp, WriteOff, ReverseWriteOff
<1>10. CASE Repair
  BY <1>1, <1>10 DEF Repair, Retry, RolledBack, PostByHand, documents
<1>11. CASE TakeBack
  BY <1>2, <1>4, <1>5, <1>11 DEF TakeBack
<1> QED BY <1>6, <1>7, <1>8, <1>9, <1>10, <1>11 DEF Next

\* A return that hands money or a credit note back (process_sale_return) hands back
\* no more than the customer's receipts, even after a cheque bounced.
THEOREM RefundsWithinReceiptsAlways ==
  ASSUME Calls = {}
  PROVE  Spec => RefundsWithinReceipts
<1>1. Inv /\ [Next]_vars => [Refunds' > Refunds => Refunds' <= Receipts']_vars
  BY RefundStep
<1> QED BY Invariant, <1>1, PTL DEF Spec, RefundsWithinReceipts

-----------------------------------------------------------------------------
(* Loops: a recursive function on 0..n exists                              *)

\* A set of natural numbers has a least member.
LEMMA Least ==
  ASSUME NEW T \in SUBSET Nat, T # {}
  PROVE  \E m \in T : \A k \in T : m <= k
<1>1. PICK m \in T : \A k \in T : ~(<<k, m>> \in OpToRel(<, Nat))
  BY NatLessThanWellFounded, WFMin
<1>2. ASSUME NEW k \in T PROVE m <= k
  <2>1. <<k, m>> \in Nat \X Nat
    OBVIOUS
  <2>2. ~(<<k, m>> \in {ss \in Nat \X Nat : ss[1] < ss[2]})
    BY <1>1 DEF OpToRel
  <2> QED BY <2>1, <2>2
<1> QED BY <1>2

\* Induction up to n, with the set of numbers that have the property.
LEMMA Induction ==
  ASSUME NEW n \in Nat, NEW T, 0 \in T, \A k \in 1..n : k - 1 \in T => k \in T
  PROVE  \A k \in 0..n : k \in T
<1> DEFINE Rest == {k \in 0..n : k \notin T}
<1>1. ASSUME Rest # {} PROVE FALSE
  <2>1. Rest \in SUBSET Nat
    OBVIOUS
  <2>2. PICK m \in Rest : \A k \in Rest : m <= k
    BY <1>1, <2>1, Least
  <2>3. m \in 1..n /\ m - 1 \in 0..n /\ m - 1 \notin Rest
    BY <2>2
  <2> QED BY <2>2, <2>3
<1> QED BY <1>1

\* A loop of n steps on values in S, and its results after each step.
StepOf(step, n, S) == step \in [S \X (1..n) -> S]
RunOf(f, step, base, n, S) ==
  /\ f \in [0..n -> S] /\ f[0] = base
  /\ \A k \in 1..n : f[k] = step[<<f[k - 1], k>>]

LEMMA LoopExists ==
  ASSUME NEW n \in Nat, NEW S, NEW base \in S, NEW step, StepOf(step, n, S)
  PROVE  \E f : RunOf(f, step, base, n, S)
<1>0. step \in [S \X (1..n) -> S]
  BY DEF StepOf
<1> DEFINE Runs(f, m) == /\ f[0] = base
                         /\ \A k \in 1..m : f[k] = step[<<f[k - 1], k>>]
           T == {m \in 0..n : \E f \in [0..n -> S] : Runs(f, m)}
<1>1. 0 \in T
  <2>1. [k \in 0..n |-> base] \in [0..n -> S] /\ Runs([k \in 0..n |-> base], 0)
    OBVIOUS
  <2> HIDE DEF Runs
  <2> QED BY <2>1
<1>2. ASSUME NEW m \in 1..n, m - 1 \in T PROVE m \in T
  <2>1. PICK f \in [0..n -> S] : Runs(f, m - 1)
    BY <1>2
  <2> DEFINE g == [f EXCEPT ![m] = step[<<f[m - 1], m>>]]
  <2>2. f[m - 1] \in S /\ step[<<f[m - 1], m>>] \in S
    <3>1. m - 1 \in 0..n
      OBVIOUS
    <3>2. <<f[m - 1], m>> \in S \X (1..n)
      BY <3>1
    <3> QED BY <1>0, <3>1, <3>2
  <2>3. g \in [0..n -> S]
    BY <2>2
  <2>4. \A k \in 0..n : g[k] = IF k = m THEN step[<<f[m - 1], m>>] ELSE f[k]
    OBVIOUS
  <2>5. Runs(g, m)
    <3>1. g[0] = base
      BY <2>1, <2>4
    <3>2. ASSUME NEW k \in 1..m PROVE g[k] = step[<<g[k - 1], k>>]
      <4>1. k \in 0..n /\ k - 1 \in 0..n /\ k - 1 # m
        OBVIOUS
      <4>2. g[k - 1] = f[k - 1]
        BY <2>4, <4>1
      <4>3. CASE k = m
        BY <2>4, <4>1, <4>2, <4>3
      <4>4. CASE k # m
        <5>1. k \in 1..(m - 1)
          BY <4>4
        <5>2. f[k] = step[<<f[k - 1], k>>]
          BY <2>1, <5>1
        <5> QED BY <2>4, <4>1, <4>2, <4>4, <5>2
      <4> QED BY <4>3, <4>4
    <3> QED BY <3>1, <3>2
  <2> HIDE DEF Runs, g
  <2> QED BY <2>3, <2>5
<1>3. n \in T
  <2> HIDE DEF T
  <2> QED BY <1>1, <1>2, Induction
<1> QED BY <1>3 DEF RunOf

LEMMA ShareTyped ==
  ASSUME Partial(shown, Nat), NEW a \in Nat, NEW d
  PROVE  /\ Share(a, d) \in Nat /\ Share(a, d) <= a
         /\ d \in DOMAIN shown => Share(a, d) <= shown[d] /\ shown[d] \in Nat
         /\ d \in DOMAIN shown => Share(a, d) = a \/ Share(a, d) = shown[d]
         /\ d \notin DOMAIN shown => Share(a, d) = 0
BY DEF Share, Partial, Lowest

\* The loop of allocateFIFO: what is left of the amount after each document.
LEMMA RemainingIs ==
  ASSUME Partial(shown, Nat), NEW a \in Nat
  PROVE  /\ Remaining(a) \in [0..Newest -> Nat]
         /\ Remaining(a)[0] = a
         /\ \A d \in Docs :
              Remaining(a)[d] = Remaining(a)[d - 1] - Share(Remaining(a)[d - 1], d)
<1> DEFINE Loop(f) == f = [d \in 0..Newest |-> IF d = 0 THEN a
                                              ELSE f[d - 1] - Share(f[d - 1], d)]
           step == [x \in Nat \X (1..Newest) |-> x[1] - Share(x[1], x[2])]
<1>1. step \in [Nat \X (1..Newest) -> Nat]
  <2>1. ASSUME NEW x \in Nat \X (1..Newest) PROVE x[1] - Share(x[1], x[2]) \in Nat
    <3>1. x[1] \in Nat
      OBVIOUS
    <3> QED BY <3>1, ShareTyped
  <2> QED BY <2>1
<1>2. Newest \in Nat
  BY PaymentAssumption
<1>3. PICK f : RunOf(f, step, a, Newest, Nat)
  <2>1. StepOf(step, Newest, Nat)
    BY <1>1 DEF StepOf
  <2> HIDE DEF step
  <2> QED BY <1>2, <2>1, LoopExists
<1>4. \A k \in 1..Newest : f[k] = f[k - 1] - Share(f[k - 1], k)
  <2> TAKE k \in 1..Newest
  <2>1. <<f[k - 1], k>> \in Nat \X (1..Newest)
    BY <1>2, <1>3 DEF RunOf
  <2>2. step[<<f[k - 1], k>>] = f[k - 1] - Share(f[k - 1], k)
    BY <2>1
  <2> QED BY <1>3, <2>2 DEF RunOf
<1>5. Loop(f)
  <2>1. \A d \in 0..Newest : f[d] = IF d = 0 THEN a ELSE f[d - 1] - Share(f[d - 1], d)
    BY <1>2, <1>3, <1>4 DEF RunOf
  <2> QED BY <1>3, <2>1 DEF RunOf
<1>6. Loop(CHOOSE g : Loop(g))
  <2> HIDE DEF Loop
  <2> QED BY <1>5
<1>7. Remaining(a) = CHOOSE g : Loop(g)
  BY Zenon DEF Remaining
<1> DEFINE R == Remaining(a)
<1>8. R = [d \in 0..Newest |-> IF d = 0 THEN a ELSE R[d - 1] - Share(R[d - 1], d)]
  BY <1>6, <1>7
<1> HIDE DEF R, Loop
<1>9. R[0] = a /\ \A d \in 1..Newest : R[d] = R[d - 1] - Share(R[d - 1], d)
  BY <1>2, <1>8
<1>10. \A d \in 0..Newest : R[d] \in Nat
  <2> DEFINE T == {d \in 0..Newest : R[d] \in Nat}
  <2>1. 0 \in T
    BY <1>2, <1>9
  <2>2. ASSUME NEW d \in 1..Newest, d - 1 \in T PROVE d \in T
    BY <1>9, <2>2, ShareTyped
  <2> HIDE DEF T
  <2>3. \A d \in 0..Newest : d \in T
    BY <1>2, <2>1, <2>2, Induction
  <2> QED BY <2>3 DEF T
<1>11. R \in [0..Newest -> Nat]
  BY <1>8, <1>10
<1> QED BY <1>9, <1>11 DEF R, Docs

-----------------------------------------------------------------------------
(* allocateFIFO                                                            *)

LEMMA DocsAreFinite == /\ \A D \in SUBSET Docs : IsFiniteSet(D)
                       /\ \A d \in Docs : d \in Nat \ {0} /\ d <= Newest /\ d - 1 \in 0..Newest
                       /\ Newest \in Nat /\ Newest \in 0..Newest /\ 0 \in 0..Newest
<1>1. Newest \in Nat
  BY PaymentAssumption
<1>2. IsFiniteSet(Docs)
  BY <1>1, FS_Interval DEF Docs
<1>3. \A D \in SUBSET Docs : IsFiniteSet(D)
  BY <1>2, FS_Subset
<1> QED BY <1>1, <1>3 DEF Docs

\* The lines that allocateFIFO makes.
LEMMA AllocationIs ==
  ASSUME Partial(shown, Nat), NEW a \in Nat
  PROVE  /\ DOMAIN AllocateFIFO(a) =
              {d \in DOMAIN shown : Share(Remaining(a)[d - 1], d) > 0}
         /\ \A d \in DOMAIN AllocateFIFO(a) :
              AllocateFIFO(a)[d] = [due |-> shown[d], amount |-> Share(Remaining(a)[d - 1], d)]
         /\ Partial(AllocateFIFO(a), Line)
<1> DEFINE B == [d \in Docs |-> Remaining(a)[d - 1]]
           ls == AllocateFIFO(a)
<1>1. DOMAIN shown \subseteq Docs /\ \A d \in DOMAIN shown : B[d] = Remaining(a)[d - 1]
  BY DEF Partial
<1>2. ls = [d \in {x \in DOMAIN shown : Share(B[x], x) > 0} |->
              [due |-> shown[d], amount |-> Share(B[d], d)]]
  BY DEF AllocateFIFO, Taking
<1>3. /\ DOMAIN ls = {d \in DOMAIN shown : Share(B[d], d) > 0}
      /\ \A d \in DOMAIN ls : ls[d] = [due |-> shown[d], amount |-> Share(B[d], d)]
      /\ ls \in [DOMAIN ls -> {ls[d] : d \in DOMAIN ls}]
  <2> HIDE DEF B, ls
  <2> QED BY <1>2
<1> HIDE DEF B, ls
<1>4. ASSUME NEW d \in DOMAIN ls PROVE ls[d] \in Line
  <2>1. d \in DOMAIN shown /\ B[d] \in Nat
    <3>1. d \in DOMAIN shown
      BY <1>3
    <3>2. d - 1 \in 0..Newest /\ Remaining(a) \in [0..Newest -> Nat]
      BY <1>1, <3>1, DocsAreFinite, RemainingIs
    <3> QED BY <1>1, <3>1, <3>2
  <2>2. shown[d] \in Nat /\ Share(B[d], d) \in Nat
    BY <2>1, ShareTyped
  <2> QED BY <1>3, <2>2 DEF Line
<1>5. Partial(ls, Line)
  BY <1>1, <1>3, <1>4 DEF Partial
<1>6. {d \in DOMAIN shown : Share(B[d], d) > 0} =
        {d \in DOMAIN shown : Share(Remaining(a)[d - 1], d) > 0}
  BY <1>1
<1>7. \A d \in DOMAIN ls : ls[d] = [due |-> shown[d], amount |-> Share(Remaining(a)[d - 1], d)]
  BY <1>1, <1>3
<1> QED BY <1>3, <1>5, <1>6, <1>7 DEF ls

LEMMA AllocationLines ==
  ASSUME Partial(shown, Nat), NEW a \in Nat
  PROVE  /\ DOMAIN AllocateFIFO(a) =
              {d \in DOMAIN shown : Share(Remaining(a)[d - 1], d) > 0}
         /\ \A d \in DOMAIN AllocateFIFO(a) :
              AllocateFIFO(a)[d].amount = Share(Remaining(a)[d - 1], d)
<1>1. DOMAIN AllocateFIFO(a) =
              {d \in DOMAIN shown : Share(Remaining(a)[d - 1], d) > 0}
  BY AllocationIs
<1>2. \A d \in DOMAIN AllocateFIFO(a) :
         AllocateFIFO(a)[d] = [due |-> shown[d], amount |-> Share(Remaining(a)[d - 1], d)]
  BY AllocationIs
<1>3. \A d \in DOMAIN AllocateFIFO(a) :
         AllocateFIFO(a)[d].amount = Share(Remaining(a)[d - 1], d)
  BY <1>2
<1> QED BY <1>1, <1>3

\* While something is left every document so far is paid in full.
LEMMA LeftMeansFull ==
  ASSUME Partial(shown, Nat), NEW a \in Nat, NEW k \in 0..Newest, Remaining(a)[k] > 0,
         NEW d \in DOMAIN shown, d <= k
  PROVE  Share(Remaining(a)[d - 1], d) = shown[d]
<1> DEFINE R == Remaining(a)
           T == {m \in 0..Newest : \A j \in 0..m : R[m] <= R[j]}
<1>1. /\ R \in [0..Newest -> Nat]
      /\ \A e \in Docs : R[e] = R[e - 1] - Share(R[e - 1], e)
  BY RemainingIs
<1> HIDE DEF R
<1>2. ASSUME NEW e \in Docs
      PROVE  R[e - 1] \in Nat /\ R[e] \in Nat /\ Share(R[e - 1], e) \in Nat
  <2>1. R[e - 1] \in Nat /\ R[e] \in Nat
    BY <1>1, DocsAreFinite
  <2> QED BY <2>1, ShareTyped
<1>3. 0 \in T
  BY <1>1, DocsAreFinite
<1>4. ASSUME NEW m \in 1..Newest, m - 1 \in T PROVE m \in T
  <2>1. m \in Docs /\ m \in 0..Newest
    BY DocsAreFinite DEF Docs
  <2>2. R[m] = R[m - 1] - Share(R[m - 1], m) /\ R[m] \in Nat /\ R[m - 1] \in Nat
        /\ Share(R[m - 1], m) \in Nat
    BY <1>1, <1>2, <2>1
  <2>3. ASSUME NEW j \in 0..m PROVE R[m] <= R[j]
    <3>1. CASE j = m
      BY <2>2, <3>1
    <3>2. CASE j # m
      <4>1. j \in 0..(m - 1) /\ j \in 0..Newest
        BY <3>2, DocsAreFinite
      <4>2. R[m - 1] <= R[j] /\ R[j] \in Nat
        BY <1>1, <1>4, <4>1
      <4> QED BY <2>2, <4>2
    <3> QED BY <3>1, <3>2
  <2> QED BY <2>1, <2>3
<1>5. k \in T
  <2> HIDE DEF T
  <2>1. \A m \in 0..Newest : m \in T
    BY <1>3, <1>4, DocsAreFinite, Induction
  <2> QED BY <2>1
<1>6. d \in Docs
  BY DEF Partial
<1>7. R[k] <= R[d] /\ R[k] \in Nat /\ R[k] > 0 /\ R[d] \in Nat
  BY <1>1, <1>5, <1>6, DocsAreFinite DEF R
<1>8. R[d - 1] \in Nat /\ Share(R[d - 1], d) # R[d - 1]
  BY <1>1, <1>2, <1>6, <1>7
<1> QED BY <1>8, ShareTyped DEF R

\* What the lines up to a document take is what the amount has lost by then.
LEMMA AllocatedSoFar ==
  ASSUME Partial(shown, Nat), NEW a \in Nat
  PROVE  LineTotal(AllocateFIFO(a)) = a - Remaining(a)[Newest]
<1> DEFINE R == Remaining(a)
           ls == AllocateFIFO(a)
           A == [d \in DOMAIN ls |-> ls[d].amount]
           Upto(k) == {d \in DOMAIN ls : d <= k}
           T == {k \in 0..Newest : SumOf(A, Upto(k)) = a - R[k]}
<1>1. /\ R \in [0..Newest -> Nat] /\ R[0] = a
      /\ \A e \in Docs : R[e] = R[e - 1] - Share(R[e - 1], e)
  BY RemainingIs
<1>2. /\ DOMAIN ls = {d \in DOMAIN shown : Share(R[d - 1], d) > 0}
      /\ \A d \in DOMAIN ls : ls[d].amount = Share(R[d - 1], d)
  BY AllocationLines
<1>3. DOMAIN shown \subseteq Docs /\ DOMAIN ls \subseteq Docs
  BY <1>2 DEF Partial
<1> HIDE DEF R, ls
<1>4. ASSUME NEW d \in Docs PROVE R[d - 1] \in Nat /\ Share(R[d - 1], d) \in Nat
  <2>1. R[d - 1] \in Nat
    BY <1>1, DocsAreFinite
  <2> QED BY <2>1, ShareTyped
<1>5. \A d \in DOMAIN ls : A[d] = Share(R[d - 1], d) /\ A[d] \in Nat
  BY <1>2, <1>3, <1>4
<1> HIDE DEF A
<1>6. \A k : IsFiniteSet(Upto(k))
  BY <1>3, DocsAreFinite
<1>7. 0 \in T
  <2>1. Upto(0) = {}
    BY <1>3, DocsAreFinite
  <2>2. SumOf(A, {}) = 0
    BY SumOfZeros
  <2>3. SumOf(A, Upto(0)) = 0
    BY <2>1, <2>2
  <2>4. 0 = a - R[0]
    BY <1>1
  <2> HIDE DEF Upto
  <2> QED BY <2>3, <2>4, DocsAreFinite
<1>8. ASSUME NEW k \in 1..Newest, k - 1 \in T PROVE k \in T
  <2>1. k \in Docs /\ k \in 0..Newest
    BY DocsAreFinite DEF Docs
  <2>2. R[k] = R[k - 1] - Share(R[k - 1], k) /\ R[k - 1] \in Nat /\ Share(R[k - 1], k) \in Nat
    BY <1>1, <1>4, <2>1
  <2>3. SumOf(A, Upto(k - 1)) = a - R[k - 1]
    BY <1>8
  <2>4. CASE k \in DOMAIN ls
    <3>1. Upto(k) = Upto(k - 1) \cup {k} /\ k \notin Upto(k - 1)
      BY <1>3, <2>4, DocsAreFinite
    <3>2. \A y \in Upto(k - 1) \cup {k} : A[y] \in Nat
      BY <1>5, <2>4
    <3>3. SumOf(A, Upto(k - 1) \cup {k}) = SumOf(A, Upto(k - 1)) + A[k]
      <4> HIDE DEF Upto
      <4> QED BY <1>6, <3>1, <3>2, SumPlus
    <3>4. SumOf(A, Upto(k)) = a - R[k - 1] + Share(R[k - 1], k)
      <4> HIDE DEF Upto
      <4> QED BY <1>5, <2>3, <2>4, <3>1, <3>3
    <3> QED BY <2>1, <2>2, <3>4
  <2>5. CASE k \notin DOMAIN ls
    <3>1. Upto(k) = Upto(k - 1)
      BY <1>3, <2>5, DocsAreFinite
    <3>2. Share(R[k - 1], k) = 0
      <4>1. k \in DOMAIN shown => ~(Share(R[k - 1], k) > 0)
        BY <1>2, <2>5
      <4>2. k \notin DOMAIN shown => Share(R[k - 1], k) = 0
        BY <2>2, ShareTyped
      <4> QED BY <2>2, <4>1, <4>2
    <3>3. SumOf(A, Upto(k)) = a - R[k - 1]
      <4> HIDE DEF Upto
      <4> QED BY <2>3, <3>1
    <3> QED BY <2>1, <2>2, <3>2, <3>3
  <2> QED BY <2>4, <2>5
<1>9. Newest \in T
  <2> HIDE DEF T
  <2>1. \A k \in 0..Newest : k \in T
    BY <1>7, <1>8, DocsAreFinite, Induction
  <2> QED BY <2>1, DocsAreFinite
<1>10. Upto(Newest) = DOMAIN ls
  BY <1>3, DocsAreFinite
<1>11. SumOf(A, DOMAIN ls) = a - R[Newest]
  <2> HIDE DEF Upto
  <2> QED BY <1>9, <1>10
<1>12. LineTotal(ls) = SumOf(A, DOMAIN ls)
  BY DEF LineTotal, Total, A
<1> QED BY <1>11, <1>12 DEF R, ls

\* allocateFIFO pays the oldest documents first.
LEMMA FillsOldestFirst == Partial(shown, Nat) => OldestFirst
<1> SUFFICES ASSUME Partial(shown, Nat), NEW a \in Amounts
             PROVE  LET ls == AllocateFIFO(a)
                        owing == {d \in DOMAIN shown : shown[d] > 0}
                        full(d) == d \in DOMAIN ls /\ ls[d].amount = shown[d]
                    IN /\ \A d, e \in owing : d < e /\ e \in DOMAIN ls => full(d)
                       /\ LineTotal(ls) = a \/ \A d \in owing : full(d)
  BY DEF OldestFirst
<1> DEFINE R == Remaining(a)
           ls == AllocateFIFO(a)
           owing == {d \in DOMAIN shown : shown[d] > 0}
           full(d) == d \in DOMAIN ls /\ ls[d].amount = shown[d]
<1>1. a \in Nat /\ DOMAIN shown \subseteq Docs
  BY PaymentAssumption DEF Partial
<1>2. /\ R \in [0..Newest -> Nat]
      /\ DOMAIN ls = {d \in DOMAIN shown : Share(R[d - 1], d) > 0}
      /\ \A d \in DOMAIN ls : ls[d].amount = Share(R[d - 1], d)
      /\ LineTotal(ls) = a - R[Newest]
      /\ \A k \in 0..Newest, d \in DOMAIN shown :
           R[k] > 0 /\ d <= k => Share(R[d - 1], d) = shown[d]
  <2>1. R \in [0..Newest -> Nat]
    BY <1>1, RemainingIs
  <2>2. /\ DOMAIN ls = {d \in DOMAIN shown : Share(R[d - 1], d) > 0}
        /\ \A d \in DOMAIN ls : ls[d].amount = Share(R[d - 1], d)
    BY <1>1, AllocationLines
  <2>3. LineTotal(ls) = a - R[Newest]
    BY <1>1, AllocatedSoFar
  <2>4. \A k \in 0..Newest, d \in DOMAIN shown :
           R[k] > 0 /\ d <= k => Share(R[d - 1], d) = shown[d]
    BY <1>1, LeftMeansFull
  <2> QED BY <2>1, <2>2, <2>3, <2>4
<1> HIDE DEF R, ls
<1>3. ASSUME NEW k \in 0..Newest, R[k] > 0, NEW d \in owing, d <= k PROVE full(d)
  BY <1>2, <1>3
<1>4. ASSUME NEW d \in owing, NEW e \in owing, d < e, e \in DOMAIN ls PROVE full(d)
  <2>1. e \in Docs /\ d \in Docs /\ e - 1 \in 0..Newest /\ d <= e - 1
    BY <1>1, <1>4, DocsAreFinite
  <2>2. R[e - 1] \in Nat /\ Share(R[e - 1], e) > 0
    BY <1>2, <1>4, <2>1
  <2>3. Share(R[e - 1], e) <= R[e - 1] /\ Share(R[e - 1], e) \in Nat
    BY <2>2, ShareTyped
  <2>4. R[e - 1] > 0
    BY <2>2, <2>3
  <2> QED BY <1>3, <2>1, <2>4
<1>5. LineTotal(ls) = a \/ \A d \in owing : full(d)
  <2>1. R[Newest] \in Nat
    BY <1>2, DocsAreFinite
  <2>2. CASE R[Newest] = 0
    BY <1>1, <1>2, <2>2
  <2>3. CASE R[Newest] > 0
    <3>1. \A d \in owing : d <= Newest
      BY <1>1, DocsAreFinite
    <3> HIDE DEF full, owing
    <3> QED BY <1>3, <2>3, <3>1, DocsAreFinite
  <2> QED BY <2>1, <2>2, <2>3
<1> QED BY <1>4, <1>5 DEF ls

-----------------------------------------------------------------------------
(* The settlements of the payment rows                                     *)

\* Rounding a quotient of natural numbers, and a bound on it.
LEMMA RoundIsNat ==
  ASSUME NEW a \in Nat, NEW b \in Nat \ {0}
  PROVE  /\ Round(a, b) \in Nat
         /\ \A n \in Nat : a <= n * b => Round(a, b) <= n
<1> DEFINE x == 2 * a + b
           y == 2 * b
           q == x \div y
<1>1. x \in Nat /\ y \in Nat /\ y > 0
  OBVIOUS
<1>2. q \in Nat /\ y * q <= x
  <2> HIDE DEF x, y
  <2> QED BY <1>1
<1>3. Round(a, b) = q
  BY DEF Round
<1> HIDE DEF q
<1>4. ASSUME NEW n \in Nat, a <= n * b, q > n PROVE FALSE
  <2> DEFINE m == q - n - 1
             nb == n * b
             mb == m * b
  <2>1. m \in Nat /\ q = n + 1 + m
    BY <1>2, <1>4
  <2>2. nb \in Nat /\ mb \in Nat /\ a <= nb
    <3> HIDE DEF m
    <3> QED BY <1>4, <2>1
  <2>3. y * q = 2 * nb + 2 * b + 2 * mb
    <3> HIDE DEF m
    <3> QED BY <2>1
  <2> HIDE DEF m, nb, mb
  <2>4. 2 * nb + 2 * b + 2 * mb <= 2 * a + b
    BY <1>2, <2>3
  <2> QED BY <2>2, <2>4
<1> QED BY <1>2, <1>3, <1>4

\* What a row pays net of its service charge is part of what was typed.
LEMMA RowBaseTyped ==
  ASSUME NEW r \in Row
  PROVE  RowBase(r) \in Nat /\ RowBase(r) <= r.amount /\ r.amount \in Nat
<1>1. r.amount \in Nat /\ r.pct \in Nat
  BY DEF Row
<1>2. r.amount * 100 \in Nat /\ 100 + r.pct \in Nat \ {0}
  BY <1>1
<1>3. r.amount * 100 <= r.amount * (100 + r.pct)
  BY <1>1
<1>4. Round(r.amount * 100, 100 + r.pct) \in Nat
      /\ Round(r.amount * 100, 100 + r.pct) <= r.amount
  BY <1>1, <1>2, <1>3, RoundIsNat
<1> QED BY <1>1, <1>4 DEF RowBase

LEMMA ChargeTyped ==
  ASSUME NEW base \in Nat, NEW charge \in Nat, NEW portion \in Nat, NEW pct \in Nat
  PROVE  Charge(base, charge, portion, pct) \in 0..charge
<1>1. Round(portion * pct, 100) \in Nat
  BY RoundIsNat
<1> QED BY <1>1 DEF Charge, Lowest

LEMMA PortionTyped ==
  ASSUME NEW base \in Nat, NEW room, Partial(room, Nat), NEW d
  PROVE  /\ Portion(base, room, d) \in 0..base
         /\ d \in DOMAIN room => Portion(base, room, d) <= room[d]
BY DEF Portion, Partial, Lowest

\* What is left of a row: base and charge.
Left == [base : Nat, charge : Nat]

\* The loop over the documents that one row pays.
LEMMA FillingIs ==
  ASSUME NEW r \in Row, NEW room, Partial(room, Nat)
  PROVE  LET F == Filling(r, room)
         IN /\ F \in [0..Newest -> Left]
            /\ F[0].base + F[0].charge = r.amount
            /\ \A d \in Docs :
                 /\ F[d].base = F[d - 1].base - Portion(F[d - 1].base, room, d)
                 /\ F[d].charge <= F[d - 1].charge
<1> DEFINE After(x, d) ==
             LET a == Portion(x.base, room, d)
             IN [base |-> x.base - a,
                 charge |-> x.charge - Charge(x.base, x.charge, a, r.pct)]
           first == [base |-> RowBase(r), charge |-> r.amount - RowBase(r)]
           Loop(f) == f = [d \in 0..Newest |-> IF d = 0 THEN first ELSE After(f[d - 1], d)]
           step == [x \in Left \X (1..Newest) |-> After(x[1], x[2])]
<1>a. r.pct \in Nat
  BY DEF Row
<1>b. ASSUME NEW x \in Left, NEW d
      PROVE  /\ After(x, d) \in Left
             /\ After(x, d).base = x.base - Portion(x.base, room, d)
             /\ After(x, d).charge <= x.charge
  <2>1. x.base \in Nat /\ x.charge \in Nat
    BY DEF Left
  <2> DEFINE p == Portion(x.base, room, d)
             c == Charge(x.base, x.charge, p, r.pct)
  <2>2. p \in 0..x.base /\ p \in Nat
    BY <2>1, PortionTyped
  <2>3. c \in 0..x.charge
    <3> HIDE DEF p
    <3> QED BY <1>a, <2>1, <2>2, ChargeTyped
  <2>4. After(x, d) = [base |-> x.base - p, charge |-> x.charge - c]
    OBVIOUS
  <2> HIDE DEF After, p, c
  <2>5. p \in 0..x.base /\ c \in 0..x.charge
    BY <2>2, <2>3
  <2> QED BY <2>1, <2>4, <2>5 DEF Left, p
<1>c. first \in Left /\ first.base + first.charge = r.amount
  BY RowBaseTyped DEF Left
<1> HIDE DEF After, first
<1>1. step \in [Left \X (1..Newest) -> Left]
  BY <1>b
<1>2. Newest \in Nat
  BY PaymentAssumption
<1>3. PICK f : RunOf(f, step, first, Newest, Left)
  <2>1. StepOf(step, Newest, Left)
    BY <1>1 DEF StepOf
  <2> HIDE DEF step
  <2> QED BY <1>2, <1>c, <2>1, LoopExists
<1>4. \A k \in 1..Newest : f[k] = After(f[k - 1], k)
  <2> TAKE k \in 1..Newest
  <2>1. <<f[k - 1], k>> \in Left \X (1..Newest)
    BY <1>2, <1>3 DEF RunOf
  <2>2. step[<<f[k - 1], k>>] = After(f[k - 1], k)
    BY <2>1
  <2> QED BY <1>3, <2>2 DEF RunOf
<1>5. Loop(f)
  <2>1. \A d \in 0..Newest : f[d] = IF d = 0 THEN first ELSE After(f[d - 1], d)
    BY <1>2, <1>3, <1>4 DEF RunOf
  <2> QED BY <1>3, <2>1 DEF RunOf
<1>6. Loop(CHOOSE g : Loop(g))
  <2> HIDE DEF Loop
  <2> QED BY <1>5
<1>7. Filling(r, room) = CHOOSE g : Loop(g)
  BY Zenon DEF Filling, After, first
<1> DEFINE F == Filling(r, room)
<1>8. F = [d \in 0..Newest |-> IF d = 0 THEN first ELSE After(F[d - 1], d)]
  BY <1>6, <1>7
<1> HIDE DEF F, Loop, step
<1>9. F[0] = first /\ \A d \in 1..Newest : F[d] = After(F[d - 1], d)
  BY <1>2, <1>8
<1>10. \A d \in 0..Newest : F[d] \in Left
  <2> DEFINE T == {d \in 0..Newest : F[d] \in Left}
  <2>1. 0 \in T
    BY <1>2, <1>9, <1>c
  <2>2. ASSUME NEW d \in 1..Newest, d - 1 \in T PROVE d \in T
    BY <1>9, <1>b, <2>2
  <2> HIDE DEF T
  <2>3. \A d \in 0..Newest : d \in T
    BY <1>2, <2>1, <2>2, Induction
  <2> QED BY <2>3 DEF T
<1>11. F \in [0..Newest -> Left]
  BY <1>8, <1>10
<1>12. ASSUME NEW d \in Docs
       PROVE /\ F[d].base = F[d - 1].base - Portion(F[d - 1].base, room, d)
             /\ F[d].charge <= F[d - 1].charge
  <2>1. d \in 1..Newest /\ d - 1 \in 0..Newest
    BY DocsAreFinite DEF Docs
  <2> QED BY <1>9, <1>10, <1>b, <2>1
<1> QED BY <1>9, <1>11, <1>12, <1>c DEF F

\* The loop over the rows: what is open of the lines after each.
LEMMA RoomIs ==
  ASSUME rows \in Seq(Row), Partial(lines, Line)
  PROVE  /\ Room \in [0..Len(rows) -> [DOMAIN lines -> Nat]]
         /\ \A d \in DOMAIN lines : Room[0][d] = lines[d].amount
         /\ \A i \in DOMAIN rows, d \in DOMAIN lines :
              Room[i][d] = Room[i - 1][d]
                 - Portion(Filling(rows[i], Room[i - 1])[d - 1].base, Room[i - 1], d)
<1> DEFINE n == Len(rows)
           D == DOMAIN lines
           S == [D -> Nat]
           Part(x, i, d) == Portion(Filling(rows[i], x)[d - 1].base, x, d)
           After(x, i) == [d \in D |-> x[d] - Part(x, i, d)]
           first == [d \in D |-> lines[d].amount]
           Loop(f) == f = [i \in 0..n |-> IF i = 0 THEN first ELSE After(f[i - 1], i)]
           step == [x \in S \X (1..n) |-> After(x[1], x[2])]
<1>a. n \in Nat /\ DOMAIN rows = 1..n /\ \A i \in 1..n : rows[i] \in Row
  OBVIOUS
<1>b. D \subseteq Docs
  BY DEF Partial
<1>c. ASSUME NEW x \in S, NEW i \in 1..n
      PROVE  After(x, i) \in S
  <2>1. Partial(x, Nat)
    BY <1>b DEF Partial
  <2>2. ASSUME NEW d \in D PROVE x[d] - Part(x, i, d) \in Nat
    <3>1. d - 1 \in 0..Newest
      BY <1>b, DocsAreFinite
    <3> DEFINE F == Filling(rows[i], x)
    <3>2. F \in [0..Newest -> Left]
      BY <1>a, <2>1, FillingIs
    <3>3. F[d - 1].base \in Nat
      BY <3>1, <3>2 DEF Left
    <3> HIDE DEF F
    <3>4. /\ Portion(F[d - 1].base, x, d) \in 0..F[d - 1].base
          /\ Portion(F[d - 1].base, x, d) <= x[d]
      BY <2>1, <3>3, PortionTyped
    <3>5. x[d] \in Nat
      OBVIOUS
    <3> QED BY <3>3, <3>4, <3>5 DEF F
  <2> HIDE DEF Part
  <2> QED BY <2>2
<1>d. first \in S
  BY DEF Partial, Line
<1>e. \A d \in D : first[d] = lines[d].amount
  OBVIOUS
<1>f. ASSUME NEW x, NEW i, NEW d \in D PROVE After(x, i)[d] = x[d] - Part(x, i, d)
  OBVIOUS
<1> HIDE DEF After, first, n, S
<1>1. step \in [S \X (1..n) -> S]
  BY <1>c
<1>3. PICK f : RunOf(f, step, first, n, S)
  <2>1. StepOf(step, n, S)
    BY <1>1 DEF StepOf
  <2> HIDE DEF step
  <2> QED BY <1>a, <1>d, <2>1, LoopExists
<1>4. \A k \in 1..n : f[k] = After(f[k - 1], k)
  <2> TAKE k \in 1..n
  <2>1. <<f[k - 1], k>> \in S \X (1..n)
    BY <1>a, <1>3 DEF RunOf
  <2>2. step[<<f[k - 1], k>>] = After(f[k - 1], k)
    BY <2>1
  <2> QED BY <1>3, <2>2 DEF RunOf
<1>5. Loop(f)
  <2>1. \A k \in 0..n : f[k] = IF k = 0 THEN first ELSE After(f[k - 1], k)
    BY <1>a, <1>3, <1>4 DEF RunOf
  <2> QED BY <1>3, <2>1 DEF RunOf
<1>6. Loop(CHOOSE g : Loop(g))
  <2> HIDE DEF Loop
  <2> QED BY <1>5
<1>7. Room = CHOOSE g : Loop(g)
  BY Zenon DEF Room, After, first, n
<1>8. Room = [k \in 0..n |-> IF k = 0 THEN first ELSE After(Room[k - 1], k)]
  BY <1>6, <1>7
<1> HIDE DEF Loop, step
<1>9. Room[0] = first /\ \A k \in 1..n : Room[k] = After(Room[k - 1], k)
  BY <1>a, <1>8
<1>10. \A k \in 0..n : Room[k] \in S
  <2> DEFINE T == {k \in 0..n : Room[k] \in S}
  <2>1. 0 \in T
    BY <1>a, <1>9, <1>d
  <2>2. ASSUME NEW k \in 1..n, k - 1 \in T PROVE k \in T
    BY <1>9, <1>c, <2>2
  <2> HIDE DEF T
  <2>3. \A k \in 0..n : k \in T
    BY <1>a, <2>1, <2>2, Induction
  <2> QED BY <2>3 DEF T
<1>11. Room \in [0..n -> S]
  BY <1>8, <1>10
<1>12. \A i \in 1..n, d \in D : Room[i][d] = Room[i - 1][d] - Part(Room[i - 1], i, d)
  <2> TAKE i \in 1..n, d \in D
  <2> HIDE DEF Part
  <2>1. Room[i] = After(Room[i - 1], i)
    BY <1>9
  <2> QED BY <2>1, <1>f
<1> QED BY <1>9, <1>11, <1>12, <1>a, <1>e DEF n, S

\* What a row pays of a document.
LEMMA SettledIs ==
  ASSUME rows \in Seq(Row), Partial(lines, Line),
         NEW i \in DOMAIN rows, NEW d \in DOMAIN lines
  PROVE  LET s == Settled(i, d)
             F == Filling(rows[i], Room[i - 1])
         IN /\ s.row = i /\ s.doc = d /\ s.amount \in Nat /\ s.charge \in Nat
            /\ F \in [0..Newest -> Left] /\ F[0].base + F[0].charge = rows[i].amount
            /\ s.amount = F[d - 1].base - F[d].base
            /\ s.charge = F[d - 1].charge - F[d].charge
            /\ Room[i][d] = Room[i - 1][d] - s.amount
            /\ i \in 1..Len(rows) /\ Len(rows) \in Nat /\ d \in Docs
            /\ Room[i] \in [DOMAIN lines -> Nat] /\ Room[i - 1] \in [DOMAIN lines -> Nat]
<1> DEFINE s == Settled(i, d)
           F == Filling(rows[i], Room[i - 1])
<1>1. d \in Docs /\ d - 1 \in 0..Newest /\ d \in 0..Newest
  BY DocsAreFinite DEF Partial
<1>2. rows[i] \in Row /\ i \in 1..Len(rows) /\ Len(rows) \in Nat
  OBVIOUS
<1>3. Room[i - 1] \in [DOMAIN lines -> Nat] /\ Room[i] \in [DOMAIN lines -> Nat]
  BY <1>2, RoomIs
<1>4. Partial(Room[i - 1], Nat)
  BY <1>3 DEF Partial
<1>5. /\ F \in [0..Newest -> Left] /\ F[0].base + F[0].charge = rows[i].amount
      /\ F[d].base = F[d - 1].base - Portion(F[d - 1].base, Room[i - 1], d)
      /\ F[d].charge <= F[d - 1].charge
  BY <1>1, <1>2, <1>4, FillingIs
<1>6. Room[i][d] = Room[i - 1][d] - Portion(F[d - 1].base, Room[i - 1], d)
  BY RoomIs
<1>7. s = [row |-> i, doc |-> d, amount |-> F[d - 1].base - F[d].base,
           charge |-> F[d - 1].charge - F[d].charge]
  BY DEF Settled
<1> HIDE DEF s, F
<1>8. /\ F[d - 1].base \in Nat /\ F[d].base \in Nat
      /\ F[d - 1].charge \in Nat /\ F[d].charge \in Nat
  BY <1>1, <1>5 DEF Left
<1>9. Portion(F[d - 1].base, Room[i - 1], d) \in 0..F[d - 1].base
  BY <1>4, <1>8, PortionTyped
<1>10. /\ s.row = i /\ s.doc = d /\ s.amount = F[d - 1].base - F[d].base
       /\ s.charge = F[d - 1].charge - F[d].charge
  BY <1>7
<1>11. s.amount \in Nat /\ s.charge \in Nat /\ s.amount = Portion(F[d - 1].base, Room[i - 1], d)
  <2> DEFINE b == F[d - 1].base
             b1 == F[d].base
             c == F[d - 1].charge
             c1 == F[d].charge
             a == Portion(b, Room[i - 1], d)
  <2>1. b \in Nat /\ b1 \in Nat /\ c \in Nat /\ c1 \in Nat /\ a \in 0..b
    BY <1>8, <1>9
  <2>2. b1 = b - a /\ c1 <= c /\ s.amount = b - b1 /\ s.charge = c - c1
    BY <1>5, <1>10
  <2> HIDE DEF b, b1, c, c1, a
  <2>3. s.amount \in Nat /\ s.charge \in Nat /\ s.amount = a
    BY <2>1, <2>2
  <2> QED BY <2>3 DEF a, b
<1>12. Room[i][d] = Room[i - 1][d] - s.amount
  BY <1>6, <1>11
<1> QED BY <1>1, <1>2, <1>3, <1>5, <1>10, <1>11, <1>12 DEF s, F

\* Sums over two sets that have nothing in common.
LEMMA SumOfUnion ==
  ASSUME NEW f, NEW S, NEW T, IsFiniteSet(S), IsFiniteSet(T), S \cap T = {},
         \A x \in S \cup T : f[x] \in Nat
  PROVE  SumOf(f, S \cup T) = SumOf(f, S) + SumOf(f, T)
<1>1. /\ Units(f, S \cup T) = Units(f, S) \cup Units(f, T)
      /\ Units(f, S) \cap Units(f, T) = {}
  BY DEF Units
<1>2. IsFiniteSet(Units(f, S)) /\ IsFiniteSet(Units(f, T))
  BY UnitsFinite
<1>3. Cardinality(Units(f, S) \cup Units(f, T))
        = Cardinality(Units(f, S)) + Cardinality(Units(f, T)) - Cardinality({})
  BY <1>1, <1>2, FS_Union
<1>4. Cardinality(Units(f, S)) \in Nat /\ Cardinality(Units(f, T)) \in Nat
  BY <1>2, FS_CardinalityType
<1>5. /\ SumOf(f, S \cup T) = Cardinality(Units(f, S) \cup Units(f, T))
      /\ SumOf(f, S) = Cardinality(Units(f, S))
      /\ SumOf(f, T) = Cardinality(Units(f, T))
  BY <1>1 DEF SumOf, Units
<1> QED BY <1>3, <1>4, <1>5, FS_EmptySet

\* The settlements are finitely many, each of a row and a line.
LEMMA SettlementsAre ==
  ASSUME rows \in Seq(Row), Partial(lines, Line)
  PROVE  /\ IsFiniteSet(SettlementRows)
         /\ \A s \in SettlementRows :
              /\ s.row \in DOMAIN rows /\ s.doc \in DOMAIN lines /\ s = Settled(s.row, s.doc)
              /\ s.amount \in Nat /\ s.amount > 0 /\ s.charge \in Nat
         /\ \A i \in DOMAIN rows, d \in DOMAIN lines :
              Settled(i, d) \in SettlementRows <=> Settled(i, d).amount > 0
<1> DEFINE P == (DOMAIN rows) \X (DOMAIN lines)
           All == {Settled(i, d) : i \in DOMAIN rows, d \in DOMAIN lines}
           F == [x \in P |-> Settled(x[1], x[2])]
<1>1. DOMAIN rows = 1..Len(rows) /\ Len(rows) \in Int
  OBVIOUS
<1>2. IsFiniteSet(DOMAIN rows)
  BY <1>1, FS_Interval
<1>3. IsFiniteSet(DOMAIN lines)
  BY DocsAreFinite DEF Partial
<1>4. IsFiniteSet(P)
  BY <1>2, <1>3, FS_Product
<1>5. F \in Surjection(P, All)
  <2>1. F \in [P -> All]
    OBVIOUS
  <2>2. ASSUME NEW s \in All PROVE \E x \in P : F[x] = s
    <3>1. PICK i \in DOMAIN rows, d \in DOMAIN lines : s = Settled(i, d)
      BY <2>2
    <3>2. <<i, d>> \in P /\ F[<<i, d>>] = Settled(i, d)
      OBVIOUS
    <3> QED BY <3>1, <3>2
  <2> HIDE DEF F, All, P
  <2> QED BY <2>1, <2>2 DEF Surjection
<1>6. IsFiniteSet(All)
  <2> HIDE DEF F, All, P
  <2> QED BY <1>4, <1>5, FS_Surjection
<1>7. SettlementRows = {s \in All : s.amount > 0}
  BY DEF SettlementRows
<1>8. IsFiniteSet(SettlementRows)
  <2> HIDE DEF All
  <2>1. SettlementRows \subseteq All
    BY <1>7
  <2> QED BY <1>6, <2>1, FS_Subset
<1>9. ASSUME NEW s \in SettlementRows
      PROVE  /\ s.row \in DOMAIN rows /\ s.doc \in DOMAIN lines /\ s = Settled(s.row, s.doc)
             /\ s.amount \in Nat /\ s.amount > 0 /\ s.charge \in Nat
  <2>1. PICK i \in DOMAIN rows, d \in DOMAIN lines : s = Settled(i, d)
    BY <1>7
  <2>2. Settled(i, d).row = i /\ Settled(i, d).doc = d
        /\ Settled(i, d).amount \in Nat /\ Settled(i, d).charge \in Nat
    BY SettledIs
  <2>3. s.amount > 0
    <3> HIDE DEF All
    <3> QED BY <1>7
  <2> QED BY <2>1, <2>2, <2>3
<1>10. ASSUME NEW i \in DOMAIN rows, NEW d \in DOMAIN lines
       PROVE  Settled(i, d) \in SettlementRows <=> Settled(i, d).amount > 0
  <2>1. Settled(i, d) \in All
    OBVIOUS
  <2> HIDE DEF All
  <2> QED BY <1>7, <2>1
<1> QED BY <1>8, <1>9, <1>10

\* Of one document: the rows up to k take what the line has lost by then.
LEMMA TakesOfDocument ==
  ASSUME rows \in Seq(Row), Partial(lines, Line), NEW d \in DOMAIN lines
  PROVE  Taken({s \in SettlementRows : s.doc = d}) <= lines[d].amount
<1> DEFINE n == Len(rows)
           S == {s \in SettlementRows : s.doc = d}
           A == [s \in S |-> s.amount]
           Upto(k) == {s \in S : s.row <= k}
           T == {k \in 0..n : SumOf(A, Upto(k)) = lines[d].amount - Room[k][d]}
<1>1. n \in Nat /\ DOMAIN rows = 1..n
  OBVIOUS
<1>2. \A s \in S : /\ s.row \in 1..n /\ s = Settled(s.row, d)
                   /\ A[s] = s.amount /\ s.amount \in Nat
  BY <1>1, SettlementsAre
<1>3. IsFiniteSet(S)
  BY SettlementsAre, FS_Subset
<1>4. \A k : IsFiniteSet(Upto(k))
  BY <1>3, FS_Subset
<1>5. ASSUME NEW k \in 1..n
      PROVE  LET s == Settled(k, d)
             IN /\ s \in S <=> s.amount > 0
                /\ s.row = k /\ s.amount \in Nat
                /\ Room[k][d] = Room[k - 1][d] - s.amount
                /\ Room[k][d] \in Nat /\ Room[k - 1][d] \in Nat
  BY <1>1, SettlementsAre, SettledIs
<1>6. Room[0][d] = lines[d].amount /\ lines[d].amount \in Nat
  BY RoomIs DEF Partial, Line
<1> HIDE DEF n, S, A
<1>7. 0 \in T
  <2>1. Upto(0) = {}
    BY <1>1, <1>2
  <2>2. SumOf(A, {}) = 0
    BY SumOfZeros
  <2>3. SumOf(A, Upto(0)) = 0
    BY <2>1, <2>2
  <2> HIDE DEF Upto
  <2> QED BY <1>1, <1>6, <2>3
<1>8. ASSUME NEW k \in 1..n, k - 1 \in T PROVE k \in T
  <2> DEFINE s == Settled(k, d)
  <2>1. SumOf(A, Upto(k - 1)) = lines[d].amount - Room[k - 1][d]
    BY <1>8
  <2>2. /\ s \in S <=> s.amount > 0
        /\ s.row = k /\ s.amount \in Nat
        /\ Room[k][d] = Room[k - 1][d] - s.amount
        /\ Room[k][d] \in Nat /\ Room[k - 1][d] \in Nat
    BY <1>5
  <2>3. \A x \in S : x.row = k => x = s
    BY <1>2
  <2> HIDE DEF s
  <2>4. CASE s.amount > 0
    <3>1. Upto(k) = Upto(k - 1) \cup {s} /\ s \notin Upto(k - 1)
      BY <1>1, <1>2, <2>2, <2>3, <2>4
    <3>2. A[s] = s.amount /\ \A y \in Upto(k - 1) \cup {s} : A[y] \in Nat
      BY <1>2, <2>2, <2>4
    <3>3. SumOf(A, Upto(k - 1) \cup {s}) = SumOf(A, Upto(k - 1)) + s.amount
      <4> HIDE DEF Upto
      <4> QED BY <1>4, <3>1, <3>2, SumPlus
    <3>4. SumOf(A, Upto(k)) = lines[d].amount - Room[k - 1][d] + s.amount
      <4> HIDE DEF Upto
      <4> QED BY <2>1, <3>1, <3>3
    <3>5. SumOf(A, Upto(k)) = lines[d].amount - Room[k][d]
      <4> HIDE DEF Upto
      <4> QED BY <1>6, <2>2, <3>4
    <3> QED BY <1>1, <3>5
  <2>5. CASE s.amount = 0
    <3>1. Upto(k) = Upto(k - 1)
      BY <1>1, <1>2, <2>2, <2>3, <2>5
    <3>2. Room[k][d] = Room[k - 1][d]
      BY <2>2, <2>5
    <3>3. SumOf(A, Upto(k)) = lines[d].amount - Room[k][d]
      <4> HIDE DEF Upto
      <4> QED BY <2>1, <3>1, <3>2
    <3> QED BY <1>1, <3>3
  <2> QED BY <2>2, <2>4, <2>5
<1>9. n \in T
  <2> HIDE DEF T
  <2>1. \A k \in 0..n : k \in T
    BY <1>1, <1>7, <1>8, Induction
  <2> QED BY <1>1, <2>1
<1>10. Upto(n) = S
  BY <1>1, <1>2
<1>11. Room[n][d] \in Nat
  <2>1. Room[n] \in [DOMAIN lines -> Nat]
    BY <1>1, RoomIs DEF n
  <2> QED BY <2>1
<1>12. SumOf(A, S) = lines[d].amount - Room[n][d]
  <2> HIDE DEF Upto
  <2> QED BY <1>9, <1>10
<1> QED BY <1>6, <1>11, <1>12 DEF Taken, S, A

\* Of one row: the documents up to k take what the row has lost by then.
LEMMA TakesOfRow ==
  ASSUME rows \in Seq(Row), Partial(lines, Line), NEW i \in DOMAIN rows
  PROVE  Paid({s \in SettlementRows : s.row = i}) <= rows[i].amount
<1> DEFINE S == {s \in SettlementRows : s.row = i}
           A == [s \in S |-> s.amount + s.charge]
           F == Filling(rows[i], Room[i - 1])
           Rest(k) == F[k].base + F[k].charge
           Upto(k) == {s \in S : s.doc <= k}
           T == {k \in 0..Newest : SumOf(A, Upto(k)) <= rows[i].amount - Rest(k)}
<1>1. DOMAIN lines \subseteq Docs /\ Newest \in Nat
  BY DocsAreFinite DEF Partial
<1>2. \A s \in S : /\ s.doc \in DOMAIN lines /\ s = Settled(i, s.doc)
                   /\ A[s] = s.amount + s.charge /\ A[s] \in Nat
  BY SettlementsAre
<1>3. IsFiniteSet(S)
  BY SettlementsAre, FS_Subset
<1>4. \A k : IsFiniteSet(Upto(k)) /\ SumOf(A, Upto(k)) \in Nat
  <2> TAKE k
  <2>1. IsFiniteSet(Upto(k))
    BY <1>3, FS_Subset
  <2>2. \A s \in Upto(k) : A[s] \in Nat
    BY <1>2
  <2> HIDE DEF Upto, A
  <2> QED BY <2>1, <2>2, SumIsNat
<1>5. rows[i].amount \in Nat /\ rows[i] \in Row /\ i - 1 \in 0..Len(rows)
  <2>1. rows[i] \in Row /\ i - 1 \in 0..Len(rows)
    OBVIOUS
  <2> QED BY <2>1 DEF Row
<1>6. /\ F \in [0..Newest -> Left] /\ Rest(0) = rows[i].amount
      /\ \A d \in Docs : /\ F[d].base <= F[d - 1].base
                         /\ F[d].charge <= F[d - 1].charge
  <2>1. Room[i - 1] \in [DOMAIN lines -> Nat]
    BY <1>5, RoomIs
  <2>2. Partial(Room[i - 1], Nat)
    BY <1>1, <2>1 DEF Partial
  <2>3. /\ F \in [0..Newest -> Left] /\ Rest(0) = rows[i].amount
        /\ \A d \in Docs : /\ F[d].base = F[d - 1].base - Portion(F[d - 1].base, Room[i - 1], d)
                           /\ F[d].charge <= F[d - 1].charge
    BY <1>5, <2>2, FillingIs
  <2> HIDE DEF F
  <2>4. ASSUME NEW d \in Docs PROVE F[d].base <= F[d - 1].base
    <3>1. F[d - 1].base \in Nat
      BY <2>3, DocsAreFinite DEF Left
    <3>2. Portion(F[d - 1].base, Room[i - 1], d) \in 0..F[d - 1].base
      BY <2>2, <3>1, PortionTyped
    <3> QED BY <2>3, <3>1, <3>2
  <2> QED BY <2>3, <2>4
<1>7. ASSUME NEW d \in DOMAIN lines
      PROVE  LET s == Settled(i, d)
             IN /\ s \in SettlementRows => s \in S
                /\ s.doc = d /\ s.amount \in Nat /\ s.charge \in Nat
                /\ s.amount + s.charge = Rest(d - 1) - Rest(d)
  <2>1. LET s == Settled(i, d)
        IN /\ s.row = i /\ s.doc = d /\ s.amount \in Nat /\ s.charge \in Nat
           /\ s.amount = F[d - 1].base - F[d].base
           /\ s.charge = F[d - 1].charge - F[d].charge
    BY SettledIs
  <2> HIDE DEF F
  <2>2. /\ F[d - 1].base \in Nat /\ F[d].base \in Nat
        /\ F[d - 1].charge \in Nat /\ F[d].charge \in Nat
    BY <1>1, <1>6, DocsAreFinite DEF Left
  <2> DEFINE s == Settled(i, d)
  <2>3. s \in SettlementRows => s \in S
    BY <2>1
  <2>4. /\ s.doc = d /\ s.amount \in Nat /\ s.charge \in Nat
        /\ s.amount = F[d - 1].base - F[d].base
        /\ s.charge = F[d - 1].charge - F[d].charge
    BY <2>1
  <2> HIDE DEF s
  <2>5. s.amount + s.charge = Rest(d - 1) - Rest(d)
    <3> DEFINE b == F[d - 1].base
               c == F[d - 1].charge
               b1 == F[d].base
               c1 == F[d].charge
    <3>1. b \in Nat /\ b1 \in Nat /\ c \in Nat /\ c1 \in Nat
      BY <2>2
    <3>2. s.amount = b - b1 /\ s.charge = c - c1
      BY <2>4
    <3>3. Rest(d - 1) = b + c /\ Rest(d) = b1 + c1
      OBVIOUS
    <3> HIDE DEF b, b1, c, c1, Rest
    <3> QED BY <3>1, <3>2, <3>3
  <2> HIDE DEF Rest
  <2> QED BY <2>3, <2>4, <2>5 DEF s
<1> HIDE DEF S, A, F
<1>8. 0 \in T
  <2>1. Upto(0) = {}
    BY <1>1, <1>2, DocsAreFinite
  <2>2. SumOf(A, {}) = 0
    BY SumOfZeros
  <2>3. SumOf(A, Upto(0)) = 0
    BY <2>1, <2>2
  <2> HIDE DEF Upto, Rest
  <2> QED BY <1>1, <1>5, <1>6, <2>3
<1>9. ASSUME NEW k \in 1..Newest, k - 1 \in T PROVE k \in T
  <2>1. k \in Docs /\ k \in 0..Newest /\ k - 1 \in 0..Newest
    BY <1>1 DEF Docs
  <2>2. /\ Rest(k - 1) \in Nat /\ Rest(k) \in Nat /\ Rest(k) <= Rest(k - 1)
    <3>1. /\ F[k - 1].base \in Nat /\ F[k].base \in Nat
          /\ F[k - 1].charge \in Nat /\ F[k].charge \in Nat
      BY <1>6, <2>1 DEF Left
    <3>2. F[k].base <= F[k - 1].base /\ F[k].charge <= F[k - 1].charge
      BY <1>6, <2>1
    <3> DEFINE b == F[k - 1].base
               b1 == F[k].base
               c == F[k - 1].charge
               c1 == F[k].charge
    <3>3. /\ b \in Nat /\ b1 \in Nat /\ c \in Nat /\ c1 \in Nat
          /\ b1 <= b /\ c1 <= c /\ Rest(k - 1) = b + c /\ Rest(k) = b1 + c1
      BY <3>1, <3>2
    <3> HIDE DEF b, b1, c, c1, Rest
    <3> QED BY <3>3
  <2>3. SumOf(A, Upto(k - 1)) <= rows[i].amount - Rest(k - 1)
    BY <1>9
  <2>4. ASSUME NEW s \in S, s.doc = k
        PROVE  SumOf(A, Upto(k)) <= rows[i].amount - Rest(k)
    <3>1. k \in DOMAIN lines /\ s = Settled(i, k)
      BY <1>2, <2>4
    <3>2. Upto(k) = Upto(k - 1) \cup {s} /\ s \notin Upto(k - 1)
      <4>1. \A y \in S : y.doc = k => y = s
        BY <1>2, <3>1
      <4>2. \A y \in S : y.doc \in Nat
        BY <1>1, <1>2, DocsAreFinite
      <4> QED BY <2>1, <2>4, <4>1, <4>2
    <3>3. A[s] = Rest(k - 1) - Rest(k)
      <4>1. s.amount + s.charge = Rest(k - 1) - Rest(k)
        BY <1>7, <3>1
      <4> QED BY <1>2, <4>1
    <3>4. \A y \in Upto(k - 1) \cup {s} : A[y] \in Nat
      BY <1>2
    <3> HIDE DEF Upto, Rest
    <3>5. SumOf(A, Upto(k - 1) \cup {s}) = SumOf(A, Upto(k - 1)) + A[s]
      BY <1>4, <3>2, <3>4, SumPlus
    <3>6. SumOf(A, Upto(k)) = SumOf(A, Upto(k - 1)) + (Rest(k - 1) - Rest(k))
      BY <3>2, <3>3, <3>5
    <3> QED BY <1>4, <1>5, <2>2, <2>3, <3>6
  <2>5. CASE \A s \in S : s.doc # k
    <3>1. Upto(k) = Upto(k - 1)
      <4>1. \A y \in S : y.doc \in Nat
        BY <1>1, <1>2, DocsAreFinite
      <4> QED BY <2>1, <2>5, <4>1
    <3> HIDE DEF Upto, Rest
    <3> QED BY <1>4, <1>5, <2>1, <2>2, <2>3, <3>1
  <2> HIDE DEF Upto, Rest
  <2> QED BY <2>1, <2>4, <2>5
<1>10. Newest \in T
  <2> HIDE DEF T
  <2>1. \A k \in 0..Newest : k \in T
    BY <1>1, <1>8, <1>9, Induction
  <2> QED BY <1>1, <2>1
<1>11. Upto(Newest) = S
  BY <1>1, <1>2, DocsAreFinite
<1>12. Rest(Newest) \in Nat
  BY <1>1, <1>6 DEF Left
<1>13. SumOf(A, S) <= rows[i].amount - Rest(Newest)
  <2> HIDE DEF Upto, Rest
  <2> QED BY <1>10, <1>11
<1>14. SumOf(A, S) \in Nat
  <2> HIDE DEF Upto
  <2> QED BY <1>4, <1>11
<1>15. SumOf(A, S) <= rows[i].amount
  <2> HIDE DEF Rest
  <2> QED BY <1>5, <1>12, <1>13, <1>14
<1> QED BY <1>15 DEF Paid, S, A

\* All the rows together.
LEMMA TakesOfRows ==
  ASSUME rows \in Seq(Row), Partial(lines, Line)
  PROVE  Paid(SettlementRows) <= Entered
<1> DEFINE n == Len(rows)
           S == SettlementRows
           A == [s \in S |-> s.amount + s.charge]
           B == [i \in DOMAIN rows |-> rows[i].amount]
           Upto(k) == {s \in S : s.row <= k}
           T == {k \in 0..n : SumOf(A, Upto(k)) <= SumOf(B, 1..k)}
<1>1. n \in Nat /\ DOMAIN rows = 1..n
  OBVIOUS
<1>2. \A s \in S : /\ s.row \in 1..n /\ A[s] = s.amount + s.charge /\ A[s] \in Nat
  BY <1>1, SettlementsAre
<1>3. ASSUME NEW i \in 1..n
      PROVE  B[i] = rows[i].amount /\ B[i] \in Nat
  <2>1. rows[i] \in Row
    BY <1>1
  <2> QED BY <1>1, <2>1 DEF Row
<1>4. ASSUME NEW k \in 0..n
      PROVE  IsFiniteSet(1..k) /\ SumOf(B, 1..k) \in Nat
  <2>1. IsFiniteSet(1..k)
    BY <1>1, FS_Interval
  <2>2. \A y \in 1..k : B[y] \in Nat
    BY <1>1, <1>3
  <2> HIDE DEF B
  <2> QED BY <2>1, <2>2, SumIsNat
<1>5. ASSUME NEW i \in 1..n
      PROVE  LET R == {s \in S : s.row = i}
             IN /\ IsFiniteSet(R) /\ SumOf(A, R) <= B[i] /\ SumOf(A, R) \in Nat
  <2> DEFINE R == {s \in S : s.row = i}
             C == [s \in R |-> s.amount + s.charge]
  <2>1. IsFiniteSet(R)
    BY SettlementsAre, FS_Subset
  <2>2. \A s \in R : A[s] = C[s]
    OBVIOUS
  <2>3. \A s \in R : A[s] \in Nat
    BY <1>2
  <2>4. SumOf(C, R) <= rows[i].amount
    BY <1>1, TakesOfRow DEF Paid
  <2> HIDE DEF A, R, C
  <2>5. SumOf(A, R) = SumOf(C, R)
    BY <2>2, SumOfSame
  <2>6. SumOf(A, R) \in Nat
    BY <2>1, <2>3, SumIsNat
  <2>7. SumOf(A, R) <= B[i]
    BY <1>3, <2>4, <2>5
  <2> QED BY <2>1, <2>6, <2>7 DEF R
<1>6. \A k : IsFiniteSet(Upto(k)) /\ SumOf(A, Upto(k)) \in Nat
  <2> TAKE k
  <2>1. IsFiniteSet(Upto(k))
    BY SettlementsAre, FS_Subset
  <2>2. \A s \in Upto(k) : A[s] \in Nat
    BY <1>2
  <2> HIDE DEF Upto, A
  <2> QED BY <2>1, <2>2, SumIsNat
<1> HIDE DEF n, S, A, B
<1>7. 0 \in T
  <2>1. Upto(0) = {} /\ 1..0 = {} /\ 0 \in 0..n
    BY <1>1, <1>2
  <2>2. SumOf(A, {}) = 0 /\ SumOf(B, {}) = 0
    BY SumOfZeros
  <2>3. SumOf(A, Upto(0)) = 0 /\ SumOf(B, 1..0) = 0
    <3> HIDE DEF Upto
    <3> QED BY <2>1, <2>2
  <2> HIDE DEF Upto
  <2> QED BY <2>1, <2>3
<1>8. ASSUME NEW k \in 1..n, k - 1 \in T PROVE k \in T
  <2> DEFINE R == {s \in S : s.row = k}
  <2>1. k \in 0..n /\ k - 1 \in 0..n
    BY <1>1
  <2>2. SumOf(A, Upto(k - 1)) <= SumOf(B, 1..(k - 1))
    BY <1>8
  <2>3. Upto(k) = Upto(k - 1) \cup R /\ Upto(k - 1) \cap R = {}
    BY <1>1, <1>2
  <2>4. \A s \in Upto(k - 1) \cup R : A[s] \in Nat
    BY <1>2
  <2>5. IsFiniteSet(R) /\ SumOf(A, R) <= B[k] /\ SumOf(A, R) \in Nat
    BY <1>5
  <2>6. 1..k = 1..(k - 1) \cup {k} /\ k \notin 1..(k - 1)
    BY <1>1
  <2>7. SumOf(B, 1..(k - 1) \cup {k}) = SumOf(B, 1..(k - 1)) + B[k]
    <3>1. \A y \in 1..(k - 1) \cup {k} : B[y] \in Nat
      BY <1>1, <1>3
    <3> QED BY <1>4, <2>1, <2>6, <3>1, SumPlus
  <2> HIDE DEF Upto, R
  <2>8. SumOf(A, Upto(k - 1) \cup R) = SumOf(A, Upto(k - 1)) + SumOf(A, R)
    BY <1>6, <2>3, <2>4, <2>5, SumOfUnion
  <2>9. SumOf(A, Upto(k)) = SumOf(A, Upto(k - 1)) + SumOf(A, R)
    BY <2>3, <2>8
  <2>10. SumOf(B, 1..k) = SumOf(B, 1..(k - 1)) + B[k]
    BY <2>6, <2>7
  <2>11. SumOf(A, Upto(k)) <= SumOf(B, 1..k)
    <3>1. SumOf(A, Upto(k - 1)) \in Nat /\ SumOf(B, 1..(k - 1)) \in Nat /\ B[k] \in Nat
      BY <1>3, <1>4, <1>6, <2>1
    <3> QED BY <2>2, <2>5, <2>9, <2>10, <3>1
  <2> QED BY <2>1, <2>11
<1>9. n \in T
  <2> HIDE DEF T
  <2>1. \A k \in 0..n : k \in T
    BY <1>1, <1>7, <1>8, Induction
  <2> QED BY <1>1, <2>1
<1>10. Upto(n) = S
  BY <1>1, <1>2
<1>11. SumOf(A, S) <= SumOf(B, DOMAIN rows)
  <2> HIDE DEF Upto
  <2> QED BY <1>1, <1>9, <1>10
<1>12. Entered = SumOf(B, DOMAIN rows)
  BY DEF Entered, Total, B
<1> QED BY <1>11, <1>12 DEF Paid, S, A

LEMMA PlacedWithinForm ==
  ASSUME rows \in Seq(Row), Partial(lines, Line)
  PROVE  SettlesWithinForm
<1>1. \A s \in SettlementRows : s.amount > 0 /\ s.charge >= 0
  BY SettlementsAre
<1> QED BY <1>1, TakesOfDocument, TakesOfRows DEF SettlesWithinForm

-----------------------------------------------------------------------------
(* The payment pages: types                                                *)

\* Rows that are added, changed or dropped.
LEMMA RowsTyped ==
  ASSUME rows \in Seq(Row), Len(rows) <= MaxRows
  PROVE  /\ \A r \in Row : Len(rows) + 1 <= MaxRows =>
              Append(rows, r) \in Seq(Row) /\ Len(Append(rows, r)) <= MaxRows
         /\ \A r \in Row, i \in 1..Len(rows) :
              /\ [rows EXCEPT ![i] = r] \in Seq(Row)
              /\ Len([rows EXCEPT ![i] = r]) <= MaxRows
         /\ \A i \in 1..Len(rows) :
              RemoveAt(rows, i) \in Seq(Row) /\ Len(RemoveAt(rows, i)) <= MaxRows
<1>0. Len(rows) \in Nat /\ MaxRows \in Nat /\ \A i \in 1..Len(rows) : rows[i] \in Row
  BY PaymentAssumption
<1>1. ASSUME NEW r \in Row, Len(rows) + 1 <= MaxRows
      PROVE  Append(rows, r) \in Seq(Row) /\ Len(Append(rows, r)) <= MaxRows
  BY <1>1
<1>2. ASSUME NEW r \in Row, NEW i \in 1..Len(rows)
      PROVE  /\ [rows EXCEPT ![i] = r] \in Seq(Row)
             /\ Len([rows EXCEPT ![i] = r]) <= MaxRows
  BY ExceptSeq
<1>3. ASSUME NEW i \in 1..Len(rows)
      PROVE  RemoveAt(rows, i) \in Seq(Row) /\ Len(RemoveAt(rows, i)) <= MaxRows
  <2> DEFINE before == SubSeq(rows, 1, i - 1)
             after == SubSeq(rows, i + 1, Len(rows))
  <2>1. before \in Seq(Row) /\ Len(before) = i - 1
    <3>1. 1 \in Int /\ i - 1 \in Int /\ \A j \in 1..(i - 1) : rows[j] \in Row
      BY <1>0
    <3>2. before \in Seq(Row)
          /\ Len(before) = IF 1 <= i - 1 THEN (i - 1) - 1 + 1 ELSE 0
      BY <3>1, SubSeqProperties
    <3> HIDE DEF before
    <3> QED BY <3>2
  <2>2. after \in Seq(Row) /\ Len(after) = Len(rows) - i
    <3>1. i + 1 \in Int /\ Len(rows) \in Int /\ \A j \in (i + 1)..Len(rows) : rows[j] \in Row
      BY <1>0
    <3>2. after \in Seq(Row)
          /\ Len(after) = IF i + 1 <= Len(rows) THEN Len(rows) - (i + 1) + 1 ELSE 0
      BY <3>1, SubSeqProperties
    <3> HIDE DEF after
    <3> QED BY <1>0, <3>2
  <2>3. RemoveAt(rows, i) = before \o after
    BY DEF RemoveAt
  <2> HIDE DEF before, after
  <2>4. before \o after \in Seq(Row) /\ Len(before \o after) = Len(before) + Len(after)
    BY <2>1, <2>2, ConcatProperties
  <2> QED BY <1>0, <2>1, <2>2, <2>3, <2>4
<1> QED BY <1>1, <1>2, <1>3

\* The form, and what is posted of it.
FormTyped == /\ Partial(lines, Line)
             /\ rows \in Seq(Row) /\ Len(rows) <= MaxRows

LEMMA BatchTyped ==
  ASSUME FormTyped
  PROVE  Batch \in SUBSET Settlement /\ IsFiniteSet(Batch)
<1>1. CASE kind = "customer"
  <2>1. Batch = SettlementRows
    BY <1>1 DEF Batch
  <2>2. ASSUME NEW s \in SettlementRows PROVE s \in Settlement
    <3>1. s.row \in DOMAIN rows /\ s.doc \in DOMAIN lines /\ s = Settled(s.row, s.doc)
          /\ s.amount \in Nat /\ s.charge \in Nat
      BY SettlementsAre DEF FormTyped
    <3>2. s.row \in 0..MaxRows /\ s.doc \in Docs
      BY <3>1, PaymentAssumption DEF FormTyped, Partial
    <3> DEFINE F == Filling(rows[s.row], Room[s.row - 1])
    <3>3. s = [row |-> s.row, doc |-> s.doc,
               amount |-> F[s.doc - 1].base - F[s.doc].base,
               charge |-> F[s.doc - 1].charge - F[s.doc].charge]
      BY <3>1 DEF Settled
    <3> HIDE DEF F
    <3>4. s = [row |-> s.row, doc |-> s.doc, amount |-> s.amount, charge |-> s.charge]
      BY <3>3
    <3> QED BY <3>1, <3>2, <3>4 DEF Settlement
  <2> QED BY <2>1, <2>2, SettlementsAre DEF FormTyped
<1>2. CASE kind # "customer"
  <2> DEFINE D == {x \in DOMAIN lines : lines[x].amount > 0}
             One(d) == [row |-> 0, doc |-> d, amount |-> lines[d].amount, charge |-> 0]
             F == [d \in D |-> One(d)]
  <2>1. Batch = {One(d) : d \in D}
    BY <1>2 DEF Batch
  <2>2. IsFiniteSet(D) /\ \A d \in D : d \in Docs /\ lines[d].amount \in Nat
    <3>1. D \in SUBSET Docs
      BY DEF FormTyped, Partial
    <3>2. \A d \in D : lines[d].amount \in Nat
      BY DEF FormTyped, Partial, Line
    <3> QED BY <3>1, <3>2, DocsAreFinite
  <2>3. ASSUME NEW d \in D PROVE One(d) \in Settlement
    BY <2>2, PaymentAssumption DEF Settlement
  <2> HIDE DEF One, D
  <2>4. F \in Surjection(D, Batch)
    BY <2>1 DEF Surjection
  <2>5. IsFiniteSet(Batch)
    <3> HIDE DEF F
    <3> QED BY <2>2, <2>4, FS_Surjection
  <2> QED BY <2>1, <2>3, <2>5
<1> QED BY <1>1, <1>2

LEMMA AnnouncedTyped ==
  ASSUME FormTyped
  PROVE  Announced \in Nat
<1> DEFINE A == [d \in DOMAIN lines |-> lines[d].amount]
           B == [i \in DOMAIN rows |-> rows[i].amount]
<1>1. SumOf(A, DOMAIN lines) \in Nat
  <2>1. IsFiniteSet(DOMAIN lines)
    BY DocsAreFinite DEF FormTyped, Partial
  <2>2. \A d \in DOMAIN lines : A[d] \in Nat
    BY DEF FormTyped, Partial, Line
  <2> HIDE DEF A
  <2> QED BY <2>1, <2>2, SumIsNat
<1>2. SumOf(B, DOMAIN rows) \in Nat
  <2>1. DOMAIN rows = 1..Len(rows) /\ Len(rows) \in Int /\ \A i \in DOMAIN rows : rows[i] \in Row
    BY DEF FormTyped
  <2>2. IsFiniteSet(DOMAIN rows)
    BY <2>1, FS_Interval
  <2>3. \A i \in DOMAIN rows : B[i] \in Nat
    BY <2>1 DEF Row
  <2> HIDE DEF B
  <2> QED BY <2>2, <2>3, SumIsNat
<1>3. LineTotal(lines) = SumOf(A, DOMAIN lines)
  BY DEF LineTotal, Total, A
<1>4. Entered = SumOf(B, DOMAIN rows)
  BY DEF Entered, Total, B
<1> QED BY <1>1, <1>2, <1>3, <1>4 DEF Announced

LEMMA TakenIsNat ==
  ASSUME NEW p \in Sent, IsFiniteSet(p.batch), NEW d
  PROVE  TakenBy(p, d) \in Nat
<1> DEFINE S == {s \in p.batch : s.doc = d}
           A == [s \in S |-> s.amount]
<1>1. IsFiniteSet(S)
  BY FS_Subset
<1>2. \A s \in S : A[s] \in Nat
  BY DEF Sent, Settlement
<1>3. SumOf(A, S) \in Nat
  <2> HIDE DEF S, A
  <2> QED BY <1>1, <1>2, SumIsNat
<1> QED BY <1>3 DEF TakenBy, Taken

\* The balances of some of the documents.
LEMMA ListTyped ==
  ASSUME balance \in [Docs -> Nat], NEW S \in SUBSET Docs
  PROVE  Partial([d \in S |-> balance[d]], Nat)
BY DEF Partial

LEMMA NoLinesTyped == Partial(NoLines, Nat) /\ Partial(NoLines, Line)
BY DEF Partial, NoLines

LEMMA FreshRowsTyped == FreshRows \in Seq(Row) /\ Len(FreshRows) <= MaxRows
<1>1. [amount |-> 0, card |-> FALSE, pct |-> 0] \in Row
  BY DEF Row
<1>2. FreshRows \in Seq(Row) /\ Len(FreshRows) = 1
  BY <1>1 DEF FreshRows
<1> QED BY <1>2, PaymentAssumption

\* Nothing but a form that is being reviewed asks for confirmation, and what
\* was sent can be added up.
Confirmable == dialog => selected # NoParty
FiniteBatches == \A p \in posts : IsFiniteSet(p.batch)

\* The steps change no more than one of these parts of the state.
LEMMA EntryTypeParts ==
  EntryTypeOK <=> /\ kind \in {"customer", "supplier"} /\ balance \in [Docs -> Nat]
                  /\ selected \in Parties \cup {NoParty}
                  /\ view \in {"overview", "documents", "payment", "review"}
                  /\ Partial(shown, Nat) /\ loads \subseteq Parties
                  /\ FormTyped
                  /\ dialog \in BOOLEAN /\ inFlight \in BOOLEAN /\ posts \subseteq Sent
BY DEF EntryTypeOK, FormTyped

LEMMA EntryTypeInit == EntryInit => EntryTypeOK
BY PaymentAssumption, NoLinesTyped, FreshRowsTyped DEF EntryInit, EntryTypeOK

LEMMA SelectTyped ==
  ASSUME EntryTypeOK, NEW p \in Parties,
         SelectCustomer(p) \/ SelectSupplier(p) \/ DocsLoaded(p)
  PROVE  EntryTypeOK'
<1>1. CASE SelectCustomer(p)
  <2>1. OfParty(p) \in SUBSET Docs /\ balance \in [Docs -> Nat]
    BY DEF OfParty, EntryTypeOK
  <2>2. Partial(shown', Nat)
    BY <1>1, <2>1, ListTyped DEF SelectCustomer
  <2>3. Partial(lines', Line)
    BY <1>1, NoLinesTyped DEF SelectCustomer
  <2> QED BY <1>1, <2>2, <2>3 DEF SelectCustomer, EntryTypeOK, post
<1>2. CASE SelectSupplier(p)
  <2>1. Partial(lines', Line)
    BY <1>2, NoLinesTyped DEF SelectSupplier
  <2> QED BY <1>2, <2>1 DEF SelectSupplier, EntryTypeOK, post
<1>3. CASE DocsLoaded(p)
  <2>1. Partial(shown', Nat)
    <3>1. CASE Latest(p)
      <4>1. PICK ok \in BOOLEAN :
              shown' = [d \in {x \in OfParty(p) : ok /\ balance[x] > 0} |-> balance[d]]
        BY <1>3, <3>1 DEF DocsLoaded
      <4> DEFINE S == {x \in OfParty(p) : ok /\ balance[x] > 0}
      <4>2. S \in SUBSET Docs /\ balance \in [Docs -> Nat]
        BY DEF OfParty, EntryTypeOK
      <4>3. shown' = [d \in S |-> balance[d]]
        BY <4>1
      <4> HIDE DEF S
      <4> QED BY <4>2, <4>3, ListTyped
    <3>2. CASE ~Latest(p)
      BY <1>3, <3>2 DEF DocsLoaded, EntryTypeOK
    <3> QED BY <3>1, <3>2
  <2>2. /\ loads' \subseteq Parties
        /\ UNCHANGED <<kind, balance, selected, view, lines, rows, dialog, inFlight, posts>>
    BY <1>3 DEF DocsLoaded, EntryTypeOK, post
  <2> QED BY <2>1, <2>2 DEF EntryTypeOK
<1> QED BY <1>1, <1>2, <1>3

\* The steps of the wizard: lines and rows.
LEMMA LinesTyped ==
  ASSUME EntryTypeOK,
         \/ \E a \in Amounts : ProceedFIFO(a) \/ \E d \in Docs : ChangeLine(d, a)
         \/ \E S \in SUBSET Docs : ProceedChosen(S)
         \/ \E d \in Docs : RemoveLine(d)
         \/ CancelPayment
  PROVE  EntryTypeOK'
<1>0. /\ Partial(shown, Nat) /\ Partial(lines, Line)
      /\ Amounts \subseteq Nat
  BY PaymentAssumption DEF EntryTypeOK
<1>1. ASSUME NEW a \in Amounts, ProceedFIFO(a) PROVE EntryTypeOK'
  <2>1. Partial(lines', Line)
    BY <1>0, <1>1, AllocationIs DEF ProceedFIFO
  <2> QED BY <1>1, <2>1 DEF ProceedFIFO, EntryTypeOK, data, post
<1>2. ASSUME NEW a \in Amounts, NEW d \in Docs, ChangeLine(d, a) PROVE EntryTypeOK'
  <2>1. lines[d] \in Line /\ d \in DOMAIN lines
    BY <1>0, <1>2 DEF ChangeLine, Partial
  <2>2. Clamp(a, lines[d].due) \in Nat
    BY <1>0, <2>1 DEF Clamp, Lowest, Highest, Line
  <2>3. [lines[d] EXCEPT !.amount = Clamp(a, lines[d].due)] \in Line
    BY <2>1, <2>2 DEF Line
  <2>4. lines' = [lines EXCEPT ![d] = [lines[d] EXCEPT !.amount = Clamp(a, lines[d].due)]]
    BY <1>2, <2>1 DEF ChangeLine
  <2>5. Partial(lines', Line)
    BY <1>0, <2>1, <2>3, <2>4 DEF Partial
  <2> QED BY <1>2, <2>5 DEF ChangeLine, EntryTypeOK, data, post
<1>3. ASSUME NEW S \in SUBSET Docs, ProceedChosen(S) PROVE EntryTypeOK'
  <2>1. S \subseteq DOMAIN shown
    BY <1>3 DEF ProceedChosen
  <2>2. ASSUME NEW d \in S PROVE [due |-> shown[d], amount |-> shown[d]] \in Line
    BY <1>0, <2>1 DEF Partial, Line
  <2>3. Partial([d \in S |-> [due |-> shown[d], amount |-> shown[d]]], Line)
    BY <2>2 DEF Partial
  <2>4. Partial(lines', Line)
    BY <1>3, <2>3 DEF ProceedChosen
  <2> QED BY <1>3, <2>4 DEF ProceedChosen, EntryTypeOK, data, post
<1>4. ASSUME NEW d \in Docs, RemoveLine(d) PROVE EntryTypeOK'
  <2>1. Partial([x \in DOMAIN lines \ {d} |-> lines[x]], Line)
    BY <1>0 DEF Partial
  <2>2. Partial(lines', Line)
    BY <1>4, <2>1 DEF RemoveLine
  <2> QED BY <1>4, <2>2 DEF RemoveLine, EntryTypeOK, data, post
<1>5. ASSUME CancelPayment PROVE EntryTypeOK'
  <2>1. Partial(lines', Line)
    BY <1>5, NoLinesTyped DEF CancelPayment
  <2> QED BY <1>5, <2>1 DEF CancelPayment, EntryTypeOK, data, post
<1> QED BY <1>1, <1>2, <1>3, <1>4, <1>5

LEMMA SplitTyped ==
  ASSUME EntryTypeOK, NEW i \in 1..MaxRows,
         DropRow(i) \/ \E r \in Row : SetRow(i, r)
  PROVE  EntryTypeOK'
<1>0. rows \in Seq(Row) /\ Len(rows) <= MaxRows /\ Len(rows) \in Nat /\ MaxRows \in Nat
      /\ DOMAIN rows = 1..Len(rows)
  BY PaymentAssumption DEF EntryTypeOK
<1>1. rows' \in Seq(Row) /\ Len(rows') <= MaxRows
  <2>1. CASE DropRow(i)
    <3>1. i \in 1..Len(rows) /\ rows' = RemoveAt(rows, i)
      BY <1>0, <2>1 DEF DropRow
    <3> QED BY <1>0, <3>1, RowsTyped
  <2>2. ASSUME NEW r \in Row, SetRow(i, r)
        PROVE  rows' \in Seq(Row) /\ Len(rows') <= MaxRows
    <3>1. CASE i > Len(rows)
      <4>1. rows' = Append(rows, r) /\ Len(rows) + 1 <= MaxRows
        BY <1>0, <2>2, <3>1 DEF SetRow
      <4> QED BY <1>0, <4>1, RowsTyped
    <3>2. CASE i <= Len(rows)
      <4>1. ~(i > Len(rows)) /\ i \in 1..Len(rows)
        BY <1>0, <3>2
      <4>2. rows' = [rows EXCEPT ![i] = r]
        BY <2>2, <4>1, Zenon DEF SetRow
      <4> QED BY <1>0, <4>1, <4>2, RowsTyped
    <3> QED BY <1>0, <3>1, <3>2
  <2> QED BY <2>1, <2>2
<1>2. UNCHANGED <<kind, balance, selected, view, shown, loads, lines, dialog, inFlight, posts>>
  BY DEF DropRow, SetRow, data, post
<1> QED BY <1>1, <1>2 DEF EntryTypeOK

\* Posting and what the server and the other users do.
LEMMA ConfirmTyped ==
  ASSUME EntryTypeOK, Confirmable, FiniteBatches, Confirm
  PROVE  EntryTypeOK' /\ FiniteBatches'
<1> DEFINE p == [party |-> selected, batch |-> Batch, announced |-> Announced, done |-> "no"]
<1>1. FormTyped
  BY EntryTypeParts
<1>2. selected \in Parties
  BY DEF Confirm, Confirmable, EntryTypeOK
<1>3. Batch \in SUBSET Settlement /\ IsFiniteSet(Batch) /\ Announced \in Nat
  BY <1>1, BatchTyped, AnnouncedTyped
<1>4. p \in Sent /\ p.batch = Batch
  BY <1>2, <1>3 DEF Sent
<1>5. posts' = posts \cup {p}
  BY DEF Confirm
<1> HIDE DEF p
<1>6. EntryTypeOK'
  BY <1>4, <1>5 DEF Confirm, EntryTypeOK, data, form
<1>7. FiniteBatches'
  BY <1>3, <1>4, <1>5 DEF FiniteBatches
<1> QED BY <1>6, <1>7

LEMMA ExecuteTyped ==
  ASSUME EntryTypeOK, FiniteBatches, NEW p, Execute(p)
  PROVE  EntryTypeOK' /\ FiniteBatches'
<1>1. p \in Sent /\ p \in posts /\ IsFiniteSet(p.batch)
  BY DEF Execute, EntryTypeOK, FiniteBatches
<1>2. \A v \in {"yes", "refused"} :
         [p EXCEPT !.done = v] \in Sent /\ [p EXCEPT !.done = v].batch = p.batch
  BY <1>1 DEF Sent
<1>3. balance' \in [Docs -> Nat]
  <2>1. CASE Acceptable(p)
    <3>1. ASSUME NEW d \in Docs PROVE balance[d] - TakenBy(p, d) \in Nat
      <4>1. TakenBy(p, d) \in Nat
        BY <1>1, TakenIsNat
      <4>2. TakenBy(p, d) <= balance[d] /\ balance[d] \in Nat
        BY <2>1 DEF Acceptable, EntryTypeOK
      <4> QED BY <4>1, <4>2
    <3>2. balance' = [d \in Docs |-> balance[d] - TakenBy(p, d)]
      BY <2>1 DEF Execute
    <3> QED BY <3>1, <3>2
  <2>2. CASE ~Acceptable(p)
    BY <2>2 DEF Execute, EntryTypeOK
  <2> QED BY <2>1, <2>2
<1>4. \E v \in {"yes", "refused"} : posts' = (posts \ {p}) \cup {[p EXCEPT !.done = v]}
  BY DEF Execute
<1>5. posts' \subseteq Sent
  BY <1>2, <1>4 DEF EntryTypeOK
<1>6. FiniteBatches'
  BY <1>1, <1>2, <1>4 DEF FiniteBatches
<1>7. EntryTypeOK'
  BY <1>3, <1>5 DEF Execute, EntryTypeOK, data, form
<1> QED BY <1>6, <1>7

LEMMA AnsweredTyped ==
  ASSUME EntryTypeOK, NEW p \in posts, Answered(p) \/ Failed(p)
  PROVE  EntryTypeOK'
<1>1. CASE Answered(p)
  <2>1. Partial(lines', Line)
    BY <1>1, NoLinesTyped DEF Answered
  <2>2. rows' \in Seq(Row) /\ Len(rows') <= MaxRows
    BY <1>1, FreshRowsTyped DEF Answered, EntryTypeOK
  <2>3. Partial(shown', Nat)
    <3>1. CASE kind = "customer" /\ selected # NoParty
      <4> DEFINE S == {x \in OfParty(selected) : balance[x] > 0}
      <4>1. S \in SUBSET Docs /\ balance \in [Docs -> Nat]
        BY DEF OfParty, EntryTypeOK
      <4>2. shown' = [d \in S |-> balance[d]]
        BY <1>1, <3>1 DEF Answered
      <4> HIDE DEF S
      <4> QED BY <4>1, <4>2, ListTyped
    <3>2. CASE ~(kind = "customer" /\ selected # NoParty)
      BY <1>1, <3>2 DEF Answered, EntryTypeOK
    <3> QED BY <3>1, <3>2
  <2>4. loads' \subseteq Parties
    BY <1>1 DEF Answered, EntryTypeOK, Sent
  <2>5. posts' \subseteq Sent /\ inFlight' \in BOOLEAN
    BY <1>1 DEF Answered, EntryTypeOK, Release
  <2>6. view' = "overview" /\ UNCHANGED <<kind, balance, selected, dialog>>
    BY <1>1 DEF Answered
  <2> QED BY <2>1, <2>2, <2>3, <2>4, <2>5, <2>6 DEF EntryTypeOK
<1>2. CASE Failed(p)
  BY <1>2 DEF Failed, Release, EntryTypeOK, data, form
<1> QED BY <1>1, <1>2

LEMMA OtherTyped ==
  ASSUME EntryTypeOK,
         \/ StartPayment \/ ProceedToReview \/ Back \/ ClickPost \/ Decline
         \/ \E d \in Docs : PaidElsewhere(d)
         \/ UNCHANGED entryVars
  PROVE  EntryTypeOK'
<1>1. CASE StartPayment \/ ProceedToReview \/ Back
  BY <1>1 DEF StartPayment, ProceedToReview, Back, EntryTypeOK, data, form, post
<1>2. CASE ClickPost \/ Decline
  BY <1>2 DEF ClickPost, Decline, EntryTypeOK, data, form
<1>3. ASSUME NEW d \in Docs, PaidElsewhere(d) PROVE EntryTypeOK'
  <2>1. balance' \in [Docs -> Nat]
    BY <1>3 DEF PaidElsewhere, EntryTypeOK
  <2> QED BY <1>3, <2>1 DEF PaidElsewhere, EntryTypeOK, data, form, post
<1>4. CASE UNCHANGED entryVars
  BY <1>4 DEF entryVars, EntryTypeOK, data, form, post
<1> QED BY <1>1, <1>2, <1>3, <1>4

LEMMA EntryTypeKept ==
  ASSUME EntryTypeOK, Confirmable, FiniteBatches, [EntryNext]_entryVars
  PROVE  EntryTypeOK'
<1>1. ASSUME NEW a \in Amounts, NEW q \in Percents
      PROVE  /\ [amount |-> a, card |-> FALSE, pct |-> 0] \in Row
             /\ [amount |-> a, card |-> TRUE, pct |-> q] \in Row
  BY PaymentAssumption DEF Row
<1>2. ASSUME NEW a \in Amounts
      PROVE  [amount |-> a, card |-> FALSE, pct |-> 0] \in Row
  BY PaymentAssumption DEF Row
<1>3. CASE \E p \in Parties : SelectCustomer(p) \/ SelectSupplier(p) \/ DocsLoaded(p)
  BY <1>3, SelectTyped
<1>4. CASE \/ \E a \in Amounts : ProceedFIFO(a) \/ \E d \in Docs : ChangeLine(d, a)
           \/ \E S \in SUBSET Docs : ProceedChosen(S)
           \/ \E d \in Docs : RemoveLine(d)
           \/ CancelPayment
  BY <1>4, LinesTyped
<1>5. CASE \E i \in 1..MaxRows : DropRow(i) \/ \E r \in Row : SetRow(i, r)
  BY <1>5, SplitTyped
<1>6. CASE Confirm
  BY <1>6, ConfirmTyped
<1>7. CASE \E p \in posts : Execute(p)
  BY <1>7, ExecuteTyped
<1>8. CASE \E p \in posts : Answered(p) \/ Failed(p)
  BY <1>8, AnsweredTyped
<1>9. CASE \/ StartPayment \/ ProceedToReview \/ Back \/ ClickPost \/ Decline
           \/ \E d \in Docs : PaidElsewhere(d)
           \/ UNCHANGED entryVars
  BY <1>9, OtherTyped
<1>10. ASSUME NEW i \in 1..MaxRows,
              \/ DropRow(i)
              \/ \E a \in Amounts :
                   \/ SetRow(i, [amount |-> a, card |-> FALSE, pct |-> 0])
                   \/ \E q \in Percents : SetRow(i, [amount |-> a, card |-> TRUE, pct |-> q])
       PROVE  DropRow(i) \/ \E r \in Row : SetRow(i, r)
  BY <1>1, <1>2, <1>10
<1> QED BY <1>3, <1>4, <1>5, <1>6, <1>7, <1>8, <1>9, <1>10 DEF EntryNext

-----------------------------------------------------------------------------
(* One POST at a time, to the right supplier                               *)

\* There is one POST at most, and none while another is being confirmed.
Lone == /\ \A p, q \in posts : p = q
        /\ dialog => posts = {}
        /\ dialog \/ posts # {} => inFlight

\* What was executed went to the supplier of the documents it paid.
PaidToSupplier ==
  \A p \in posts : (p.done = "yes" /\ kind = "supplier") =>
                      \A d \in Docs : TakenBy(p, d) > 0 => PartyOf[d] = p.party

PostInv == Confirmable /\ FiniteBatches /\ Lone /\ PaidToSupplier
EntryInv == EntryTypeOK /\ PostInv

LEMMA EntryInvInit == EntryInit => EntryInv
<1> SUFFICES ASSUME EntryInit PROVE PostInv
  BY EntryTypeInit DEF EntryInv
<1> QED BY DEF EntryInit, PostInv, Confirmable, FiniteBatches, Lone, PaidToSupplier

\* Steps of the form, the lists and the other users.
LEMMA FormStep ==
  ASSUME PostInv, UNCHANGED <<kind, post>>, ~dialog \/ selected' = selected
  PROVE  PostInv'
<1>1. Confirmable' /\ FiniteBatches' /\ Lone'
  BY DEF PostInv, Confirmable, FiniteBatches, Lone, post
<1>2. PaidToSupplier'
  BY DEF PostInv, PaidToSupplier, post, TakenBy
<1> QED BY <1>1, <1>2 DEF PostInv

LEMMA ClickStep ==
  ASSUME PostInv, ClickPost \/ Decline
  PROVE  PostInv'
<1>1. UNCHANGED <<kind, posts, selected>>
  BY DEF ClickPost, Decline
<1>2. PaidToSupplier' /\ FiniteBatches'
  BY <1>1 DEF PostInv, PaidToSupplier, FiniteBatches, TakenBy
<1>3. CASE ClickPost
  BY <1>1, <1>2, <1>3 DEF ClickPost, MayPost, PostInv, Confirmable, Lone
<1>4. CASE Decline
  BY <1>1, <1>2, <1>4 DEF Decline, PostInv, Confirmable, Lone
<1> QED BY <1>3, <1>4

LEMMA ConfirmStep ==
  ASSUME EntryInv, Confirm
  PROVE  PostInv'
<1> DEFINE p == [party |-> selected, batch |-> Batch, announced |-> Announced, done |-> "no"]
<1>1. p.done = "no"
  OBVIOUS
<1>2. dialog /\ ~dialog' /\ inFlight' = inFlight /\ kind' = kind /\ posts' = posts \cup {p}
  BY DEF Confirm
<1> HIDE DEF p
<1>3. posts = {} /\ inFlight
  BY <1>2 DEF EntryInv, PostInv, Lone
<1>4. posts' = {p}
  BY <1>2, <1>3
<1>5. Lone' /\ Confirmable'
  BY <1>2, <1>3, <1>4 DEF Lone, Confirmable
<1>6. PaidToSupplier'
  BY <1>1, <1>4 DEF PaidToSupplier
<1>7. FiniteBatches'
  BY ConfirmTyped DEF EntryInv, PostInv
<1> QED BY <1>5, <1>6, <1>7 DEF PostInv

LEMMA ExecuteStep ==
  ASSUME EntryInv, NEW p, Execute(p)
  PROVE  PostInv'
<1>1. p \in posts /\ p \in Sent
  BY DEF Execute, EntryInv, EntryTypeOK
<1>2. /\ UNCHANGED <<kind, selected, dialog, inFlight>>
      /\ \/ posts' = (posts \ {p}) \cup {[p EXCEPT !.done = "refused"]}
         \/ Acceptable(p) /\ posts' = (posts \ {p}) \cup {[p EXCEPT !.done = "yes"]}
  BY DEF Execute
<1>3. posts = {p}
  BY <1>1 DEF EntryInv, PostInv, Lone
<1>4. PICK v \in {"yes", "refused"} :
         /\ posts' = {[p EXCEPT !.done = v]}
         /\ v = "yes" => Acceptable(p)
  BY <1>2, <1>3
<1> DEFINE q == [p EXCEPT !.done = v]
<1>5. q.done = v /\ q.party = p.party /\ q.batch = p.batch
  BY <1>1 DEF Sent
<1> HIDE DEF q
<1>6. \A d : TakenBy(q, d) = TakenBy(p, d)
  BY <1>5 DEF TakenBy
<1>7. PaidToSupplier'
  <2> SUFFICES ASSUME q.done = "yes", kind = "supplier", NEW d \in Docs, TakenBy(q, d) > 0
               PROVE  PartyOf[d] = q.party
    BY <1>2, <1>4 DEF PaidToSupplier, TakenBy, q
  <2>1. Acceptable(p) /\ TakenBy(p, d) > 0
    BY <1>4, <1>5, <1>6
  <2> QED BY <1>5, <2>1 DEF Acceptable
<1>8. Lone' /\ Confirmable'
  BY <1>2, <1>3, <1>4 DEF EntryInv, PostInv, Lone, Confirmable
<1>9. FiniteBatches'
  BY ExecuteTyped DEF EntryInv, PostInv
<1> QED BY <1>7, <1>8, <1>9 DEF PostInv

LEMMA AnsweredStep ==
  ASSUME PostInv, NEW p \in posts, Answered(p) \/ Failed(p)
  PROVE  PostInv'
<1>1. posts' = posts \ {p} /\ UNCHANGED <<kind, dialog, selected>> /\ inFlight' = FALSE
  BY DEF Answered, Failed, Release
<1>2. posts = {p} /\ ~dialog
  BY DEF PostInv, Lone
<1>3. posts' = {} /\ ~dialog'
  BY <1>1, <1>2
<1> QED BY <1>3 DEF PostInv, Confirmable, FiniteBatches, Lone, PaidToSupplier

LEMMA EntryInvKept == EntryInv /\ [EntryNext]_entryVars => EntryInv'
<1> SUFFICES ASSUME EntryInv, [EntryNext]_entryVars PROVE EntryInv'
  OBVIOUS
<1>0. EntryTypeOK /\ PostInv /\ Confirmable /\ FiniteBatches
  BY DEF EntryInv, PostInv
<1>1. EntryTypeOK'
  BY <1>0, EntryTypeKept
<1>2. PostInv'
  <2>1. ASSUME NEW p \in Parties, SelectCustomer(p) \/ SelectSupplier(p) \/ DocsLoaded(p)
        PROVE  PostInv'
    BY <1>0, <2>1, FormStep DEF SelectCustomer, SelectSupplier, DocsLoaded
  <2>2. CASE \/ StartPayment \/ ProceedToReview \/ Back \/ CancelPayment
             \/ UNCHANGED entryVars
    BY <1>0, <2>2, FormStep DEF StartPayment, ProceedToReview, Back, CancelPayment, entryVars
  <2>3. ASSUME NEW d \in Docs, RemoveLine(d) \/ PaidElsewhere(d) PROVE PostInv'
    BY <1>0, <2>3, FormStep DEF RemoveLine, PaidElsewhere
  <2>4. ASSUME NEW S \in SUBSET Docs, ProceedChosen(S) PROVE PostInv'
    BY <1>0, <2>4, FormStep DEF ProceedChosen
  <2>5. ASSUME NEW a \in Amounts, ProceedFIFO(a) \/ \E d \in Docs : ChangeLine(d, a)
        PROVE  PostInv'
    BY <1>0, <2>5, FormStep DEF ProceedFIFO, ChangeLine
  <2>6. ASSUME NEW i \in 1..MaxRows, DropRow(i) \/ \E r : SetRow(i, r) PROVE PostInv'
    BY <1>0, <2>6, FormStep DEF DropRow, SetRow
  <2>7. CASE ClickPost \/ Decline
    BY <1>0, <2>7, ClickStep
  <2>8. CASE Confirm
    BY <2>8, ConfirmStep
  <2>9. CASE \E p \in posts : Execute(p)
    BY <2>9, ExecuteStep
  <2>10. CASE \E p \in posts : Answered(p) \/ Failed(p)
    BY <1>0, <2>10, AnsweredStep
  <2> QED BY <2>1, <2>2, <2>3, <2>4, <2>5, <2>6, <2>7, <2>8, <2>9, <2>10 DEF EntryNext
<1> QED BY <1>1, <1>2 DEF EntryInv

LEMMA EntryInvAlways == EntrySpec => []EntryInv
<1> QED BY EntryInvInit, EntryInvKept, PTL DEF EntrySpec

\* Types of the payment pages: no line, row or balance turns negative, there
\* are never more rows than allowed, and everything sent is a settlement of
\* known documents for a known party, although Execute subtracts what a batch
\* takes and Confirm builds the batch from whatever form is on the screen.
THEOREM EntryTypeCorrect == EntrySpec => []EntryTypeOK
<1>1. EntryInv => EntryTypeOK
  BY DEF EntryInv
<1> QED BY <1>1, EntryInvAlways, PTL

\* postInFlightRef works: from the click to the answer there is one POST or one
\* confirmation, never two, whatever the user selects or presses meanwhile.
THEOREM OnePostAlways == EntrySpec => []OnePost
<1>1. EntryInv => OnePost
  <2> SUFFICES ASSUME EntryInv PROVE OnePost
    OBVIOUS
  <2>1. Lone
    BY DEF EntryInv, PostInv
  <2>2. Cardinality(posts) <= 1
    <3>1. CASE posts = {}
      BY <3>1, FS_EmptySet
    <3>2. CASE posts # {}
      <4>1. PICK p : posts = {p}
        BY <2>1, <3>2 DEF Lone
      <4> QED BY <4>1, FS_Singleton
    <3> QED BY <3>1, <3>2
  <2> QED BY <2>1, <2>2 DEF OnePost, Lone
<1> QED BY <1>1, EntryInvAlways, PTL

\* The settlements of the split rows stay within the lines and within what was
\* typed, for every rounding of the service charges, and allocateFIFO pays the
\* oldest documents first and leaves nothing of the amount while one is open.
THEOREM PlacedInOrderAlways == EntrySpec => []PlacedInOrder
<1>1. EntryInv => PlacedInOrder
  <2> SUFFICES ASSUME EntryInv PROVE PlacedInOrder
    OBVIOUS
  <2>1. Partial(shown, Nat) /\ rows \in Seq(Row) /\ Partial(lines, Line)
    BY DEF EntryInv, EntryTypeOK
  <2> QED BY <2>1, PlacedWithinForm, FillsOldestFirst DEF PlacedInOrder
<1> QED BY <1>1, EntryInvAlways, PTL

\* The server's checks hold whatever list a page showed when it posted: no
\* balance is overdrawn and a supplier is not paid for another's document.
THEOREM NeverOverpaidAlways == EntrySpec => []NeverOverpaid
<1>1. EntryInv => NeverOverpaid
  <2> SUFFICES ASSUME EntryInv PROVE NeverOverpaid
    OBVIOUS
  <2>1. \A d \in Docs : balance[d] >= 0
    BY DEF EntryInv, EntryTypeOK
  <2>2. PaidToSupplier
    BY DEF EntryInv, PostInv
  <2> QED BY <2>1, <2>2 DEF NeverOverpaid, PaidToSupplier
<1> QED BY <1>1, EntryInvAlways, PTL
=============================================================================
