------------------------- MODULE FormAndChatProofs -------------------------
(***************************************************************************)
(* Proofs about two widgets whose handlers wait for the server in the      *)
(* middle: the form of a sales order, for any finite set of units and any  *)
(* orders, lines and checks in flight; and the chat assistant, for any     *)
(* proposals and messages and any number of calls, closings, reloads and   *)
(* loads.                                                                  *)
(***************************************************************************)
EXTENDS SalesForm, ChatWidget, FiniteSetTheorems, TLAPS

-----------------------------------------------------------------------------
(* The sales order page                                                    *)

\* A run of handleSave keeps, through both of its waits, the payments that
\* were checked against the total when Save was clicked.
Foots ==
  save.phase \in {"checking", "asking", "sent"} /\ ~save.inEdit =>
    /\ Entered(save.pay) = UpTo0(Price * Count(save.lines) - save.coupon)
    /\ save.pay.credit > 0 => save.asked = save.pay.credit

\* The form's own handlers leave a pending run alone, and the server's orders.
LEMMA FormOnly ==
  ASSUME FormNext
  PROVE  \/ UNCHANGED <<save, orders>>
         \/ Save \/ CreditAnswered \/ WarningAnswered
         \/ ServeUpdate \/ (\E o \in Orders : ServeCreate(o))
         \/ UNCHANGED orders /\ (save' = NoSave
                                  \/ save' = [phase |-> "refused", of |-> NoOrder])
BY DEF FormNext, User, New, Edit, Cancel, Back, NextStep, PreviousStep, ApplyCoupon,
       ClearCoupon, RemoveCredit, SetCash, OpenRow, AddManual, Scan, RemoveLine,
       SetCredit, TimerFires, Created, Updated, Failed, Refuse, Scanned, Checked

LEMMA SnapshotFoots ==
  ASSUME NEW phase \in {"checking", "sent"}, editing \/ Balanced,
         phase = "checking" \/ editing \/ pay.credit = None,
         save' = Snapshot(phase)
  PROVE  Foots'
<1>1. /\ save'.inEdit = editing /\ save'.pay = pay /\ save'.lines = lines
      /\ save'.coupon = Discount(coupon) /\ save'.phase = phase
      /\ phase = "checking" => save'.asked = CreditAsked(lines, coupon, pay)
  BY DEF Snapshot
<1>2. ASSUME ~editing
      PROVE  Entered(pay) = UpTo0(Price * Count(lines) - Discount(coupon))
  BY <1>2 DEF Balanced, Total
<1>3. ASSUME ~editing, pay.credit > 0
      PROVE  save'.asked = pay.credit
  BY <1>1, <1>3 DEF CreditAsked, None
<1> QED BY <1>1, <1>2, <1>3 DEF Foots, Entered, Count

LEMMA FootsKept ==
  ASSUME Foots, [FormNext]_formVars
  PROVE  Foots'
<1>1. CASE UNCHANGED save
  BY <1>1 DEF Foots, Entered, Count
<1>2. CASE Save
  <2>1. CASE editing /\ sel # NoOrder
    BY <1>2, <2>1 DEF Save, Foots
  <2>2. CASE ~(editing /\ sel # NoOrder)
    <3>1. editing \/ Balanced
      BY <1>2, <2>2 DEF Save
    <3>2. PICK phase \in {"checking", "sent"} :
            /\ save' = Snapshot(phase)
            /\ phase = "checking" \/ editing \/ pay.credit = None
      BY <1>2, <2>2 DEF Save
    <3> QED BY <3>1, <3>2, SnapshotFoots
  <2> QED BY <2>1, <2>2
<1>3. CASE CreditAnswered \/ WarningAnswered
  <2>1. save.phase \in {"checking", "asking"}
    BY <1>3 DEF CreditAnswered, WarningAnswered
  <2>2. ASSUME NEW phase \in {"asking", "sent"}, save' = [save EXCEPT !.phase = phase]
        PROVE  Foots'
    <3>1. /\ save'.inEdit = save.inEdit /\ save'.pay = save.pay
          /\ save'.lines = save.lines /\ save'.coupon = save.coupon
          /\ save'.asked = save.asked
      BY <2>2
    <3> QED BY <2>1, <3>1 DEF Foots, Entered, Count
  <2>3. CASE save' = NoSave
    BY <2>3 DEF NoSave, Foots
  <2> QED BY <1>3, <2>2, <2>3 DEF CreditAnswered, WarningAnswered, AsClicked
<1>4. CASE ServeUpdate \/ \E o \in Orders : ServeCreate(o)
  <2>1. \E o, phase : save' = [phase |-> phase, of |-> o] /\ phase \in {"created", "updated"}
    <3>1. ServeUpdate => save' = [phase |-> "updated", of |-> save.of]
      BY DEF ServeUpdate
    <3>2. \A o : ServeCreate(o) => save' = [phase |-> "created", of |-> o]
      BY DEF ServeCreate
    <3> QED BY <1>4, <3>1, <3>2
  <2> QED BY <2>1 DEF Foots
<1>5. CASE save' = NoSave \/ save' = [phase |-> "refused", of |-> NoOrder]
  BY <1>5 DEF NoSave, Foots
<1> QED BY <1>1, <1>2, <1>3, <1>4, <1>5, FormOnly DEF formVars

\* For any units and any number of lines, rows and checks under way: a new
\* order is sent with payments that make up its total, and on credit only what
\* the server was asked about, whatever happened on the form during the waits.
THEOREM SentFootsAlways == FormSpec => []SentFoots
<1>1. FormInit => Foots
  BY DEF FormInit, NoSave, Foots
<1>2. Foots => SentFoots
  BY DEF Foots, SentFoots
<1> QED BY <1>1, <1>2, FootsKept, PTL DEF FormSpec

-----------------------------------------------------------------------------
\* The server's two writes keep the orders apart, whichever form is sent.
LEMMA Apart ==
  ASSUME UnitInOneOrder, [FormNext]_formVars
  PROVE  UnitInOneOrder'
<1>1. CASE UNCHANGED orders
  BY <1>1 DEF UnitInOneOrder
<1>2. ASSUME NEW o \in Orders, ServeCreate(o) PROVE UnitInOneOrder'
  <2>1. /\ o \notin DOMAIN orders /\ DOMAIN orders' = DOMAIN orders \cup {o}
        /\ orders'[o].units = UnitsOf(save.lines)
        /\ \A p \in DOMAIN orders : orders'[p] = orders[p]
    BY <1>2 DEF ServeCreate
  <2>2. \A p \in DOMAIN orders : UnitsOf(save.lines) \cap orders[p].units = {}
    BY <1>2 DEF ServeCreate, Available, Held
  <2> QED BY <2>1, <2>2 DEF UnitInOneOrder
<1>3. CASE ServeUpdate
  <2> DEFINE o == save.of
  <2>1. /\ DOMAIN orders' = DOMAIN orders
        /\ \A p \in DOMAIN orders : p # o => orders'[p] = orders[p]
        /\ o \in DOMAIN orders => orders'[o].units = UnitsOf(save.lines)
    BY <1>3 DEF ServeUpdate
  <2>2. ASSUME NEW p \in DOMAIN orders, p # o, o \in DOMAIN orders
        PROVE  UnitsOf(save.lines) \cap orders[p].units = {}
    <3>1. orders[p].units \subseteq Held \ orders[o].units
      BY <2>2 DEF Held, UnitInOneOrder
    <3> QED BY <1>3, <3>1 DEF ServeUpdate, Available
  <2> HIDE DEF o
  <2> QED BY <2>1, <2>2 DEF UnitInOneOrder
<1>4. Save \/ CreditAnswered \/ WarningAnswered => UNCHANGED orders
  BY DEF Save, CreditAnswered, WarningAnswered
<1> QED BY <1>1, <1>2, <1>3, <1>4, FormOnly DEF formVars

\* No unit gets into two orders, whatever forms are sent twice, sent over
\* another order or filled by lookups that are out of date by then.
THEOREM UnitInOneOrderAlways == FormSpec => []UnitInOneOrder
<1>1. FormInit => UnitInOneOrder
  BY FormAssumption DEF FormInit, UnitInOneOrder
<1> QED BY <1>1, Apart, PTL DEF FormSpec

-----------------------------------------------------------------------------
(* Lines, and what a form is filled with                                   *)

Points(ls) == {x \in Units \X (1 .. MaxLines) : x[2] <= ls[x[1]]}
Filled == {ls \in [Units -> 0 .. MaxLines] : Count(ls) <= MaxLines}
Rows == [cash : Nat, credit : {None, Price}]

\* The lines of a form can be counted.
LEMMA LinesCounted ==
    ASSUME NEW ls
    PROVE  IsFiniteSet(Points(ls)) /\ Count(ls) = Cardinality(Points(ls)) /\ Count(ls) \in Nat
<1>0. IsFiniteSet(Units) /\ IsFiniteSet(1 .. MaxLines)
  BY FormAssumption, FS_Interval
<1>1. IsFiniteSet(Units \X (1 .. MaxLines))
  BY <1>0, FS_Product
<1>2. IsFiniteSet(Points(ls))
  BY <1>1, FS_Subset DEF Points
<1> QED BY <1>2, FS_CardinalityType DEF Count, Points

\* A form with fewer points has fewer lines.
LEMMA Fewer ==
    ASSUME NEW ls, NEW S, S \subseteq Points(ls)
    PROVE  Cardinality(S) <= Count(ls) /\ Cardinality(S) \in Nat
<1>1. IsFiniteSet(Points(ls)) /\ Count(ls) = Cardinality(Points(ls))
  BY LinesCounted
<1> QED BY <1>1, FS_Subset, FS_CardinalityType

\* As many pairs as there are members on one side, with one on the other.
LEMMA Pairs ==
    ASSUME NEW S, NEW x, IsFiniteSet(S)
    PROVE  /\ Cardinality(S) \in Nat
           /\ Cardinality(S \X {x}) = Cardinality(S)
           /\ Cardinality({x} \X S) = Cardinality(S)
<1>1. IsFiniteSet({x}) /\ Cardinality({x}) = 1
  BY FS_Singleton
<1>2. Cardinality(S) \in Nat
  BY FS_CardinalityType
<1>3. Cardinality(S \X {x}) = Cardinality(S) * Cardinality({x})
  BY <1>1, FS_Product
<1>4. Cardinality({x} \X S) = Cardinality({x}) * Cardinality(S)
  BY <1>1, FS_Product
<1> QED BY <1>1, <1>2, <1>3, <1>4

\* An empty form has no lines.
LEMMA NoLines == Bare \in Filled /\ Count(Bare) = 0
<1>1. Points(Bare) = {}
  BY FormAssumption DEF Points, Bare
<1>2. Count(Bare) = 0
  BY <1>1, LinesCounted, FS_EmptySet
<1> QED BY <1>2, FormAssumption DEF Filled, Bare

\* The units of a form are no more than its lines.
LEMMA UnitsCounted ==
    ASSUME NEW ls \in [Units -> 0 .. MaxLines]
    PROVE  Cardinality(UnitsOf(ls)) <= Count(ls)
<1> DEFINE S == UnitsOf(ls) \X {1}
<1>1. IsFiniteSet(UnitsOf(ls))
  BY FormAssumption, FS_Subset DEF UnitsOf
<1>2. Cardinality(S) = Cardinality(UnitsOf(ls))
  BY <1>1, Pairs
<1>3. S \subseteq Points(ls)
  BY FormAssumption DEF Points, UnitsOf
<1> QED BY <1>2, <1>3, Fewer

\* The form of an order that is edited has a line for each of its units.
LEMMA EditedFits ==
    ASSUME NEW S \in SUBSET Units, Cardinality(S) <= MaxLines
    PROVE  [u \in Units |-> IF u \in S THEN 1 ELSE 0] \in Filled
<1> DEFINE ls == [u \in Units |-> IF u \in S THEN 1 ELSE 0]
<1>1. IsFiniteSet(S)
  BY FormAssumption, FS_Subset
<1>2. Points(ls) = S \X {1}
  BY FormAssumption DEF Points
<1>3. Cardinality(S \X {1}) = Cardinality(S)
  BY <1>1, Pairs
<1>4. ls \in [Units -> 0 .. MaxLines]
  BY FormAssumption
<1> HIDE DEF ls
<1>5. Count(ls) <= MaxLines
  BY <1>2, <1>3, LinesCounted
<1> QED BY <1>4, <1>5 DEF Filled, ls

\* A line fits where there are fewer than there may be.
LEMMA PlusFits ==
    ASSUME NEW u \in Units, lines \in Filled, Count(lines) < MaxLines
    PROVE  Plus(u) \in Filled
<1> DEFINE n == lines[u]
<1>0. lines \in [Units -> 0 .. MaxLines] /\ n \in 0 .. MaxLines
  BY DEF Filled
<1>1. n < MaxLines
  <2> DEFINE S == {u} \X (1 .. n)
  <2>1. S \subseteq Points(lines)
    BY <1>0, FormAssumption DEF Points
  <2>2. IsFiniteSet(1 .. n) /\ Cardinality(1 .. n) = n
    BY <1>0, FormAssumption, FS_Interval
  <2>3. Cardinality(S) = n
    BY <2>2, Pairs
  <2>4. n <= Count(lines)
    BY <2>1, <2>3, Fewer
  <2> QED BY <1>0, <2>4, LinesCounted, FormAssumption
<1>2. Points(Plus(u)) = Points(lines) \cup {<<u, n + 1>>}
  BY <1>0, <1>1, FormAssumption DEF Points, Plus
<1>3. Count(Plus(u)) <= Count(lines) + 1
  <2> DEFINE ls == Plus(u)  x == <<u, n + 1>>
  <2>1. IsFiniteSet(Points(lines)) /\ Count(lines) = Cardinality(Points(lines))
        /\ Count(lines) \in Nat
    BY LinesCounted
  <2>2. Count(ls) = Cardinality(Points(ls))
    BY LinesCounted
  <2> HIDE DEF ls, x
  <2>3. Cardinality(Points(lines) \cup {x}) <= Count(lines) + 1
    <3> DEFINE S == Points(lines)
    <3> HIDE DEF S
    <3>1. Cardinality(S \cup {x}) = IF x \in S THEN Cardinality(S) ELSE Cardinality(S) + 1
      BY <2>1, FS_AddElement DEF S
    <3>2. Cardinality(S) = Count(lines) /\ Count(lines) \in Nat
      BY <2>1 DEF S
    <3>3. Cardinality(S \cup {x}) <= Count(lines) + 1
      BY <3>1, <3>2
    <3> QED BY <3>3 DEF S
  <2> QED BY <1>2, <2>2, <2>3 DEF ls, x
<1>4. Plus(u) \in [Units -> 0 .. MaxLines]
  BY <1>0, <1>1, FormAssumption DEF Plus
<1> QED BY <1>3, <1>4, LinesCounted, FormAssumption DEF Filled

\* A form from which a line is removed fits as well.
LEMMA MinusFits ==
    ASSUME NEW u \in Units, lines \in Filled, lines[u] > 0
    PROVE  [lines EXCEPT ![u] = @ - 1] \in Filled
<1> DEFINE ls == [lines EXCEPT ![u] = @ - 1]
<1>1. lines \in [Units -> 0 .. MaxLines] /\ Count(lines) <= MaxLines
  BY DEF Filled
<1>2. ls \in [Units -> 0 .. MaxLines]
  BY <1>1, FormAssumption
<1>3. Points(ls) \subseteq Points(lines)
  BY <1>1, FormAssumption DEF Points
<1> HIDE DEF ls
<1>4. Count(ls) <= Count(lines)
  BY <1>3, LinesCounted, Fewer
<1> QED BY <1>1, <1>2, <1>4, LinesCounted, FormAssumption DEF Filled, ls

-----------------------------------------------------------------------------
(* The types of the form                                                   *)

Working == [phase : {"checking", "asking", "sent"}, of : {NoOrder}, inEdit : BOOLEAN,
            lines : Filled, coupon : Nat, pay : Rows, asked : Nat]
Changing == [phase : {"sent"}, of : Orders, inEdit : {TRUE}, lines : Filled]
Answers == [phase : {"created", "updated"}, of : Orders]
           \cup [phase : {"refused"}, of : {NoOrder}]

OrdersFit ==
    /\ orders \in [DOMAIN orders -> [units : SUBSET Units, status : {"pending", "completed"}]]
    /\ DOMAIN orders \subseteq Orders
    /\ \A o \in DOMAIN orders : Cardinality(orders[o].units) <= MaxLines
ViewFits ==
    /\ sel = NoOrder \/ (sel.id \in DOMAIN orders /\ sel.status \in {"pending", "completed"})
    /\ creating \in BOOLEAN /\ editing \in BOOLEAN /\ step \in 0 .. 1

\* A timer runs on the form of a new order that has lines.  What is entered
\* exceeds the total by no more than the total can fall.
FormFits ==
    /\ lines \in Filled
    /\ code \in BOOLEAN /\ coupon \in {Off} \cup 0 .. MaxLines
    /\ timer \in BOOLEAN /\ (timer => creating /\ Count(lines) > 0)
    /\ pay \in Rows /\ prev \in 0 .. Price * MaxLines
    /\ Entered(pay) <= prev + Price * MaxLines
RequestsFit ==
    /\ checks \subseteq [n : 1 .. MaxLines, apply : BOOLEAN]
    /\ scan \in Units \cup {NoUnit}
SaveFits ==
    /\ save \in {NoSave} \cup Working \cup Changing \cup Answers
    /\ save.phase # "idle" => save.of \in DOMAIN orders \cup {NoOrder}

FormIInv == OrdersFit /\ ViewFits /\ FormFits /\ RequestsFit /\ SaveFits

\* A total is no more than the price of all the lines there may be.
LEMMA TotalFits ==
    ASSUME NEW ls \in Filled, NEW cp \in {Off} \cup 0 .. MaxLines
    PROVE  Total(ls, cp) \in 0 .. Price * MaxLines
<1>1. Count(ls) \in 0 .. MaxLines
  BY LinesCounted, FormAssumption DEF Filled
<1> QED BY <1>1, FormAssumption DEF Total, Discount, UpTo0, Price, Off

\* A render keeps the rows within reach of the total.
LEMMA RenderedFits ==
    ASSUME FormFits, creating', NEW ls \in Filled, NEW cp \in {Off} \cup 0 .. MaxLines,
           NEW cd \in BOOLEAN, NEW p \in Rows, Entered(p) <= prev + Price * MaxLines,
           Rendered(ls, cp, cd, p), creating
    PROVE  FormFits'
<1> DEFINE t == Total(ls, cp)  m == Price * MaxLines
<1>1. t \in 0 .. m /\ m \in Nat /\ m >= Price
  BY TotalFits, FormAssumption DEF Price
<1>2. /\ lines' = ls /\ code' = cd /\ prev' = t
      /\ coupon' \in {Off} \cup 0 .. MaxLines
  BY DEF Rendered
<1>3. timer' \in BOOLEAN /\ (timer' => Count(ls) > 0)
  BY DEF Rendered, FormFits
<1>4. pay' = [p EXCEPT !.cash = UpTo0(p.cash + t - prev)]
  BY DEF Rendered
<1> HIDE DEF t, m
<1>5. /\ p.cash \in Nat /\ p.credit \in {None, Price} /\ prev \in Nat
      /\ Entered(p) <= prev + m
  BY FormAssumption DEF Rows, FormFits, m, Price
<1>6. pay' \in Rows /\ pay'.cash = UpTo0(p.cash + t - prev) /\ pay'.credit = p.credit
  BY <1>1, <1>4, <1>5 DEF Rows, UpTo0
<1>7. Entered(pay)' <= t + m
  BY <1>1, <1>5, <1>6 DEF Entered, UpTo0, None, Price
<1>8. Count(lines)' = Count(ls)
  BY <1>2 DEF Count
<1> QED BY <1>1, <1>2, <1>3, <1>6, <1>7, <1>8 DEF FormFits, m, Price

\* The form that is forgotten fits.
LEMMA EmptiedFits == ASSUME Emptied PROVE FormFits'
<1>1. lines' \in Filled /\ ~timer' /\ prev' \in 0 .. Price * MaxLines
  BY NoLines, FormAssumption DEF Emptied, Price
<1>2. NoRows \in Rows /\ Entered(NoRows) = 0
  BY DEF NoRows, Rows, Entered, UpTo0, None, Price
<1>3. Entered(pay)' = 0 /\ pay' \in Rows
  BY <1>2 DEF Entered, Emptied
<1>4. Entered(pay)' <= prev' + Price * MaxLines
  BY <1>3, FormAssumption DEF Emptied, Price
<1>5. code' \in BOOLEAN /\ coupon' \in {Off} /\ timer' \in BOOLEAN
  BY DEF Emptied
<1> QED BY <1>1, <1>3, <1>4, <1>5 DEF FormFits

\* Lines that fit are shown on a form that fits, of a new order or not.
LEMMA WithLinesFits ==
    ASSUME FormFits, creating' = creating, NEW ls \in Filled, WithLines(ls)
    PROVE  FormFits'
<1>1. CASE creating
  <2>1. Rendered(ls, coupon, code, pay)
    BY <1>1 DEF WithLines
  <2> QED BY <1>1, <2>1, RenderedFits DEF FormFits
<1>2. CASE ~creating
  <2>1. lines' = ls /\ UNCHANGED <<code, coupon, timer, pay, prev>> /\ timer = FALSE
    BY <1>2 DEF WithLines, FormFits
  <2> QED BY <2>1 DEF FormFits, Entered
<1> QED BY <1>1, <1>2

-----------------------------------------------------------------------------
(* Every step keeps the types                                              *)

\* Which handlers change what is open, and what is on the form.
LEMMA ViewOnly ==
    ASSUME FormNext
    PROVE  \/ UNCHANGED view
           \/ New \/ Edit \/ Cancel \/ Back \/ NextStep \/ PreviousStep \/ Created \/ Updated
           \/ \E o \in Orders : OpenRow(o)
BY DEF FormNext, User, ApplyCoupon, ClearCoupon, RemoveCredit, SetCash, Save, AddManual,
       Scan, RemoveLine, SetCredit, TimerFires, CreditAnswered, WarningAnswered, Failed,
       ServeUpdate, Refuse, Scanned, Checked, ServeCreate

LEMMA FillingOnly ==
    ASSUME FormNext
    PROVE  \/ UNCHANGED <<view, form>>
           \/ New \/ Edit \/ Cancel \/ Back \/ NextStep \/ Created \/ Updated
           \/ UNCHANGED form /\ (PreviousStep \/ \E o \in Orders : OpenRow(o))
           \/ ApplyCoupon \/ ClearCoupon \/ RemoveCredit \/ SetCash \/ TimerFires
           \/ (\E u \in Units : AddManual(u) \/ RemoveLine(u))
           \/ (\E x \in {Price} : SetCredit(x))
           \/ \E b \in BOOLEAN : Scanned(b) \/ \E c \in checks : Checked(c, b)
BY DEF FormNext, User, Save, Scan, CreditAnswered, WarningAnswered, Failed, ServeUpdate,
       Refuse, ServeCreate, PreviousStep, OpenRow

LEMMA RequestsOnly ==
    ASSUME FormNext
    PROVE  \/ UNCHANGED <<checks, scan>>
           \/ ApplyCoupon \/ TimerFires \/ (\E u \in Units : Scan(u))
           \/ \E b \in BOOLEAN : Scanned(b) \/ \E c \in checks : Checked(c, b)
BY DEF FormNext, User, New, Edit, Cancel, Back, NextStep, PreviousStep, OpenRow, AddManual,
       RemoveLine, SetCredit, ClearCoupon, RemoveCredit, SetCash, Save, CreditAnswered,
       WarningAnswered, Created, Updated, Failed, ServeUpdate, Refuse, ServeCreate

\* What a save is in each of its phases.
LEMMA Phased ==
    ASSUME SaveFits
    PROVE  /\ save.phase \in {"checking", "asking"} => save \in Working
           /\ save.phase = "sent" => save \in Working \cup Changing
           /\ save.phase \in {"created", "updated"} => save \in Answers
<1>1. CASE save = NoSave
  BY <1>1 DEF NoSave
<1>2. CASE save \in Working
  <2>1. save.phase \in {"checking", "asking", "sent"}
    BY <1>2 DEF Working
  <2> QED BY <1>2, <2>1
<1>3. CASE save \in Changing
  <2>1. save.phase = "sent"
    BY <1>3 DEF Changing
  <2> QED BY <1>3, <2>1
<1>4. CASE save \in Answers
  <2>1. save.phase \in {"created", "updated", "refused"}
    BY <1>4 DEF Answers
  <2> QED BY <1>4, <2>1
<1> QED BY <1>1, <1>2, <1>3, <1>4 DEF SaveFits

\* The server's orders: none goes away, and none has more units than a form.
LEMMA OrdersStep ==
    ASSUME OrdersFit, SaveFits, FormNext
    PROVE  OrdersFit' /\ DOMAIN orders \subseteq DOMAIN orders'
<1>1. CASE UNCHANGED orders
  BY <1>1 DEF OrdersFit
<1>2. ASSUME save.phase = "sent"
      PROVE  /\ save \in Working \cup Changing
             /\ UnitsOf(save.lines) \in SUBSET Units
             /\ Cardinality(UnitsOf(save.lines)) <= MaxLines
  <2>1. save \in Working \cup Changing
    BY <1>2, Phased
  <2>2. save.lines \in Filled
    BY <2>1 DEF Working, Changing
  <2>3. save.lines \in [Units -> 0 .. MaxLines] /\ Count(save.lines) <= MaxLines
    BY <2>2 DEF Filled
  <2>4. Cardinality(UnitsOf(save.lines)) \in Nat
    BY FormAssumption, FS_Subset, FS_CardinalityType DEF UnitsOf
  <2> QED BY <2>1, <2>3, <2>4, UnitsCounted, LinesCounted, FormAssumption DEF UnitsOf
<1>3. ASSUME NEW o \in Orders, ServeCreate(o)
      PROVE  OrdersFit' /\ DOMAIN orders \subseteq DOMAIN orders'
  <2> DEFINE new == [units |-> UnitsOf(save.lines),
                     status |-> IF save.pay.credit > 0 THEN "pending" ELSE "completed"]
  <2>1. /\ new \in [units : SUBSET Units, status : {"pending", "completed"}]
        /\ Cardinality(new.units) <= MaxLines
    BY <1>2, <1>3 DEF ServeCreate
  <2>2. orders' = [p \in DOMAIN orders \cup {o} |-> IF p # o THEN orders[p] ELSE new]
    BY <1>3 DEF ServeCreate
  <2> HIDE DEF new
  <2>3. /\ DOMAIN orders' = DOMAIN orders \cup {o} /\ orders'[o] = new
        /\ \A p \in DOMAIN orders : p # o => orders'[p] = orders[p]
    BY <2>2
  <2> QED BY <2>1, <2>2, <2>3 DEF OrdersFit
<1>4. CASE ServeUpdate
  <2> DEFINE o == save.of  us == UnitsOf(save.lines)
  <2>1. o \in DOMAIN orders /\ us \in SUBSET Units /\ Cardinality(us) <= MaxLines
    BY <1>2, <1>4 DEF ServeUpdate, SaveFits
  <2>2. orders' = [orders EXCEPT ![o] = [orders[o] EXCEPT !.units = us]]
    BY <1>4 DEF ServeUpdate
  <2> HIDE DEF o, us
  <2>3. /\ [orders[o] EXCEPT !.units = us] \in
               [units : SUBSET Units, status : {"pending", "completed"}]
        /\ [orders[o] EXCEPT !.units = us].units = us
    BY <2>1 DEF OrdersFit
  <2>4. /\ DOMAIN orders' = DOMAIN orders
        /\ orders'[o] = [orders[o] EXCEPT !.units = us]
        /\ \A p \in DOMAIN orders : p # o => orders'[p] = orders[p]
    BY <2>1, <2>2 DEF OrdersFit
  <2> QED BY <2>1, <2>2, <2>3, <2>4 DEF OrdersFit
<1>5. Save \/ CreditAnswered \/ WarningAnswered => UNCHANGED orders
  BY DEF Save, CreditAnswered, WarningAnswered
<1> QED BY <1>1, <1>3, <1>4, <1>5, FormOnly

\* What is open is one of the server's orders.
LEMMA ViewStep ==
    ASSUME FormIInv, FormNext, DOMAIN orders \subseteq DOMAIN orders'
    PROVE  ViewFits'
<1>1. CASE UNCHANGED view
  BY <1>1 DEF FormIInv, ViewFits, view
<1>2. CASE New \/ Edit \/ Cancel \/ Back \/ NextStep \/ PreviousStep
  <2>1. UNCHANGED orders /\ sel' \in {NoOrder, sel}
    BY <1>2 DEF New, Edit, Cancel, Back, NextStep, PreviousStep
  <2>2. step' \in 0 .. 1
    <3>1. step \in 0 .. 1 /\ step' \in {0, 1, step}
      BY <1>2 DEF New, Edit, Cancel, Back, NextStep, PreviousStep, FormIInv, ViewFits
    <3> QED BY <3>1
  <2>3. creating' \in BOOLEAN
    BY <1>2 DEF New, Edit, Cancel, Back, NextStep, PreviousStep, FormIInv, ViewFits
  <2>4. editing' \in BOOLEAN
    BY <1>2 DEF New, Edit, Cancel, Back, NextStep, PreviousStep, FormIInv, ViewFits
  <2> QED BY <2>1, <2>2, <2>3, <2>4 DEF FormIInv, ViewFits
<1>3. ASSUME NEW o \in Orders, OpenRow(o) PROVE ViewFits'
  <2>1. orders[o].status \in {"pending", "completed"}
    BY <1>3 DEF FormIInv, OrdersFit, OpenRow
  <2> QED BY <1>3, <2>1 DEF FormIInv, ViewFits, OpenRow
<1>4. CASE Created \/ Updated
  <2>1. /\ save.phase \in {"created", "updated"} /\ Opened(save.of)
        /\ UNCHANGED orders /\ step' = 0
        /\ creating' \in BOOLEAN /\ editing' \in BOOLEAN
    BY <1>4 DEF Created, Updated
  <2>2. save.of \in DOMAIN orders
    <3>1. save \in Answers
      BY <2>1, Phased DEF FormIInv
    <3>2. save.of # NoOrder
      BY <2>1, <3>1, FormAssumption DEF Answers
    <3> QED BY <2>1, <3>2 DEF FormIInv, SaveFits
  <2>3. orders[save.of].status \in {"pending", "completed"}
    BY <2>2 DEF FormIInv, OrdersFit
  <2> QED BY <2>1, <2>2, <2>3 DEF ViewFits, Opened
<1> QED BY <1>1, <1>2, <1>3, <1>4, ViewOnly

\* The form fits after whatever its handlers, timers and answers do to it.
LEMMA FormStep ==
    ASSUME FormIInv, FormNext
    PROVE  FormFits'
<1> DEFINE m == Price * MaxLines
<1>1. /\ FormFits /\ lines \in Filled /\ pay \in Rows /\ prev \in 0 .. m
      /\ m \in Nat /\ m >= Price /\ code \in BOOLEAN /\ Entered(pay) <= prev + m
      /\ coupon \in {Off} \cup 0 .. MaxLines /\ Total(lines, coupon) \in 0 .. m
  BY FormAssumption, TotalFits DEF FormIInv, FormFits, Price
<1>2. CASE UNCHANGED <<view, form>>
  BY <1>1, <1>2 DEF view, form, FormFits, Entered, Count
<1>3. CASE New \/ Cancel \/ Created \/ Updated
  BY <1>3, EmptiedFits DEF New, Cancel, Created, Updated
<1>4. CASE UNCHANGED form /\ (PreviousStep \/ \E o \in Orders : OpenRow(o))
  <2>1. timer => creating' = creating
    BY <1>1, <1>4 DEF PreviousStep, OpenRow, TableShown, FormFits
  <2> QED BY <1>1, <1>4, <2>1 DEF form, FormFits, Entered, Count
<1>5. CASE Edit
  <2> DEFINE S == orders[sel.id].units
  <2>1. sel.id \in DOMAIN orders
    BY <1>5 DEF Edit, FormIInv, ViewFits
  <2>2. S \in SUBSET Units /\ Cardinality(S) <= MaxLines
    BY <2>1 DEF FormIInv, OrdersFit
  <2>3. [u \in Units |-> IF u \in S THEN 1 ELSE 0] \in Filled
    BY <2>2, EditedFits
  <2> QED BY <1>1, <1>5, <2>3, WithLinesFits DEF Edit
<1>6. CASE Back
  <2>1. CASE creating
    BY <1>6, <2>1, EmptiedFits DEF Back
  <2>2. CASE ~creating
    <3>1. UNCHANGED form /\ timer = FALSE
      BY <1>1, <1>6, <2>2 DEF Back, FormFits
    <3> QED BY <1>1, <3>1 DEF form, FormFits, Entered
  <2> QED BY <2>1, <2>2
<1>7. CASE NextStep
  <2>1. CASE creating
    <3> DEFINE p == [NoRows EXCEPT !.cash = Total(lines, coupon)]
    <3>1. p \in Rows /\ Entered(p) = Total(lines, coupon)
      BY <1>1 DEF NoRows, Rows, Entered, UpTo0, None, Price
    <3>2. Rendered(lines, coupon, code, p) /\ creating' = creating
      BY <1>7, <2>1 DEF NextStep
    <3> HIDE DEF p, m
    <3>3. Entered(p) <= prev + m
      BY <1>1, <3>1
    <3> QED BY <1>1, <2>1, <3>1, <3>2, <3>3, RenderedFits DEF m
  <2>2. CASE ~creating
    <3>1. UNCHANGED form /\ creating' = creating
      BY <1>7, <2>2 DEF NextStep
    <3> QED BY <1>1, <3>1 DEF form, FormFits, Entered, Count
  <2> QED BY <2>1, <2>2
<1>8. ASSUME NEW u \in Units, AddManual(u) \/ RemoveLine(u) PROVE FormFits'
  <2>1. AddManual(u) => Plus(u) \in Filled
    BY <1>1, PlusFits DEF AddManual
  <2>2. RemoveLine(u) => [lines EXCEPT ![u] = @ - 1] \in Filled
    BY <1>1, MinusFits DEF RemoveLine
  <2>3. creating' = creating
    BY <1>8 DEF AddManual, RemoveLine, view
  <2>4. \E ls \in Filled : WithLines(ls)
    BY <1>8, <2>1, <2>2 DEF AddManual, RemoveLine
  <2> QED BY <1>1, <2>3, <2>4, WithLinesFits
<1>9. ASSUME NEW b \in BOOLEAN, Scanned(b) PROVE FormFits'
  <2>1. creating' = creating
    BY <1>9 DEF Scanned, view
  <2>2. CASE b /\ (creating \/ editing)
    <3>1. Plus(scan) \in Filled
      BY <1>1, <1>9, <2>2, PlusFits DEF Scanned, FormIInv, RequestsFit
    <3> QED BY <1>1, <1>9, <2>1, <2>2, <3>1, WithLinesFits DEF Scanned
  <2>3. CASE ~(b /\ (creating \/ editing))
    <3>1. UNCHANGED form
      BY <1>9, <2>3 DEF Scanned
    <3> QED BY <1>1, <2>1, <3>1 DEF form, FormFits, Entered, Count
  <2> QED BY <2>2, <2>3
<1>10. CASE ApplyCoupon \/ ClearCoupon \/ TimerFires
  <2>1. /\ UNCHANGED <<creating, lines, pay, prev>>
        /\ code' \in {code, TRUE, FALSE} /\ timer' \in {FALSE, timer /\ code}
        /\ coupon' \in {coupon, Off}
    BY <1>10 DEF ApplyCoupon, ClearCoupon, TimerFires, view
  <2>2. code' \in BOOLEAN /\ timer' \in BOOLEAN /\ (timer' => timer)
    BY <1>1, <2>1 DEF FormFits
  <2> QED BY <1>1, <2>1, <2>2 DEF FormFits, Entered, Count
<1>11. ASSUME NEW b \in BOOLEAN, NEW c \in checks, Checked(c, b) PROVE FormFits'
  <2>1. UNCHANGED <<creating, lines, code, timer, pay, prev>> /\ coupon' \in {c.n, Off}
    BY <1>11 DEF Checked, view
  <2>2. c.n \in 0 .. MaxLines
    BY FormAssumption DEF FormIInv, RequestsFit
  <2> QED BY <1>1, <2>1, <2>2 DEF FormFits, Entered, Count
<1>12. ASSUME NEW p, p \in Rows, Entered(p) <= prev + m, creating, creating' = creating,
              Rendered(lines, coupon, code, p)
       PROVE  FormFits'
  BY <1>1, <1>12, RenderedFits
<1>13. pay.cash \in Nat /\ pay.credit \in {None, Price}
  BY <1>1 DEF Rows
<1>14. CASE SetCredit(Price)
  <2> DEFINE p == [cash |-> UpTo0(pay.cash - Price), credit |-> Price]
  <2>1. /\ Rendered(lines, coupon, code, p) /\ creating /\ creating' = creating
        /\ pay.credit = None /\ Price <= pay.cash
    BY <1>14 DEF SetCredit, Paying, view
  <2>2. p \in Rows /\ Entered(p) = Entered(pay)
    BY <1>13, <2>1 DEF Rows, Entered, UpTo0, None, Price
  <2> HIDE DEF p
  <2> QED BY <1>1, <1>12, <2>1, <2>2
<1>15. CASE RemoveCredit
  <2> DEFINE p == [cash |-> Entered(pay), credit |-> None]
  <2>1. Rendered(lines, coupon, code, p) /\ creating /\ creating' = creating
    BY <1>15 DEF RemoveCredit, Paying, view
  <2>2. p \in Rows /\ Entered(p) = Entered(pay)
    BY <1>13 DEF Rows, Entered, UpTo0, None, Price
  <2> HIDE DEF p
  <2> QED BY <1>1, <1>12, <2>1, <2>2
<1>16. CASE SetCash
  <2> DEFINE t == Total(lines, coupon)
             p == [pay EXCEPT !.cash = UpTo0(t - UpTo0(pay.credit))]
  <2>1. Rendered(lines, coupon, code, p) /\ creating /\ creating' = creating
    BY <1>16 DEF SetCash, Paying, view
  <2>2. p \in Rows /\ p.cash = UpTo0(t - UpTo0(pay.credit)) /\ p.credit = pay.credit
    BY <1>1, <1>13 DEF Rows, UpTo0, Price, None
  <2> HIDE DEF p, t, m
  <2>3. t \in 0 .. m
    BY <1>1 DEF t
  <2>4. Entered(p) <= prev + m
    BY <1>1, <1>13, <2>2, <2>3 DEF Entered, UpTo0, None, Price
  <2> QED BY <1>12, <2>1, <2>2, <2>4
<1> QED BY <1>2, <1>3, <1>4, <1>5, <1>6, <1>7, <1>8, <1>9, <1>10, <1>11, <1>14, <1>15, <1>16,
           FillingOnly

\* A check is asked about lines there are, and a scan about a unit.
LEMMA RequestsStep ==
    ASSUME FormIInv, FormNext
    PROVE  RequestsFit'
<1>1. checks \subseteq [n : 1 .. MaxLines, apply : BOOLEAN] /\ scan \in Units \cup {NoUnit}
  BY DEF FormIInv, RequestsFit
<1>2. CASE UNCHANGED <<checks, scan>>
  BY <1>1, <1>2 DEF RequestsFit
<1>3. CASE ApplyCoupon \/ TimerFires
  <2>1. Count(lines) > 0
    BY <1>3 DEF ApplyCoupon, TimerFires, Paying, FormIInv, FormFits
  <2>2. Count(lines) \in 1 .. MaxLines
    BY <2>1, LinesCounted, FormAssumption DEF FormIInv, FormFits, Filled
  <2>3. PICK b \in BOOLEAN : Ask(b) /\ UNCHANGED scan
    BY <1>3 DEF ApplyCoupon, TimerFires
  <2> QED BY <1>1, <2>2, <2>3 DEF Ask, RequestsFit
<1>4. (\E u \in Units : Scan(u)) => RequestsFit'
  BY <1>1 DEF Scan, RequestsFit
<1>5. (\E b \in BOOLEAN : Scanned(b)) => RequestsFit'
  BY <1>1 DEF Scanned, RequestsFit
<1>6. (\E b \in BOOLEAN : \E c \in checks : Checked(c, b)) => RequestsFit'
  BY <1>1 DEF Checked, RequestsFit
<1> QED BY <1>2, <1>3, <1>4, <1>5, <1>6, RequestsOnly

\* What is sent is a form that fits, of no order or of one there is.
LEMMA SaveStep ==
    ASSUME FormIInv, FormNext, DOMAIN orders \subseteq DOMAIN orders'
    PROVE  SaveFits'
<1>1. SaveFits /\ FormFits /\ ViewFits /\ DOMAIN orders \subseteq Orders
  BY DEF FormIInv, OrdersFit
<1>2. CASE UNCHANGED save
  BY <1>1, <1>2 DEF SaveFits
<1>3. CASE save' = NoSave \/ save' = [phase |-> "refused", of |-> NoOrder]
  BY <1>3 DEF SaveFits, NoSave, Answers
<1>4. CASE Save
  <2>1. CASE editing /\ sel # NoOrder
    <3>1. save' = [phase |-> "sent", of |-> sel.id, inEdit |-> TRUE, lines |-> lines]
      BY <1>4, <2>1 DEF Save
    <3>2. sel.id \in DOMAIN orders /\ lines \in Filled
      BY <1>1, <2>1 DEF ViewFits, FormFits
    <3>3. save' \in Changing /\ save'.of = sel.id
      BY <1>1, <3>1, <3>2 DEF Changing
    <3> QED BY <3>2, <3>3 DEF SaveFits
  <2>2. CASE ~(editing /\ sel # NoOrder)
    <3>1. PICK phase \in {"checking", "sent"} : save' = Snapshot(phase)
      BY <1>4, <2>2 DEF Save
    <3> DEFINE asked == IF phase = "checking" THEN CreditAsked(lines, coupon, pay) ELSE 0
    <3>2. /\ Discount(coupon) \in Nat /\ lines \in Filled /\ pay \in Rows
          /\ Total(lines, coupon) \in Nat /\ editing \in BOOLEAN
      BY <1>1, TotalFits, FormAssumption DEF FormFits, ViewFits, Discount, UpTo0, Off, Price
    <3>3. asked \in Nat
      BY <3>2 DEF CreditAsked, Rows, None, Price
    <3>4. save' = [phase |-> phase, of |-> NoOrder, inEdit |-> editing, lines |-> lines,
                   coupon |-> Discount(coupon), pay |-> pay, asked |-> asked]
      BY <3>1 DEF Snapshot
    <3> HIDE DEF asked
    <3>5. save' \in Working /\ save'.of = NoOrder
      BY <3>2, <3>3, <3>4 DEF Working
    <3> QED BY <3>5 DEF SaveFits
  <2> QED BY <2>1, <2>2
<1>5. CASE CreditAnswered \/ WarningAnswered
  <2>1. save.phase \in {"checking", "asking"}
    BY <1>5 DEF CreditAnswered, WarningAnswered
  <2>2. save \in Working
    BY <1>1, <2>1, Phased
  <2>3. ASSUME NEW phase \in {"sent", "asking"}, save' = [save EXCEPT !.phase = phase]
        PROVE  SaveFits'
    <3>1. save' \in Working /\ save'.of = NoOrder
      BY <2>2, <2>3 DEF Working
    <3> QED BY <3>1 DEF SaveFits
  <2> QED BY <1>3, <1>5, <2>3 DEF CreditAnswered, WarningAnswered, AsClicked
<1>6. ASSUME NEW o \in Orders, ServeCreate(o) PROVE SaveFits'
  <2>1. save' = [phase |-> "created", of |-> o] /\ o \in DOMAIN orders'
    BY <1>6 DEF ServeCreate
  <2> QED BY <2>1 DEF SaveFits, Answers
<1>7. CASE ServeUpdate
  <2>1. save' = [phase |-> "updated", of |-> save.of] /\ save.phase = "sent" /\ save.of # NoOrder
    BY <1>7 DEF ServeUpdate
  <2>2. save.of \in DOMAIN orders
    BY <1>1, <2>1 DEF SaveFits
  <2> QED BY <1>1, <2>1, <2>2 DEF SaveFits, Answers
<1> QED BY <1>2, <1>3, <1>4, <1>5, <1>6, <1>7, FormOnly

\* For any finite set of units and any number of lines and checks: lines, coupon
\* and payment rows of the form stay in their bounds, and the row that is open and
\* the order of a save exist, whatever happens between a request and its answer.
THEOREM FormTypeCorrect == FormSpec => []FormTypeOK
<1>1. FormInit => FormIInv
  <2> SUFFICES ASSUME FormInit PROVE FormIInv
    OBVIOUS
  <2>1. OrdersFit
    BY FormAssumption DEF FormInit, OrdersFit
  <2>2. ViewFits
    <3>1. creating \in BOOLEAN /\ editing \in BOOLEAN
      BY DEF FormInit
    <3>2. sel = NoOrder /\ step \in 0 .. 1
      BY DEF FormInit
    <3> QED BY <3>1, <3>2 DEF ViewFits
  <2>3. RequestsFit
    BY DEF FormInit, RequestsFit
  <2>4. FormFits
    <3>1. lines \in Filled /\ pay \in Rows /\ Entered(pay) = 0 /\ prev = 0
      BY NoLines DEF FormInit, Rows, Entered, UpTo0, None, Price
    <3>2. Price * MaxLines \in Nat
      BY FormAssumption DEF Price
    <3>3. prev \in 0 .. Price * MaxLines /\ Entered(pay) <= prev + Price * MaxLines
      BY <3>1, <3>2
    <3>4. code \in BOOLEAN /\ coupon \in {Off} \cup 0 .. MaxLines /\ timer = FALSE
      BY DEF FormInit
    <3> QED BY <3>1, <3>3, <3>4 DEF FormFits
  <2>5. SaveFits
    BY DEF FormInit, SaveFits, NoSave
  <2> QED BY <2>1, <2>2, <2>3, <2>4, <2>5 DEF FormIInv
<1>2. FormIInv /\ [FormNext]_formVars => FormIInv'
  <2> SUFFICES ASSUME FormIInv, [FormNext]_formVars PROVE FormIInv'
    OBVIOUS
  <2>1. CASE FormNext
    <3>1. OrdersFit' /\ DOMAIN orders \subseteq DOMAIN orders'
      BY <2>1, OrdersStep DEF FormIInv
    <3> QED BY <2>1, <3>1, ViewStep, FormStep, RequestsStep, SaveStep DEF FormIInv
  <2>2. CASE UNCHANGED formVars
    BY <2>2 DEF formVars, view, form, FormIInv, OrdersFit, ViewFits, FormFits, RequestsFit,
                SaveFits, Entered, Count
  <2> QED BY <2>1, <2>2
<1>3. FormIInv => FormTypeOK
  <2> SUFFICES ASSUME FormIInv PROVE FormTypeOK
    OBVIOUS
  <2>1. /\ DOMAIN orders \subseteq Orders
        /\ \A o \in DOMAIN orders :
             orders[o].units \subseteq Units /\ orders[o].status \in {"pending", "completed"}
    BY DEF FormIInv, OrdersFit
  <2>2. pay.cash \in Amounts /\ pay.credit \in {None} \cup Amounts /\ prev \in Amounts
    BY FormAssumption DEF FormIInv, FormFits, Rows, Entered, UpTo0, Amounts, None, Price
  <2>3. lines \in [Units -> 0 .. MaxLines] /\ Count(lines) <= MaxLines
    BY DEF FormIInv, FormFits, Filled
  <2>4. save = NoSave \/ (save.phase \in Phases /\ save.of \in DOMAIN orders \cup {NoOrder})
    BY DEF FormIInv, SaveFits, Working, Changing, Answers, Phases
  <2> QED BY <2>1, <2>2, <2>3, <2>4 DEF FormIInv, ViewFits, FormFits, RequestsFit, FormTypeOK
<1> QED BY <1>1, <1>2, <1>3, PTL DEF FormSpec

-----------------------------------------------------------------------------
(* The chat assistant                                                      *)

Ats == {"sent", "failed", "ran", "executed", "rejected", "killed"}
Call == [want : {"approve", "reject"}, at : Ats, heard : {"no", "yes", "never"}]
Frame == [type : {"meta"}, conv : Conversations]
         \cup [type : {"pending_action"}, action : Actions]
Lines == Messages \cup {"old", "info"}
On(cs) == {a \in Actions : cs[a] # "none"}

(* The types, of the page and of the server with its calls.                *)
ClientShape ==
    /\ open \in BOOLEAN /\ pointer \in Conversations /\ hydratedRef \in Conversations
    /\ entries \subseteq Lines /\ IsFiniteSet(entries)
    /\ cards \in [Actions -> Statuses \cup {"none"}] /\ IsFiniteSet(On(cards))
    /\ reads \subseteq [conv : Conversations, live : BOOLEAN]
    /\ typed \subseteq Messages
ServerShape ==
    /\ status \in [Actions -> Statuses \cup {"none"}] /\ done \in [Actions -> Nat]
    /\ calls \in [Actions -> Seq(Call)] /\ \A a \in Actions : Len(calls[a]) <= MaxClicks
    /\ stream \in Messages \cup {Idle} /\ frames \in Seq(Frame)
    /\ convs \subseteq Conversations
Shape == ClientShape /\ ServerShape

(* A transcript load that still counts was asked for by an empty chat.     *)
LiveEmpty == \A r \in reads : r.live => Shown(entries, cards) = 0

-----------------------------------------------------------------------------
(* The page                                                                *)

\* Nothing is shown where the count is zero.
LEMMA NothingShown ==
    ASSUME NEW es, NEW cs, IsFiniteSet(es), IsFiniteSet(On(cs))
    PROVE  /\ Shown(es, cs) \in Nat
           /\ Shown(es, cs) = 0 => es = {} /\ On(cs) = {}
<1>1. Cardinality(es) \in Nat /\ Cardinality(On(cs)) \in Nat
  BY FS_CardinalityType
<1>2. (Cardinality(es) = 0 => es = {}) /\ (Cardinality(On(cs)) = 0 => On(cs) = {})
  BY FS_EmptySet
<1>3. Shown(es, cs) = Cardinality(es) + Cardinality(On(cs))
  BY DEF Shown, On
<1> QED BY <1>1, <1>2, <1>3

\* An update of the page that keeps types, whatever load it asks for.
LEMMA PageKeeps ==
    ASSUME ClientShape, LiveEmpty,
           NEW o \in BOOLEAN, NEW p \in Conversations, NEW es, NEW cs, NEW ref \in Conversations,
           NEW rs \in SUBSET reads,
           es \subseteq Lines, IsFiniteSet(es),
           cs \in [Actions -> Statuses \cup {"none"}], IsFiniteSet(On(cs)),
           typed' \subseteq Messages, typed' \subseteq es,
           Page(o, p, es, cs, ref, rs)
    PROVE  ClientShape' /\ LiveEmpty' /\ TranscriptKept'
<1> DEFINE changed == o # open \/ p # pointer \/ Shown(es, cs) # Shown(entries, cards)
           kept == IF changed THEN Cancelled(rs) ELSE rs
           asks == changed /\ o /\ p # {} /\ ref # p /\ Shown(es, cs) = 0
<1>1. /\ open' = o /\ pointer' = p /\ entries' = es /\ cards' = cs
      /\ hydratedRef' = IF asks THEN p ELSE ref
      /\ reads' = IF asks THEN kept \cup {[conv |-> p, live |-> TRUE]} ELSE kept
  BY DEF Page
<1>2. rs \subseteq [conv : Conversations, live : BOOLEAN]
  BY DEF ClientShape
<1>3. Cancelled(rs) \subseteq [conv : Conversations, live : {FALSE}]
  <2>1. ASSUME NEW r \in rs
        PROVE  [r EXCEPT !.live = FALSE] \in [conv : Conversations, live : {FALSE}]
    BY <1>2
  <2> QED BY <2>1 DEF Cancelled
<1>4. /\ kept \subseteq [conv : Conversations, live : BOOLEAN]
      /\ \A r \in kept : r.live => Shown(es, cs) = 0
  <2>1. CASE changed
    BY <1>3, <2>1
  <2>2. CASE ~changed
    <3>1. Shown(es, cs) = Shown(entries, cards)
      BY <2>2
    <3>2. kept = rs
      BY <2>2
    <3> QED BY <1>2, <3>1, <3>2 DEF LiveEmpty
  <2> QED BY <2>1, <2>2
<1>5. /\ reads' \subseteq [conv : Conversations, live : BOOLEAN]
      /\ \A r \in reads' : r.live => Shown(es, cs) = 0
  <2> HIDE DEF kept
  <2>1. CASE asks
    <3>1. reads' = kept \cup {[conv |-> p, live |-> TRUE]} /\ Shown(es, cs) = 0
      BY <1>1, <2>1
    <3>2. [conv |-> p, live |-> TRUE] \in [conv : Conversations, live : BOOLEAN]
      OBVIOUS
    <3>3. reads' \subseteq [conv : Conversations, live : BOOLEAN]
      BY <1>4, <3>1, <3>2
    <3> QED BY <1>4, <3>1, <3>3
  <2>2. CASE ~asks
    BY <1>1, <1>4, <2>2
  <2> QED BY <2>1, <2>2
<1>6. LiveEmpty'
  <2>1. Shown(es, cs) = Shown(entries', cards')
    BY <1>1
  <2> QED BY <1>5, <2>1 DEF LiveEmpty, Shown
<1> HIDE DEF changed, kept, asks
<1>7. hydratedRef' \in Conversations
  BY <1>1
<1>8. IsFiniteSet(entries') /\ IsFiniteSet(On(cards'))
  BY <1>1
<1> QED BY <1>1, <1>5, <1>6, <1>7, <1>8 DEF ClientShape, TranscriptKept, On

\* A card more, or fewer, and the cards shown stay finitely many.
LEMMA FewCards ==
    ASSUME NEW cs, NEW ds, IsFiniteSet(On(cs)), NEW a, On(ds) \subseteq On(cs) \cup {a}
    PROVE  IsFiniteSet(On(ds))
BY FS_AddElement, FS_Subset

LEMMA ClientStep ==
    ASSUME Shape, LiveEmpty, TranscriptKept, Next
    PROVE  ClientShape' /\ LiveEmpty' /\ TranscriptKept'
<1>a. /\ ClientShape /\ typed \subseteq Messages /\ typed \subseteq entries
      /\ open \in BOOLEAN /\ pointer \in Conversations /\ hydratedRef \in Conversations
      /\ entries \subseteq Lines /\ IsFiniteSet(entries)
      /\ cards \in [Actions -> Statuses \cup {"none"}] /\ IsFiniteSet(On(cards))
      /\ {} \in Conversations
  BY DEF Shape, ClientShape, TranscriptKept, Conversations
<1> DEFINE NoCards == [a \in Actions |-> "none"]
<1>b. NoCards \in [Actions -> Statuses \cup {"none"}] /\ IsFiniteSet(On(NoCards))
  <2>1. On(NoCards) = {}
    BY DEF On
  <2> QED BY <2>1, FS_EmptySet
<1>c. /\ IsFiniteSet({}) /\ IsFiniteSet({"old"})
      /\ \A m : IsFiniteSet(entries \cup {m})
  BY <1>a, FS_EmptySet, FS_Singleton, FS_AddElement
<1>d. {"old"} \subseteq Lines /\ entries \cup {"info"} \subseteq Lines
  BY <1>a DEF Lines
<1>1. CASE UNCHANGED <<open, pointer, entries, cards, hydratedRef, reads, typed>>
  BY <1>1, <1>a DEF ClientShape, LiveEmpty, TranscriptKept, Shown, On
<1>2. CASE SetOpen
  BY <1>2, <1>a, PageKeeps DEF SetOpen
<1>3. ASSUME NEW r \in reads, Hydrated(r) PROVE ClientShape' /\ LiveEmpty' /\ TranscriptKept'
  <2>1. reads \ {r} \in SUBSET reads /\ typed' = typed
    BY <1>3 DEF Hydrated
  <2>2. CASE r.live
    <3>1. typed = {}
      BY <1>a, <2>2, NothingShown DEF LiveEmpty
    <3>2. Page(open, pointer, {"old"}, NoCards, hydratedRef, reads \ {r})
      BY <1>3, <2>2 DEF Hydrated
    <3> QED BY <1>a, <1>b, <1>c, <1>d, <2>1, <3>1, <3>2, PageKeeps
  <2>3. CASE ~r.live
    <3>1. Page(open, pointer, entries, cards, hydratedRef, reads \ {r})
      BY <1>3, <2>3 DEF Hydrated
    <3> QED BY <1>a, <2>1, <3>1, PageKeeps
  <2> QED BY <2>2, <2>3
<1>4. ASSUME NEW r \in reads, HydrateFailed(r)
      PROVE  ClientShape' /\ LiveEmpty' /\ TranscriptKept'
  BY <1>4, <1>a, PageKeeps DEF HydrateFailed
<1>5. ASSUME NEW m \in Messages, HandleSend(m)
      PROVE  ClientShape' /\ LiveEmpty' /\ TranscriptKept'
  <2>1. entries \cup {m} \subseteq Lines /\ IsFiniteSet(entries \cup {m})
    BY <1>a, <1>c DEF Lines
  <2>2. typed' = typed \cup {m} /\ Page(open, pointer, entries \cup {m}, cards, hydratedRef, reads)
    BY <1>5 DEF HandleSend
  <2> QED BY <1>a, <2>1, <2>2, PageKeeps
<1>6. CASE OnEvent
  <2> DEFINE ev == Head(frames)
  <2>1. ev \in Frame /\ typed' = typed
    BY <1>6 DEF OnEvent, Shape, ServerShape
  <2> HIDE DEF ev
  <2>2. CASE ev.type = "meta"
    <3>1. ev.conv \in Conversations
      BY <2>1, <2>2 DEF Frame
    <3>2. Page(open, ev.conv, entries, cards, hydratedRef, reads)
      BY <1>6, <2>2 DEF OnEvent, ev
    <3> QED BY <1>a, <2>1, <3>1, <3>2, PageKeeps
  <2>3. CASE ev.type # "meta"
    <3> DEFINE cs == [cards EXCEPT ![ev.action] = "pending"]
    <3>1. cs \in [Actions -> Statuses \cup {"none"}] /\ On(cs) \subseteq On(cards) \cup {ev.action}
      BY <1>a DEF On, Statuses
    <3>2. Page(open, pointer, entries, cs, hydratedRef, reads)
      BY <1>6, <2>3 DEF OnEvent, ev
    <3> HIDE DEF cs
    <3>3. IsFiniteSet(On(cs))
      BY <1>a, <3>1, FewCards
    <3> QED BY <1>a, <2>1, <3>1, <3>2, <3>3, PageKeeps
  <2> QED BY <2>2, <2>3
<1>7. ASSUME NEW broken \in BOOLEAN, Finished(broken)
      PROVE  ClientShape' /\ LiveEmpty' /\ TranscriptKept'
  <2>1. typed' = typed
    BY <1>7 DEF Finished
  <2>2. PICK es \in {entries, entries \cup {"info"}} :
           Page(open, pointer, es, cards, hydratedRef, reads)
    BY <1>7 DEF Finished
  <2>3. es \subseteq Lines /\ IsFiniteSet(es) /\ typed \subseteq es
    BY <1>a, <1>c, <1>d
  <2> QED BY <1>a, <2>1, <2>2, <2>3, PageKeeps
<1>8. CASE HandleNewChat
  <2>1. typed' = {} /\ Page(open, {}, {}, NoCards, {}, reads)
    BY <1>8 DEF HandleNewChat
  <2> QED BY <1>a, <1>b, <1>c, <2>1, PageKeeps
<1>9. CASE Reload
  <2>1. /\ open' = FALSE /\ entries' = {} /\ cards' = NoCards /\ hydratedRef' = {}
        /\ reads' = {} /\ typed' = {} /\ pointer' = pointer
    BY <1>9 DEF Reload
  <2> HIDE DEF NoCards
  <2> QED BY <1>a, <1>b, <1>c, <2>1 DEF ClientShape, LiveEmpty, TranscriptKept, On
<1>10. ASSUME NEW a \in Actions, NEW i \in 1 .. MaxClicks, NEW end \in {"executed", "rejected", "failed"},
              Answered(a, i, end)
       PROVE  ClientShape' /\ LiveEmpty' /\ TranscriptKept'
  <2> DEFINE cs == [cards EXCEPT ![a] = IF @ = "none" THEN @ ELSE end]
  <2>1. cs \in [Actions -> Statuses \cup {"none"}] /\ On(cs) \subseteq On(cards) \cup {a}
    BY <1>a DEF On, Statuses
  <2>2. typed' = typed /\ Page(open, pointer, entries \cup {"info"}, cs, hydratedRef, reads)
    BY <1>10 DEF Answered
  <2> HIDE DEF cs
  <2>3. IsFiniteSet(On(cs))
    BY <1>a, <2>1, FewCards
  <2> QED BY <1>a, <1>c, <1>d, <2>1, <2>2, <2>3, PageKeeps
<1> QED
  <2>1. CASE Stop
    BY <1>1, <2>1 DEF Stop, client
  <2>2. ASSUME NEW a \in Actions, Propose(a) PROVE ClientShape' /\ LiveEmpty' /\ TranscriptKept'
    BY <1>1, <2>2 DEF Propose, client
  <2>3. ASSUME NEW a \in Actions, NEW want, Resolve(a, want)
        PROVE  ClientShape' /\ LiveEmpty' /\ TranscriptKept'
    BY <1>1, <2>3 DEF Resolve
  <2>4. ASSUME NEW a \in Actions, NEW i,
               Serve(a, i) \/ Killed(a, i) \/ \E end \in {"executed", "failed"} : ServeEnd(a, i, end)
        PROVE  ClientShape' /\ LiveEmpty' /\ TranscriptKept'
    BY <1>1, <2>4 DEF Serve, Killed, ServeEnd, client
  <2> QED BY <1>2, <1>3, <1>4, <1>5, <1>6, <1>7, <1>8, <1>9, <1>10, <2>1, <2>2, <2>3, <2>4 DEF Next

-----------------------------------------------------------------------------
(* The calls of the cards                                                  *)

(* What a step does to the calls, as far as it matters here: where at the  *)
(* server they are.                                                        *)
AtsKept ==
    /\ calls' \in [Actions -> Seq(Call)]
    /\ \A b \in Actions : /\ Len(calls'[b]) = Len(calls[b])
                          /\ \A j \in DOMAIN calls[b] : calls'[b][j].at = calls[b][j].at
Moves(a, i, at) ==
    /\ calls' \in [Actions -> Seq(Call)]
    /\ \A b \in Actions :
          /\ Len(calls'[b]) = Len(calls[b])
          /\ \A j \in DOMAIN calls[b] :
                calls'[b][j].at = IF b = a /\ j = i THEN at ELSE calls[b][j].at
Sends(a) ==
    /\ calls' \in [Actions -> Seq(Call)] /\ Len(calls[a]) < MaxClicks
    /\ \A b \in Actions \ {a} : calls'[b] = calls[b]
    /\ Len(calls'[a]) = Len(calls[a]) + 1 /\ calls'[a][Len(calls[a]) + 1].at = "sent"
    /\ \A j \in DOMAIN calls[a] : calls'[a][j] = calls[a][j]

LEMMA CallFields ==
    \A c \in Call : c.want \in {"approve", "reject"} /\ c.at \in Ats
                   /\ c.heard \in {"no", "yes", "never"}
BY DEF Call

LEMMA Marked ==
    ASSUME calls \in [Actions -> Seq(Call)], NEW a \in Actions, NEW i \in DOMAIN calls[a],
           NEW at \in Ats, calls' = [calls EXCEPT ![a][i].at = at]
    PROVE  Moves(a, i, at)
<1> DEFINE c == [calls[a][i] EXCEPT !.at = at]
           q == [calls[a] EXCEPT ![i] = c]
<1>1. calls[a] \in Seq(Call) /\ calls[a][i] \in Call
  OBVIOUS
<1>2. c \in Call /\ c.at = at
  BY <1>1 DEF Call
<1> HIDE DEF c
<1>3. /\ q \in Seq(Call) /\ Len(q) = Len(calls[a])
      /\ q[i] = c /\ \A j \in DOMAIN calls[a] : j # i => q[j] = calls[a][j]
  BY <1>1, <1>2
<1>4. calls' = [calls EXCEPT ![a] = q]
  BY DEF c
<1> HIDE DEF q
<1> QED BY <1>2, <1>3, <1>4 DEF Moves

LEMMA Heard ==
    ASSUME calls \in [Actions -> Seq(Call)], NEW a \in Actions, NEW i \in DOMAIN calls[a],
           calls' = [calls EXCEPT ![a][i].heard = "yes"]
    PROVE  AtsKept
<1> DEFINE c == [calls[a][i] EXCEPT !.heard = "yes"]
           q == [calls[a] EXCEPT ![i] = c]
<1>1. calls[a] \in Seq(Call) /\ calls[a][i] \in Call
  OBVIOUS
<1>2. c \in Call /\ c.at = calls[a][i].at
  BY <1>1 DEF Call
<1> HIDE DEF c
<1>3. /\ q \in Seq(Call) /\ Len(q) = Len(calls[a])
      /\ q[i] = c /\ \A j \in DOMAIN calls[a] : j # i => q[j] = calls[a][j]
  BY <1>1, <1>2
<1>4. calls' = [calls EXCEPT ![a] = q]
  BY DEF c
<1> HIDE DEF q
<1> QED BY <1>2, <1>3, <1>4 DEF AtsKept

LEMMA ListOf ==
    ASSUME NEW S, NEW n \in Nat, NEW q \in [1 .. n -> S]
    PROVE  q \in Seq(S) /\ Len(q) = n
OBVIOUS

LEMMA Unheard ==
    ASSUME calls \in [Actions -> Seq(Call)],
           calls' = [a \in Actions |->
                       [i \in DOMAIN calls[a] |-> [calls[a][i] EXCEPT !.heard = "never"]]]
    PROVE  AtsKept
<1>1. ASSUME NEW a \in Actions
      PROVE  /\ calls'[a] \in Seq(Call) /\ Len(calls'[a]) = Len(calls[a])
             /\ \A j \in DOMAIN calls[a] : calls'[a][j].at = calls[a][j].at
  <2> DEFINE q == calls'[a]
             n == Len(calls[a])
  <2>1. calls[a] \in Seq(Call) /\ n \in Nat /\ DOMAIN calls[a] = 1 .. n
    OBVIOUS
  <2> DEFINE heard(i) == [calls[a][i] EXCEPT !.heard = "never"]
  <2>2. q = [i \in 1 .. n |-> heard(i)]
    BY <2>1
  <2>3. ASSUME NEW i \in 1 .. n
        PROVE  heard(i) \in Call /\ heard(i).at = calls[a][i].at
    <3>1. calls[a][i] \in Call
      BY <2>1
    <3> QED BY <3>1 DEF Call
  <2> HIDE DEF n, q, heard
  <2>4. q \in [1 .. n -> Call] /\ \A i \in 1 .. n : q[i].at = calls[a][i].at
    BY <2>2, <2>3
  <2>5. q \in Seq(Call) /\ Len(q) = n
    <3>1. n \in Nat /\ q \in [1 .. n -> Call]
      BY <2>1, <2>4
    <3> QED BY <3>1, ListOf
  <2> QED BY <2>1, <2>4, <2>5 DEF q, n
<1>2. calls' = [a \in Actions |-> calls'[a]]
  OBVIOUS
<1>3. calls' \in [Actions -> Seq(Call)]
  BY <1>1, <1>2
<1> QED BY <1>1, <1>3 DEF AtsKept

LEMMA Appended ==
    ASSUME calls \in [Actions -> Seq(Call)], NEW a \in Actions, Len(calls[a]) < MaxClicks,
           NEW want \in {"approve", "reject"},
           calls' = [calls EXCEPT ![a] = Append(@, [want |-> want, at |-> "sent", heard |-> "no"])]
    PROVE  Sends(a)
<1> DEFINE c == [want |-> want, at |-> "sent", heard |-> "no"]
           q == Append(calls[a], c)
<1>1. calls[a] \in Seq(Call) /\ c \in Call /\ c.at = "sent"
  BY DEF Call, Ats
<1>2. calls' = [calls EXCEPT ![a] = q]
  OBVIOUS
<1> HIDE DEF c
<1>3. /\ q \in Seq(Call) /\ Len(q) = Len(calls[a]) + 1 /\ q[Len(calls[a]) + 1] = c
      /\ \A j \in DOMAIN calls[a] : q[j] = calls[a][j]
  BY <1>1
<1> HIDE DEF q
<1> QED BY <1>1, <1>2, <1>3 DEF Sends

(* What a step does at the server: nothing, or it proposes, or a call is   *)
(* sent, or a call gets on.                                                *)
Proposes(a) ==
    /\ status[a] = "none" /\ status' = [status EXCEPT ![a] = "pending"]
    /\ UNCHANGED <<done, calls>>
GetsOn(a, i, at) ==
    /\ i \in DOMAIN calls[a] /\ at \in Ats \ {"sent"} /\ Moves(a, i, at)
    /\ status' = status \/ \E s \in Statuses : status' = [status EXCEPT ![a] = s]
    /\ calls[a][i].at \in {"sent", "ran"}
    /\ at \in {"ran", "rejected"} => calls[a][i].at = "sent"
    /\ at = "executed" => calls[a][i].at = "ran"
    /\ done' = IF at = "ran" THEN [done EXCEPT ![a] = @ + 1] ELSE done
ServerMove ==
    \/ AtsKept /\ UNCHANGED <<status, done>>
    \/ \E a \in Actions : Proposes(a) \/ (Sends(a) /\ UNCHANGED <<status, done>>)
    \/ \E a \in Actions : \E i, at : GetsOn(a, i, at)

LEMMA CallsKept ==
    calls \in [Actions -> Seq(Call)] /\ calls' = calls => AtsKept
BY DEF AtsKept

LEMMA ServerMoves ==
    ASSUME Shape, Next
    PROVE  ServerMove
<1>a. /\ calls \in [Actions -> Seq(Call)] /\ status \in [Actions -> Statuses \cup {"none"}]
      /\ done \in [Actions -> Nat]
      /\ \A a \in Actions : \A i \in DOMAIN calls[a] : calls[a][i] \in Call
  BY DEF Shape, ServerShape
<1>1. CASE UNCHANGED <<status, done, calls>>
  BY <1>1, <1>a, CallsKept DEF ServerMove
<1>2. CASE Reload
  BY <1>2, <1>a, Unheard DEF Reload, server, ServerMove
<1>3. ASSUME NEW a \in Actions, Propose(a) PROVE ServerMove
  BY <1>3 DEF Propose, Proposes, ServerMove
<1>4. ASSUME NEW a \in Actions, NEW want \in {"approve", "reject"}, Resolve(a, want)
      PROVE  ServerMove
  <2>1. Sends(a)
    BY <1>4, <1>a, Appended DEF Resolve
  <2> QED BY <1>4, <2>1 DEF Resolve, server, ServerMove
<1>5. ASSUME NEW a \in Actions, NEW i \in 1 .. MaxClicks, Serve(a, i) PROVE ServerMove
  <2>1. i \in DOMAIN calls[a] /\ calls[a][i].at = "sent"
    BY <1>5 DEF Serve
  <2>2. CASE ~StillPending(a)
    <3>1. calls' = [calls EXCEPT ![a][i].at = "failed"] /\ UNCHANGED <<status, done>>
      BY <1>5, <2>2 DEF Serve
    <3>2. Moves(a, i, "failed")
      BY <1>a, <2>1, <3>1, Marked DEF Ats
    <3> QED BY <2>1, <3>1, <3>2 DEF GetsOn, ServerMove, Ats
  <2>3. CASE StillPending(a)
    <3>1. PICK end \in {"rejected", "failed", "ran"} :
            /\ calls' = [calls EXCEPT ![a][i].at = end]
            /\ status' = [status EXCEPT ![a] = IF end = "ran" THEN @ ELSE end]
            /\ done' = [done EXCEPT ![a] = IF end = "ran" THEN @ + 1 ELSE @]
      BY <1>5, <2>3 DEF Serve
    <3>2. Moves(a, i, end)
      BY <1>a, <2>1, <3>1, Marked DEF Ats
    <3>3. CASE end = "ran"
      <4>1. status' = status /\ done' = [done EXCEPT ![a] = @ + 1]
        BY <1>a, <3>1, <3>3
      <4> QED BY <2>1, <3>2, <3>3, <4>1 DEF GetsOn, ServerMove, Ats
    <3>4. CASE end # "ran"
      <4>1. status' = [status EXCEPT ![a] = end] /\ done' = done
        BY <1>a, <3>1, <3>4
      <4> QED BY <2>1, <3>2, <3>4, <4>1 DEF GetsOn, ServerMove, Ats, Statuses
    <3> QED BY <3>3, <3>4
  <2> QED BY <2>2, <2>3
<1>6. ASSUME NEW a \in Actions, NEW i \in 1 .. MaxClicks, NEW end \in {"executed", "failed"},
             ServeEnd(a, i, end)
      PROVE  ServerMove
  <2>1. /\ i \in DOMAIN calls[a] /\ calls[a][i].at = "ran" /\ done' = done
        /\ status' = [status EXCEPT ![a] = end] /\ calls' = [calls EXCEPT ![a][i].at = end]
    BY <1>6 DEF ServeEnd
  <2>2. Moves(a, i, end)
    BY <1>a, <2>1, Marked DEF Ats
  <2> QED BY <2>1, <2>2 DEF GetsOn, ServerMove, Ats, Statuses
<1>7. ASSUME NEW a \in Actions, NEW i \in 1 .. MaxClicks, Killed(a, i) PROVE ServerMove
  <2>1. /\ i \in DOMAIN calls[a] /\ calls[a][i].at \in {"sent", "ran"}
        /\ done' = done /\ status' = status /\ calls' = [calls EXCEPT ![a][i].at = "killed"]
    BY <1>7 DEF Killed, server
  <2>2. Moves(a, i, "killed")
    BY <1>a, <2>1, Marked DEF Ats
  <2> QED BY <2>1, <2>2 DEF GetsOn, ServerMove, Ats
<1>8. ASSUME NEW a \in Actions, NEW i \in 1 .. MaxClicks,
             NEW end \in {"executed", "rejected", "failed"}, Answered(a, i, end)
      PROVE  ServerMove
  <2>1. i \in DOMAIN calls[a] /\ UNCHANGED <<status, done>>
        /\ calls' = [calls EXCEPT ![a][i].heard = "yes"]
    BY <1>8 DEF Answered, server
  <2> QED BY <1>a, <2>1, Heard DEF ServerMove
<1> QED
  <2>1. CASE SetOpen \/ OnEvent \/ Stop \/ HandleNewChat
    BY <1>1, <2>1 DEF SetOpen, OnEvent, Stop, HandleNewChat, server
  <2>2. ASSUME NEW r \in reads, Hydrated(r) \/ HydrateFailed(r) PROVE ServerMove
    BY <1>1, <2>2 DEF Hydrated, HydrateFailed, server
  <2>3. ASSUME NEW m \in Messages, HandleSend(m) PROVE ServerMove
    BY <1>1, <2>3 DEF HandleSend
  <2>4. ASSUME NEW broken \in BOOLEAN, Finished(broken) PROVE ServerMove
    BY <1>1, <2>4 DEF Finished, server
  <2> QED BY <1>2, <1>3, <1>4, <1>5, <1>6, <1>7, <1>8, <2>1, <2>2, <2>3, <2>4 DEF Next

(* An effect is the work of a call that was served.                        *)
Past(q) == {i \in DOMAIN q : q[i].at # "sent"}
Counted == \A a \in Actions : done[a] <= Cardinality(Past(calls[a]))
Ran ==
    \A a \in Actions : \A i \in DOMAIN calls[a] :
        calls[a][i].at \in {"ran", "executed"} => done[a] > 0

LEMMA PastSize ==
    ASSUME NEW q \in Seq(Call)
    PROVE  IsFiniteSet(Past(q)) /\ Cardinality(Past(q)) \in Nat /\ Cardinality(Past(q)) <= Len(q)
<1>1. IsFiniteSet(1 .. Len(q)) /\ Cardinality(1 .. Len(q)) = Len(q)
  <2>1. Len(q) \in Nat
    OBVIOUS
  <2>2. Cardinality(1 .. Len(q)) = IF 1 > Len(q) THEN 0 ELSE Len(q) - 1 + 1
    BY <2>1, FS_Interval
  <2>3. IsFiniteSet(1 .. Len(q))
    BY <2>1, FS_Interval
  <2> QED BY <2>1, <2>2, <2>3
<1>2. Past(q) \subseteq 1 .. Len(q)
  BY DEF Past
<1> QED BY <1>1, <1>2, FS_Subset, FS_CardinalityType

LEMMA EffectsStep ==
    ASSUME Shape, Counted, Ran, ServerMove
    PROVE  /\ calls' \in [Actions -> Seq(Call)] /\ \A a \in Actions : Len(calls'[a]) <= MaxClicks
           /\ status' \in [Actions -> Statuses \cup {"none"}] /\ done' \in [Actions -> Nat]
           /\ Counted' /\ Ran'
<1>a. /\ calls \in [Actions -> Seq(Call)] /\ status \in [Actions -> Statuses \cup {"none"}]
      /\ done \in [Actions -> Nat] /\ \A a \in Actions : Len(calls[a]) <= MaxClicks
      /\ \A a \in Actions : /\ calls[a] \in Seq(Call) /\ Len(calls[a]) \in Nat
                            /\ DOMAIN calls[a] = 1 .. Len(calls[a])
  BY DEF Shape, ServerShape
<1>b. MaxClicks \in Nat
  BY ChatAssumption
<1>c. ASSUME calls' \in [Actions -> Seq(Call)], NEW a \in Actions,
             done'[a] = done[a], \A i \in Past(calls[a]) : i \in Past(calls'[a])
      PROVE  done'[a] <= Cardinality(Past(calls'[a]))
  <2>1. calls'[a] \in Seq(Call)
    BY <1>c
  <2>2. /\ IsFiniteSet(Past(calls'[a])) /\ Cardinality(Past(calls'[a])) \in Nat
        /\ Cardinality(Past(calls[a])) \in Nat
    BY <1>a, <2>1, PastSize
  <2>3. Cardinality(Past(calls[a])) <= Cardinality(Past(calls'[a]))
    BY <1>c, <2>2, FS_Subset
  <2>4. done[a] <= Cardinality(Past(calls[a])) /\ done[a] \in Nat
    BY <1>a DEF Counted
  <2> QED BY <1>c, <2>2, <2>3, <2>4
<1>1. CASE AtsKept /\ UNCHANGED <<status, done>>
  <2>1. \A a \in Actions : DOMAIN calls'[a] = DOMAIN calls[a]
    BY <1>1, <1>a DEF AtsKept
  <2>2. Ran'
    BY <1>1, <2>1 DEF AtsKept, Ran
  <2>3. \A a \in Actions : \A i \in Past(calls[a]) : i \in Past(calls'[a])
    BY <1>1, <2>1 DEF AtsKept, Past
  <2>4. Counted'
    BY <1>1, <1>c, <2>3 DEF AtsKept, Counted
  <2> QED BY <1>1, <1>a, <2>2, <2>4 DEF AtsKept
<1>2. ASSUME NEW a \in Actions, Proposes(a)
      PROVE  /\ status' \in [Actions -> Statuses \cup {"none"}]
             /\ UNCHANGED <<done, calls>> /\ Counted' /\ Ran'
  <2>1. UNCHANGED <<done, calls>> /\ status' = [status EXCEPT ![a] = "pending"]
    BY <1>2 DEF Proposes
  <2>2. Ran' /\ Counted'
    BY <2>1 DEF Ran, Counted, Past
  <2> QED BY <1>a, <2>1, <2>2 DEF Statuses
<1>3. ASSUME NEW a \in Actions, Sends(a), UNCHANGED <<status, done>>
      PROVE  /\ calls' \in [Actions -> Seq(Call)]
             /\ \A b \in Actions : Len(calls'[b]) <= MaxClicks /\ Counted' /\ Ran'
  <2>1. \A b \in Actions \ {a} : calls'[b] = calls[b]
    BY <1>3 DEF Sends
  <2>2. /\ DOMAIN calls'[a] = DOMAIN calls[a] \cup {Len(calls[a]) + 1}
        /\ calls'[a][Len(calls[a]) + 1].at = "sent"
        /\ \A j \in DOMAIN calls[a] : calls'[a][j] = calls[a][j]
        /\ Len(calls'[a]) <= MaxClicks /\ calls' \in [Actions -> Seq(Call)]
    BY <1>3, <1>a, <1>b DEF Sends
  <2>3. Ran'
    BY <1>3, <2>1, <2>2 DEF Ran
  <2>4. \A b \in Actions : \A i \in Past(calls[b]) : i \in Past(calls'[b])
    BY <2>1, <2>2 DEF Past
  <2>5. Counted'
    BY <1>3, <1>c, <2>2, <2>4 DEF Counted
  <2> QED BY <1>a, <2>1, <2>2, <2>3, <2>5
<1>4. ASSUME NEW a \in Actions, NEW i, NEW at, GetsOn(a, i, at)
      PROVE  /\ calls' \in [Actions -> Seq(Call)] /\ \A b \in Actions : Len(calls'[b]) <= MaxClicks
             /\ status' \in [Actions -> Statuses \cup {"none"}] /\ done' \in [Actions -> Nat]
             /\ Counted' /\ Ran'
  <2>1. /\ i \in DOMAIN calls[a] /\ at \in Ats \ {"sent"}
        /\ at = "ran" => calls[a][i].at = "sent"
        /\ at = "executed" => calls[a][i].at = "ran"
        /\ calls' \in [Actions -> Seq(Call)]
        /\ \A b \in Actions : /\ Len(calls'[b]) = Len(calls[b])
                              /\ DOMAIN calls'[b] = DOMAIN calls[b]
        /\ \A b \in Actions : \A j \in DOMAIN calls[b] :
              calls'[b][j].at = IF b = a /\ j = i THEN at ELSE calls[b][j].at
    BY <1>4, <1>a DEF GetsOn, Moves
  <2>2. done' \in [Actions -> Nat] /\ \A b \in Actions :
           done'[b] = IF at = "ran" /\ b = a THEN done[b] + 1 ELSE done[b]
    BY <1>4, <1>a DEF GetsOn
  <2>3. status' \in [Actions -> Statuses \cup {"none"}]
    BY <1>4, <1>a DEF GetsOn
  <2>4. Ran'
    <3> SUFFICES ASSUME NEW b \in Actions, NEW j \in DOMAIN calls[b],
                        calls'[b][j].at \in {"ran", "executed"}
                 PROVE  done'[b] > 0
      BY <2>1 DEF Ran
    <3>1. done[b] \in Nat
      BY <1>a
    <3>2. CASE b = a /\ j = i
      BY <2>1, <2>2, <3>1, <3>2 DEF Ran
    <3>3. CASE ~(b = a /\ j = i)
      <4>1. done[b] > 0
        BY <2>1, <3>3 DEF Ran
      <4> QED BY <2>2, <3>1, <4>1
    <3> QED BY <3>2, <3>3
  <2>5. \A b \in Actions : \A j \in Past(calls[b]) : j \in Past(calls'[b])
    BY <2>1 DEF Past
  <2>6. CASE at # "ran"
    BY <1>a, <1>c, <2>1, <2>2, <2>3, <2>4, <2>5, <2>6 DEF Counted
  <2>7. CASE at = "ran"
    <3>1. ASSUME NEW b \in Actions \ {a} PROVE done'[b] <= Cardinality(Past(calls'[b]))
      BY <1>c, <2>1, <2>2, <2>5
    <3>2. done'[a] <= Cardinality(Past(calls'[a]))
      <4>1. Past(calls'[a]) = Past(calls[a]) \cup {i} /\ i \notin Past(calls[a])
        BY <2>1, <2>7 DEF Past
      <4>2. IsFiniteSet(Past(calls[a])) /\ Cardinality(Past(calls[a])) \in Nat
        BY <1>a, PastSize
      <4>3. Cardinality(Past(calls'[a])) = Cardinality(Past(calls[a])) + 1
        BY <4>1, <4>2, FS_AddElement
      <4>4. done[a] <= Cardinality(Past(calls[a])) /\ done[a] \in Nat
        BY <1>a DEF Counted
      <4> QED BY <2>2, <2>7, <4>2, <4>3, <4>4
    <3> QED BY <1>a, <2>1, <2>2, <2>3, <2>4, <3>1, <3>2 DEF Counted
  <2> QED BY <2>6, <2>7
<1> QED BY <1>1, <1>2, <1>3, <1>4, <1>a DEF ServerMove

-----------------------------------------------------------------------------
(* The stream, and the cards                                               *)

CardOf(f, a) == f.type = "pending_action" /\ f.action = a

(* A card is on its way once, and only before it is shown or called.       *)
CardOnce ==
    \A i \in DOMAIN frames, a \in Actions : CardOf(frames[i], a) =>
        /\ status[a] # "none" /\ cards[a] = "none" /\ calls[a] = <<>>
        /\ \A j \in DOMAIN frames : CardOf(frames[j], a) => i = j

(* A proposal comes before its card, the card before its calls, and a card *)
(* is busy only where it is shown.                                         *)
Proposed ==
    \A a \in Actions : /\ status[a] = "none" => cards[a] = "none" /\ calls[a] = <<>>
                       /\ a \in busy => cards[a] # "none"

ClosedIsIdle == ~open => busy = {}

(* The card of a proposal that was never hidden during a call has called   *)
(* once at most, and cannot call again before it is answered or after.     *)
OneCall ==
    \A a \in Actions \ hidden :
        /\ Len(calls[a]) <= 1
        /\ calls[a] # <<>> => a \in busy \/ cards[a] # "pending"
        /\ \A i \in DOMAIN calls[a] : calls[a][i].at \in {"sent", "rejected"} => done[a] = 0
        /\ calls[a] = <<>> => done[a] = 0
        /\ cards[a] = "rejected" => calls[a] # <<>> /\ calls[a][1].at = "rejected"

IInv ==
    /\ Shape /\ busy \subseteq Actions /\ LiveEmpty /\ TranscriptKept
    /\ Counted /\ Ran /\ CardOnce /\ Proposed /\ ClosedIsIdle /\ OneCall /\ CardTellsTruth

(* The frames after a step: the same, none with a card, one fewer, or one  *)
(* more for a new proposal.                                                *)
FramesAfter ==
    \/ frames' = frames
    \/ \A i \in DOMAIN frames' : frames'[i].type # "pending_action"
    \/ /\ DOMAIN frames' = 1 .. (Len(frames) - 1)
       /\ \A i \in DOMAIN frames' : frames'[i] = frames[i + 1]
    \/ \E a \in Actions :
          /\ Proposes(a) /\ Len(frames') = Len(frames) + 1
          /\ DOMAIN frames' = DOMAIN frames \cup {Len(frames) + 1}
          /\ \A i \in DOMAIN frames : frames'[i] = frames[i]
          /\ CardOf(frames'[Len(frames) + 1], a)
          /\ \A b \in Actions : CardOf(frames'[Len(frames) + 1], b) => b = a

LEMMA StreamStep ==
    ASSUME Shape, Next
    PROVE  /\ stream' \in Messages \cup {Idle} /\ frames' \in Seq(Frame)
           /\ convs' \subseteq Conversations /\ FramesAfter
<1>a. /\ stream \in Messages \cup {Idle} /\ frames \in Seq(Frame) /\ convs \subseteq Conversations
      /\ pointer \in Conversations
  BY DEF Shape, ClientShape, ServerShape
<1>b. <<>> \in Seq(Frame)
  OBVIOUS
<1>1. CASE UNCHANGED <<stream, frames, convs>>
  BY <1>1, <1>a DEF FramesAfter
<1>2. CASE stream' = Idle /\ frames' = <<>> /\ convs' = convs
  BY <1>2, <1>a, <1>b DEF FramesAfter
<1>3. ASSUME NEW m \in Messages, HandleSend(m)
      PROVE  /\ stream' \in Messages \cup {Idle} /\ frames' \in Seq(Frame)
             /\ convs' \subseteq Conversations /\ FramesAfter
  <2> DEFINE conv == IF pointer \in convs THEN pointer ELSE {m}
             f == [type |-> "meta", conv |-> conv]
  <2>1. stream' = m /\ convs' = convs \cup {conv} /\ frames' = <<f>>
    BY <1>3 DEF HandleSend
  <2>2. conv \in Conversations
    BY <1>a DEF Conversations
  <2> HIDE DEF conv
  <2>3. f \in Frame /\ f.type = "meta"
    BY <2>2 DEF Frame
  <2> HIDE DEF f
  <2> QED BY <1>a, <2>1, <2>2, <2>3 DEF FramesAfter
<1>4. ASSUME NEW a \in Actions, Propose(a)
      PROVE  /\ stream' \in Messages \cup {Idle} /\ frames' \in Seq(Frame)
             /\ convs' \subseteq Conversations /\ FramesAfter
  <2> DEFINE f == [type |-> "pending_action", action |-> a]
  <2>1. f \in Frame /\ CardOf(f, a) /\ \A b \in Actions : CardOf(f, b) => b = a
    BY DEF Frame, CardOf
  <2>2. UNCHANGED <<stream, convs>> /\ Proposes(a) /\ frames' = Append(frames, f)
    BY <1>4 DEF Propose, Proposes
  <2> HIDE DEF f
  <2>3. /\ frames' \in Seq(Frame) /\ Len(frames') = Len(frames) + 1
        /\ DOMAIN frames' = DOMAIN frames \cup {Len(frames) + 1}
        /\ frames'[Len(frames) + 1] = f
        /\ \A i \in DOMAIN frames : frames'[i] = frames[i]
    BY <1>a, <2>1, <2>2
  <2> QED BY <1>a, <2>1, <2>2, <2>3 DEF FramesAfter
<1>5. CASE OnEvent
  <2>1. frames # <<>> /\ frames' = Tail(frames) /\ UNCHANGED <<stream, convs>>
    BY <1>5 DEF OnEvent, server
  <2>2. /\ frames' \in Seq(Frame) /\ DOMAIN frames' = 1 .. (Len(frames) - 1)
        /\ \A i \in DOMAIN frames' : frames'[i] = frames[i + 1]
    BY <1>a, <2>1
  <2> QED BY <1>a, <2>1, <2>2 DEF FramesAfter
<1> QED
  <2>1. CASE SetOpen
    BY <1>1, <2>1 DEF SetOpen, server
  <2>2. ASSUME NEW r \in reads, Hydrated(r) \/ HydrateFailed(r) PROVE UNCHANGED <<stream, frames, convs>>
    BY <2>2 DEF Hydrated, HydrateFailed, server
  <2>3. CASE Stop \/ HandleNewChat \/ Reload \/ \E broken \in BOOLEAN : Finished(broken)
    BY <1>2, <2>3 DEF Stop, HandleNewChat, Reload, Finished, server
  <2>4. ASSUME NEW a \in Actions, NEW want, Resolve(a, want) PROVE UNCHANGED <<stream, frames, convs>>
    BY <2>4 DEF Resolve, server
  <2>5. ASSUME NEW a \in Actions, NEW i,
               \/ Serve(a, i) \/ Killed(a, i)
               \/ \E end \in {"executed", "failed"} : ServeEnd(a, i, end)
               \/ \E end \in {"executed", "rejected", "failed"} : Answered(a, i, end)
        PROVE  UNCHANGED <<stream, frames, convs>>
    BY <2>5 DEF Serve, Killed, ServeEnd, Answered, server
  <2> QED BY <1>1, <1>3, <1>4, <1>5, <2>1, <2>2, <2>3, <2>4, <2>5 DEF Next

(* What a step does to the cards: nothing but hide or forget them, bring   *)
(* one, send a call of one, or answer it.                                  *)
Resting == AtsKept /\ UNCHANGED <<status, done>>
Hiding ==
    /\ cards' = cards \/ \A b \in Actions : cards'[b] = "none"
    /\ busy' \subseteq busy /\ \A b \in busy' : cards'[b] # "none"
    /\ hidden \subseteq hidden'
    /\ \A b \in busy \ busy' : b \in hidden' \/ cards'[b] = "none"
Bringing(a) ==
    /\ frames # <<>> /\ CardOf(frames[1], a)
    /\ DOMAIN frames' = 1 .. (Len(frames) - 1)
    /\ \A i \in DOMAIN frames' : frames'[i] = frames[i + 1]
    /\ cards' = [cards EXCEPT ![a] = "pending"] /\ UNCHANGED <<busy, hidden>>
Calling(a) ==
    /\ Sends(a) /\ a \notin busy /\ cards[a] = "pending" /\ open
    /\ busy' = busy \cup {a} /\ UNCHANGED <<cards, hidden, status, done>>
Answering(a, i, end) ==
    /\ i \in DOMAIN calls[a] /\ end \in {calls[a][i].at, "failed"}
    /\ end \in {"executed", "rejected", "failed"}
    /\ cards' = [cards EXCEPT ![a] = IF @ = "none" THEN @ ELSE end]
    /\ busy' = busy \ {a} /\ hidden' = hidden
CardMove ==
    \/ Resting /\ Hiding
    \/ UNCHANGED <<cards, busy, hidden>> /\ \E a \in Actions : Proposes(a)
    \/ UNCHANGED <<cards, busy, hidden>> /\ \E a \in Actions : \E i, at : GetsOn(a, i, at)
    \/ Resting /\ \E a \in Actions : Bringing(a)
    \/ \E a \in Actions : Calling(a)
    \/ Resting /\ \E a \in Actions : \E i, end : Answering(a, i, end)

LEMMA CardMoves ==
    ASSUME IInv, Next
    PROVE  CardMove /\ ClosedIsIdle' /\ busy' \subseteq Actions
<1>a. /\ Shape /\ busy \subseteq Actions /\ ClosedIsIdle /\ \A b \in busy : cards[b] # "none"
      /\ calls \in [Actions -> Seq(Call)] /\ frames \in Seq(Frame)
      /\ cards \in [Actions -> Statuses \cup {"none"}]
  BY DEF IInv, Shape, ClientShape, ServerShape, Proposed
<1>b. ServerMove
  BY <1>a, ServerMoves
<1>c. calls' = calls => AtsKept
  BY <1>a, CallsKept
<1>1. CASE SetOpen
  <2>1. /\ cards' = cards /\ busy' = {} /\ hidden' = IF open THEN hidden \cup busy ELSE hidden
        /\ UNCHANGED <<status, done, calls>>
    BY <1>1 DEF SetOpen, Page, Unmounted, server
  <2>2. Hiding
    BY <1>a, <2>1 DEF Hiding, ClosedIsIdle
  <2> QED BY <1>c, <2>1, <2>2 DEF CardMove, Resting, ClosedIsIdle
<1>2. ASSUME NEW r \in reads, Hydrated(r)
      PROVE  CardMove /\ ClosedIsIdle' /\ busy' \subseteq Actions
  <2>1. /\ cards' = cards \/ cards' = [a \in Actions |-> "none"]
        /\ busy' = {a \in busy : cards'[a] # "none"} /\ open' = open
        /\ UNCHANGED <<status, done, calls, hidden>>
    BY <1>2 DEF Hydrated, Page, server
  <2>2. Hiding
    BY <2>1 DEF Hiding
  <2> QED BY <1>a, <1>c, <2>1, <2>2 DEF CardMove, Resting, ClosedIsIdle
<1>3. ASSUME \/ \E r \in reads : HydrateFailed(r)
             \/ \E m \in Messages : HandleSend(m)
             \/ \E broken \in BOOLEAN : Finished(broken)
             \/ Stop
             \/ OnEvent /\ Head(frames).type = "meta"
      PROVE  CardMove /\ ClosedIsIdle' /\ busy' \subseteq Actions
  <2>1. UNCHANGED <<cards, busy, hidden, open, status, done, calls>>
    BY <1>3 DEF HydrateFailed, HandleSend, Finished, Stop, OnEvent, Page, server, client
  <2>2. Hiding
    BY <1>a, <2>1 DEF Hiding
  <2> QED BY <1>a, <1>c, <2>1, <2>2 DEF CardMove, Resting, ClosedIsIdle
<1>4. CASE HandleNewChat \/ Reload
  <2>1. /\ cards' = [a \in Actions |-> "none"] /\ busy' = {}
        /\ UNCHANGED <<hidden, status, done>>
    BY <1>4 DEF HandleNewChat, Reload, Page, Unmounted, server
  <2>2. AtsKept
    BY <1>4, <1>a, <1>c, Unheard DEF HandleNewChat, Reload
  <2>3. Hiding
    BY <1>a, <2>1 DEF Hiding
  <2> QED BY <2>1, <2>2, <2>3 DEF CardMove, Resting, ClosedIsIdle
<1>5. ASSUME OnEvent, Head(frames).type # "meta"
      PROVE  CardMove /\ ClosedIsIdle' /\ busy' \subseteq Actions
  <2> DEFINE ev == Head(frames)
  <2>1. ev \in Frame /\ ev = frames[1] /\ frames # <<>>
    BY <1>5, <1>a DEF OnEvent
  <2>2. /\ cards' = [cards EXCEPT ![ev.action] = "pending"] /\ open' = open
        /\ UNCHANGED <<busy, hidden, status, done, calls>>
    BY <1>5 DEF OnEvent, Page, server
  <2> HIDE DEF ev
  <2>3. ev.action \in Actions /\ CardOf(ev, ev.action)
    BY <1>5, <2>1 DEF Frame, CardOf, ev
  <2>4. frames' = Tail(frames)
    BY <1>5 DEF OnEvent
  <2>5. /\ DOMAIN frames' = 1 .. (Len(frames) - 1)
        /\ \A i \in DOMAIN frames' : frames'[i] = frames[i + 1]
    BY <1>a, <2>1, <2>4
  <2>6. Bringing(ev.action)
    BY <2>1, <2>2, <2>3, <2>5 DEF Bringing
  <2> QED BY <1>a, <1>c, <2>2, <2>3, <2>6 DEF CardMove, Resting, ClosedIsIdle
<1>6. ASSUME NEW a \in Actions, Propose(a)
      PROVE  CardMove /\ ClosedIsIdle' /\ busy' \subseteq Actions
  <2>1. UNCHANGED <<cards, busy, hidden, open>> /\ Proposes(a)
    BY <1>6 DEF Propose, client, Proposes
  <2> QED BY <1>a, <2>1 DEF CardMove, ClosedIsIdle
<1>7. ASSUME NEW a \in Actions, NEW want \in {"approve", "reject"}, Resolve(a, want)
      PROVE  CardMove /\ ClosedIsIdle' /\ busy' \subseteq Actions
  <2>1. Sends(a)
    BY <1>7, <1>a, Appended DEF Resolve
  <2>2. /\ a \notin busy /\ cards[a] = "pending" /\ open /\ open' = open
        /\ busy' = busy \cup {a} /\ UNCHANGED <<cards, hidden, status, done>>
    BY <1>7 DEF Resolve, MayResolve, server
  <2> QED BY <1>a, <2>1, <2>2 DEF CardMove, Calling, ClosedIsIdle
<1>8. ASSUME NEW a \in Actions, NEW i \in 1 .. MaxClicks,
             Serve(a, i) \/ Killed(a, i) \/ \E end \in {"executed", "failed"} : ServeEnd(a, i, end)
      PROVE  CardMove /\ ClosedIsIdle' /\ busy' \subseteq Actions
  <2>1. UNCHANGED <<cards, busy, hidden, open, reads>>
    BY <1>8 DEF Serve, Killed, ServeEnd, client
  <2>2. Hiding
    BY <1>a, <2>1 DEF Hiding
  <2>3. Len(calls'[a]) = Len(calls[a])
    <3>1. PICK at : calls' = [calls EXCEPT ![a][i].at = at]
      BY <1>8 DEF Serve, Killed, ServeEnd
    <3>2. calls[a] \in Seq(Call)
      BY <1>a
    <3>3. calls'[a] = [calls[a] EXCEPT ![i].at = at]
      BY <1>a, <3>1
    <3> QED BY <3>2, <3>3
  <2>4. ~Sends(a)
    BY <1>a, <2>3 DEF Sends
  <2>5. \A b \in Actions \ {a} : calls'[b] = calls[b]
    BY <1>8, <1>a DEF Serve, Killed, ServeEnd
  <2>6. ASSUME NEW b \in Actions PROVE ~Sends(b)
    <3>1. CASE b = a
      BY <2>4, <3>1
    <3>2. CASE b # a
      <4>1. calls[b] \in Seq(Call) /\ calls'[b] = calls[b]
        BY <1>a, <2>5, <3>2
      <4>2. Len(calls'[b]) # Len(calls[b]) + 1
        BY <4>1
      <4> QED BY <4>2 DEF Sends
    <3> QED BY <3>1, <3>2
  <2>7. CardMove
    BY <1>b, <2>1, <2>2, <2>6 DEF CardMove, Resting, ServerMove
  <2>8. ClosedIsIdle' /\ busy' \subseteq Actions
    BY <1>a, <2>1 DEF ClosedIsIdle
  <2> QED BY <2>7, <2>8
<1>9. ASSUME NEW a \in Actions, NEW i \in 1 .. MaxClicks,
             NEW end \in {"executed", "rejected", "failed"}, Answered(a, i, end)
      PROVE  CardMove /\ ClosedIsIdle' /\ busy' \subseteq Actions
  <2>1. /\ i \in DOMAIN calls[a] /\ end \in {calls[a][i].at, "failed"}
        /\ cards' = [cards EXCEPT ![a] = IF @ = "none" THEN @ ELSE end]
        /\ busy' = busy \ {a} /\ UNCHANGED <<hidden, open, status, done>>
    BY <1>9 DEF Answered, Page, server
  <2>2. AtsKept
    BY <1>9, <1>a, <2>1, Heard DEF Answered
  <2>3. Answering(a, i, end)
    BY <2>1 DEF Answering, Statuses
  <2> QED BY <1>a, <2>1, <2>2, <2>3 DEF CardMove, Resting, ClosedIsIdle
<1> QED BY <1>1, <1>2, <1>3, <1>4, <1>5, <1>6, <1>7, <1>8, <1>9 DEF Next

(* The calls and the row of one proposal b over a step of the cards.       *)
Quiet(b) ==
    /\ Len(calls'[b]) = Len(calls[b]) /\ done'[b] = done[b]
    /\ \A j \in DOMAIN calls[b] : calls'[b][j].at = calls[b][j].at
    /\ status'[b] = status[b]
Works(b) ==
    /\ Len(calls'[b]) = Len(calls[b]) /\ calls[b] # <<>>
    /\ (status[b] # "none" => status'[b] # "none")
    /\ cards'[b] = cards[b] /\ (b \in busy' <=> b \in busy) /\ hidden' = hidden
    /\ \E i \in DOMAIN calls[b] :
          /\ calls[b][i].at \in {"sent", "ran"} /\ calls'[b][i].at # "sent"
          /\ calls'[b][i].at \in {"ran", "rejected"} => calls[b][i].at = "sent"
          /\ \A j \in DOMAIN calls[b] \ {i} : calls'[b][j].at = calls[b][j].at
          /\ done'[b] # done[b] => calls'[b][i].at = "ran"
Shows(b) ==
    /\ Quiet(b)
    /\ \/ /\ cards'[b] = cards[b] \/ cards'[b] = "none"
          /\ b \in busy' => b \in busy /\ cards'[b] # "none"
          /\ b \in busy => b \in busy' \/ b \in hidden' \/ cards'[b] = "none"
       \/ /\ cards'[b] = "pending" /\ (b \in busy' <=> b \in busy)
          /\ \E i \in DOMAIN frames : CardOf(frames[i], b)
          /\ \A i \in DOMAIN frames' : ~CardOf(frames'[i], b)
       \/ \E i \in DOMAIN calls[b], end \in {"executed", "rejected", "failed"} :
             /\ end \in {calls[b][i].at, "failed"}
             /\ cards'[b] = IF cards[b] = "none" THEN "none" ELSE end
             /\ b \notin busy'
Starts(b) ==
    /\ status[b] = "none" /\ status'[b] # "none" /\ calls'[b] = calls[b]
    /\ done'[b] = done[b] /\ cards'[b] = cards[b] /\ (b \in busy' <=> b \in busy)
Calls(b) ==
    /\ status'[b] = status[b] /\ done'[b] = done[b]
    /\ b \notin busy /\ b \in busy' /\ cards[b] = "pending" /\ cards'[b] = "pending"
    /\ Len(calls'[b]) = Len(calls[b]) + 1 /\ calls'[b][Len(calls[b]) + 1].at = "sent"
    /\ \A j \in DOMAIN calls[b] : calls'[b][j] = calls[b][j]

LEMMA OneCardMoves ==
    ASSUME Shape, CardOnce, Proposed, CardMove, NEW b \in Actions
    PROVE  /\ Works(b) \/ Shows(b) \/ Starts(b) \/ Calls(b)
           /\ hidden \subseteq hidden'
<1>a. /\ calls \in [Actions -> Seq(Call)] /\ frames \in Seq(Frame)
      /\ calls[b] \in Seq(Call) /\ DOMAIN calls[b] = 1 .. Len(calls[b]) /\ Len(calls[b]) \in Nat
      /\ cards \in [Actions -> Statuses \cup {"none"}]
      /\ status \in [Actions -> Statuses \cup {"none"}] /\ done \in [Actions -> Nat]
      /\ b \in busy => cards[b] # "none"
  BY DEF Shape, ClientShape, ServerShape, Proposed
<1>1. CASE Resting /\ Hiding
  <2>1. Quiet(b)
    BY <1>1 DEF Resting, AtsKept, Quiet
  <2>2. /\ cards'[b] = cards[b] \/ cards'[b] = "none"
        /\ b \in busy' => b \in busy /\ cards'[b] # "none"
        /\ b \in busy => b \in busy' \/ b \in hidden' \/ cards'[b] = "none"
        /\ hidden \subseteq hidden'
    BY <1>1 DEF Hiding
  <2> QED BY <2>1, <2>2 DEF Shows
<1>2. ASSUME UNCHANGED <<cards, busy, hidden>>, NEW a \in Actions, Proposes(a)
      PROVE  (Shows(b) \/ Starts(b)) /\ hidden \subseteq hidden'
  <2>1. CASE a = b
    BY <1>2, <1>a, <2>1 DEF Proposes, Starts
  <2>2. CASE a # b
    BY <1>2, <1>a, <2>2 DEF Proposes, Shows, Quiet
  <2> QED BY <2>1, <2>2
<1>3. ASSUME UNCHANGED <<cards, busy, hidden>>, NEW a \in Actions, NEW i, NEW at, GetsOn(a, i, at)
      PROVE  (Shows(b) \/ Works(b)) /\ hidden \subseteq hidden'
  <2>1. /\ i \in DOMAIN calls[a] /\ at # "sent" /\ Len(calls'[b]) = Len(calls[b])
        /\ \A j \in DOMAIN calls[b] :
              calls'[b][j].at = IF b = a /\ j = i THEN at ELSE calls[b][j].at
        /\ calls[a][i].at \in {"sent", "ran"}
        /\ at \in {"ran", "rejected"} => calls[a][i].at = "sent"
        /\ done' = IF at = "ran" THEN [done EXCEPT ![a] = @ + 1] ELSE done
        /\ status' = status \/ \E s \in Statuses : status' = [status EXCEPT ![a] = s]
    BY <1>3 DEF GetsOn, Moves
  <2>2. CASE a = b
    <3>1. calls[b] # <<>>
      BY <1>a, <2>1, <2>2
    <3>2. status[b] # "none" => status'[b] # "none"
      BY <1>a, <2>1, <2>2 DEF Statuses
    <3>3. done'[b] # done[b] => at = "ran"
      BY <2>1
    <3>4. /\ i \in DOMAIN calls[b] /\ calls'[b][i].at = at
          /\ \A j \in DOMAIN calls[b] \ {i} : calls'[b][j].at = calls[b][j].at
      BY <2>1, <2>2
    <3> QED BY <1>3, <2>1, <2>2, <3>1, <3>2, <3>3, <3>4 DEF Works
  <2>3. CASE a # b
    <3>1. done'[b] = done[b] /\ status'[b] = status[b]
      BY <1>a, <2>1, <2>3
    <3>2. Quiet(b)
      BY <2>1, <2>3, <3>1 DEF Quiet
    <3> QED BY <1>3, <1>a, <3>2 DEF Shows
  <2> QED BY <2>2, <2>3
<1>4. ASSUME Resting, NEW a \in Actions, Bringing(a)
      PROVE  Shows(b) /\ hidden \subseteq hidden'
  <2>1. Quiet(b)
    BY <1>4 DEF Resting, AtsKept, Quiet
  <2>2. 1 \in DOMAIN frames
    BY <1>4, <1>a DEF Bringing
  <2>3. CASE a = b
    <3>1. cards'[b] = "pending" /\ busy' = busy /\ CardOf(frames[1], b)
      BY <1>4, <1>a, <2>3 DEF Bringing
    <3>2. ASSUME NEW i \in DOMAIN frames', CardOf(frames'[i], b) PROVE FALSE
      <4>1. i \in 1 .. (Len(frames) - 1) /\ frames'[i] = frames[i + 1]
        BY <1>4, <3>2 DEF Bringing
      <4>2. i + 1 \in DOMAIN frames /\ i + 1 # 1
        BY <1>a, <4>1
      <4> QED BY <2>2, <3>1, <3>2, <4>1, <4>2 DEF CardOnce
    <3> QED BY <1>4, <2>1, <2>2, <3>1, <3>2 DEF Shows, Bringing
  <2>4. CASE a # b
    BY <1>4, <1>a, <2>1, <2>4 DEF Bringing, Shows
  <2> QED BY <2>3, <2>4
<1>5. ASSUME NEW a \in Actions, Calling(a)
      PROVE  (Shows(b) \/ Calls(b)) /\ hidden \subseteq hidden'
  <2>1. CASE a = b
    BY <1>5, <1>a, <2>1 DEF Calling, Sends, Calls
  <2>2. CASE a # b
    <3>1. Quiet(b)
      BY <1>5, <2>2 DEF Calling, Sends, Quiet
    <3>2. cards'[b] = cards[b] /\ (b \in busy' <=> b \in busy) /\ hidden' = hidden
      BY <1>5, <2>2 DEF Calling
    <3> QED BY <1>a, <3>1, <3>2 DEF Shows
  <2> QED BY <2>1, <2>2
<1>6. ASSUME Resting, NEW a \in Actions, NEW i, NEW end, Answering(a, i, end)
      PROVE  Shows(b) /\ hidden \subseteq hidden'
  <2>1. Quiet(b)
    BY <1>6 DEF Resting, AtsKept, Quiet
  <2>2. CASE a = b
    <3>1. /\ i \in DOMAIN calls[b] /\ end \in {"executed", "rejected", "failed"}
          /\ end \in {calls[b][i].at, "failed"} /\ b \notin busy'
          /\ cards'[b] = IF cards[b] = "none" THEN "none" ELSE end
      BY <1>6, <1>a, <2>2 DEF Answering
    <3> QED BY <1>6, <2>1, <3>1 DEF Shows, Answering
  <2>3. CASE a # b
    BY <1>6, <1>a, <2>1, <2>3 DEF Answering, Shows
  <2> QED BY <2>2, <2>3
<1> QED BY <1>1, <1>2, <1>3, <1>4, <1>5, <1>6 DEF CardMove

LEMMA CardsStep ==
    ASSUME IInv, CardMove, FramesAfter, Ran', ServerMove,
           calls' \in [Actions -> Seq(Call)], done' \in [Actions -> Nat]
    PROVE  CardOnce' /\ Proposed' /\ OneCall' /\ CardTellsTruth'
<1>a. /\ frames \in Seq(Frame) /\ CardOnce /\ Proposed
      /\ \A b \in Actions : /\ calls[b] \in Seq(Call) /\ calls'[b] \in Seq(Call)
                            /\ done[b] \in Nat /\ done'[b] \in Nat
  BY DEF IInv, Shape, ClientShape, ServerShape
<1>b. /\ \A b \in Actions : /\ DOMAIN calls[b] = 1 .. Len(calls[b]) /\ Len(calls[b]) \in Nat
                            /\ DOMAIN calls'[b] = 1 .. Len(calls'[b]) /\ Len(calls'[b]) \in Nat
                            /\ calls[b] = <<>> <=> Len(calls[b]) = 0
                            /\ calls'[b] = <<>> <=> Len(calls'[b]) = 0
  BY <1>a
<1>c. \A b \in Actions : /\ Works(b) \/ Shows(b) \/ Starts(b) \/ Calls(b)
                         /\ hidden \subseteq hidden'
  BY OneCardMoves DEF IInv
<1>1. ASSUME NEW b \in Actions
      PROVE  /\ status'[b] = "none" => cards'[b] = "none" /\ calls'[b] = <<>>
             /\ b \in busy' => cards'[b] # "none"
  <2>1. /\ status[b] = "none" => cards[b] = "none" /\ calls[b] = <<>>
        /\ b \in busy => cards[b] # "none"
    BY <1>a DEF Proposed
  <2>2. CASE Works(b)
    BY <2>1, <2>2 DEF Works
  <2>3. CASE Shows(b)
    <3>1. status'[b] = status[b] /\ Len(calls'[b]) = Len(calls[b])
      BY <2>3 DEF Shows, Quiet
    <3>2. b \in busy' => cards'[b] # "none"
      BY <2>1, <2>3 DEF Shows
    <3>3. status[b] = "none" => cards'[b] = "none"
      BY <1>a, <2>1, <2>3 DEF Shows, CardOnce
    <3> QED BY <1>b, <2>1, <3>1, <3>2, <3>3
  <2>4. CASE Starts(b)
    BY <2>1, <2>4 DEF Starts
  <2>5. CASE Calls(b)
    BY <2>1, <2>5 DEF Calls
  <2> QED BY <1>c, <2>2, <2>3, <2>4, <2>5
<1>2. Proposed'
  BY <1>1 DEF Proposed
<1>3. ASSUME NEW b \in Actions, NEW i \in DOMAIN frames', CardOf(frames'[i], b)
      PROVE  /\ status'[b] # "none" /\ cards'[b] = "none" /\ calls'[b] = <<>>
             /\ \A j \in DOMAIN frames' : CardOf(frames'[j], b) => i = j
  <2>1. CASE Proposes(b)
    <3>1. status[b] = "none" /\ status'[b] # status[b] /\ calls' = calls
      BY <2>1 DEF Proposes, IInv, Shape, ServerShape
    <3>2. cards[b] = "none" /\ calls[b] = <<>>
      BY <1>a, <3>1 DEF Proposed
    <3>3. Starts(b)
      BY <1>b, <1>c, <3>1, <3>2 DEF Works, Shows, Quiet, Calls
    <3>4. \A k \in DOMAIN frames : ~CardOf(frames[k], b)
      BY <1>a, <3>1 DEF CardOnce
    <3>5. ASSUME NEW j \in DOMAIN frames', CardOf(frames'[j], b) PROVE i = j
      <4>1. CASE frames' = frames
        BY <3>4, <3>5, <4>1
      <4>2. CASE \A k \in DOMAIN frames' : frames'[k].type # "pending_action"
        BY <3>5, <4>2 DEF CardOf
      <4>3. CASE /\ DOMAIN frames' = 1 .. (Len(frames) - 1)
                 /\ \A k \in DOMAIN frames' : frames'[k] = frames[k + 1]
        <5>1. j + 1 \in DOMAIN frames
          BY <1>a, <4>3
        <5> QED BY <3>4, <3>5, <4>3, <5>1
      <4>4. CASE /\ DOMAIN frames' = DOMAIN frames \cup {Len(frames) + 1}
                 /\ \A k \in DOMAIN frames : frames'[k] = frames[k]
        BY <1>3, <3>4, <3>5, <4>4
      <4> QED BY <4>1, <4>2, <4>3, <4>4 DEF FramesAfter
    <3> QED BY <3>1, <3>2, <3>3, <3>5 DEF Starts
  <2>2. CASE ~Proposes(b)
    <3>1. PICK k \in DOMAIN frames :
            /\ CardOf(frames[k], b)
            /\ \A j \in DOMAIN frames' : CardOf(frames'[j], b) => i = j
      <4>1. CASE frames' = frames
        BY <1>3, <1>a, <4>1 DEF CardOnce
      <4>2. CASE \A n \in DOMAIN frames' : frames'[n].type # "pending_action"
        BY <1>3, <4>2 DEF CardOf
      <4>3. CASE /\ DOMAIN frames' = 1 .. (Len(frames) - 1)
                 /\ \A n \in DOMAIN frames' : frames'[n] = frames[n + 1]
        <5>1. i + 1 \in DOMAIN frames /\ CardOf(frames[i + 1], b)
          BY <1>3, <1>a, <4>3
        <5>2. ASSUME NEW j \in DOMAIN frames', CardOf(frames'[j], b) PROVE i = j
          <6>1. j + 1 \in DOMAIN frames /\ CardOf(frames[j + 1], b)
            BY <1>a, <4>3, <5>2
          <6>2. i + 1 = j + 1
            BY <1>a, <5>1, <6>1 DEF CardOnce
          <6> QED BY <4>3, <6>2
        <5> QED BY <5>1, <5>2
      <4>4. ASSUME NEW a \in Actions, Proposes(a),
                   DOMAIN frames' = DOMAIN frames \cup {Len(frames) + 1},
                   \A n \in DOMAIN frames : frames'[n] = frames[n],
                   \A d \in Actions : CardOf(frames'[Len(frames) + 1], d) => d = a
            PROVE  \E k \in DOMAIN frames :
                      /\ CardOf(frames[k], b)
                      /\ \A j \in DOMAIN frames' : CardOf(frames'[j], b) => i = j
        <5>1. ~CardOf(frames'[Len(frames) + 1], b)
          BY <2>2, <4>4
        <5>2. i \in DOMAIN frames /\ CardOf(frames[i], b)
          BY <1>3, <4>4, <5>1
        <5>3. ASSUME NEW j \in DOMAIN frames', CardOf(frames'[j], b) PROVE i = j
          <6>1. j \in DOMAIN frames /\ CardOf(frames[j], b)
            BY <4>4, <5>1, <5>3
          <6> QED BY <1>a, <5>2, <6>1 DEF CardOnce
        <5> QED BY <5>2, <5>3
      <4> QED BY <4>1, <4>2, <4>3, <4>4 DEF FramesAfter
    <3>2. status[b] # "none" /\ cards[b] = "none" /\ calls[b] = <<>>
      BY <1>a, <3>1 DEF CardOnce
    <3>3. Shows(b)
      BY <1>c, <3>2 DEF Works, Starts, Calls
    <3>4. Quiet(b)
      BY <3>3 DEF Shows
    <3>5. DOMAIN calls[b] = {} /\ Len(calls[b]) = 0
      BY <1>b, <3>2
    <3>6. cards'[b] = "none"
      BY <1>3, <3>2, <3>3, <3>5 DEF Shows
    <3> QED BY <1>b, <3>1, <3>2, <3>4, <3>5, <3>6 DEF Quiet
  <2> QED BY <2>1, <2>2
<1>4. CardOnce'
  BY <1>3 DEF CardOnce
<1>5. ASSUME NEW b \in Actions, b \notin hidden'
      PROVE  /\ Len(calls'[b]) <= 1
             /\ calls'[b] # <<>> => b \in busy' \/ cards'[b] # "pending"
             /\ \A i \in DOMAIN calls'[b] :
                   calls'[b][i].at \in {"sent", "rejected"} => done'[b] = 0
             /\ calls'[b] = <<>> => done'[b] = 0
             /\ cards'[b] = "rejected" => calls'[b] # <<>> /\ calls'[b][1].at = "rejected"
  <2>1. /\ Len(calls[b]) <= 1
        /\ calls[b] # <<>> => b \in busy \/ cards[b] # "pending"
        /\ \A i \in DOMAIN calls[b] : calls[b][i].at \in {"sent", "rejected"} => done[b] = 0
        /\ calls[b] = <<>> => done[b] = 0
        /\ cards[b] = "rejected" => calls[b] # <<>> /\ calls[b][1].at = "rejected"
    BY <1>5, <1>c DEF IInv, OneCall
  <2>2. CASE Works(b)
    <3>1. PICK i \in DOMAIN calls[b] :
            /\ calls[b][i].at \in {"sent", "ran"} /\ calls'[b][i].at # "sent"
            /\ calls'[b][i].at \in {"ran", "rejected"} => calls[b][i].at = "sent"
            /\ done'[b] # done[b] => calls'[b][i].at = "ran"
      BY <2>2 DEF Works
    <3>2. i = 1 /\ DOMAIN calls[b] = {1} /\ DOMAIN calls'[b] = {1} /\ Len(calls'[b]) = 1
      <4>1. Len(calls'[b]) = Len(calls[b])
        BY <2>2 DEF Works
      <4>2. Len(calls[b]) \in Nat /\ i \in 1 .. Len(calls[b]) /\ Len(calls[b]) <= 1
        BY <1>b, <2>1, <3>1
      <4>3. Len(calls[b]) = 1 /\ i = 1
        <5> DEFINE n == Len(calls[b])
        <5>1. n \in Nat /\ i \in 1 .. n /\ n <= 1
          BY <4>2
        <5> HIDE DEF n
        <5>2. n = 1 /\ i = 1
          BY <5>1
        <5> QED BY <5>2 DEF n
      <4>4. DOMAIN calls[b] = {1} /\ Len(calls'[b]) = 1
        BY <1>b, <4>1, <4>3
      <4>5. DOMAIN calls'[b] = {1}
        BY <1>b, <4>4
      <4> QED BY <4>3, <4>4, <4>5
    <3>3. calls'[b][1].at \in {"sent", "rejected"} => done'[b] = 0
      BY <2>1, <3>1, <3>2
    <3>4. cards'[b] = cards[b] /\ (b \in busy' <=> b \in busy)
      BY <2>2 DEF Works
    <3>5. cards'[b] # "rejected"
      BY <2>1, <3>1, <3>2, <3>4
    <3> QED BY <1>b, <2>1, <2>2, <3>2, <3>3, <3>4, <3>5 DEF Works
  <2>3. CASE Shows(b)
    <3>1. /\ Len(calls'[b]) = Len(calls[b]) /\ done'[b] = done[b]
          /\ DOMAIN calls'[b] = DOMAIN calls[b]
          /\ \A j \in DOMAIN calls[b] : calls'[b][j].at = calls[b][j].at
      BY <1>b, <2>3 DEF Shows, Quiet
    <3>2. calls[b] # <<>> => b \in busy' \/ cards'[b] # "pending"
      BY <1>5, <1>a, <2>1, <2>3 DEF Shows, CardOnce
    <3>3. cards'[b] = "rejected" => \E i \in DOMAIN calls[b] : calls[b][i].at = "rejected"
      <4>1. cards[b] = "rejected" => 1 \in DOMAIN calls[b] /\ calls[b][1].at = "rejected"
        BY <1>b, <2>1
      <4>2. CASE cards'[b] = cards[b]
        BY <4>1, <4>2
      <4>3. CASE cards'[b] # cards[b]
        BY <2>3, <4>3 DEF Shows
      <4> QED BY <4>2, <4>3
    <3>4. \A i \in DOMAIN calls[b] : i = 1
      BY <1>b, <2>1
    <3>5. cards'[b] = "rejected" => calls'[b] # <<>> /\ calls'[b][1].at = "rejected"
      BY <1>b, <3>1, <3>3, <3>4
    <3> QED BY <1>b, <2>1, <3>1, <3>2, <3>5
  <2>4. CASE Starts(b)
    BY <2>1, <2>4 DEF Starts
  <2>5. CASE Calls(b)
    <3>1. calls[b] = <<>>
      BY <2>1, <2>5 DEF Calls
    <3>2. Len(calls'[b]) = 1 /\ DOMAIN calls'[b] = {1}
      <4>1. Len(calls'[b]) = 1
        BY <1>b, <2>5, <3>1 DEF Calls
      <4> QED BY <1>b, <4>1
    <3>3. done'[b] = 0 /\ cards'[b] = "pending" /\ b \in busy'
      BY <2>1, <2>5, <3>1 DEF Calls
    <3> QED BY <1>b, <3>2, <3>3
  <2> QED BY <1>c, <2>2, <2>3, <2>4, <2>5
<1>6. OneCall'
  BY <1>5 DEF OneCall
<1>7. ASSUME NEW b \in Actions
      PROVE  /\ cards'[b] = "executed" => done'[b] > 0
             /\ cards'[b] = "rejected" => done'[b] = 0 \/ b \in hidden'
  <2>1. cards[b] = "executed" => done[b] > 0
    BY DEF IInv, CardTellsTruth
  <2>2. cards'[b] = "executed" => done'[b] > 0
    <3>1. CASE Works(b)
      <4>1. cards'[b] = cards[b] /\ (done'[b] # done[b] => done'[b] > 0)
        BY <1>b, <3>1 DEF Works, Ran
      <4> QED BY <2>1, <4>1
    <3>2. CASE Shows(b)
      BY <2>1, <3>2 DEF Shows, Quiet, IInv, Ran
    <3>3. CASE Starts(b) \/ Calls(b)
      BY <2>1, <3>3 DEF Starts, Calls
    <3> QED BY <1>c, <3>1, <3>2, <3>3
  <2>3. b \notin hidden' /\ cards'[b] = "rejected" => done'[b] = 0
    <3>1. calls'[b] # <<>> => 1 \in DOMAIN calls'[b]
      BY <1>b
    <3> QED BY <1>5, <3>1
  <2> QED BY <2>2, <2>3
<1>8. CardTellsTruth'
  BY <1>7 DEF CardTellsTruth
<1> QED BY <1>2, <1>4, <1>6, <1>8

-----------------------------------------------------------------------------
LEMMA InitHolds ==
    ASSUME Init
    PROVE  IInv
<1>1. /\ ~open /\ pointer \in Conversations /\ hydratedRef \in Conversations
      /\ entries = {} /\ cards = [a \in Actions |-> "none"] /\ busy = {} /\ reads = {}
      /\ stream = Idle /\ frames = <<>> /\ status = [a \in Actions |-> "none"]
      /\ done = [a \in Actions |-> 0] /\ calls = [a \in Actions |-> <<>>]
      /\ typed = {} /\ convs \subseteq Conversations
  BY DEF Init, Conversations
<1>2. On(cards) = {} /\ IsFiniteSet({})
  BY <1>1, FS_EmptySet DEF On
<1>3. ClientShape /\ LiveEmpty /\ TranscriptKept
  BY <1>1, <1>2, Zenon DEF Init, ClientShape, LiveEmpty, TranscriptKept
<1>4. ServerShape
  BY <1>1, ChatAssumption DEF ServerShape
<1>5. \A a \in Actions : DOMAIN calls[a] = {} /\ calls[a] = <<>> /\ Len(calls[a]) = 0
  BY <1>1
<1>6. Counted
  <2>1. \A a \in Actions : Past(calls[a]) = {}
    BY <1>5 DEF Past
  <2>2. \A a \in Actions : Cardinality(Past(calls[a])) = 0
    BY <2>1, FS_EmptySet
  <2> QED BY <1>1, <2>2 DEF Counted
<1>7. Ran /\ CardOnce /\ Proposed /\ ClosedIsIdle /\ OneCall /\ CardTellsTruth
  BY <1>1, <1>5 DEF Ran, CardOnce, Proposed, ClosedIsIdle, OneCall, CardTellsTruth
<1> QED BY <1>1, <1>3, <1>4, <1>6, <1>7 DEF IInv, Shape

LEMMA NextKeeps ==
    ASSUME IInv, Next
    PROVE  IInv'
<1>1. ServerMove /\ CardMove /\ ClosedIsIdle' /\ busy' \subseteq Actions
  BY ServerMoves, CardMoves DEF IInv
<1>2. ClientShape' /\ LiveEmpty' /\ TranscriptKept'
  BY ClientStep DEF IInv
<1>3. /\ calls' \in [Actions -> Seq(Call)] /\ \A a \in Actions : Len(calls'[a]) <= MaxClicks
      /\ status' \in [Actions -> Statuses \cup {"none"}] /\ done' \in [Actions -> Nat]
      /\ Counted' /\ Ran'
  BY <1>1, EffectsStep DEF IInv
<1>4. /\ stream' \in Messages \cup {Idle} /\ frames' \in Seq(Frame)
      /\ convs' \subseteq Conversations /\ FramesAfter
  BY StreamStep DEF IInv
<1>5. ServerShape'
  BY <1>3, <1>4 DEF ServerShape
<1>6. CardOnce' /\ Proposed' /\ OneCall' /\ CardTellsTruth'
  BY <1>1, <1>3, <1>4, CardsStep
<1> QED BY <1>1, <1>2, <1>3, <1>5, <1>6 DEF IInv, Shape

LEMMA StutterKeeps ==
    ASSUME IInv, UNCHANGED vars
    PROVE  IInv'
<1>1. /\ UNCHANGED <<open, pointer, entries, cards, busy, hydratedRef, reads, typed>>
      /\ UNCHANGED <<stream, frames, status, done, convs, calls, hidden>>
  BY DEF vars, client, server
<1>2. Shape' /\ LiveEmpty' /\ TranscriptKept' /\ busy' \subseteq Actions
  BY <1>1 DEF IInv, Shape, ClientShape, ServerShape, LiveEmpty, TranscriptKept, On, Shown
<1>3. Counted' /\ Ran'
  BY <1>1 DEF IInv, Counted, Ran, Past
<1>4. CardOnce' /\ Proposed' /\ ClosedIsIdle' /\ OneCall' /\ CardTellsTruth'
  BY <1>1 DEF IInv, CardOnce, CardOf, Proposed, ClosedIsIdle, OneCall, CardTellsTruth
<1> QED BY <1>2, <1>3, <1>4 DEF IInv

(* The inductive invariant holds of every behaviour of the widget, its     *)
(* stream and the server.                                                  *)
THEOREM Invariant == Spec => []IInv
<1>1. IInv /\ [Next]_vars => IInv'
  BY NextKeeps, StutterKeeps
<1> QED BY InitHolds, <1>1, PTL DEF Spec

\* A card was never carried out more often than its calls were served.
LEMMA CallsBound ==
    ASSUME IInv, NEW a \in Actions
    PROVE  /\ Cardinality(Past(calls[a])) \in Nat /\ Len(calls[a]) \in Nat /\ done[a] \in Nat
           /\ done[a] <= Cardinality(Past(calls[a])) /\ Cardinality(Past(calls[a])) <= Len(calls[a])
           /\ Len(calls[a]) <= MaxClicks
<1>1. calls[a] \in Seq(Call) /\ done[a] \in Nat /\ Len(calls[a]) <= MaxClicks
  BY DEF IInv, Shape, ServerShape
<1>2. done[a] <= Cardinality(Past(calls[a]))
  BY DEF IInv, Counted
<1> QED BY <1>1, <1>2, PastSize

(* The values of the page, of its cards and of the rows behind them keep   *)
(* their kinds; a card is shown, or busy, only where its row exists, and a *)
(* proposal acts no more often than its card can call.                     *)
THEOREM TypeCorrect == Spec => []TypeOK
<1>1. ASSUME IInv PROVE TypeOK
  <2>1. \A a \in Actions : done[a] \in 0 .. MaxClicks /\ Len(calls[a]) <= MaxClicks
    <3> SUFFICES ASSUME NEW a \in Actions
                 PROVE  done[a] \in 0 .. MaxClicks /\ Len(calls[a]) <= MaxClicks
      OBVIOUS
    <3> QED BY <1>1, CallsBound, ChatAssumption
  <2>2. /\ \A a \in Actions : cards[a] # "none" => status[a] # "none"
        /\ busy \subseteq {a \in Actions : cards[a] # "none"}
    BY <1>1 DEF IInv, Proposed
  <2>3. Shape
    BY <1>1 DEF IInv
  <2> QED BY <2>1, <2>2, <2>3 DEF TypeOK, Shape, ClientShape, ServerShape, Lines
<1> QED BY <1>1, Invariant, PTL

(* ChatPanel: what the user typed in the chat that is shown is not replaced *)
(* by a transcript, whenever it was asked for and whenever it comes.       *)
THEOREM TranscriptKeptAlways == Spec => []TranscriptKept
BY Invariant, PTL DEF IInv

(* PendingActionCard and resolve_action: a proposal whose card was not     *)
(* hidden during a call is carried out once at most, and a card that says  *)
(* executed or rejected says what was done.                                *)
THEOREM CardsHoldAlways == Spec => []CardsHold
<1>1. ASSUME IInv PROVE CardsHold
  <2>1. ASSUME NEW a \in Actions, done[a] > 1 PROVE a \in hidden
    <3>1. Len(calls[a]) > 1
      BY <1>1, <2>1, CallsBound
    <3> QED BY <1>1, <3>1 DEF IInv, OneCall
  <2> QED BY <1>1, <2>1 DEF IInv, CardsHold, OnceWhileShown
<1> QED BY <1>1, Invariant, PTL
=============================================================================
