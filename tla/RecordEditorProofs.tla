-------------------------- MODULE RecordEditorProofs --------------------------
(***************************************************************************)
(* Proofs about the record editor, for any records, any of the pages and   *)
(* any bound on the versions.                                              *)
(***************************************************************************)
EXTENDS RecordEditor, FiniteSetTheorems, TLAPS

SaveRec == [to : Copy, form : Form, got : Copy,
            out : {"sent", "done", "stale", "gone", "lost"}]

(* What is known of a save by its outcome.                                 *)
Answers ==
    \A s \in saves :
        /\ s.out = "done" => s.got \in Loaded /\ (s.to # None => s.got.id = s.to.id)
        /\ s.out = "stale" => s.to # None

Typed == TypeOK /\ OneSave /\ Answers

LEMMA Copies ==
    /\ None \in Copy /\ Blank \in Form /\ None \notin Loaded /\ None.id = NoRec
    /\ \A c \in Copy : c # None => c \in Loaded
    /\ \A c \in Loaded : c \in Copy /\ c # None /\ c.id \in Records /\ c.id # NoRec
    /\ \A c \in Copy : Filled(c) \in Form /\ Filled(c).of = c
    /\ \A f \in Form : f.typed \in BOOLEAN /\ f.of \in Copy /\ f.told \in Versions
<1>1. 0 \in Versions
  BY EditorAssumption DEF Versions
<1>2. None \in Copy /\ None \notin Loaded /\ None.id = NoRec
  BY EditorAssumption DEF Copy, None, Loaded
<1>3. \A c \in Loaded : c \in Copy /\ c.id \in Records /\ c.id # NoRec
  BY EditorAssumption DEF Copy, Loaded
<1>4. Blank \in Form
  BY <1>1, <1>2 DEF Blank, Form
<1>5. ASSUME NEW c \in Copy PROVE Filled(c) \in Form /\ Filled(c).of = c
  BY <1>5, <1>4 DEF Filled, Form, Blank
<1>6. \A f \in Form : f.typed \in BOOLEAN /\ f.of \in Copy /\ f.told \in Versions
  BY DEF Form
<1> QED BY <1>2, <1>3, <1>4, <1>5, <1>6 DEF Copy

LEMMA CurrentCopy ==
    ASSUME TypeOK, NEW r \in Records, server[r] > 0
    PROVE  Current(r) \in Loaded /\ Current(r).id = r
BY EditorAssumption DEF TypeOK, Current, Loaded, Versions

LEMMA AsksType ==
    ASSUME TypeOK PROVE Asks \in BOOLEAN
BY Copies DEF TypeOK, Asks

(* The pages by what they do.  Only careful ones are in the claims on the  *)
(* form: the suppliers page, and those that keep the user waiting.         *)
Waits(p) ==
    /\ p.stays /\ ~p.versioned /\ p.newAsks /\ p.asks = "changed"
    /\ p.created = "select" /\ p.updated \in {"take", "leave"}
    /\ p.conflict = "nothing" /\ p.image = "none"
Looks(p) ==
    /\ ~p.stays /\ p.versioned /\ p.newAsks /\ p.asks = "changed"
    /\ p.created = "reselect" /\ p.updated = "same"
    /\ p.conflict = "choose" /\ p.image = "merge"

LEMMA PagesKinds ==
    ASSUME NEW p \in AllPages
    PROVE  /\ p.created \in {"reselect", "select", "take"}
           /\ Careful(p) => Waits(p) \/ Looks(p)
           /\ p \in {Suppliers, Customers, Products} => ~p.stays
<1> DEFINE P(q) == /\ q.created \in {"reselect", "select", "take"}
                   /\ Careful(q) => Waits(q) \/ Looks(q)
<1>1. P(Suppliers) /\ ~Suppliers.stays
  BY DEF Suppliers, Careful, Looks
<1>2. P(Customers) /\ ~Customers.stays
  BY DEF Suppliers, Customers, Careful
<1>3. P(Products) /\ ~Products.stays
  BY DEF Products, Careful
<1>4. P(Categories) /\ P(Brands)
  BY DEF Products, Categories, Brands, Careful
<1>5. P(Promotions)
  BY DEF Suppliers, Customers, Promotions, Waits
<1>6. P(Deductions) /\ P(SalaryProfiles) /\ P(EmployeeAssets) /\ P(Leaves)
  BY DEF Suppliers, Customers, Promotions, Deductions, SalaryProfiles, EmployeeAssets, Leaves, Waits
<1> HIDE DEF P
<1>7. P(p)
  BY <1>1, <1>2, <1>3, <1>4, <1>5, <1>6 DEF AllPages
<1> QED BY <1>1, <1>2, <1>3, <1>7 DEF P

(* A dialog about one record, or none.                                     *)
LEMMA AskType ==
    ASSUME NEW c \in Copy
    PROVE  /\ {c} \subseteq Copy /\ Cardinality({c}) <= 1
           /\ Cardinality({}) <= 1
<1>1. Cardinality({c}) = 1 /\ Cardinality({}) = 0
  BY FS_EmptySet, FS_Singleton
<1> QED BY <1>1

(* The pieces steps are made of keep the types of what they change.        *)
ScreenOK ==
    /\ sel \in Copy /\ creating \in BOOLEAN /\ editing \in BOOLEAN /\ form \in Form

LEMMA ShowType ==
    ASSUME NEW c \in Copy, Show(c) PROVE ScreenOK'
BY Copies DEF Show, ScreenOK

LEMMA StartNewType ==
    ASSUME StartNew PROVE ScreenOK'
BY Copies DEF StartNew, ScreenOK

LEMMA SettledType ==
    ASSUME Typed, NEW s \in saves, Settled(s)
    PROVE  saves' = {} /\ guard' = FALSE
BY DEF Typed, OneSave, Settled

LEMMA NoSaveType ==
    ASSUME saves' = {}, guard' = FALSE
    PROVE  OneSave' /\ Answers' /\ saves' \subseteq SaveRec /\ guard' \in BOOLEAN
BY DEF OneSave, Answers

LEMMA TypedInit == Init => Typed
<1> SUFFICES ASSUME Init PROVE Typed
  OBVIOUS
<1>a. Cardinality({}) = 0
  BY FS_EmptySet
<1>b. page \in AllPages
  BY EditorAssumption DEF Init
<1>c. server \in [Records -> Versions]
  BY EditorAssumption DEF Init, Versions
<1>d. None \in Copy /\ Blank \in Form
  BY Copies
<1>e. ask \subseteq Copy /\ Cardinality(ask) <= 1
  BY <1>a DEF Init
<1>1. TypeOK
  BY <1>b, <1>c, <1>d, <1>e DEF Init, TypeOK
<1>2. OneSave /\ Answers
  BY DEF Init, OneSave, Answers
<1> QED BY <1>1, <1>2 DEF Typed

(* Steps on the screen only.                                               *)
LEMMA ScreenStep ==
    ASSUME Typed, ScreenOK', ask' \subseteq Copy, Cardinality(ask') <= 1, UNCHANGED Rest
    PROVE  Typed'
BY DEF Typed, TypeOK, OneSave, Answers, ScreenOK, Rest

LEMMA SameScreen ==
    ASSUME Typed, UNCHANGED <<sel, mode, form>> PROVE ScreenOK'
BY DEF Typed, TypeOK, ScreenOK, mode

LEMMA TypedBrowse ==
    ASSUME Typed,
           \/ \E c \in Loaded : OpenRow(c)
           \/ New \/ Discard \/ KeepEditing \/ Duplicate
           \/ StartEdit \/ Type \/ Cancel \/ Back
    PROVE  Typed'
<1>a. /\ TypeOK /\ ask \subseteq Copy /\ Cardinality(ask) <= 1
      /\ sel \in Copy /\ form \in Form /\ creating \in BOOLEAN /\ editing \in BOOLEAN
  BY DEF Typed, TypeOK
<1>1. ASSUME NEW c \in Loaded, OpenRow(c) PROVE Typed'
  <2>1. UNCHANGED Rest /\ c \in Copy
    BY <1>1, Copies DEF OpenRow
  <2>2. CASE Asks
    <3>1. ask' = {c} /\ UNCHANGED <<sel, mode, form>>
      BY <1>1, <2>2 DEF OpenRow
    <3> QED BY <2>1, <3>1, AskType, SameScreen, ScreenStep
  <2>3. CASE ~Asks
    <3>1. Show(c) /\ UNCHANGED ask
      BY <1>1, <2>3 DEF OpenRow
    <3> QED BY <1>a, <2>1, <3>1, ShowType, ScreenStep
  <2> QED BY <2>2, <2>3
<1>2. CASE New
  <2>1. CASE UNCHANGED <<sel, mode, form>> /\ ask' = {None}
    BY <1>2, <2>1, Copies, AskType, SameScreen, ScreenStep DEF New
  <2>2. CASE StartNew /\ UNCHANGED ask
    BY <1>2, <1>a, <2>2, StartNewType, ScreenStep DEF New
  <2> QED BY <1>2, <2>1, <2>2 DEF New
<1>3. CASE Discard
  <2>1. ScreenOK'
    BY <1>3, <1>a, ShowType, StartNewType DEF Discard
  <2>2. ask' \subseteq Copy /\ Cardinality(ask') <= 1
    BY <1>3, FS_EmptySet DEF Discard
  <2> QED BY <1>3, <2>1, <2>2, ScreenStep DEF Discard
<1>4. CASE KeepEditing
  <2>1. ask' \subseteq Copy /\ Cardinality(ask') <= 1
    BY <1>4, FS_EmptySet DEF KeepEditing
  <2> QED BY <1>4, <2>1, SameScreen, ScreenStep DEF KeepEditing
<1>5. CASE Duplicate
  <2>1. form' \in Form
    BY <1>5, Copies DEF Duplicate, Form, Blank
  <2>2. ScreenOK'
    BY <1>5, <1>a, <2>1, Copies DEF Duplicate, ScreenOK
  <2> QED BY <1>5, <1>a, <2>2, ScreenStep DEF Duplicate
<1>6. CASE StartEdit \/ Type
  <2>1. form' \in Form
    BY <1>6, <1>a DEF StartEdit, Type, Form
  <2>2. ScreenOK'
    BY <1>6, <1>a, <2>1 DEF StartEdit, Type, ScreenOK, mode
  <2> QED BY <1>6, <1>a, <2>2, ScreenStep DEF StartEdit, Type
<1>7. CASE Cancel
  <2>1. ScreenOK'
    BY <1>7, <1>a, Copies DEF Cancel, ScreenOK
  <2> QED BY <1>7, <1>a, <2>1, ScreenStep DEF Cancel
<1>8. CASE Back
  <2>1. ScreenOK'
    BY <1>8, <1>a, Copies DEF Back, ScreenOK
  <2> QED BY <1>8, <1>a, <2>1, ScreenStep DEF Back
<1> QED BY <1>1, <1>2, <1>3, <1>4, <1>5, <1>6, <1>7, <1>8

(* Steps of a save.  They end it, or change its outcome.                   *)
LEMMA SaveTypes ==
    ASSUME Typed, NEW s \in saves
    PROVE  /\ s \in SaveRec /\ saves = {s} /\ guard = TRUE
           /\ s.to \in Copy /\ s.got \in Copy /\ s.form \in Form
           /\ \A out \in {"sent", "done", "stale", "gone", "lost"}, c \in Copy :
                 /\ [s EXCEPT !.out = out, !.got = c] \in SaveRec
                 /\ [s EXCEPT !.out = out, !.got = c].to = s.to
                 /\ [s EXCEPT !.out = out, !.got = c].form = s.form
                 /\ [s EXCEPT !.out = out, !.got = c].out = out
                 /\ [s EXCEPT !.out = out, !.got = c].got = c
           /\ [s EXCEPT !.out = "lost"] \in SaveRec
           /\ [s EXCEPT !.out = "lost"].to = s.to
           /\ [s EXCEPT !.out = "lost"].form = s.form
           /\ [s EXCEPT !.out = "lost"].out = "lost"
<1>1. s \in SaveRec
  BY DEF Typed, TypeOK, SaveRec
<1>2. saves = {s} /\ guard = TRUE
  BY DEF Typed, TypeOK, OneSave
<1> QED BY <1>1, <1>2 DEF SaveRec

(* An answer is put into a save.                                           *)
LEMMA ReplyType ==
    ASSUME Typed, NEW s \in saves, NEW c \in Copy,
           NEW out \in {"done", "stale", "gone"}, Reply(s, out, c),
           out = "done" => c \in Loaded /\ (s.to # None => c.id = s.to.id),
           out = "stale" => s.to # None, guard' = guard
    PROVE  OneSave' /\ Answers' /\ saves' \subseteq SaveRec /\ guard' \in BOOLEAN
<1> DEFINE a == [s EXCEPT !.out = out, !.got = c]
<1>1. saves' = {a}
  BY SaveTypes DEF Reply
<1>2. a \in SaveRec /\ a.to = s.to /\ a.out = out /\ a.got = c
  <2>1. s \in SaveRec
    BY SaveTypes
  <2> QED BY <2>1 DEF SaveRec
<1>3. guard' = TRUE
  BY SaveTypes
<1> HIDE DEF a
<1> QED BY <1>1, <1>2, <1>3 DEF OneSave, Answers

LEMMA TypedServe ==
    ASSUME Typed, NEW s \in saves, Serve(s) PROVE Typed'
<1>a. TypeOK /\ UNCHANGED <<page, screen, guard, clash, reselect, uploads>>
  BY DEF Serve, Typed
<1>1. ASSUME NEW r \in Records, Write(s, r), s.to # None => r = s.to.id
      PROVE  Typed'
  <2> DEFINE c == [id |-> r, ver |-> server[r] + 1]
  <2>1. server[r] \in Nat /\ server[r] < MaxVer /\ server' = [server EXCEPT ![r] = @ + 1]
    BY <1>a, <1>1, EditorAssumption DEF TypeOK, Versions, Write
  <2>2. server' \in [Records -> Versions]
    BY <1>a, <2>1, EditorAssumption DEF TypeOK, Versions
  <2>3. c \in Loaded /\ c.id = r /\ Reply(s, "done", c)
    BY <1>1, <2>1, EditorAssumption DEF Loaded, Write
  <2> HIDE DEF c
  <2>4. OneSave' /\ Answers' /\ saves' \subseteq SaveRec /\ guard' \in BOOLEAN
    BY <1>a, <1>1, <2>3, Copies, ReplyType
  <2> QED BY <1>a, <2>2, <2>4 DEF Typed, TypeOK, SaveRec, screen, mode
<1>2. ASSUME Refuse(s), s.to # None PROVE Typed'
  <2>1. OneSave' /\ Answers' /\ saves' \subseteq SaveRec /\ guard' \in BOOLEAN
    <3>1. CASE Reply(s, "gone", None)
      BY <1>a, <3>1, Copies, ReplyType
    <3>2. CASE Reply(s, "stale", None)
      BY <1>a, <1>2, <3>2, Copies, ReplyType
    <3> QED BY <1>2, <3>1, <3>2 DEF Refuse
  <2> QED BY <1>a, <1>2, <2>1 DEF Typed, TypeOK, SaveRec, screen, mode, Refuse
<1>3. s.to # None => s.to.id \in Records
  BY SaveTypes, Copies
<1> QED BY <1>1, <1>2, <1>3 DEF Serve, Absent

(* A step that ends the save.                                              *)
LEMMA SettleStep ==
    ASSUME Typed, NEW s \in saves, Settled(s), ScreenOK',
           ask' \subseteq Copy, Cardinality(ask') <= 1, clash' \in Copy,
           reselect' \subseteq [to : Loaded, asks : BOOLEAN],
           UNCHANGED <<page, server, uploads>>
    PROVE  Typed'
<1>1. OneSave' /\ Answers' /\ saves' \subseteq SaveRec /\ guard' \in BOOLEAN
  BY SettledType, NoSaveType
<1> QED BY <1>1 DEF Typed, TypeOK, ScreenOK, SaveRec

LEMMA TypedSave ==
    ASSUME Typed, Save PROVE Typed'
<1> DEFINE s == [to |-> IF creating THEN None ELSE sel, form |-> form,
                 out |-> "sent", got |-> None]
<1>1. saves = {} /\ saves' = {s} /\ guard' = TRUE
  BY DEF Save, MaySave, Typed, TypeOK, OneSave
<1>2. s \in SaveRec /\ s.out = "sent"
  BY Copies DEF Typed, TypeOK, SaveRec
<1> HIDE DEF s
<1>3. OneSave' /\ Answers' /\ saves' \subseteq SaveRec
  BY <1>1, <1>2 DEF OneSave, Answers
<1> QED BY <1>1, <1>3 DEF Save, Typed, TypeOK, SaveRec, screen, mode

LEMMA TypedAnswer ==
    ASSUME Typed, NEW s \in saves,
           \/ Created(s) \/ Updated(s) \/ Conflict(s)
           \/ (\E load \in BOOLEAN : Choose(s, load)) \/ Gone(s) \/ TimedOut(s)
    PROVE  Typed'
<1>a. /\ TypeOK /\ ask \subseteq Copy /\ Cardinality(ask) <= 1 /\ clash \in Copy
      /\ sel \in Copy /\ form \in Form /\ creating \in BOOLEAN /\ editing \in BOOLEAN
      /\ reselect \subseteq [to : Loaded, asks : BOOLEAN]
  BY DEF Typed, TypeOK
<1>b. s.out = "done" => s.got \in Loaded /\ s.got \in Copy
  BY Copies DEF Typed, Answers
<1>1. CASE Created(s)
  <2>1. ScreenOK' /\ ask' \subseteq Copy /\ Cardinality(ask') <= 1
        /\ reselect' \subseteq [to : Loaded, asks : BOOLEAN]
    <3>1. CASE page.created = "reselect"
      <4>1. /\ creating' = FALSE /\ editing' = FALSE /\ UNCHANGED <<sel, form, ask>>
            /\ reselect' = reselect \cup {[to |-> s.got, asks |-> Asks]}
        BY <1>1, <3>1 DEF Created
      <4>2. [to |-> s.got, asks |-> Asks] \in [to : Loaded, asks : BOOLEAN]
        BY <1>1, <1>a, <1>b, AsksType DEF Created
      <4> QED BY <1>a, <4>1, <4>2 DEF ScreenOK
    <3>2. CASE page.created = "select"
      <4>1. CASE Asks
        <5>1. ask' = {s.got} /\ editing' = FALSE /\ UNCHANGED <<sel, creating, form, reselect>>
          BY <1>1, <3>2, <4>1 DEF Created
        <5> QED BY <1>1, <1>a, <1>b, <5>1, AskType DEF Created, ScreenOK
      <4>2. CASE ~Asks
        <5>1. Show(s.got) /\ UNCHANGED <<ask, reselect>>
          BY <1>1, <3>2, <4>2 DEF Created
        <5> QED BY <1>1, <1>a, <1>b, <5>1, ShowType DEF Created
      <4> QED BY <4>1, <4>2
    <3>3. CASE page.created = "take"
      <4>1. form' \in Form
        BY <1>1, <1>a, <1>b, <3>3, Copies DEF Created
      <4> QED BY <1>1, <1>a, <1>b, <3>3, <4>1 DEF Created, ScreenOK
    <3>4. page.created \in {"reselect", "select", "take"}
      BY <1>a, PagesKinds DEF TypeOK
    <3> QED BY <3>1, <3>2, <3>3, <3>4
  <2> QED BY <1>1, <1>a, <2>1, SettleStep DEF Created
<1>2. CASE Updated(s)
  <2>1. CASE page.updated \in {"take", "leave"}
    <3>1. form' \in Form /\ sel' \in Copy /\ editing' = FALSE /\ creating' = creating
      BY <1>2, <1>a, <1>b, <2>1 DEF Updated, Form
    <3> QED BY <1>2, <1>a, <3>1, SettleStep DEF Updated, ScreenOK
  <2>2. CASE page.updated \notin {"take", "leave"}
    <3>1. ScreenOK'
      BY <1>2, <1>b, <2>2, ShowType, SameScreen DEF Updated
    <3> QED BY <1>2, <1>a, <3>1, SettleStep DEF Updated
  <2> QED BY <2>1, <2>2
<1>3. CASE Conflict(s)
  <2> DEFINE fresh == Current(s.to.id)
  <2>1. StillSelected(s) /\ fresh.ver > 0 => fresh \in Loaded /\ fresh \in Copy
    <3>1. s.to.id \in Records
      BY <1>3, SaveTypes, Copies DEF Conflict, Typed, Answers
    <3>2. fresh.ver = server[s.to.id]
      BY DEF Current
    <3> QED BY <1>a, <3>1, <3>2, CurrentCopy, Copies
  <2>2. CASE page.conflict = "choose" /\ StillSelected(s) /\ fresh.ver > 0
    <3>1. clash' \in Copy /\ UNCHANGED <<page, server, screen, guard, saves, reselect, uploads>>
      BY <1>3, <2>1, <2>2 DEF Conflict, screen
    <3> QED BY <3>1 DEF Typed, TypeOK, OneSave, Answers, screen, mode
  <2>3. CASE ~(page.conflict = "choose" /\ StillSelected(s) /\ fresh.ver > 0)
    <3>1. ScreenOK'
      BY <1>3, <2>1, <2>3, ShowType, SameScreen DEF Conflict
    <3>2. Settled(s) /\ UNCHANGED <<page, server, ask, clash, reselect, uploads>>
      BY <1>3, <2>3 DEF Conflict
    <3> QED BY <1>a, <3>1, <3>2, SettleStep
  <2> QED BY <2>2, <2>3
<1>4. ASSUME NEW load \in BOOLEAN, Choose(s, load) PROVE Typed'
  <2>1. clash.ver \in Versions
    BY <1>4, <1>a, Copies DEF Choose, Loaded, Versions
  <2>2. ScreenOK'
    <3>1. CASE sel' = clash /\ form' = [form EXCEPT !.told = clash.ver] /\ UNCHANGED mode
      BY <1>a, <2>1, <3>1 DEF ScreenOK, Form, mode
    <3> QED BY <1>4, <1>a, <3>1, ShowType, SameScreen DEF Choose
  <2>3. clash' \in Copy
    BY <1>4, Copies DEF Choose
  <2> QED BY <1>4, <1>a, <2>2, <2>3, SettleStep DEF Choose
<1>5. CASE Gone(s)
  <2>1. ScreenOK'
    BY <1>5, <1>a, Copies DEF Gone, ScreenOK, mode
  <2> QED BY <1>5, <1>a, <2>1, SettleStep DEF Gone
<1>6. CASE TimedOut(s)
  BY <1>6, <1>a, SameScreen, SettleStep DEF TimedOut, screen
<1> QED BY <1>1, <1>2, <1>3, <1>4, <1>5, <1>6

LEMMA TypedReselect ==
    ASSUME Typed, NEW w \in reselect, Reselect(w) PROVE Typed'
<1>a. TypeOK /\ w \in [to : Loaded, asks : BOOLEAN]
  BY DEF Typed, TypeOK
<1>1. Fetched(w) \in Copy
  <2>1. w.to \in Loaded /\ w.to \in Copy /\ w.to.id \in Records
    BY <1>a, Copies
  <2>2. server[w.to.id] = 0 \/ server[w.to.id] > 0
    BY <1>a, <2>1, EditorAssumption DEF TypeOK, Versions
  <2> QED BY <1>a, <2>1, <2>2, CurrentCopy, Copies DEF Fetched
<1>2. UNCHANGED <<page, server, guard, uploads>> /\ reselect' \subseteq [to : Loaded, asks : BOOLEAN]
  BY <1>a DEF Reselect, TypeOK
<1>3. CASE w.asks
  <2>1. ask' = {Fetched(w)} /\ clash' = None /\ UNCHANGED <<sel, mode, form>>
    BY <1>3 DEF Reselect
  <2>2. OneSave' /\ Answers' /\ saves' \subseteq SaveRec
    <3>1. CASE saves' = saves
      BY <1>2, <3>1 DEF Typed, TypeOK, OneSave, Answers, SaveRec
    <3>2. CASE saves' = {[s EXCEPT !.out = "lost"] : s \in saves}
      <4>1. ASSUME NEW x \in saves' PROVE x \in SaveRec /\ x.out = "lost"
        <5>1. PICK s \in saves : x = [s EXCEPT !.out = "lost"]
          BY <3>2
        <5> QED BY <5>1, SaveTypes
      <4>2. OneSave'
        BY <1>2, <3>2 DEF Typed, OneSave
      <4> QED BY <4>1, <4>2 DEF Answers
    <3> QED BY <1>3, <3>1, <3>2 DEF Reselect
  <2>3. ask' \subseteq Copy /\ Cardinality(ask') <= 1
    BY <1>1, <2>1, AskType
  <2> QED BY <1>2, <2>1, <2>2, <2>3, Copies DEF Typed, TypeOK, SaveRec, mode
<1>4. CASE ~w.asks
  <2>1. ScreenOK' /\ UNCHANGED <<ask, clash, saves>>
    BY <1>1, <1>4, ShowType DEF Reselect
  <2> QED BY <1>2, <2>1 DEF Typed, TypeOK, ScreenOK, OneSave, Answers
<1> QED BY <1>3, <1>4

LEMMA TypedOthers ==
    ASSUME Typed,
           \/ Upload
           \/ \E r \in Records : Uploaded(r) \/ OtherSaves(r) \/ OtherDeletes(r)
    PROVE  Typed'
<1>a. TypeOK
  BY DEF Typed
<1>1. CASE Upload
  <2>1. sel.id \in Records
    BY <1>1, <1>a, Copies DEF Upload, TypeOK
  <2> QED BY <1>1, <2>1 DEF Upload, Typed, TypeOK, OneSave, Answers, screen, mode
<1>2. ASSUME NEW r \in Records, Uploaded(r) PROVE Typed'
  <2>1. sel' \in Copy
    <3>1. server[r] = 0 \/ server[r] > 0
      BY <1>a, EditorAssumption DEF TypeOK, Versions
    <3> QED BY <1>2, <1>a, <3>1, CurrentCopy, Copies DEF Uploaded, TypeOK, WithImage
  <2> QED BY <1>2, <2>1 DEF Uploaded, Typed, TypeOK, OneSave, Answers, mode
<1>3. ASSUME NEW r \in Records, OtherSaves(r) \/ OtherDeletes(r) PROVE Typed'
  <2>1. server' \in [Records -> Versions]
    BY <1>3, <1>a, EditorAssumption DEF OtherSaves, OtherDeletes, TypeOK, Versions
  <2> QED BY <1>3, <2>1 DEF OtherSaves, OtherDeletes, Typed, TypeOK, OneSave, Answers,
             screen, mode
<1> QED BY <1>1, <1>2, <1>3

LEMMA TypedStep ==
    ASSUME Typed, [Next]_vars PROVE Typed'
<1>1. CASE UNCHANGED vars
  BY <1>1 DEF vars, mode, Typed, TypeOK, OneSave, Answers
<1>2. CASE Next
  BY <1>2, TypedBrowse, TypedSave, TypedServe, TypedAnswer, TypedReselect, TypedOthers DEF Next
<1> QED BY <1>1, <1>2

(* Every variable keeps its type.                                          *)
THEOREM TypeCorrect == Spec => []TypeOK
<1>1. Typed => TypeOK
  BY DEF Typed
<1> QED BY <1>1, TypedInit, TypedStep, PTL DEF Spec

(* One save at a time, and the guard says whether one is in flight, on     *)
(* every page.                                                             *)
THEOREM OneSaveAlways == Spec => []OneSave
<1>1. Typed => OneSave
  BY DEF Typed
<1> QED BY <1>1, TypedInit, TypedStep, PTL DEF Spec

-----------------------------------------------------------------------------
(* The form on the screen is that of the record selected, or a blank one   *)
(* for a new record; on the pages that keep the user waiting, the screen   *)
(* of a save in flight is still the one it was made on.                    *)
FormFits ==
    /\ creating => sel = None /\ form.of.id = NoRec
    /\ ~creating /\ sel # None => form.of.id = sel.id
SavesFit == \A s \in saves : s.to.id = s.form.of.id
StillThere ==
    /\ clash = None /\ reselect = {}
    /\ \A s \in saves : /\ ask = {}
                        /\ s.to = None <=> creating
                        /\ s.to # None => sel # None /\ sel.id = s.to.id
OwnInv ==
    Careful(page) => FormFits /\ SavesFit /\ (page.stays => StillThere)

LEMMA PageKind ==
    ASSUME Typed
    PROVE  /\ Careful(page) => Waits(page) \/ Looks(page)
           /\ page \in {Suppliers, Customers, Products} => ~page.stays
BY PagesKinds DEF Typed, TypeOK

LEMMA ShowFits ==
    ASSUME NEW c \in Copy, Show(c) PROVE FormFits'
BY Copies DEF Show, FormFits

LEMMA SameFits ==
    ASSUME FormFits, UNCHANGED <<sel, creating>>, form'.of = form.of PROVE FormFits'
BY DEF FormFits

LEMMA OwnScreen ==
    ASSUME Typed, OwnInv, Careful(page),
           \/ \E c \in Loaded : OpenRow(c)
           \/ New \/ Discard \/ KeepEditing \/ Duplicate
           \/ StartEdit \/ Type \/ Cancel \/ Back
    PROVE  OwnInv'
<1>a. /\ FormFits /\ SavesFit /\ (page.stays => StillThere)
      /\ sel \in Copy /\ ask \subseteq Copy /\ form \in Form /\ creating \in BOOLEAN
  BY DEF OwnInv, Typed, TypeOK
<1>b. UNCHANGED <<page, saves, clash, reselect>>
  BY DEF OpenRow, New, Discard, KeepEditing, Duplicate, StartEdit, Type, Cancel, Back, Rest
<1>c. page.stays => saves = {} \/ (ask' = {} /\ UNCHANGED <<sel, creating>>)
  <2>1. ASSUME page.stays, NEW s \in saves
        PROVE  ask = {} /\ ~TableShown /\ page \notin {Suppliers, Customers, Products}
    BY <1>a, <2>1, PageKind DEF StillThere, TableShown
  <2>2. ASSUME page.stays, NEW s \in saves
        PROVE  ask' = {} /\ UNCHANGED <<sel, creating>>
    <3>1. StartEdit \/ Type
      BY <2>1, <2>2 DEF OpenRow, New, Discard, KeepEditing, Duplicate, Cancel, Back
    <3> QED BY <2>1, <2>2, <3>1 DEF StartEdit, Type, mode
  <2> QED BY <2>2
<1>1. ASSUME FormFits' PROVE OwnInv'
  <2>1. SavesFit'
    BY <1>a, <1>b DEF SavesFit
  <2>2. page.stays => StillThere'
    BY <1>a, <1>b, <1>c DEF StillThere
  <2> QED BY <1>1, <1>b, <2>1, <2>2 DEF OwnInv
<1>2. ASSUME NEW c \in Loaded, OpenRow(c) PROVE FormFits'
  BY <1>2, <1>a, Copies, ShowFits, SameFits DEF OpenRow, mode
<1>3. ASSUME StartNew PROVE FormFits'
  BY <1>3, Copies DEF StartNew, FormFits, Blank
<1>4. ASSUME New PROVE FormFits'
  BY <1>4, <1>a, <1>3, SameFits DEF New, mode
<1>5. ASSUME Discard PROVE FormFits'
  BY <1>5, <1>a, <1>3, ShowFits DEF Discard
<1>6. ASSUME KeepEditing PROVE FormFits'
  BY <1>6, <1>a, SameFits DEF KeepEditing, mode
<1>7. ASSUME Duplicate PROVE FormFits'
  <2>1. page.newAsks
    BY PageKind DEF Waits, Looks
  <2>2. form'.of = None
    BY <1>7 DEF Duplicate, Blank
  <2> QED BY <1>7, <2>1, <2>2, Copies DEF Duplicate, FormFits
<1>8. ASSUME StartEdit \/ Type PROVE FormFits'
  <2>1. form'.of = form.of
    BY <1>8, <1>a DEF StartEdit, Type, Form
  <2> QED BY <1>8, <1>a, <2>1, SameFits DEF StartEdit, Type, mode
<1>9. ASSUME Cancel PROVE FormFits'
  BY <1>9, <1>a, Copies DEF Cancel, FormFits
<1>10. ASSUME Back PROVE FormFits'
  BY <1>10 DEF Back, FormFits
<1> QED BY <1>1, <1>2, <1>4, <1>5, <1>6, <1>7, <1>8, <1>9, <1>10

LEMMA OwnSave ==
    ASSUME Typed, OwnInv, Careful(page), Save PROVE OwnInv'
<1> DEFINE s == [to |-> IF creating THEN None ELSE sel, form |-> form,
                 out |-> "sent", got |-> None]
<1>1. saves = {} /\ saves' = {s} /\ UNCHANGED <<page, sel, creating, form, ask, clash, reselect>>
  BY DEF Save, MaySave, Typed, TypeOK, OneSave, screen, mode
<1>2. /\ FormFits /\ (page.stays => StillThere) /\ (creating \/ sel # None)
      /\ ask = {} /\ creating \in BOOLEAN
  BY DEF OwnInv, Save, Modal, Typed, TypeOK
<1>3. /\ s.to = IF creating THEN None ELSE sel
      /\ s.form = form
  OBVIOUS
<1> HIDE DEF s
<1>4. FormFits'
  BY <1>1, <1>2, SameFits
<1>5. SavesFit'
  BY <1>1, <1>2, <1>3, Copies DEF SavesFit, FormFits
<1>6. page.stays => StillThere'
  BY <1>1, <1>2, <1>3 DEF StillThere
<1> QED BY <1>1, <1>4, <1>5, <1>6 DEF OwnInv

(* The server's part: the save it serves is still the one that was sent.   *)
LEMMA ServeOne ==
    ASSUME Typed, NEW s \in saves, Serve(s)
    PROVE  \E x : saves' = {x} /\ x.to = s.to /\ x.form = s.form
<1>1. ASSUME NEW out, NEW c, Reply(s, out, c)
      PROVE  \E x : saves' = {x} /\ x.to = s.to /\ x.form = s.form
  <2> DEFINE x == [s EXCEPT !.out = out, !.got = c]
  <2>0. saves \ {s} = {}
    BY DEF Typed, OneSave
  <2>1. saves' = {x}
    BY <1>1, <2>0 DEF Reply
  <2>2. x.to = s.to /\ x.form = s.form
    BY SaveTypes DEF SaveRec
  <2> QED BY <2>1, <2>2
<1> QED BY <1>1 DEF Serve, Write, Refuse

LEMMA OwnServe ==
    ASSUME Typed, OwnInv, Careful(page), NEW s \in saves, Serve(s) PROVE OwnInv'
<1>1. /\ FormFits /\ SavesFit /\ (page.stays => StillThere)
      /\ UNCHANGED <<page, sel, creating, form, ask, clash, reselect>>
  BY DEF OwnInv, Serve, screen, mode
<1>2. PICK x : saves' = {x} /\ x.to = s.to /\ x.form = s.form
  BY ServeOne
<1>3. FormFits'
  BY <1>1, SameFits
<1>4. SavesFit' /\ (page.stays => StillThere')
  BY <1>1, <1>2 DEF SavesFit, StillThere
<1> QED BY <1>1, <1>3, <1>4 DEF OwnInv

(* A save that ends leaves nothing to be said but of the form.             *)
LEMMA OwnSettled ==
    ASSUME Typed, OwnInv, Careful(page), NEW s \in saves, Settled(s), FormFits', page' = page,
           page.stays => clash' = None /\ reselect' = {}
    PROVE  OwnInv'
BY SettledType DEF OwnInv, SavesFit, StillThere

LEMMA OwnAnswer ==
    ASSUME Typed, OwnInv, Careful(page), NEW s \in saves,
           \/ Created(s) \/ Updated(s) \/ Conflict(s)
           \/ (\E load \in BOOLEAN : Choose(s, load)) \/ Gone(s) \/ TimedOut(s)
    PROVE  OwnInv'
<1>a. /\ FormFits /\ SavesFit /\ (page.stays => StillThere)
      /\ sel \in Copy /\ form \in Form /\ creating \in BOOLEAN /\ clash \in Copy
  BY DEF OwnInv, Typed, TypeOK
<1>b. s.out = "done" => s.got \in Loaded /\ s.got \in Copy /\ (s.to # None => s.got.id = s.to.id)
  BY Copies DEF Typed, Answers
<1>c. Waits(page) \/ Looks(page)
  BY PageKind
<1>1. CASE Created(s)
  <2>1. Settled(s) /\ UNCHANGED <<page, clash>> /\ s.to = None /\ s.out = "done"
    BY <1>1 DEF Created
  <2>2. CASE Looks(page)
    <3>1. creating' = FALSE /\ UNCHANGED <<sel, form>>
      BY <1>1, <2>2 DEF Created, Looks
    <3> QED BY <1>a, <2>1, <2>2, <3>1, OwnSettled DEF FormFits, Looks
  <2>3. CASE Waits(page)
    <3>1. ~Asks
      BY <1>a, <2>1, <2>3 DEF Waits, StillThere, Asks
    <3>2. Show(s.got) /\ UNCHANGED reselect
      BY <1>1, <2>3, <3>1 DEF Created, Waits
    <3> QED BY <1>a, <1>b, <2>1, <2>3, <3>2, ShowFits, OwnSettled DEF Waits, StillThere
  <2> QED BY <1>c, <2>2, <2>3
<1>2. CASE Updated(s)
  <2>1. Settled(s) /\ UNCHANGED <<page, clash, reselect>> /\ s.to # None /\ s.out = "done"
    BY <1>2 DEF Updated
  <2>2. FormFits'
    <3>1. CASE Looks(page)
      BY <1>2, <1>a, <1>b, <2>1, <3>1, ShowFits, SameFits DEF Updated, Looks, mode
    <3>2. CASE Waits(page)
      <4>1. ~creating /\ sel # None /\ sel.id = s.to.id /\ form.of.id = s.to.id
        BY <1>a, <2>1, <3>2 DEF Waits, StillThere, FormFits
      <4>2. creating' = creating /\ form' = [form EXCEPT !.of = s.got]
        BY <1>2, <3>2, <4>1 DEF Updated, Waits
      <4>3. form'.of.id = s.to.id /\ sel' \in {sel, s.got}
        BY <1>2, <1>a, <1>b, <2>1, <3>2, <4>2 DEF Updated, Waits, Form
      <4> QED BY <1>b, <2>1, <4>1, <4>2, <4>3 DEF FormFits
    <3> QED BY <1>c, <3>1, <3>2
  <2> QED BY <1>a, <2>1, <2>2, OwnSettled DEF StillThere
<1>3. CASE Conflict(s)
  <2> DEFINE here == StillSelected(s) /\ Current(s.to.id).ver > 0
  <2>1. UNCHANGED <<page, ask, reselect, sel, mode, form>> /\ FormFits'
    BY <1>3, <1>a, <1>c, SameFits DEF Conflict, Waits, Looks, mode
  <2>2. CASE Looks(page) /\ here
    <3>1. saves' = saves
      BY <1>3, <2>2 DEF Conflict, Looks
    <3> QED BY <1>a, <2>1, <2>2, <3>1 DEF OwnInv, SavesFit, Looks
  <2>3. CASE ~(Looks(page) /\ here)
    <3>1. Settled(s) /\ UNCHANGED clash
      BY <1>3, <1>c, <2>3 DEF Conflict, Looks, Waits
    <3> QED BY <1>a, <2>1, <3>1, OwnSettled DEF StillThere
  <2> QED BY <2>2, <2>3
<1>4. ASSUME NEW load \in BOOLEAN, Choose(s, load) PROVE OwnInv'
  <2>1. clash \in Loaded /\ clash' = None /\ Settled(s) /\ UNCHANGED <<page, reselect>>
    BY <1>4, <1>a, Copies DEF Choose
  <2>2. FormFits'
    <3>1. CASE ~StillOpen(clash)
      BY <1>4, <1>a, <3>1, SameFits DEF Choose, mode
    <3>2. CASE StillOpen(clash) /\ load
      BY <1>4, <2>1, <3>2, Copies, ShowFits DEF Choose
    <3>3. CASE StillOpen(clash) /\ ~load
      <4>1. sel' = clash /\ form' = [form EXCEPT !.told = clash.ver] /\ creating' = creating
        BY <1>4, <3>3 DEF Choose, mode
      <4>2. form'.of = form.of
        BY <1>a, <4>1 DEF Form
      <4>3. sel # None /\ sel.id = clash.id
        BY <2>1, <3>3, Copies DEF StillOpen
      <4> QED BY <1>a, <4>1, <4>2, <4>3 DEF FormFits
    <3> QED BY <3>1, <3>2, <3>3
  <2> QED BY <1>a, <2>1, <2>2, OwnSettled DEF StillThere
<1>5. CASE Gone(s)
  <2>1. FormFits'
    BY <1>5, <1>a, SameFits DEF Gone, FormFits, mode
  <2> QED BY <1>5, <1>a, <2>1, OwnSettled DEF Gone, StillThere
<1>6. CASE TimedOut(s)
  BY <1>6, <1>a, SameFits, OwnSettled DEF TimedOut, screen, mode, StillThere
<1> QED BY <1>1, <1>2, <1>3, <1>4, <1>5, <1>6

LEMMA FetchedCopy ==
    ASSUME Typed, NEW w \in reselect PROVE Fetched(w) \in Copy
<1>1. w.to \in Loaded /\ w.to \in Copy /\ w.to.id \in Records
  BY Copies DEF Typed, TypeOK
<1>2. server[w.to.id] = 0 \/ server[w.to.id] > 0
  BY <1>1, EditorAssumption DEF Typed, TypeOK, Versions
<1> QED BY <1>1, <1>2, CurrentCopy, Copies DEF Fetched, Typed

(* A save whose dialog was taken away keeps what it names and its fields.  *)
LEMMA LostOrSame ==
    ASSUME Typed, NEW w \in reselect, Reselect(w), NEW t \in saves'
    PROVE  \E s \in saves : t.to = s.to /\ t.form = s.form
<1>1. CASE saves' = saves
  BY <1>1
<1>2. CASE saves' = {[s EXCEPT !.out = "lost"] : s \in saves}
  <2>1. PICK s \in saves : t = [s EXCEPT !.out = "lost"]
    BY <1>2
  <2> QED BY <2>1, SaveTypes
<1> QED BY <1>1, <1>2 DEF Reselect

LEMMA OwnOthers ==
    ASSUME Typed, OwnInv, Careful(page),
           \/ \E w \in reselect : Reselect(w)
           \/ Upload
           \/ \E r \in Records : Uploaded(r) \/ OtherSaves(r) \/ OtherDeletes(r)
    PROVE  OwnInv'
<1>a. /\ FormFits /\ SavesFit /\ (page.stays => StillThere)
      /\ sel \in Copy /\ form \in Form /\ creating \in BOOLEAN
      /\ reselect \subseteq [to : Loaded, asks : BOOLEAN]
  BY DEF OwnInv, Typed, TypeOK
<1>1. ASSUME NEW w \in reselect, Reselect(w) PROVE OwnInv'
  <2>1. ~page.stays /\ page' = page
    BY <1>1, <1>a DEF StillThere, Reselect
  <2>2. FormFits'
    BY <1>1, <1>a, FetchedCopy, ShowFits, SameFits DEF Reselect, mode
  <2>3. SavesFit'
    BY <1>1, <1>a, LostOrSame DEF SavesFit
  <2> QED BY <2>1, <2>2, <2>3 DEF OwnInv
<1>2. CASE Upload \/ \E r \in Records : Uploaded(r) \/ OtherSaves(r) \/ OtherDeletes(r)
  <2>1. UNCHANGED <<page, creating, form, ask, saves, clash, reselect>>
    BY <1>2 DEF Upload, Uploaded, OtherSaves, OtherDeletes, screen, mode
  <2>2. sel' = sel
    BY <1>2, PageKind DEF Upload, Uploaded, OtherSaves, OtherDeletes, screen, WithImage, Waits, Looks
  <2> QED BY <1>a, <2>1, <2>2 DEF OwnInv, FormFits, SavesFit, StillThere
<1> QED BY <1>1, <1>2

LEMMA SamePage == ASSUME [Next]_vars PROVE page' = page
<1>1. CASE UNCHANGED vars
  BY <1>1 DEF vars
<1>2. CASE Next
  BY <1>2 DEF Next, OpenRow, New, Discard, KeepEditing, Duplicate, StartEdit, Type, Cancel, Back,
     Rest, Save, Serve, Created, Updated, Conflict, Choose, Gone, TimedOut, Reselect, Upload,
     Uploaded, OtherSaves, OtherDeletes
<1> QED BY <1>1, <1>2

LEMMA OwnStep ==
    ASSUME Typed, OwnInv, [Next]_vars PROVE OwnInv'
<1>1. CASE ~Careful(page)
  BY <1>1, SamePage DEF OwnInv
<1>2. CASE Careful(page) /\ UNCHANGED vars
  BY <1>2 DEF vars, mode, OwnInv, FormFits, SavesFit, StillThere
<1>3. CASE Careful(page) /\ Next
  BY <1>3, OwnScreen, OwnSave, OwnServe, OwnAnswer, OwnOthers DEF Next
<1> QED BY <1>1, <1>2, <1>3

(* On a careful page the form, and every save made from it, belong to the  *)
(* record selected when they were made.                                    *)
THEOREM OwnInvariant == Spec => [](Typed /\ OwnInv)
<1>1. Init => OwnInv
  BY Copies DEF Init, OwnInv, FormFits, SavesFit, StillThere
<1> QED BY <1>1, TypedInit, TypedStep, OwnStep, PTL DEF Spec

(* On a careful page no save writes the fields of another record.          *)
THEOREM OwnFormAlways == Spec => []OwnForm
<1>1. Typed /\ OwnInv => OwnForm
  BY DEF OwnInv, SavesFit, OwnForm
<1> QED BY <1>1, OwnInvariant, PTL

-----------------------------------------------------------------------------
(* Where the page looks at what is selected before it takes an answer, the *)
(* version it will name in a save is that of the form's fields, or the one *)
(* the user was shown and chose to overwrite.                              *)
Knows == ~creating /\ sel # None => sel.ver \in {form.of.ver, form.told}
SavesKnow == \A s \in saves : s.to # None => Informed(s)
LostInv == Looks(page) => Knows /\ SavesKnow

LEMMA ShowKnows ==
    ASSUME NEW c \in Copy, Show(c) PROVE Knows'
BY Copies DEF Show, Knows

LEMMA SameKnows ==
    ASSUME Knows, UNCHANGED <<sel, creating>>, form'.of = form.of, form'.told = form.told
    PROVE  Knows'
BY DEF Knows

LEMMA LostScreen ==
    ASSUME Typed, Knows, Looks(page),
           \/ \E c \in Loaded : OpenRow(c)
           \/ New \/ Discard \/ KeepEditing \/ Duplicate
           \/ StartEdit \/ Type \/ Cancel \/ Back
    PROVE  Knows' /\ saves' = saves
<1>a. sel \in Copy /\ ask \subseteq Copy /\ form \in Form
  BY DEF Typed, TypeOK
<1>b. saves' = saves
  BY DEF OpenRow, New, Discard, KeepEditing, Duplicate, StartEdit, Type, Cancel, Back, Rest
<1>1. ASSUME NEW c \in Loaded, OpenRow(c) PROVE Knows'
  BY <1>1, <1>a, Copies, ShowKnows, SameKnows DEF OpenRow, mode
<1>2. ASSUME StartNew PROVE Knows'
  BY <1>2 DEF StartNew, Knows
<1>3. ASSUME New PROVE Knows'
  BY <1>3, <1>2, SameKnows DEF New, mode
<1>4. ASSUME Discard PROVE Knows'
  BY <1>4, <1>a, <1>2, ShowKnows DEF Discard
<1>5. ASSUME KeepEditing PROVE Knows'
  BY <1>5, SameKnows DEF KeepEditing, mode
<1>6. ASSUME Duplicate PROVE Knows'
  BY <1>6 DEF Duplicate, Knows
<1>7. ASSUME StartEdit \/ Type PROVE Knows'
  <2>1. form'.of = form.of /\ form'.told = form.told
    BY <1>7, <1>a DEF StartEdit, Type, Form
  <2> QED BY <1>7, <2>1, SameKnows DEF StartEdit, Type, mode
<1>8. ASSUME Cancel PROVE Knows'
  BY <1>8, <1>a, Copies DEF Cancel, Knows
<1>9. ASSUME Back PROVE Knows'
  BY <1>9 DEF Back, Knows
<1> QED BY <1>b, <1>1, <1>3, <1>4, <1>5, <1>6, <1>7, <1>8, <1>9

LEMMA LostSaves ==
    ASSUME Typed, Knows, SavesKnow, Looks(page),
           Save \/ \E s \in saves : Serve(s)
    PROVE  Knows' /\ SavesKnow'
<1>1. ASSUME Save PROVE Knows' /\ SavesKnow'
  <2> DEFINE s == [to |-> IF creating THEN None ELSE sel, form |-> form,
                   out |-> "sent", got |-> None]
  <2>1. saves' = {s} /\ UNCHANGED <<sel, creating, form>>
    BY <1>1 DEF Save, MaySave, Typed, TypeOK, OneSave, screen, mode
  <2>2. s.to = (IF creating THEN None ELSE sel) /\ s.form = form
    OBVIOUS
  <2> HIDE DEF s
  <2>3. SavesKnow'
    BY <2>1, <2>2 DEF SavesKnow, Informed, Knows
  <2> QED BY <2>1, <2>3, SameKnows
<1>2. ASSUME NEW s \in saves, Serve(s) PROVE Knows' /\ SavesKnow'
  <2>1. PICK x : saves' = {x} /\ x.to = s.to /\ x.form = s.form
    BY <1>2, ServeOne
  <2>2. UNCHANGED <<sel, creating, form>>
    BY <1>2 DEF Serve, screen, mode
  <2> QED BY <2>1, <2>2, SameKnows DEF SavesKnow, Informed
<1> QED BY <1>1, <1>2

LEMMA LostAnswer ==
    ASSUME Typed, OwnInv, Knows, SavesKnow, Looks(page), NEW s \in saves,
           \/ Created(s) \/ Updated(s) \/ Conflict(s)
           \/ (\E load \in BOOLEAN : Choose(s, load)) \/ Gone(s) \/ TimedOut(s)
    PROVE  Knows' /\ SavesKnow'
<1>a. sel \in Copy /\ form \in Form /\ creating \in BOOLEAN /\ clash \in Copy
  BY DEF Typed, TypeOK
<1>b. s.out = "done" => s.got \in Copy
  BY Copies DEF Typed, Answers
<1>c. saves' \subseteq saves
  BY DEF Created, Updated, Conflict, Choose, Gone, TimedOut, Settled
<1>1. SavesKnow'
  BY <1>c DEF SavesKnow, Informed
<1>2. ASSUME Created(s) PROVE Knows'
  <2>1. creating' = FALSE /\ UNCHANGED <<sel, form>>
    BY <1>2 DEF Created, Looks
  <2>2. creating => sel = None
    BY DEF OwnInv, FormFits, Looks, Careful
  <2> QED BY <1>a, <2>1, <2>2 DEF Knows
<1>3. ASSUME Updated(s) PROVE Knows'
  BY <1>3, <1>b, ShowKnows, SameKnows DEF Updated, Looks, mode
<1>4. ASSUME Conflict(s) PROVE Knows'
  BY <1>4, SameKnows DEF Conflict, Looks, mode
<1>5. ASSUME NEW load \in BOOLEAN, Choose(s, load) PROVE Knows'
  <2>1. CASE ~StillOpen(clash)
    BY <1>5, <2>1, SameKnows DEF Choose, mode
  <2>2. CASE StillOpen(clash) /\ load
    BY <1>5, <1>a, <2>2, ShowKnows DEF Choose
  <2>3. CASE StillOpen(clash) /\ ~load
    BY <1>5, <1>a, <2>3 DEF Choose, Form, Knows
  <2> QED BY <2>1, <2>2, <2>3
<1>6. ASSUME Gone(s) PROVE Knows'
  BY <1>6, SameKnows DEF Gone, Knows, mode
<1>7. ASSUME TimedOut(s) PROVE Knows'
  BY <1>7, SameKnows DEF TimedOut, screen, mode
<1> QED BY <1>1, <1>2, <1>3, <1>4, <1>5, <1>6, <1>7

LEMMA LostOthers ==
    ASSUME Typed, Knows, SavesKnow, Looks(page),
           \/ \E w \in reselect : Reselect(w)
           \/ Upload
           \/ \E r \in Records : Uploaded(r) \/ OtherSaves(r) \/ OtherDeletes(r)
    PROVE  Knows' /\ SavesKnow'
<1>1. ASSUME NEW w \in reselect, Reselect(w) PROVE Knows' /\ SavesKnow'
  <2>1. Knows'
    BY <1>1, FetchedCopy, ShowKnows, SameKnows DEF Reselect, mode
  <2>2. SavesKnow'
    BY <1>1, LostOrSame DEF SavesKnow, Informed
  <2> QED BY <2>1, <2>2
<1>2. ASSUME Upload \/ \E r \in Records : Uploaded(r) \/ OtherSaves(r) \/ OtherDeletes(r)
      PROVE  Knows' /\ SavesKnow'
  <2>1. UNCHANGED <<creating, form, saves>>
    BY <1>2 DEF Upload, Uploaded, OtherSaves, OtherDeletes, screen, mode
  <2>2. sel' = sel
    BY <1>2 DEF Upload, Uploaded, OtherSaves, OtherDeletes, screen, WithImage, Looks
  <2> QED BY <2>1, <2>2, SameKnows DEF SavesKnow, Informed
<1> QED BY <1>1, <1>2

LEMMA LostStep ==
    ASSUME Typed, OwnInv, LostInv, [Next]_vars PROVE LostInv'
<1>1. CASE ~Looks(page)
  BY <1>1, SamePage DEF LostInv
<1>2. CASE Looks(page) /\ UNCHANGED vars
  BY <1>2 DEF vars, mode, LostInv, Knows, SavesKnow, Informed
<1>3. CASE Looks(page) /\ Next
  <2>1. Knows /\ SavesKnow
    BY <1>3 DEF LostInv
  <2>2. Knows' /\ SavesKnow'
    <3>1. ASSUME Knows' /\ saves' = saves PROVE SavesKnow'
      BY <2>1, <3>1 DEF SavesKnow, Informed
    <3> QED BY <1>3, <2>1, <3>1, LostScreen, LostSaves, LostAnswer, LostOthers DEF Next
  <2> QED BY <2>2 DEF LostInv
<1> QED BY <1>1, <1>2, <1>3

(* No lost update on a careful page that names versions: every save of a   *)
(* record was made on the version it replaces or on one the user agreed to *)
(* overwrite.                                                              *)
THEOREM NoLostUpdateAlways == Spec => []NoLostUpdate
<1>1. Init => LostInv
  BY DEF Init, LostInv, Knows, SavesKnow
<1>2. Typed /\ LostInv => NoLostUpdate
  BY PageKind DEF LostInv, SavesKnow, NoLostUpdate, Waits
<1> QED BY <1>1, <1>2, OwnInvariant, LostStep, PTL DEF Spec

=============================================================================
