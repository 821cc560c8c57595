------------------------ MODULE ClientSessionProofs ------------------------
(***************************************************************************)
(* Proofs about the client's session, for any tabs, calls and bound on the *)
(* tokens.                                                                 *)
(***************************************************************************)
EXTENDS ClientSession, FiniteSetTheorems, TLAPS

ReqRec == [state : {"idle", "queued", "refreshing"} \cup InFlight \cup Settled,
           bearer : Tok0, retry : BOOLEAN, starts : Nat]
RefreshRec == [st : {"none", "asked", "granted"}, tok : Tok0]
LoginRec == [st : {"none", "sent", "granted", "me"}, tok : Tok0]
LogoutRec == [st : {"none", "sent", "answered"}, tok : Tok0]

(* The pieces calls are made of have their types.                          *)
LEMMA SendType ==
    ASSUME NEW c \in ReqRec, NEW n \in Tok0
    PROVE  Send(c, n) \in ReqRec
BY DEF Send, ReqRec, InFlight

LEMMA MarkType ==
    ASSUME NEW c \in ReqRec
    PROVE  MarkRetried(c) \in ReqRec
BY DEF MarkRetried, ReqRec

LEMMA StartType ==
    ASSUME NEW c \in ReqRec
    PROVE  Start(c) \in ReqRec
<1>1. ASSUME NEW d \in ReqRec, NEW n \in Nat
      PROVE  [d EXCEPT !.state = "refreshing", !.starts = n] \in ReqRec
  BY DEF ReqRec
<1>2. ASSUME NEW d \in ReqRec PROVE d.starts + 1 \in Nat
  BY DEF ReqRec
<1>3. Start(c) = [MarkRetried(c) EXCEPT !.state = "refreshing",
                                        !.starts = MarkRetried(c).starts + 1]
  BY Zenon DEF Start
<1>4. MarkRetried(c) \in ReqRec
  BY MarkType
<1>5. MarkRetried(c).starts + 1 \in Nat
  BY <1>2, <1>4
<1> QED BY <1>1, <1>3, <1>4, <1>5

LEMMA EndType ==
    ASSUME NEW how \in Settled
    PROVE  End(how) \in ReqRec
<1>1. Idle \in ReqRec
  BY SessionAssumption DEF Idle, ReqRec, Tok0
<1> QED BY <1>1 DEF End, ReqRec

LEMMA Zero == 0 \in Tok0 /\ SignedOut \in StoreRec /\ Idle \in ReqRec
              /\ None \in RefreshRec /\ None \in LoginRec /\ None \in LogoutRec
BY SessionAssumption DEF Tok0, SignedOut, StoreRec, Idle, ReqRec, None, RefreshRec, LoginRec,
   LogoutRec

LEMMA StateType ==
    ASSUME NEW c \in ReqRec, NEW s \in {"queued", "ok", "unauth"}
    PROVE  [c EXCEPT !.state = s] \in ReqRec
BY DEF ReqRec, InFlight

LEMMA StoreTypes ==
    ASSUME NEW s \in StoreRec, NEW n \in Tok0, NEW b \in BOOLEAN
    PROVE  /\ Cleared(s) \in StoreRec
           /\ LoggedIn(n, b) \in StoreRec
           /\ UpdateTokens(s, n) \in StoreRec
<1>1. Cleared(s) \in StoreRec
  BY Zero DEF Cleared
<1>2. LoggedIn(n, b) \in StoreRec
  BY DEF LoggedIn, StoreRec
<1>3. UpdateTokens(s, n) \in StoreRec
  BY DEF UpdateTokens, StoreRec
<1> QED BY <1>1, <1>2, <1>3

-----------------------------------------------------------------------------
(* The type invariant, by variable, with its record sets named, but for the *)
(* revoked tokens: that they were issued follows from the next invariant.  *)
Typed ==
    /\ store \in [Tabs -> StoreRec] /\ persisted \in StoreRec
    /\ page \in [Tabs -> {"login", "app", "leaving"}]
    /\ refreshing \in [Tabs -> BOOLEAN]
    /\ queue \in [Tabs -> SUBSET Requests]
    /\ req \in [Requests -> ReqRec]
    /\ refresh \in [Requests -> RefreshRec]
    /\ login \in [Tabs -> LoginRec]
    /\ logout \in [Tabs -> LogoutRec]
    /\ cookie \in Tok0 /\ issued \in Tok0
    /\ live \subseteq 1..issued

LEMMA TypedIsTypeOK == TypeOK <=> Typed /\ revoked \subseteq 1..issued
BY DEF TypeOK, Typed, ReqRec, RefreshRec, LoginRec, LogoutRec

LEMMA TypedInit == Init => Typed
BY Zero, SessionAssumption DEF Init, Typed

(* A write of the store keeps its type.                                    *)
LEMMA SetStoreType ==
    ASSUME Typed, NEW t \in Tabs, NEW s \in StoreRec, SetStore(t, s)
    PROVE  store' \in [Tabs -> StoreRec] /\ persisted' \in StoreRec
BY DEF SetStore, Typed

LEMMA IssueType ==
    ASSUME Typed, Issue
    PROVE  /\ issued' \in Tok0 /\ issued + 1 \in Tok0 /\ live' \subseteq 1..issued'
           /\ 1..issued \subseteq 1..issued'
BY SessionAssumption DEF Issue, Typed, Tok0

(* The answers that a login waits for, and those that end or resume calls. *)
LEMMA LoginEndTypes ==
    ASSUME Typed, NEW t \in Tabs, LoginDone(t) \/ LoginFailed(t)
    PROVE  /\ store' \in [Tabs -> StoreRec] /\ persisted' \in StoreRec
           /\ page' \in [Tabs -> {"login", "app", "leaving"}]
           /\ login' \in [Tabs -> LoginRec]
<1>1. store[t] \in StoreRec /\ login[t].tok \in Tok0
  BY DEF Typed, LoginRec
<1>2. CASE LoginDone(t)
  <2>1. store' \in [Tabs -> StoreRec] /\ persisted' \in StoreRec
    BY <1>1, <1>2, StoreTypes, SetStoreType DEF LoginDone
  <2> QED BY <1>2, <2>1, Zero DEF LoginDone, Typed
<1>3. CASE LoginFailed(t)
  <2>1. store' \in [Tabs -> StoreRec] /\ persisted' \in StoreRec
    BY <1>1, <1>3, Zero, StoreTypes, SetStoreType DEF LoginFailed
  <2> QED BY <1>3, <2>1, Zero DEF LoginFailed, Typed
<1> QED BY <1>2, <1>3

LEMMA QueueTypes ==
    ASSUME Typed, NEW t \in Tabs, NEW n \in Tok0
    PROVE  /\ Resumed(t, n) \in [Requests -> ReqRec]
           /\ Rejected(t) \in [Requests -> ReqRec]
           /\ Abandoned(t) \in [Requests -> ReqRec]
           /\ NotRefreshing(t) \in [Tabs -> BOOLEAN]
<1>1. ASSUME NEW r \in Requests
      PROVE  req[r] \in ReqRec /\ Send(req[r], n) \in ReqRec
             /\ End("failed") \in ReqRec /\ End("dropped") \in ReqRec
  BY SendType, EndType DEF Typed, Settled
<1> QED BY <1>1 DEF Resumed, Rejected, Abandoned, NotRefreshing, Typed

LEMMA TypedCall ==
    ASSUME Typed, NEW r \in Requests, CallStep(r)
    PROVE  Typed'
<1> USE DEF client, server
<1>a. TabOf[r] \in Tabs
  BY SessionAssumption
<1>b. /\ req[r] \in ReqRec /\ refresh[r] \in RefreshRec
      /\ store[TabOf[r]] \in StoreRec /\ login[TabOf[r]] \in LoginRec
  BY <1>a DEF Typed
<1>c. /\ store[TabOf[r]].token \in Tok0 /\ login[TabOf[r]].tok \in Tok0
      /\ refresh[r].tok \in Tok0
  BY <1>b DEF StoreRec, LoginRec, RefreshRec
<1>d. End("done") \in ReqRec /\ End("failed") \in ReqRec
  BY EndType DEF Settled
<1>1. CASE Request(r)
  BY <1>1, <1>b, <1>c, SendType DEF Request, Typed
<1>2. CASE Serve(r)
  BY <1>2, <1>b, StateType DEF Serve, Typed
<1>3. CASE ReceiveOk(r)
  <2>1. CASE IsMe(r)
    BY <1>3, <1>a, <1>d, <2>1, LoginEndTypes DEF ReceiveOk, Typed
  <2>2. CASE ~IsMe(r)
    BY <1>3, <1>d, <2>2 DEF ReceiveOk, Typed
  <2> QED BY <2>1, <2>2
<1>4. CASE ReceiveError(r)
  <2>1. CASE IsMe(r)
    BY <1>4, <1>a, <1>d, <2>1, LoginEndTypes DEF ReceiveError, Typed
  <2>2. CASE ~IsMe(r)
    BY <1>4, <1>d, <2>2 DEF ReceiveError, Typed
  <2> QED BY <2>1, <2>2
<1>5. CASE EnqueueUnauth(r)
  BY <1>5, <1>a, <1>b, StateType DEF EnqueueUnauth, Typed
<1>6. CASE StartRefresh(r)
  <2>1. [st |-> "asked", tok |-> cookie] \in RefreshRec
    BY DEF RefreshRec, Typed
  <2> QED BY <1>6, <1>a, <1>b, <2>1, StartType DEF StartRefresh, MarkRefreshing, Typed
<1>7. CASE ServeRefresh(r)
  <2>1. Issue
    BY <1>7 DEF ServeRefresh
  <2>2. [st |-> "granted", tok |-> issued + 1] \in RefreshRec
    BY <2>1, IssueType DEF RefreshRec
  <2> QED BY <1>7, <2>1, <2>2, IssueType DEF ServeRefresh, Typed
<1>8. CASE RefreshGranted(r)
  <2> DEFINE n == refresh[r].tok
  <2>1. store' \in [Tabs -> StoreRec] /\ persisted' \in StoreRec
    BY <1>8, <1>a, <1>b, <1>c, StoreTypes, SetStoreType DEF RefreshGranted
  <2>2. req' \in [Requests -> ReqRec]
    <3>1. Resumed(TabOf[r], n)[r] \in ReqRec
      BY <1>a, <1>c, QueueTypes
    <3> HIDE DEF n
    <3> QED BY <1>8, <1>a, <1>c, <3>1, QueueTypes, SendType DEF RefreshGranted, n
  <2> QED BY <1>8, <1>a, <1>c, <2>1, <2>2, Zero, QueueTypes DEF RefreshGranted, Typed
<1>9. CASE RefreshRefused(r)
  <2>1. store' \in [Tabs -> StoreRec] /\ persisted' \in StoreRec
    BY <1>9, <1>a, <1>b, <1>c, StoreTypes, SetStoreType DEF RefreshRefused
  <2>2. req' \in [Requests -> ReqRec]
    BY <1>9, <1>a, <1>c, <1>d, QueueTypes DEF RefreshRefused
  <2>3. login' \in [Tabs -> LoginRec]
    BY <1>9, Zero DEF RefreshRefused, Typed
  <2> QED BY <1>9, <1>a, <1>c, <2>1, <2>2, <2>3, Zero, QueueTypes DEF RefreshRefused, Typed
<1> QED BY <1>1, <1>2, <1>3, <1>4, <1>5, <1>6, <1>7, <1>8, <1>9 DEF CallStep

LEMMA TypedTab ==
    ASSUME Typed, NEW t \in Tabs, TabStep(t)
    PROVE  Typed'
<1> USE DEF client, server
<1>a. MeOf[t] \in Requests
  BY SessionAssumption
<1>b. /\ store[t] \in StoreRec /\ login[t] \in LoginRec /\ logout[t] \in LogoutRec
      /\ login[t].tok \in Tok0 /\ logout[t].tok \in Tok0
  BY DEF Typed, LoginRec, LogoutRec
<1>1. CASE SubmitLogin(t)
  BY <1>1, Zero DEF SubmitLogin, Typed, LoginRec
<1>2. CASE ServeLogin(t)
  <2>1. CASE Issue /\ login' = [login EXCEPT ![t] = [st |-> "granted", tok |-> issued + 1]]
    <3>1. [st |-> "granted", tok |-> issued + 1] \in LoginRec
      BY <2>1, IssueType DEF LoginRec
    <3> QED BY <1>2, <2>1, <3>1, IssueType DEF ServeLogin, Typed
  <2>2. CASE login' = [login EXCEPT ![t] = None] /\ UNCHANGED <<live, issued>>
    BY <1>2, <2>2, Zero DEF ServeLogin, Typed
  <2> QED BY <1>2, <2>1, <2>2 DEF ServeLogin
<1>3. CASE LoginAnswered(t)
  <2>1. store' \in [Tabs -> StoreRec] /\ persisted' \in StoreRec
    BY <1>3, <1>b, StoreTypes, SetStoreType DEF LoginAnswered
  <2>2. req' \in [Requests -> ReqRec]
    BY <1>3, <1>a, <1>b, Zero, SendType DEF LoginAnswered, Typed
  <2>3. login' \in [Tabs -> LoginRec]
    BY <1>3, <1>b DEF LoginAnswered, Typed, LoginRec
  <2> QED BY <1>3, <1>b, <2>1, <2>2, <2>3 DEF LoginAnswered, Typed
<1>4. ASSUME NEW next \in {"login", "leaving"}, Logout(t, next) PROVE Typed'
  <2>1. store' \in [Tabs -> StoreRec] /\ persisted' \in StoreRec
    BY <1>4, <1>b, Zero, StoreTypes, SetStoreType DEF Logout
  <2>2. [st |-> "sent", tok |-> cookie] \in LogoutRec
    BY DEF LogoutRec, Typed
  <2> QED BY <1>4, <2>1, <2>2 DEF Logout, Typed
<1>5. CASE ServeLogout(t)
  BY <1>5, <1>b DEF ServeLogout, Typed, LogoutRec
<1>6. CASE LogoutAnswered(t)
  BY <1>6, Zero DEF LogoutAnswered, Typed
<1>7. CASE Reload(t)
  BY <1>7, Zero, QueueTypes DEF Reload, Typed
<1> QED BY <1>1, <1>2, <1>3, <1>4, <1>5, <1>6, <1>7 DEF TabStep, LogoutClick, IdleLogout,
        Leave, UserReload

LEMMA TypedStep ==
    ASSUME Typed, [Next]_vars
    PROVE  Typed'
<1>1. CASE UNCHANGED vars
  BY <1>1 DEF Typed, vars, client, server
<1>2. ASSUME NEW n \in Tokens, Expire(n) PROVE Typed'
  BY <1>2 DEF Expire, Typed, client
<1> QED BY <1>1, <1>2, TypedCall, TypedTab DEF Next

-----------------------------------------------------------------------------
(* Every token in the hands of the browser was issued, and an answer that  *)
(* grants one, to a refresh or to a login, names a real one.               *)
Numbered ==
    /\ cookie \in 0..issued /\ revoked \subseteq 1..issued
    /\ \A r \in Requests : /\ refresh[r].tok \in 0..issued
                           /\ refresh[r].st = "granted" => refresh[r].tok # 0
    /\ \A t \in Tabs : /\ login[t].tok \in 0..issued /\ logout[t].tok \in 0..issued
                       /\ login[t].st \in {"granted", "me"} => login[t].tok # 0

LEMMA NumberedInit == Init => Numbered /\ SignedInHasToken
BY DEF Init, Numbered, None, SignedInHasToken, SignedOut

LEMMA SetStoreHasToken ==
    ASSUME Typed, SignedInHasToken, NEW t \in Tabs, NEW s, s.auth => s.token # 0, SetStore(t, s)
    PROVE  SignedInHasToken'
BY DEF SetStore, Typed, SignedInHasToken

LEMMA SetLoggedInHasToken ==
    ASSUME Typed, SignedInHasToken, NEW t \in Tabs, NEW n, n # 0, NEW b, SetStore(t, LoggedIn(n, b))
    PROVE  SignedInHasToken'
<1>1. LoggedIn(n, b).token = n
  BY DEF LoggedIn
<1> QED BY <1>1, SetStoreHasToken

LEMMA NumberedCall ==
    ASSUME Typed, Numbered, SignedInHasToken, NEW r \in Requests, CallStep(r)
    PROVE  Numbered' /\ SignedInHasToken'
<1> USE DEF server
<1>a. TabOf[r] \in Tabs /\ issued \in Nat
  BY SessionAssumption DEF Typed, Tok0
<1>b. /\ Cleared(store[TabOf[r]]).auth = FALSE
      /\ store[TabOf[r]] \in StoreRec
  BY <1>a DEF Cleared, SignedOut, Typed
<1>1. CASE Request(r) \/ Serve(r) \/ EnqueueUnauth(r)
  BY <1>1 DEF Request, Serve, EnqueueUnauth, Numbered, SignedInHasToken
<1>2. CASE (ReceiveOk(r) \/ ReceiveError(r)) /\ ~IsMe(r)
  BY <1>2 DEF ReceiveOk, ReceiveError, Numbered, SignedInHasToken
<1>3. CASE ReceiveOk(r) /\ IsMe(r)
  <2>1. SignedInHasToken'
    <3>1. login[TabOf[r]].tok # 0
      BY <1>3, <1>a DEF IsMe, Numbered
    <3>2. SetStore(TabOf[r], LoggedIn(login[TabOf[r]].tok, TRUE))
      BY <1>3 DEF ReceiveOk, LoginDone
    <3> QED BY <1>a, <3>1, <3>2, SetLoggedInHasToken
  <2>2. Numbered'
    <3>1. login' = [login EXCEPT ![TabOf[r]] = None]
      BY <1>3 DEF ReceiveOk, LoginDone
    <3>2. UNCHANGED <<refresh, logout, cookie, server>>
      BY <1>3 DEF ReceiveOk
    <3> QED BY <3>1, <3>2, <1>a DEF Numbered, None, Typed
  <2> QED BY <2>1, <2>2
<1>4. CASE ReceiveError(r) /\ IsMe(r)
  <2>1. SignedInHasToken'
    BY <1>4, <1>a, <1>b, SetStoreHasToken DEF ReceiveError, LoginFailed
  <2>2. Numbered'
    <3>1. login' = [login EXCEPT ![TabOf[r]] = None]
      BY <1>4 DEF ReceiveError, LoginFailed
    <3>2. UNCHANGED <<refresh, logout, cookie, server>>
      BY <1>4 DEF ReceiveError
    <3> QED BY <3>1, <3>2, <1>a DEF Numbered, None, Typed
  <2> QED BY <2>1, <2>2
<1>5. CASE StartRefresh(r)
  <2>1. Numbered'
    BY <1>5, <1>a DEF StartRefresh, Numbered, Typed
  <2> QED BY <1>5, <2>1 DEF StartRefresh, SignedInHasToken
<1>6. CASE ServeRefresh(r)
  <2>1. Numbered'
    BY <1>6, <1>a DEF ServeRefresh, Issue, Numbered, Typed
  <2> QED BY <1>6, <2>1 DEF ServeRefresh, SignedInHasToken
<1>7. CASE RefreshGranted(r)
  <2>1. refresh[r].tok # 0 /\ refresh[r].tok \in 0..issued
    BY <1>7 DEF RefreshGranted, Numbered
  <2>2. \A n : UpdateTokens(store[TabOf[r]], n).token = n
    BY <1>b DEF UpdateTokens, StoreRec
  <2>3. SignedInHasToken'
    BY <1>7, <1>a, <2>1, <2>2, SetStoreHasToken DEF RefreshGranted
  <2>4. Numbered'
    BY <1>7, <1>a, <2>1 DEF RefreshGranted, Numbered, None, Typed
  <2> QED BY <2>3, <2>4
<1>8. CASE RefreshRefused(r)
  <2>1. SignedInHasToken'
    BY <1>8, <1>a, <1>b, SetStoreHasToken DEF RefreshRefused
  <2>2. Numbered'
    BY <1>8, <1>a DEF RefreshRefused, Numbered, None, Typed
  <2> QED BY <2>1, <2>2
<1> QED BY <1>1, <1>2, <1>3, <1>4, <1>5, <1>6, <1>7, <1>8 DEF CallStep

LEMMA NumberedTab ==
    ASSUME Typed, Numbered, SignedInHasToken, NEW t \in Tabs, TabStep(t)
    PROVE  Numbered' /\ SignedInHasToken'
<1> USE DEF server
<1>a. MeOf[t] \in Requests /\ issued \in Nat
  BY SessionAssumption DEF Typed, Tok0
<1>b. Cleared(store[t]).auth = FALSE
  BY DEF Cleared, SignedOut
<1>1. CASE SubmitLogin(t)
  BY <1>1, <1>a DEF SubmitLogin, Numbered, Typed, SignedInHasToken
<1>2. CASE ServeLogin(t)
  <2>1. Numbered'
    BY <1>2, <1>a DEF ServeLogin, Issue, Numbered, Typed, None
  <2> QED BY <1>2, <2>1 DEF ServeLogin, SignedInHasToken
<1>3. CASE LoginAnswered(t)
  <2>1. SignedInHasToken'
    <3>1. login[t].tok # 0
      BY <1>3 DEF LoginAnswered, Numbered
    <3>2. SetStore(t, LoggedIn(login[t].tok, FALSE))
      BY <1>3 DEF LoginAnswered
    <3> QED BY <3>1, <3>2, SetLoggedInHasToken
  <2>2. Numbered'
    BY <1>3, <1>a DEF LoginAnswered, Numbered, Typed, LoginRec
  <2> QED BY <2>1, <2>2
<1>4. ASSUME NEW next \in {"login", "leaving"}, Logout(t, next)
      PROVE  Numbered' /\ SignedInHasToken'
  <2>1. SignedInHasToken'
    BY <1>4, <1>b, SetStoreHasToken DEF Logout
  <2>2. Numbered'
    BY <1>4, <1>a DEF Logout, Numbered, Typed
  <2> QED BY <2>1, <2>2
<1>5. CASE ServeLogout(t)
  BY <1>5, <1>a DEF ServeLogout, Presented, Numbered, Typed, LogoutRec, SignedInHasToken
<1>6. CASE LogoutAnswered(t)
  BY <1>6, <1>a DEF LogoutAnswered, Numbered, Typed, None, SignedInHasToken
<1>7. CASE Reload(t)
  <2>1. SignedInHasToken'
    BY <1>7 DEF Reload, Typed, SignedInHasToken
  <2>2. Numbered'
    <3>1. Presented(logout[t].tok) \subseteq 1..issued
      BY <1>a DEF Presented, Numbered
    <3>2. revoked' \subseteq 1..issued /\ cookie' = cookie /\ issued' = issued
      BY <1>7, <3>1 DEF Reload, Numbered
    <3>3. \A q \in Requests : refresh'[q] = None \/ refresh'[q] = refresh[q]
      BY <1>7 DEF Reload
    <3>4. \A u \in Tabs : /\ login'[u] = None \/ login'[u] = login[u]
                          /\ logout'[u] = None \/ logout'[u] = logout[u]
      BY <1>7 DEF Reload, Typed
    <3> QED BY <1>a, <3>2, <3>3, <3>4 DEF Numbered, None
  <2> QED BY <2>1, <2>2
<1> QED BY <1>1, <1>2, <1>3, <1>4, <1>5, <1>6, <1>7 DEF TabStep, LogoutClick, IdleLogout,
        Leave, UserReload

LEMMA NumberedStep ==
    ASSUME Typed, Numbered, SignedInHasToken, [Next]_vars
    PROVE  Numbered' /\ SignedInHasToken'
<1>1. CASE UNCHANGED vars
  BY <1>1 DEF Numbered, SignedInHasToken, vars, client, server
<1>2. ASSUME NEW n \in Tokens, Expire(n) PROVE Numbered' /\ SignedInHasToken'
  BY <1>2 DEF Expire, Numbered, SignedInHasToken, client
<1> QED BY <1>1, <1>2, NumberedCall, NumberedTab DEF Next

(* In every reachable state the tokens are well typed and were issued, and *)
(* a tab that says it is signed in holds one.                              *)
THEOREM TokensInvariant == Spec => [](Typed /\ Numbered /\ SignedInHasToken)
<1> DEFINE Inv == Typed /\ Numbered /\ SignedInHasToken
<1>1. Init => Inv
  BY TypedInit, NumberedInit
<1>2. Inv /\ [Next]_vars => Inv'
  BY TypedStep, NumberedStep
<1> QED BY <1>1, <1>2, PTL DEF Spec

(* Every value keeps its type.                                             *)
THEOREM TypeCorrect == Spec => []TypeOK
<1>1. Typed /\ Numbered => TypeOK
  BY TypedIsTypeOK DEF Numbered
<1> QED BY <1>1, TokensInvariant, PTL

(* A tab that says it is signed in holds a token, whatever the order of     *)
(* logins, renewals, logouts and reloads in all the tabs.                   *)
THEOREM SignedInHasTokenAlways == Spec => []SignedInHasToken
BY TokensInvariant, PTL

-----------------------------------------------------------------------------
(* A call that has its _retry mark started one refresh, any other none.    *)
MarkFits(c) == c.starts = IF c.retry THEN 1 ELSE 0
Marked == \A r \in Requests : MarkFits(req[r])

LEMMA SendFits ==
    ASSUME NEW c \in ReqRec, MarkFits(c), NEW n
    PROVE  MarkFits(Send(c, n)) /\ Send(c, n).state = "sent"
BY DEF Send, MarkFits, ReqRec

LEMMA EndFits == \A how : MarkFits(End(how)) /\ End(how).state = how
BY DEF End, Idle, MarkFits

LEMMA StateFits ==
    ASSUME NEW c \in ReqRec, MarkFits(c), NEW s
    PROVE  MarkFits([c EXCEPT !.state = s]) /\ [c EXCEPT !.state = s].state = s
BY DEF MarkFits, ReqRec

LEMMA StartFits ==
    ASSUME NEW c \in ReqRec, MarkFits(c), ~c.retry
    PROVE  MarkFits(Start(c)) /\ Start(c).state = "refreshing"
<1> DEFINE m == MarkRetried(c)
<1>1. m \in ReqRec /\ m.starts = 0 /\ m.retry = TRUE
  BY MarkType DEF MarkRetried, ReqRec, MarkFits
<1>2. m.starts + 1 = 1
  BY <1>1
<1> HIDE DEF m
<1>3. ASSUME NEW k
      PROVE  /\ [m EXCEPT !.state = "refreshing", !.starts = k].starts = k
             /\ [m EXCEPT !.state = "refreshing", !.starts = k].retry = m.retry
             /\ [m EXCEPT !.state = "refreshing", !.starts = k].state = "refreshing"
  BY <1>1 DEF ReqRec
<1>4. Start(c) = [m EXCEPT !.state = "refreshing", !.starts = m.starts + 1]
  BY Zenon DEF Start, m
<1> QED BY <1>1, <1>2, <1>3, <1>4 DEF MarkFits

(* A refresh, granted or refused, and a reload replace the records of      *)
(* calls by records that fit.                                              *)
LEMMA QueueFits ==
    ASSUME Typed, Marked, NEW t \in Tabs, NEW n, NEW r \in Requests
    PROVE  /\ MarkFits(Resumed(t, n)[r]) /\ MarkFits(Rejected(t)[r]) /\ MarkFits(Abandoned(t)[r])
           /\ n \in Tok0 => MarkFits(Send(Resumed(t, n)[r], n))
<1>1. req[r] \in ReqRec /\ MarkFits(req[r])
  BY DEF Typed, Marked
<1>2. Resumed(t, n)[r] \in {req[r], Send(req[r], n)}
  BY DEF Resumed
<1>3. Rejected(t)[r] \in {req[r], End("failed")} /\ Abandoned(t)[r] \in {req[r], End("dropped")}
  BY DEF Rejected, Abandoned
<1>4. n \in Tok0 => Resumed(t, n)[r] \in ReqRec
  BY <1>1, <1>2, SendType
<1> QED BY <1>1, <1>2, <1>3, <1>4, SendFits, EndFits

LEMMA MarkedCall ==
    ASSUME Typed, Marked, NEW r \in Requests, CallStep(r)
    PROVE  Marked'
<1>a. /\ req[r] \in ReqRec /\ MarkFits(req[r]) /\ TabOf[r] \in Tabs /\ refresh[r].tok \in Tok0
  BY SessionAssumption DEF Typed, Marked, RefreshRec
<1>b. ASSUME NEW c, MarkFits(c), req' = [req EXCEPT ![r] = c]
      PROVE  Marked'
  BY <1>b DEF Marked, Typed
<1>1. CASE Request(r)
  <2>1. req' = [req EXCEPT ![r] = Send(req[r], store[TabOf[r]].token)]
    BY <1>1 DEF Request
  <2> QED BY <1>a, <1>b, <2>1, SendFits
<1>2. CASE Serve(r) \/ EnqueueUnauth(r)
  <2>1. PICK s : req' = [req EXCEPT ![r].state = s]
    BY <1>2 DEF Serve, EnqueueUnauth
  <2> QED BY <1>a, <1>b, <2>1, StateFits
<1>3. CASE ReceiveOk(r) \/ ReceiveError(r)
  <2>1. PICK how : req' = [req EXCEPT ![r] = End(how)]
    BY <1>3 DEF ReceiveOk, ReceiveError
  <2> QED BY <1>b, <2>1, EndFits
<1>4. CASE StartRefresh(r)
  BY <1>4, <1>a, <1>b, StartFits DEF StartRefresh
<1>5. CASE ServeRefresh(r)
  BY <1>5 DEF ServeRefresh, Marked
<1>6. CASE RefreshGranted(r)
  <2> DEFINE f == Resumed(TabOf[r], refresh[r].tok)
  <2>1. req' = [f EXCEPT ![r] = Send(f[r], refresh[r].tok)]
    BY <1>6 DEF RefreshGranted
  <2>2. f = [q \in Requests |-> f[q]]
    BY DEF Resumed
  <2>3. \A q \in Requests : MarkFits(f[q])
    BY <1>a, QueueFits
  <2>4. MarkFits(Send(f[r], refresh[r].tok))
    BY <1>a, QueueFits
  <2> HIDE DEF f
  <2>5. \A q \in Requests : req'[q] = IF q = r THEN Send(f[r], refresh[r].tok) ELSE f[q]
    BY <2>1, <2>2
  <2> QED BY <2>3, <2>4, <2>5 DEF Marked
<1>7. CASE RefreshRefused(r)
  <2> DEFINE f == Rejected(TabOf[r])
  <2>1. req' = [f EXCEPT ![r] = End("failed")]
    BY <1>7 DEF RefreshRefused
  <2>2. f = [q \in Requests |-> f[q]]
    BY DEF Rejected
  <2>3. \A q \in Requests : MarkFits(f[q])
    BY <1>a, QueueFits
  <2> HIDE DEF f
  <2>4. \A q \in Requests : req'[q] = IF q = r THEN End("failed") ELSE f[q]
    BY <2>1, <2>2
  <2> QED BY <2>3, <2>4, EndFits DEF Marked
<1> QED BY <1>1, <1>2, <1>3, <1>4, <1>5, <1>6, <1>7 DEF CallStep

LEMMA MarkedStep ==
    ASSUME Typed, Marked, [Next]_vars
    PROVE  Marked'
<1>1. ASSUME UNCHANGED req PROVE Marked'
  BY <1>1 DEF Marked
<1>2. ASSUME NEW t \in Tabs, TabStep(t) PROVE Marked'
  <2>1. CASE SubmitLogin(t) \/ ServeLogin(t) \/ ServeLogout(t) \/ LogoutAnswered(t)
    BY <2>1, <1>1 DEF SubmitLogin, ServeLogin, ServeLogout, LogoutAnswered
  <2>2. CASE LoginAnswered(t)
    <3>1. MeOf[t] \in Requests /\ Idle \in ReqRec /\ MarkFits(Idle)
      BY SessionAssumption, Zero DEF Idle, MarkFits
    <3>2. MarkFits(Send(Idle, login[t].tok))
      BY <3>1, SendFits
    <3>3. req' = [req EXCEPT ![MeOf[t]] = Send(Idle, login[t].tok)]
      BY <2>2 DEF LoginAnswered
    <3> QED BY <3>1, <3>2, <3>3 DEF Marked, Typed
  <2>3. CASE LogoutClick(t) \/ IdleLogout(t)
    BY <2>3, <1>1 DEF LogoutClick, IdleLogout, Logout
  <2>4. CASE Reload(t)
    BY <2>4, QueueFits DEF Reload, Marked
  <2> QED BY <1>2, <2>1, <2>2, <2>3, <2>4 DEF TabStep, Leave, UserReload
<1>3. CASE UNCHANGED vars
  BY <1>3, <1>1 DEF vars, client
<1>4. ASSUME NEW n \in Tokens, Expire(n) PROVE Marked'
  BY <1>4, <1>1 DEF Expire, client
<1> QED BY <1>2, <1>3, <1>4, MarkedCall DEF Next

(* No call renews the session twice, not even one the server always answers *)
(* 401, or one that waited for the refresh of another first.                *)
THEOREM RefreshOnceAlways == Spec => []RefreshOnce
<1> DEFINE Inv == Typed /\ Marked
<1>1. Init => Inv
  BY TypedInit DEF Init, Marked, MarkFits, Idle
<1>2. Inv /\ [Next]_vars => Inv'
  BY TypedStep, MarkedStep
<1>3. Inv => RefreshOnce
  BY DEF Marked, MarkFits, RefreshOnce
<1> QED BY <1>1, <1>2, <1>3, PTL DEF Spec

-----------------------------------------------------------------------------
(* Who waits for what.  A call that waits for the refresh it started is    *)
(* the only one of its tab, and isRefreshing says that there is one; the   *)
(* calls in failedQueue are those in the state queued, and there are none  *)
(* without a refresh; a /users/me under way belongs to a login.            *)
Waiting(r) == req[r].state \in {"queued", "refreshing"}

Renewing ==
    /\ \A r \in Requests : /\ refresh[r].st # "none" <=> req[r].state = "refreshing"
                           /\ req[r].state = "refreshing" => refreshing[TabOf[r]]
    /\ \A t \in Tabs : refreshing[t] => \E r \in OfTab(t) : req[r].state = "refreshing"
    /\ \A r, q \in Requests :
          TabOf[r] = TabOf[q] /\ req[r].state = "refreshing" /\ req[q].state = "refreshing"
             => r = q

MeOfLogin ==
    \A t \in Tabs : req[MeOf[t]].state \in {"queued", "refreshing"} \cup InFlight
                     => login[t].st = "me"

CallsInv == Renewing /\ NoStrandedCall

LEMMA SameQueue ==
    ASSUME NEW S, NEW f, NEW g, \A q \in S : f[q].state = "queued" <=> g[q].state = "queued"
    PROVE  {q \in S : f[q].state = "queued"} = {q \in S : g[q].state = "queued"}
OBVIOUS

(* A step of a call that does not wait, before or after, touches neither.  *)
LEMMA ElsewhereStep ==
    ASSUME Typed, CallsInv, NEW r \in Requests, NEW c, ~Waiting(r),
           c.state \notin {"queued", "refreshing"},
           req' = [req EXCEPT ![r] = c], UNCHANGED <<refreshing, queue, refresh>>
    PROVE  CallsInv'
<1>1. \A q \in Requests : /\ req'[q].state = "queued" <=> req[q].state = "queued"
                          /\ req'[q].state = "refreshing" <=> req[q].state = "refreshing"
  BY DEF Waiting, Typed
<1>2. Renewing'
  BY <1>1 DEF CallsInv, Renewing, OfTab
<1>3. NoStrandedCall'
  <2>1. ASSUME NEW t \in Tabs
        PROVE  {q \in OfTab(t) : req'[q].state = "queued"}
               = {q \in OfTab(t) : req[q].state = "queued"}
    BY <1>1, SameQueue DEF OfTab
  <2>2. queue' = queue /\ refreshing' = refreshing
    OBVIOUS
  <2>3. ASSUME NEW t \in Tabs
        PROVE  /\ queue'[t] = {q \in OfTab(t) : req'[q].state = "queued"}
               /\ queue'[t] # {} => refreshing'[t]
    BY Zenon, <2>1, <2>2 DEF CallsInv, NoStrandedCall
  <2> QED BY Zenon, <2>3 DEF NoStrandedCall, OfTab
<1> QED BY <1>2, <1>3 DEF CallsInv

(* A step that ends the refresh of a tab, and lets go of all its calls.    *)
LEMMA LetGoStep ==
    ASSUME Typed, CallsInv, NEW t \in Tabs,
           refreshing' = [refreshing EXCEPT ![t] = FALSE], queue' = [queue EXCEPT ![t] = {}],
           \A q \in OfTab(t) : ~Waiting(q)' /\ refresh'[q].st = "none",
           \A q \in Requests \ OfTab(t) : req'[q] = req[q] /\ refresh'[q] = refresh[q]
    PROVE  CallsInv'
<1>1. \A u \in Tabs : u # t => refreshing'[u] = refreshing[u] /\ queue'[u] = queue[u]
  BY DEF Typed
<1>2. refreshing'[t] = FALSE /\ queue'[t] = {}
  BY DEF Typed
<1>3. \A q \in Requests : q \in OfTab(t) <=> TabOf[q] = t
  BY DEF OfTab
<1>4. \A q \in OfTab(t) : q \in Requests /\ req'[q].state # "queued"
                         /\ req'[q].state # "refreshing"
  BY DEF Waiting, OfTab
<1>5. Renewing'
  BY <1>1, <1>2, <1>3, <1>4 DEF CallsInv, Renewing, OfTab
<1>6. NoStrandedCall'
  BY <1>1, <1>2, <1>3, <1>4 DEF CallsInv, NoStrandedCall, OfTab
<1> QED BY <1>5, <1>6 DEF CallsInv

LEMMA CallsCall ==
    ASSUME Typed, Marked, CallsInv, NEW r \in Requests, CallStep(r)
    PROVE  CallsInv'
<1>a. req[r] \in ReqRec /\ MarkFits(req[r]) /\ TabOf[r] \in Tabs /\ r \in OfTab(TabOf[r])
  BY SessionAssumption DEF Typed, Marked, OfTab
<1>1. CASE Request(r)
  BY <1>1, <1>a, SendFits, ElsewhereStep DEF Request, Waiting
<1>2. CASE Serve(r)
  <2>1. PICK s \in {"ok", "unauth"} : req' = [req EXCEPT ![r].state = s]
    BY <1>2 DEF Serve
  <2>2. [req[r] EXCEPT !.state = s].state = s
    BY <1>a, StateFits
  <2> QED BY <1>2, <2>1, <2>2, ElsewhereStep DEF Serve, Waiting
<1>3. CASE ReceiveOk(r) \/ ReceiveError(r)
  <2>1. PICK how \in {"done", "failed"} : req' = [req EXCEPT ![r] = End(how)]
    BY <1>3 DEF ReceiveOk, ReceiveError
  <2> QED BY <1>3, <2>1, EndFits, ElsewhereStep DEF ReceiveOk, ReceiveError, Waiting
<1>4. CASE EnqueueUnauth(r)
  <2> DEFINE t == TabOf[r]
  <2>1. \A q \in Requests : req'[q].state = IF q = r THEN "queued" ELSE req[q].state
    BY <1>4, <1>a, StateFits DEF EnqueueUnauth, Typed
  <2>2. \A u \in Tabs : queue'[u] = IF u = t THEN queue[u] \cup {r} ELSE queue[u]
    BY <1>4 DEF EnqueueUnauth, Typed
  <2>3. req[r].state = "unauth" /\ refreshing[t] /\ UNCHANGED <<refreshing, refresh>>
    BY <1>4 DEF EnqueueUnauth
  <2>4. Renewing'
    BY <2>1, <2>3 DEF CallsInv, Renewing, OfTab
  <2>5. NoStrandedCall'
    <3>1. ASSUME NEW u \in Tabs
          PROVE  queue'[u] = {q \in OfTab(u) : req'[q].state = "queued"}
      <4>1. queue[u] = {q \in OfTab(u) : req[q].state = "queued"}
        BY DEF CallsInv, NoStrandedCall
      <4>2. \A q \in OfTab(u) : q \in Requests /\ TabOf[q] = u
        BY DEF OfTab
      <4>3. CASE u = t
        BY <1>a, <2>1, <2>2, <4>1, <4>2, <4>3
      <4>4. CASE u # t
        BY <2>1, <2>2, <4>1, <4>2, <4>4
      <4> QED BY <4>3, <4>4
    <3>2. ASSUME NEW u \in Tabs, queue'[u] # {} PROVE refreshing'[u]
      BY <2>2, <2>3, <3>2 DEF CallsInv, NoStrandedCall
    <3> QED BY <3>1, <3>2 DEF NoStrandedCall, OfTab
  <2> QED BY <2>4, <2>5 DEF CallsInv
<1>5. CASE StartRefresh(r)
  <2> DEFINE t == TabOf[r]
  <2>1. ~req[r].retry /\ req[r].state = "unauth" /\ ~refreshing[t] /\ queue' = queue
    BY <1>5 DEF StartRefresh
  <2>2. \A q \in Requests : req'[q].state = IF q = r THEN "refreshing" ELSE req[q].state
    BY <1>5, <1>a, <2>1, StartFits DEF StartRefresh, Typed
  <2>3. refreshing'[t] /\ \A u \in Tabs : u # t => refreshing'[u] = refreshing[u]
    BY <1>5, <1>a DEF StartRefresh, MarkRefreshing, Typed
  <2>4. \A q \in Requests : refresh'[q].st = IF q = r THEN "asked" ELSE refresh[q].st
    BY <1>5 DEF StartRefresh, Typed
  <2>5. Renewing'
    <3>1. ASSUME NEW q \in Requests
          PROVE  /\ refresh'[q].st # "none" <=> req'[q].state = "refreshing"
                 /\ req'[q].state = "refreshing" => refreshing'[TabOf[q]]
      <4>1. TabOf[q] \in Tabs
        BY SessionAssumption
      <4>2. refresh'[q].st # "none" <=> req'[q].state = "refreshing"
        BY <2>2, <2>4 DEF CallsInv, Renewing
      <4>3. ASSUME req'[q].state = "refreshing" PROVE refreshing'[TabOf[q]]
        <5>1. CASE TabOf[q] = t
          BY <2>3, <5>1
        <5>2. CASE TabOf[q] # t
          <6>1. q # r /\ req[q].state = "refreshing"
            BY <2>2, <4>3, <5>2
          <6>2. refreshing[TabOf[q]]
            BY <6>1 DEF CallsInv, Renewing
          <6> QED BY <2>3, <4>1, <5>2, <6>2
        <5> QED BY <5>1, <5>2
      <4> QED BY <4>2, <4>3
    <3>2. ASSUME NEW u \in Tabs, refreshing'[u]
          PROVE  \E q \in OfTab(u) : req'[q].state = "refreshing"
      <4>1. CASE u = t
        BY <1>a, <2>2, <4>1
      <4>2. CASE u # t
        BY <2>2, <2>3, <3>2, <4>2 DEF CallsInv, Renewing, OfTab
      <4> QED BY <4>1, <4>2
    <3>3. ASSUME NEW p \in Requests, NEW q \in Requests, TabOf[p] = TabOf[q],
                 req'[p].state = "refreshing", req'[q].state = "refreshing"
          PROVE  p = q
      BY <2>1, <2>2, <3>3 DEF CallsInv, Renewing
    <3> QED BY <3>1, <3>2, <3>3 DEF Renewing, OfTab
  <2>6. NoStrandedCall'
    <3>1. \A u \in Tabs : {q \in OfTab(u) : req'[q].state = "queued"}
                          = {q \in OfTab(u) : req[q].state = "queued"}
      BY <2>1, <2>2 DEF OfTab
    <3> QED BY <2>1, <2>3, <3>1 DEF CallsInv, NoStrandedCall, OfTab
  <2> QED BY <2>5, <2>6 DEF CallsInv
<1>6. CASE ServeRefresh(r)
  <2>1. refresh[r].st = "asked" /\ UNCHANGED <<req, refreshing, queue>>
    BY <1>6 DEF ServeRefresh
  <2>2. \A q \in Requests : refresh'[q].st = IF q = r THEN "granted" ELSE refresh[q].st
    BY <1>6 DEF ServeRefresh, Typed
  <2> QED BY <2>1, <2>2 DEF CallsInv, Renewing, NoStrandedCall, OfTab
<1>7. CASE RefreshGranted(r) \/ RefreshRefused(r)
  <2> DEFINE t == TabOf[r]  n == refresh[r].tok
  <2>1. refreshing' = [refreshing EXCEPT ![t] = FALSE] /\ queue' = [queue EXCEPT ![t] = {}]
    BY <1>7 DEF RefreshGranted, RefreshRefused, NotRefreshing
  <2>2. \A q \in Requests : refresh'[q] = IF q = r THEN None ELSE refresh[q]
    BY <1>7 DEF RefreshGranted, RefreshRefused, Typed
  <2>3. \A q \in Requests :
           IF q \in queue[t] \cup {r} THEN req'[q].state \in {"sent", "failed"}
                                     ELSE req'[q] = req[q]
    <3>1. CASE RefreshGranted(r)
      <4> DEFINE f == Resumed(t, n)
      <4>1. n \in Tok0
        BY DEF Typed, RefreshRec
      <4>2. \A q \in Requests : f[q] = IF q \in queue[t] THEN Send(req[q], n) ELSE req[q]
        BY DEF Resumed
      <4>3. f = [q \in Requests |-> f[q]] /\ req' = [f EXCEPT ![r] = Send(f[r], n)]
        BY <3>1 DEF RefreshGranted, Resumed
      <4>4. \A q \in Requests : req[q] \in ReqRec /\ MarkFits(req[q])
        BY DEF Typed, Marked
      <4>5. f[r] \in ReqRec /\ MarkFits(f[r])
        BY <1>a, <4>1, QueueFits, QueueTypes
      <4>6. Send(f[r], n).state = "sent" /\ \A q \in Requests : Send(req[q], n).state = "sent"
        BY <4>4, <4>5, SendFits
      <4> HIDE DEF f, n
      <4>7. \A q \in Requests : req'[q] = IF q = r THEN Send(f[r], n) ELSE f[q]
        BY <4>3
      <4> QED BY <4>2, <4>6, <4>7
    <3>2. CASE RefreshRefused(r)
      <4> DEFINE f == Rejected(t)
      <4>1. \A q \in Requests : f[q] = IF q \in queue[t] THEN End("failed") ELSE req[q]
        BY DEF Rejected
      <4>2. f = [q \in Requests |-> f[q]] /\ req' = [f EXCEPT ![r] = End("failed")]
        BY <3>2 DEF RefreshRefused, Rejected
      <4> HIDE DEF f
      <4>3. \A q \in Requests : req'[q] = IF q = r THEN End("failed") ELSE f[q]
        BY <4>2
      <4> QED BY <4>1, <4>3, EndFits
    <3> QED BY <1>7, <3>1, <3>2
  <2>4. req[r].state = "refreshing"
    BY <1>7 DEF RefreshGranted, RefreshRefused, CallsInv, Renewing
  <2>5. queue[t] = {q \in OfTab(t) : req[q].state = "queued"}
    BY <1>a DEF CallsInv, NoStrandedCall
  <2>6. \A q \in OfTab(t) : ~Waiting(q)' /\ refresh'[q].st = "none"
    <3> TAKE q \in OfTab(t)
    <3>1. q \in Requests /\ TabOf[q] = t
      BY DEF OfTab
    <3>2. CASE q = r
      BY <2>2, <2>3, <3>1, <3>2 DEF Waiting, None
    <3>3. CASE q # r
      <4>1. req[q].state # "refreshing"
        BY <2>4, <3>1, <3>3 DEF CallsInv, Renewing
      <4>2. refresh'[q].st = "none"
        BY <2>2, <3>1, <3>3, <4>1 DEF CallsInv, Renewing
      <4>3. ~Waiting(q)'
        BY <2>3, <2>5, <3>1, <3>3, <4>1 DEF Waiting
      <4> QED BY <4>2, <4>3
    <3> QED BY <3>2, <3>3
  <2>7. \A q \in Requests \ OfTab(t) : req'[q] = req[q] /\ refresh'[q] = refresh[q]
    BY <1>a, <2>2, <2>3, <2>5
  <2> QED BY <1>a, <2>1, <2>6, <2>7, LetGoStep
<1> QED BY <1>1, <1>2, <1>3, <1>4, <1>5, <1>6, <1>7 DEF CallStep

LEMMA MeOfLoginCall ==
    ASSUME Typed, Marked, CallsInv, MeOfLogin, NEW r \in Requests, CallStep(r)
    PROVE  MeOfLogin'
<1>a. /\ req[r] \in ReqRec /\ MarkFits(req[r]) /\ TabOf[r] \in Tabs
      /\ \A t \in Tabs : MeOf[t] \in Requests /\ TabOf[MeOf[t]] = t
  BY SessionAssumption DEF Typed, Marked
<1> DEFINE Busy == {"queued", "refreshing", "sent", "ok", "unauth"}
(* The call goes on, or ends; the logins stay as they are.                 *)
<1>b. ASSUME NEW c, req' = [req EXCEPT ![r] = c], login' = login,
             c.state \in Busy => req[r].state \in Busy \/ r # MeOf[TabOf[r]]
      PROVE  MeOfLogin'
  BY <1>a, <1>b DEF MeOfLogin, Typed, InFlight
<1>1. CASE Request(r)
  BY <1>1, <1>a, <1>b DEF Request
<1>2. CASE Serve(r) \/ EnqueueUnauth(r)
  <2>1. PICK s : req' = [req EXCEPT ![r].state = s] /\ login' = login /\ req[r].state \in Busy
    BY <1>2 DEF Serve, EnqueueUnauth
  <2> QED BY <1>b, <2>1
<1>3. CASE ReceiveOk(r) \/ ReceiveError(r)
  <2>1. PICK how \in {"done", "failed"} : req' = [req EXCEPT ![r] = End(how)]
    BY <1>3 DEF ReceiveOk, ReceiveError
  <2>2. End(how).state \notin Busy
    BY <2>1, EndFits
  <2>3. CASE ~IsMe(r)
    BY <1>3, <1>b, <2>1, <2>2, <2>3 DEF ReceiveOk, ReceiveError
  <2>4. CASE IsMe(r)
    <3>1. \A t \in Tabs : t # TabOf[r] => login'[t] = login[t] /\ MeOf[t] # r
      BY <1>3, <1>a, <2>4 DEF ReceiveOk, ReceiveError, LoginDone, LoginFailed, Typed
    <3>2. \A q \in Requests : req'[q] = IF q = r THEN End(how) ELSE req[q]
      BY <2>1 DEF Typed
    <3>3. r = MeOf[TabOf[r]]
      BY <2>4 DEF IsMe
    <3> QED BY <1>a, <2>2, <3>1, <3>2, <3>3 DEF MeOfLogin, InFlight
  <2> QED BY <2>3, <2>4
<1>4. CASE StartRefresh(r)
  <2>1. req' = [req EXCEPT ![r] = Start(req[r])] /\ login' = login /\ req[r].state \in Busy
    BY <1>4 DEF StartRefresh
  <2> QED BY <1>b, <2>1
<1>5. CASE ServeRefresh(r)
  BY <1>5 DEF ServeRefresh, MeOfLogin
<1>6. CASE RefreshGranted(r)
  <2>1. req[r].state = "refreshing" /\ login' = login
    BY <1>6 DEF RefreshGranted, CallsInv, Renewing
  <2>2. queue[TabOf[r]] = {q \in OfTab(TabOf[r]) : req[q].state = "queued"}
    BY <1>a DEF CallsInv, NoStrandedCall
  <2>3. \A q \in Requests : req'[q] = req[q] \/ req[q].state \in Busy
    BY <1>6, <2>1, <2>2 DEF RefreshGranted, Resumed
  <2> QED BY <1>a, <2>1, <2>3 DEF MeOfLogin, InFlight
<1>7. CASE RefreshRefused(r)
  <2> DEFINE t == TabOf[r]
  <2>1. queue[t] \subseteq OfTab(t)
    BY <1>a DEF CallsInv, NoStrandedCall
  <2>2. \A q \in Requests :
           req'[q] = IF q \in queue[t] \cup {r} THEN End("failed") ELSE req[q]
    BY <1>7, <1>a DEF RefreshRefused, Rejected
  <2>3. \A u \in Tabs : login'[u] = login[u] \/ (u = t /\ MeOf[t] \in queue[t] \cup {r})
    BY <1>7, <1>a DEF RefreshRefused, Typed
  <2>4. ASSUME NEW u \in Tabs, req'[MeOf[u]].state \in Busy
        PROVE  login'[u].st = "me"
    <3>1. MeOf[u] \notin queue[t] \cup {r} /\ req'[MeOf[u]] = req[MeOf[u]]
      BY <1>a, <2>2, <2>4, EndFits
    <3>2. login'[u] = login[u]
      BY <2>3, <3>1
    <3> QED BY <2>4, <3>1, <3>2 DEF MeOfLogin, InFlight
  <2> QED BY <2>4 DEF MeOfLogin, InFlight
<1> QED BY <1>1, <1>2, <1>3, <1>4, <1>5, <1>6, <1>7 DEF CallStep

LEMMA CallsTab ==
    ASSUME Typed, Marked, CallsInv, MeOfLogin, NEW t \in Tabs, TabStep(t)
    PROVE  CallsInv' /\ MeOfLogin'
<1>a. /\ MeOf[t] \in Requests /\ TabOf[MeOf[t]] = t
      /\ \A u \in Tabs : MeOf[u] \in Requests /\ TabOf[MeOf[u]] = u
  BY SessionAssumption
<1>b. ASSUME UNCHANGED <<refreshing, queue, req, refresh>>
      PROVE  CallsInv'
  BY <1>b DEF CallsInv, Renewing, NoStrandedCall, OfTab
<1>c. ASSUME UNCHANGED req, \A u \in Tabs : login'[u].st = login[u].st \/ login[u].st # "me"
      PROVE  MeOfLogin'
  BY <1>c DEF MeOfLogin
<1>1. CASE SubmitLogin(t) \/ ServeLogin(t)
  <2>1. \A u \in Tabs : login'[u] = login[u] \/ login[u].st # "me"
    BY <1>1 DEF SubmitLogin, ServeLogin, Typed
  <2> QED BY <1>1, <1>b, <1>c, <2>1 DEF SubmitLogin, ServeLogin
<1>2. CASE LogoutClick(t) \/ IdleLogout(t) \/ ServeLogout(t) \/ LogoutAnswered(t)
  BY <1>2, <1>b, <1>c DEF LogoutClick, IdleLogout, Logout, ServeLogout, LogoutAnswered
<1>3. CASE LoginAnswered(t)
  <2> DEFINE c == Send(Idle, login[t].tok)
  <2>1. req' = [req EXCEPT ![MeOf[t]] = c] /\ login[t].st = "granted"
        /\ UNCHANGED <<refreshing, queue, refresh>>
    BY <1>3 DEF LoginAnswered
  <2>2. c.state = "sent"
    BY Zero, SendFits DEF MarkFits, Idle
  <2>3. ~Waiting(MeOf[t])
    BY <2>1 DEF MeOfLogin, Waiting
  <2> HIDE DEF c
  <2>4. CallsInv'
    BY <1>a, <2>1, <2>2, <2>3, ElsewhereStep
  <2>5. login'[t].st = "me" /\ \A u \in Tabs : u # t => login'[u] = login[u]
    BY <1>3 DEF LoginAnswered, Typed, LoginRec
  <2>6. \A u \in Tabs : u # t => req'[MeOf[u]] = req[MeOf[u]]
    BY <1>a, <2>1 DEF Typed
  <2>7. MeOfLogin'
    BY <2>5, <2>6 DEF MeOfLogin
  <2> QED BY <2>4, <2>7
<1>4. CASE Reload(t)
  <2>1. refreshing' = [refreshing EXCEPT ![t] = FALSE] /\ queue' = [queue EXCEPT ![t] = {}]
    BY <1>4 DEF Reload, NotRefreshing
  <2>2. \A q \in OfTab(t) : /\ refresh'[q].st = "none"
                            /\ req'[q].state \in {"done", "failed", "dropped", "idle"}
    BY <1>4, EndFits DEF Reload, Abandoned, OfTab, None, Settled
  <2>3. \A q \in Requests \ OfTab(t) : req'[q] = req[q] /\ refresh'[q] = refresh[q]
    BY <1>4 DEF Reload, Abandoned, OfTab
  <2>4. CallsInv'
    BY <2>1, <2>2, <2>3, LetGoStep DEF Waiting
  <2>5. \A u \in Tabs : u # t => login'[u] = login[u] /\ req'[MeOf[u]] = req[MeOf[u]]
    BY <1>4, <1>a, <2>3 DEF Reload, OfTab, Typed
  <2>6. MeOf[t] \in OfTab(t)
    BY <1>a DEF OfTab
  <2>7. MeOfLogin'
    BY <2>2, <2>5, <2>6 DEF MeOfLogin, InFlight
  <2> QED BY <2>4, <2>7
<1> QED BY <1>1, <1>2, <1>3, <1>4 DEF TabStep, Leave, UserReload

(* In every reachable state isRefreshing and failedQueue of a tab tell      *)
(* which of its calls renews the token and which ones wait for it.         *)
THEOREM CallsInvariant == Spec => [](Typed /\ Marked /\ CallsInv /\ MeOfLogin)
<1> DEFINE Inv == Typed /\ Marked /\ CallsInv /\ MeOfLogin
<1>1. Init => Inv
  <2>1. Init => Marked
    BY DEF Init, Marked, MarkFits, Idle
  <2>2. Init => CallsInv
    BY DEF Init, CallsInv, Renewing, NoStrandedCall, OfTab, Idle, None
  <2>3. Init => MeOfLogin
    BY SessionAssumption DEF Init, MeOfLogin, Idle, InFlight
  <2> QED BY <2>1, <2>2, <2>3, TypedInit
<1>2. Inv /\ [Next]_vars => Inv'
  <2> SUFFICES ASSUME Inv, [Next]_vars PROVE Inv'
    OBVIOUS
  <2>1. Typed' /\ Marked'
    BY TypedStep, MarkedStep
  <2>2. CASE \E r \in Requests : CallStep(r)
    BY <2>1, <2>2, CallsCall, MeOfLoginCall
  <2>3. CASE \E t \in Tabs : TabStep(t)
    BY <2>1, <2>3, CallsTab
  <2>4. CASE UNCHANGED vars \/ \E n \in Tokens : Expire(n)
    <3>1. UNCHANGED <<refreshing, queue, req, refresh, login>>
      BY <2>4 DEF vars, client, Expire
    <3>2. CallsInv' /\ MeOfLogin'
      BY <3>1 DEF CallsInv, Renewing, NoStrandedCall, MeOfLogin, OfTab
    <3> QED BY <2>1, <3>2
  <2> QED BY <2>2, <2>3, <2>4 DEF Next
<1> QED BY <1>1, <1>2, PTL DEF Spec

(* A tab never renews its session twice at a time, and isRefreshing says   *)
(* whether it does.                                                        *)
THEOREM OneRefreshAlways == Spec => []OneRefresh
<1>1. ASSUME CallsInv, NEW t \in Tabs
      PROVE  /\ Cardinality(Refreshers(t)) = IF refreshing[t] THEN 1 ELSE 0
             /\ \A r \in OfTab(t) : r \in Refreshers(t) <=> req[r].state = "refreshing"
  <2>1. \A r \in OfTab(t) : r \in Refreshers(t) <=> req[r].state = "refreshing"
    BY <1>1 DEF CallsInv, Renewing, Refreshers, OfTab
  <2>2. CASE refreshing[t]
    <3>1. PICK r \in OfTab(t) : req[r].state = "refreshing"
      BY <1>1, <2>2 DEF CallsInv, Renewing
    <3>2. Refreshers(t) = {r}
      BY <1>1, <2>1, <3>1 DEF CallsInv, Renewing, Refreshers, OfTab
    <3> QED BY <2>1, <2>2, <3>2, FS_Singleton
  <2>3. CASE ~refreshing[t]
    <3>1. Refreshers(t) = {}
      BY <1>1, <2>1, <2>3 DEF CallsInv, Renewing, Refreshers, OfTab
    <3> QED BY <2>1, <2>3, <3>1, FS_EmptySet
  <2> QED BY <2>2, <2>3
<1>2. CallsInv => OneRefresh
  BY <1>1 DEF OneRefresh
<1> QED BY <1>2, CallsInvariant, PTL

(* No call is left in failedQueue without a refresh that will let it go.   *)
THEOREM NoStrandedCallAlways == Spec => []NoStrandedCall
<1>1. CallsInv => NoStrandedCall
  BY DEF CallsInv
<1> QED BY <1>1, CallsInvariant, PTL

=============================================================================
