---------------------------- MODULE ClientSession ----------------------------
(***************************************************************************)
(* The signed-in session of the web client: the axios interceptors that    *)
(* renew an expired access token and queue what fails meanwhile            *)
(* (api/client.ts), the persisted store they write (state/authStore.ts),   *)
(* the login page, the two ways out (the header's Logout, the idle timer)  *)
(* and the reload of a page, against the server's /auth endpoints.         *)
(* Several tabs share the refresh cookie and localStorage; each has its    *)
(* own copy of the module state (isRefreshing, failedQueue, the store).    *)
(*                                                                         *)
(* A token is the number of the pair (access token, refresh token) the     *)
(* server issued; 0 is none.                                               *)
(***************************************************************************)
EXTENDS Naturals, FiniteSets

CONSTANTS Tabs,
          Requests,   \* calls the pages make through apiClient
          TabOf,      \* the tab that makes each call
          MeOf,       \* of each tab, its GET /users/me
          Refusing,   \* calls the server answers 401 whatever the token (a wrong approver password)
          MaxTokens   \* bound: pairs the server issues

ASSUME SessionAssumption ==
    /\ TabOf \in [Requests -> Tabs]
    /\ MeOf \in [Tabs -> Requests]
    /\ \A t \in Tabs : TabOf[MeOf[t]] = t
    /\ Refusing \subseteq Requests
    /\ MaxTokens \in Nat
    /\ IsFiniteSet(Requests)

Tokens == 1..MaxTokens
Tok0 == 0..MaxTokens
StoreRec == [token : Tok0, user : BOOLEAN, auth : BOOLEAN]   \* user: the profile is there

VARIABLES
    store,       \* per tab, the zustand auth store
    persisted,   \* its copy in localStorage, shared by the tabs
    page,        \* per tab: "login", "app", or "leaving" once location.href is assigned
    refreshing,  \* per tab, isRefreshing
    queue,       \* per tab, failedQueue
    req,         \* per call: where it is, the bearer it carries, _retry, refreshes it started
    refresh,     \* per call, the POST /auth/refresh it started
    login,       \* per tab, the login under way
    logout,      \* per tab, the POST /auth/logout under way
    cookie,      \* the browser's refresh_token cookie
    live,        \* access tokens the server accepts
    revoked,     \* refresh tokens it refuses
    issued       \* pairs issued so far: 1..issued

client == <<store, persisted, page, refreshing, queue, req, refresh, login, logout>>
server == <<live, revoked, issued>>
vars == <<client, cookie, server>>

SignedOut == [token |-> 0, user |-> FALSE, auth |-> FALSE]
Idle == [state |-> "idle", bearer |-> 0, retry |-> FALSE, starts |-> 0]
None == [st |-> "none", tok |-> 0]

OfTab(t) == {r \in Requests : TabOf[r] = t}
InFlight == {"sent", "ok", "unauth"}
Settled == {"done", "failed", "dropped"}
End(how) == [Idle EXCEPT !.state = how]

TypeOK ==
    /\ store \in [Tabs -> StoreRec] /\ persisted \in StoreRec
    /\ page \in [Tabs -> {"login", "app", "leaving"}]
    /\ refreshing \in [Tabs -> BOOLEAN]
    /\ queue \in [Tabs -> SUBSET Requests]
    /\ req \in [Requests -> [state : {"idle", "queued", "refreshing"} \cup InFlight \cup Settled,
                             bearer : Tok0, retry : BOOLEAN, starts : Nat]]
    /\ refresh \in [Requests -> [st : {"none", "asked", "granted"}, tok : Tok0]]
    /\ login \in [Tabs -> [st : {"none", "sent", "granted", "me"}, tok : Tok0]]
    /\ logout \in [Tabs -> [st : {"none", "sent", "answered"}, tok : Tok0]]
    /\ cookie \in Tok0
    /\ issued \in Tok0
    /\ live \subseteq 1..issued /\ revoked \subseteq 1..issued

Init ==
    /\ store = [t \in Tabs |-> SignedOut] /\ persisted = SignedOut
    /\ page = [t \in Tabs |-> "login"]
    /\ refreshing = [t \in Tabs |-> FALSE]
    /\ queue = [t \in Tabs |-> {}]
    /\ req = [r \in Requests |-> Idle]
    /\ refresh = [r \in Requests |-> None]
    /\ login = [t \in Tabs |-> None]
    /\ logout = [t \in Tabs |-> None]
    /\ cookie = 0
    /\ live = {} /\ revoked = {} /\ issued = 0

----------------------------------------------------------------------------
(* The store.  Every write of a tab goes to localStorage as well.          *)

SetStore(t, s) == store' = [store EXCEPT ![t] = s] /\ persisted' = s

LoggedIn(tok, known) == [token |-> tok, user |-> known, auth |-> TRUE]
\* Mutant: only the token is dropped.
ClearedToken(s) == [s EXCEPT !.token = 0]
Cleared(s) == SignedOut
UpdateTokens(s, tok) == [s EXCEPT !.token = tok]

(* A call leaves with the token the store holds (client.ts, request side); *)
(* a retry after a refresh carries the token just obtained.                *)
Send(c, bearer) == [c EXCEPT !.state = "sent", !.bearer = bearer]

(* The server issues a pair.                                               *)
Issue ==
    /\ issued < MaxTokens
    /\ issued' = issued + 1
    /\ live' = live \cup {issued + 1}

----------------------------------------------------------------------------
(* A page of the application makes a call.                                 *)
Request(r) ==
    LET t == TabOf[r] IN
    /\ r # MeOf[t] /\ page[t] = "app" /\ req[r].state = "idle"
    /\ req' = [req EXCEPT ![r] = Send(@, store[t].token)]
    /\ UNCHANGED <<store, persisted, page, refreshing, queue, refresh, login, logout, cookie, server>>

(* The server's authentication dependency: 401 for a token it does not     *)
(* accept.                                                                 *)
Serve(r) ==
    /\ req[r].state = "sent"
    /\ \/ /\ req[r].bearer \in live /\ r \notin Refusing
          /\ req' = [req EXCEPT ![r].state = "ok"]
       \/ /\ req[r].bearer \notin live \/ r \in Refusing
          /\ req' = [req EXCEPT ![r].state = "unauth"]
    /\ UNCHANGED <<store, persisted, page, refreshing, queue, refresh, login, logout, cookie, server>>

(* The login page waits for its /users/me: the second login() call stores  *)
(* the user beside the access token of the login and leaves the page; a    *)
(* failure clears the store again.                                         *)
IsMe(r) == r = MeOf[TabOf[r]] /\ login[TabOf[r]].st = "me"
LoginDone(t) ==
    /\ SetStore(t, LoggedIn(login[t].tok, TRUE))
    /\ page' = [page EXCEPT ![t] = IF @ = "leaving" THEN @ ELSE "app"]
    /\ login' = [login EXCEPT ![t] = None]
LoginFailed(t) ==
    /\ SetStore(t, Cleared(store[t]))
    /\ login' = [login EXCEPT ![t] = None]
    /\ UNCHANGED page

ReceiveOk(r) ==
    /\ req[r].state = "ok"
    /\ req' = [req EXCEPT ![r] = End("done")]
    /\ IF IsMe(r) THEN LoginDone(TabOf[r])
                  ELSE UNCHANGED <<store, persisted, page, login>>
    /\ UNCHANGED <<refreshing, queue, refresh, logout, cookie, server>>

(* An error the interceptor passes on: no answer (the network, or the      *)
(* timeout of 30 s), or a 401 of a call that was already retried.          *)
ReceiveError(r) ==
    /\ req[r].state = "sent" \/ (req[r].state = "unauth" /\ req[r].retry)
    /\ req' = [req EXCEPT ![r] = End("failed")]
    /\ IF IsMe(r) THEN LoginFailed(TabOf[r])
                  ELSE UNCHANGED <<store, persisted, page, login>>
    /\ UNCHANGED <<refreshing, queue, refresh, logout, cookie, server>>

(* A first 401 while a refresh is in progress: the call waits in           *)
(* failedQueue; its _retry mark is not set.                                *)
EnqueueUnauth(r) ==
    LET t == TabOf[r] IN
    /\ req[r].state = "unauth" /\ ~req[r].retry /\ refreshing[t]
    /\ queue' = [queue EXCEPT ![t] = @ \cup {r}]
    /\ req' = [req EXCEPT ![r].state = "queued"]
    /\ UNCHANGED <<store, persisted, page, refreshing, refresh, login, logout, cookie, server>>

\* Mutants: the flag is not set; the call is not marked as retried.
NotMarked(t) == refreshing
NotRetried(c) == c
MarkRefreshing(t) == [refreshing EXCEPT ![t] = TRUE]
MarkRetried(c) == [c EXCEPT !.retry = TRUE]
Start(c) == [MarkRetried(c) EXCEPT !.state = "refreshing", !.starts = @ + 1]

(* A first 401 otherwise: the call starts the refresh.                     *)
StartRefresh(r) ==
    LET t == TabOf[r] IN
    /\ req[r].state = "unauth" /\ ~req[r].retry /\ ~refreshing[t]
    /\ refreshing' = MarkRefreshing(t)
    /\ req' = [req EXCEPT ![r] = Start(@)]
    /\ refresh' = [refresh EXCEPT ![r] = [st |-> "asked", tok |-> cookie]]
    /\ UNCHANGED <<store, persisted, page, queue, login, logout, cookie, server>>

(* POST /auth/refresh on the server: a known, unrevoked refresh token gets *)
(* a new pair; the one presented stays valid.                              *)
ServeRefresh(r) ==
    /\ refresh[r].st = "asked"
    /\ refresh[r].tok \in 1..issued \ revoked
    /\ Issue
    /\ refresh' = [refresh EXCEPT ![r] = [st |-> "granted", tok |-> issued + 1]]
    /\ UNCHANGED <<store, persisted, page, refreshing, queue, req, login, logout, cookie, revoked>>

(* processQueue: every waiting call is sent again, or rejected.            *)
Resumed(t, tok) ==
    [r \in Requests |-> IF r \in queue[t] THEN Send(req[r], tok) ELSE req[r]]
\* Mutant: the waiting calls are not rejected.
NoneRejected(t) == req
Rejected(t) ==
    [r \in Requests |-> IF r \in queue[t] THEN End("failed") ELSE req[r]]
\* Mutant: the finally branch is missing.
StillRefreshing(t) == refreshing
NotRefreshing(t) == [refreshing EXCEPT ![t] = FALSE]

RefreshGranted(r) ==
    LET t == TabOf[r]  n == refresh[r].tok IN
    /\ refresh[r].st = "granted"
    /\ cookie' = n
    /\ SetStore(t, UpdateTokens(store[t], n))
    /\ req' = [Resumed(t, n) EXCEPT ![r] = Send(@, n)]
    /\ queue' = [queue EXCEPT ![t] = {}]
    /\ refreshing' = NotRefreshing(t)
    /\ refresh' = [refresh EXCEPT ![r] = None]
    /\ UNCHANGED <<page, login, logout, server>>

(* The catch branch: the server refuses (no cookie, revoked, user blocked, *)
(* password changed) or the call fails on the network.                     *)
RefreshRefused(r) ==
    LET t == TabOf[r] IN
    /\ refresh[r].st \in {"asked", "granted"}
    /\ SetStore(t, Cleared(store[t]))
    /\ req' = [Rejected(t) EXCEPT ![r] = End("failed")]
    /\ queue' = [queue EXCEPT ![t] = {}]
    /\ refreshing' = NotRefreshing(t)
    /\ refresh' = [refresh EXCEPT ![r] = None]
    /\ page' = [page EXCEPT ![t] = IF @ = "login" THEN @ ELSE "leaving"]
    /\ login' = IF MeOf[t] \in queue[t] \cup {r} THEN [login EXCEPT ![t] = None] ELSE login
    /\ UNCHANGED <<logout, cookie, server>>

----------------------------------------------------------------------------
(* The login page: shown to a tab without a signed-in user; password and   *)
(* passcode login have the same success handler.                           *)
SubmitLogin(t) ==
    /\ page[t] = "login" /\ login[t].st = "none"
    /\ ~(store[t].auth /\ store[t].user)
    /\ login' = [login EXCEPT ![t] = [st |-> "sent", tok |-> 0]]
    /\ UNCHANGED <<store, persisted, page, refreshing, queue, req, refresh, logout, cookie, server>>

ServeLogin(t) ==
    /\ login[t].st = "sent"
    /\ \/ /\ Issue
          /\ login' = [login EXCEPT ![t] = [st |-> "granted", tok |-> issued + 1]]
       \/ login' = [login EXCEPT ![t] = None] /\ UNCHANGED <<live, issued>>
    /\ UNCHANGED <<store, persisted, page, refreshing, queue, req, refresh, logout, cookie, revoked>>

LoginAnswered(t) ==
    LET n == login[t].tok IN
    /\ login[t].st = "granted"
    /\ cookie' = n
    /\ SetStore(t, LoggedIn(n, FALSE))
    /\ req' = [req EXCEPT ![MeOf[t]] = Send(Idle, n)]
    /\ login' = [login EXCEPT ![t].st = "me"]
    /\ UNCHANGED <<page, refreshing, queue, refresh, logout, server>>

(* authStore.logout: the store is emptied first, so the POST that follows  *)
(* carries no bearer, only the cookie.  The header then navigates inside   *)
(* the application; the idle timer, and a change of one's own password,    *)
(* assign location.href.                                                   *)
Logout(t, next) ==
    /\ page[t] = "app" /\ logout[t].st = "none"
    /\ SetStore(t, Cleared(store[t]))
    /\ logout' = [logout EXCEPT ![t] = [st |-> "sent", tok |-> cookie]]
    /\ page' = [page EXCEPT ![t] = next]
    /\ UNCHANGED <<refreshing, queue, req, refresh, login, cookie, server>>

LogoutClick(t) == Logout(t, "login")
IdleLogout(t) == store[t].auth /\ Logout(t, "leaving")

\* The refresh token that came with the request, if any.
Presented(tok) == {tok} \ {0}
ServeLogout(t) ==
    /\ logout[t].st = "sent"
    /\ revoked' = revoked \cup Presented(logout[t].tok)
    /\ logout' = [logout EXCEPT ![t].st = "answered"]
    /\ UNCHANGED <<store, persisted, page, refreshing, queue, req, refresh, login, cookie, live, issued>>

LogoutAnswered(t) ==
    /\ logout[t].st = "answered"
    /\ cookie' = 0
    /\ logout' = [logout EXCEPT ![t] = None]
    /\ UNCHANGED <<store, persisted, page, refreshing, queue, req, refresh, login, server>>

(* The page is loaded afresh, by F5 or because location.href was assigned: *)
(* module state starts over, calls in flight are abandoned (the server may *)
(* still have revoked for a logout among them) and the store is read from  *)
(* localStorage.                                                           *)
Abandoned(t) ==
    [r \in Requests |->
        IF TabOf[r] = t /\ req[r].state \notin Settled \cup {"idle"}
        THEN End("dropped") ELSE req[r]]

Reload(t) ==
    /\ store' = [store EXCEPT ![t] = persisted]
    /\ page' = [page EXCEPT ![t] = IF persisted.auth /\ (page[t] = "app" \/ persisted.user)
                                   THEN "app" ELSE "login"]
    /\ refreshing' = NotRefreshing(t)
    /\ queue' = [queue EXCEPT ![t] = {}]
    /\ req' = Abandoned(t)
    /\ refresh' = [r \in Requests |-> IF TabOf[r] = t THEN None ELSE refresh[r]]
    /\ login' = [login EXCEPT ![t] = None]
    /\ logout' = [logout EXCEPT ![t] = None]
    /\ \/ revoked' = revoked \cup (IF logout[t].st = "sent" THEN Presented(logout[t].tok) ELSE {})
       \/ UNCHANGED revoked
    /\ UNCHANGED <<persisted, cookie, live, issued>>

Leave(t) == page[t] = "leaving" /\ Reload(t)
UserReload(t) == page[t] # "leaving" /\ Reload(t)

(* An access token expires.                                                *)
Expire(n) ==
    /\ n \in live
    /\ live' = live \ {n}
    /\ UNCHANGED <<client, cookie, revoked, issued>>

----------------------------------------------------------------------------
CallStep(r) ==
    \/ Request(r) \/ Serve(r) \/ ReceiveOk(r) \/ ReceiveError(r)
    \/ EnqueueUnauth(r) \/ StartRefresh(r)
    \/ ServeRefresh(r) \/ RefreshGranted(r) \/ RefreshRefused(r)

TabStep(t) ==
    \/ SubmitLogin(t) \/ ServeLogin(t) \/ LoginAnswered(t)
    \/ LogoutClick(t) \/ IdleLogout(t) \/ ServeLogout(t) \/ LogoutAnswered(t)
    \/ Leave(t) \/ UserReload(t)

Next ==
    \/ \E r \in Requests : CallStep(r)
    \/ \E t \in Tabs : TabStep(t)
    \/ \E n \in Tokens : Expire(n)

(* A call is answered or times out, an answer in hand is processed, and an *)
(* assigned location.href loads the page.  Nothing else is owed: neither   *)
(* the user nor the expiry of a token.                                     *)
Fairness ==
    /\ \A r \in Requests :
          WF_vars(\/ Serve(r) \/ ReceiveOk(r) \/ ReceiveError(r) \/ EnqueueUnauth(r)
                  \/ StartRefresh(r) \/ ServeRefresh(r) \/ RefreshGranted(r) \/ RefreshRefused(r))
    /\ \A t \in Tabs : WF_vars(Leave(t))

Spec == Init /\ [][Next]_vars
FairSpec == Spec /\ Fairness

----------------------------------------------------------------------------
Refreshers(t) == {r \in OfTab(t) : refresh[r].st # "none"}

(* One renewal at a time: isRefreshing is set exactly while one call of    *)
(* the tab waits for the refresh it started, and never two do.             *)
OneRefresh ==
    \A t \in Tabs :
        /\ Cardinality(Refreshers(t)) = IF refreshing[t] THEN 1 ELSE 0
        /\ \A r \in OfTab(t) : r \in Refreshers(t) <=> req[r].state = "refreshing"

(* A call waits in failedQueue only while a refresh is under way that will *)
(* take it out, and it is nowhere else meanwhile.                          *)
NoStrandedCall ==
    \A t \in Tabs :
        /\ queue[t] = {r \in OfTab(t) : req[r].state = "queued"}
        /\ queue[t] # {} => refreshing[t]

(* A call starts at most one refresh, also when it was queued before (the  *)
(* queued call gets no _retry mark) and when the server answers it 401     *)
(* whatever its token: no call renews the session for ever.                *)
RefreshOnce == \A r \in Requests : req[r].starts <= 1

(* A tab that shows the application signed in holds a token, and localStorage *)
(* never says signed in without one.                                       *)
SignedInHasToken ==
    /\ \A t \in Tabs : store[t].auth => store[t].token # 0
    /\ persisted.auth => persisted.token # 0

(* Every call that was made ends: answered, failed or abandoned with its   *)
(* page.                                                                   *)
EveryCallSettles ==
    \A r \in Requests \ {MeOf[t] : t \in Tabs} : (req[r].state # "idle") ~> (req[r].state \in Settled)

(* What the QA record says of Logout, that it clears the auth state: from  *)
(* a logout to the next login the store of the tab holds no token.         *)
SignedOutHasNoToken == \A t \in Tabs : ~store[t].auth => store[t].token = 0

(* What the logout tests say: logout revokes the access token.  Once its   *)
(* call is answered, the token the tab held is not accepted any more.      *)
LogoutRevokes ==
    \A t \in Tabs : logout[t].st = "answered" => logout[t].tok \notin live
=============================================================================
