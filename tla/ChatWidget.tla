----------------------------- MODULE ChatWidget -----------------------------
(***************************************************************************)
(* The assistant of the header (frontend features/chat-agent).  A message  *)
(* opens a stream; on the way the server may commit a proposed action and  *)
(* send a card for it.  The user approves or rejects the card, the server  *)
(* carries the proposal out, and the answer marks the card.  Meanwhile the *)
(* user may stop the stream, close and reopen the widget, start a new chat *)
(* or reload the page, and the transcript of the remembered conversation   *)
(* is fetched when the widget opens empty.                                 *)
(*                                                                         *)
(* A proposal is carried out by a service that commits on its own.  That   *)
(* commit ends the lock under which the status was read, and the status    *)
(* is written after it.                                                    *)
(***************************************************************************)
EXTENDS Integers, FiniteSets, Sequences

CONSTANTS Actions,       \* the proposals the assistant may make
          Messages,      \* the messages the user may send
          MaxClicks,     \* bound: calls one card may send
          MaxReads       \* bound: transcript loads, and closings or reloads

ASSUME ChatAssumption == MaxClicks \in Nat /\ MaxReads \in Nat

VARIABLES open,          \* chatAgentStore: is the widget open?
          pointer,       \* chatAgentStore: conversationId, persisted ({} is null)
          entries,       \* the entries shown: messages, "old" (fetched), "info"
          cards,         \* action -> what its card says, "none" if not shown
          busy,          \* the cards whose own state says a call is under way
          hydratedRef,   \* the conversation whose transcript was asked for
          reads,         \* the transcript loads under way
          stream,        \* useChatStream: "idle", or the message being answered
          frames,        \* the frames of that stream not read yet
          status,        \* server: action -> status of its row, "none" if no row
          done,          \* server: action -> times its effect was committed
          calls,         \* the approve and reject calls: a sequence per action
          convs,         \* server: the conversations that exist
          typed,         \* history: the messages sent in the chat now shown
          hidden,        \* history: actions whose card was hidden during a call
          spent          \* loads, closings and reloads so far

client == <<open, pointer, entries, cards, busy, hydratedRef, reads, typed>>
server == <<status, done, convs>>
vars == <<client, stream, frames, server, calls, hidden, spent>>

Idle == "idle"
Statuses == {"pending", "executed", "rejected", "failed"}
Conversations == {{}, {"first"}} \cup {{m} : m \in Messages}

(* Every value has its kind, and no card or row appears from nowhere.      *)
TypeOK ==
    /\ open \in BOOLEAN
    /\ pointer \in Conversations /\ hydratedRef \in Conversations
    /\ entries \subseteq Messages \cup {"old", "info"}
    /\ cards \in [Actions -> Statuses \cup {"none"}]
    /\ status \in [Actions -> Statuses \cup {"none"}]
    /\ \A a \in Actions : cards[a] # "none" => status[a] # "none"
    /\ busy \subseteq {a \in Actions : cards[a] # "none"}
    /\ reads \subseteq [conv : Conversations, live : BOOLEAN]
    /\ stream \in Messages \cup {Idle}
    /\ \A a \in Actions : done[a] \in 0 .. MaxClicks /\ Len(calls[a]) <= MaxClicks
    /\ convs \subseteq Conversations /\ typed \subseteq Messages

Init ==
    /\ open = FALSE /\ pointer \in {{}, {"first"}} /\ convs \in {{}, {{"first"}}}
    /\ entries = {} /\ cards = [a \in Actions |-> "none"] /\ busy = {}
    /\ hydratedRef = {} /\ reads = {} /\ stream = Idle /\ frames = <<>>
    /\ status = [a \in Actions |-> "none"] /\ done = [a \in Actions |-> 0]
    /\ calls = [a \in Actions |-> <<>>]
    /\ typed = {} /\ hidden = {} /\ spent = 0

-----------------------------------------------------------------------------
(* The effect on [open, conversationId, entries.length]: a change cancels  *)
(* the load under way; an open, empty widget with a conversation asks once *)
(* for its transcript.  Page(o, p, es, cs, ref, rs) is the page after an   *)
(* update and the effects that follow it.                                  *)
Shown(es, cs) == Cardinality(es) + Cardinality({a \in Actions : cs[a] # "none"})
\* Mutant: a load goes on although what it was asked for has changed.
NotCancelled(rs) == rs
Cancelled(rs) == {[r EXCEPT !.live = FALSE] : r \in rs}

Page(o, p, es, cs, ref, rs) ==
    LET changed == o # open \/ p # pointer \/ Shown(es, cs) # Shown(entries, cards)
        kept    == IF changed THEN Cancelled(rs) ELSE rs
        asks    == changed /\ o /\ p # {} /\ ref # p /\ Shown(es, cs) = 0
    IN  /\ open' = o /\ pointer' = p /\ entries' = es /\ cards' = cs
        /\ hydratedRef' = IF asks THEN p ELSE ref
        /\ reads' = IF asks THEN kept \cup {[conv |-> p, live |-> TRUE]} ELSE kept

\* Mutant: the widget keeps the flag of a card that is gone.
KeptByWidget(b) == b
\* A card's busy flag is local to it: it is gone when the card is unmounted.
Unmounted(b) == {}

\* setOpen: the paper is unmounted with its cards, and their state with them.
SetOpen ==
    /\ spent < MaxReads /\ spent' = spent + 1
    /\ Page(~open, pointer, entries, cards, hydratedRef, reads)
    /\ busy' = Unmounted(busy)
    /\ hidden' = IF open THEN hidden \cup busy ELSE hidden
    /\ UNCHANGED <<stream, frames, server, calls, typed>>

\* getConversation answers: the transcript replaces the entries, unless cancelled.
Hydrated(r) ==
    /\ r \in reads /\ r.conv \in convs
    /\ IF r.live THEN Page(open, pointer, {"old"}, [a \in Actions |-> "none"],
                           hydratedRef, reads \ {r})
                 ELSE Page(open, pointer, entries, cards, hydratedRef, reads \ {r})
    /\ busy' = {a \in busy : cards'[a] # "none"}
    /\ UNCHANGED <<stream, frames, server, calls, typed, hidden, spent>>

\* ... or fails, for whatever reason: the conversation is forgotten.
HydrateFailed(r) ==
    /\ r \in reads
    /\ Page(open, {}, entries, cards, {}, reads \ {r})
    /\ UNCHANGED <<busy, stream, frames, server, calls, typed, hidden, spent>>

-----------------------------------------------------------------------------
(* The stream.  The conversation is a new one unless the remembered one    *)
(* exists; a new one is named after its first message.                     *)
HandleSend(m) ==
    /\ open /\ stream = Idle /\ m \notin typed /\ {m} \notin convs
    /\ Page(open, pointer, entries \cup {m}, cards, hydratedRef, reads)
    /\ typed' = typed \cup {m}
    /\ LET conv == IF pointer \in convs THEN pointer ELSE {m}
       IN  /\ convs' = convs \cup {conv}
           /\ frames' = <<[type |-> "meta", conv |-> conv]>>
    /\ stream' = m
    /\ UNCHANGED <<busy, status, done, calls, hidden, spent>>

\* _run_tool: the row is committed, then the frame of its card is sent.
Propose(a) ==
    /\ stream # Idle /\ status[a] = "none"
    /\ status' = [status EXCEPT ![a] = "pending"]
    /\ frames' = Append(frames, [type |-> "pending_action", action |-> a])
    /\ UNCHANGED <<client, stream, done, convs, calls, hidden, spent>>

OnEvent ==
    /\ frames # <<>>
    /\ LET ev == Head(frames)
       IN  IF ev.type = "meta"
           THEN Page(open, ev.conv, entries, cards, hydratedRef, reads)
           ELSE Page(open, pointer, entries, [cards EXCEPT ![ev.action] = "pending"],
                     hydratedRef, reads)
    /\ frames' = Tail(frames)
    /\ UNCHANGED <<busy, stream, server, calls, typed, hidden, spent>>

\* The stream ends; a broken one leaves a line in the transcript.
Finished(broken) ==
    /\ stream # Idle /\ (~broken => frames = <<>>)
    /\ stream' = Idle /\ frames' = <<>>
    /\ IF broken THEN Page(open, pointer, entries \cup {"info"}, cards, hydratedRef, reads)
                 ELSE Page(open, pointer, entries, cards, hydratedRef, reads)
    /\ UNCHANGED <<busy, server, calls, typed, hidden, spent>>

\* The reader is aborted; what the server had committed stays.
Stop ==
    /\ open /\ stream # Idle /\ stream' = Idle /\ frames' = <<>>
    /\ UNCHANGED <<client, server, calls, hidden, spent>>

HandleNewChat ==
    /\ open /\ stream' = Idle /\ frames' = <<>>
    /\ Page(open, {}, {}, [a \in Actions |-> "none"], {}, reads)
    /\ busy' = Unmounted(busy) /\ typed' = {}
    /\ UNCHANGED <<server, calls, hidden, spent>>

\* Only the pointer outlives the page; calls go on at the server, unanswered.
Reload ==
    /\ spent < MaxReads /\ spent' = spent + 1
    /\ open' = FALSE /\ entries' = {} /\ cards' = [a \in Actions |-> "none"]
    /\ busy' = Unmounted(busy) /\ hydratedRef' = {} /\ reads' = {} /\ typed' = {}
    /\ stream' = Idle /\ frames' = <<>>
    /\ calls' = [a \in Actions |->
                    [i \in DOMAIN calls[a] |-> [calls[a][i] EXCEPT !.heard = "never"]]]
    /\ UNCHANGED <<pointer, server, hidden>>

-----------------------------------------------------------------------------
(* A card.  Its buttons are there while the proposal is pending, and are   *)
(* off while its own call is under way.                                    *)
\* Mutant: the buttons stay on during the call.
MayResolveAgain(a) == open /\ cards[a] = "pending"
MayResolve(a) == open /\ cards[a] = "pending" /\ a \notin busy

Resolve(a, want) ==
    /\ MayResolve(a) /\ Len(calls[a]) < MaxClicks
    /\ calls' = [calls EXCEPT ![a] = Append(@, [want |-> want, at |-> "sent", heard |-> "no"])]
    /\ busy' = busy \cup {a}
    /\ UNCHANGED <<open, pointer, entries, cards, hydratedRef, reads, typed,
                   stream, frames, server, hidden, spent>>

\* resolve_action up to the commit that gives the row's lock back.  A proposal
\* that fails its checks is marked; one that passes has run when the service
\* commits, and its row still says pending.
StillPending(a) == status[a] = "pending"

Serve(a, i) ==
    /\ i \in DOMAIN calls[a] /\ calls[a][i].at = "sent"
    /\ \/ /\ ~StillPending(a)
          /\ calls' = [calls EXCEPT ![a][i].at = "failed"]
          /\ UNCHANGED <<status, done>>
       \/ /\ StillPending(a)
          /\ \E end \in IF calls[a][i].want = "reject" THEN {"rejected"} ELSE {"failed", "ran"} :
                /\ calls' = [calls EXCEPT ![a][i].at = end]
                /\ status' = [status EXCEPT ![a] = IF end = "ran" THEN @ ELSE end]
                /\ done' = [done EXCEPT ![a] = IF end = "ran" THEN @ + 1 ELSE @]
    /\ UNCHANGED <<client, stream, frames, convs, hidden, spent>>

\* The rest of it: the status is written, or what comes after the service's
\* commit fails and the row says so.
ServeEnd(a, i, end) ==
    /\ i \in DOMAIN calls[a] /\ calls[a][i].at = "ran" /\ end \in {"executed", "failed"}
    /\ status' = [status EXCEPT ![a] = end]
    /\ calls' = [calls EXCEPT ![a][i].at = end]
    /\ UNCHANGED <<client, stream, frames, done, convs, hidden, spent>>

\* The process is killed: the row stays as it was committed last.
Killed(a, i) ==
    /\ i \in DOMAIN calls[a] /\ calls[a][i].at \in {"sent", "ran"}
    /\ calls' = [calls EXCEPT ![a][i].at = "killed"]
    /\ UNCHANGED <<client, stream, frames, server, hidden, spent>>

\* handleActionResolved: the card, if it is still among the entries, says what
\* the answer says, and a line is added to whatever chat is shown.  A refusal and
\* a lost connection, which may leave the server at work, say failed.
Answered(a, i, end) ==
    /\ i \in DOMAIN calls[a] /\ calls[a][i].heard = "no"
    /\ end \in {calls[a][i].at, "failed"} \cap {"executed", "rejected", "failed"}
    /\ Page(open, pointer, entries \cup {"info"},
            [cards EXCEPT ![a] = IF @ = "none" THEN @ ELSE end],
            hydratedRef, reads)
    /\ busy' = busy \ {a}
    /\ calls' = [calls EXCEPT ![a][i].heard = "yes"]
    /\ UNCHANGED <<stream, frames, server, typed, hidden, spent>>

-----------------------------------------------------------------------------
Next ==
    \/ SetOpen \/ OnEvent \/ Stop \/ HandleNewChat \/ Reload
    \/ \E r \in reads : Hydrated(r) \/ HydrateFailed(r)
    \/ \E m \in Messages : HandleSend(m)
    \/ \E broken \in BOOLEAN : Finished(broken)
    \/ \E a \in Actions :
          \/ Propose(a)
          \/ \E want \in {"approve", "reject"} : Resolve(a, want)
          \/ \E i \in 1 .. MaxClicks :
                \/ Serve(a, i) \/ Killed(a, i)
                \/ \E end \in {"executed", "failed"} : ServeEnd(a, i, end)
                \/ \E end \in {"executed", "rejected", "failed"} : Answered(a, i, end)

Spec == Init /\ [][Next]_vars

-----------------------------------------------------------------------------
(* What the user typed in the chat that is shown is never replaced by the  *)
(* transcript of a conversation that was asked for before.                 *)
TranscriptKept == typed \subseteq entries

(* A proposal is carried out at most once, as long as its card was not     *)
(* hidden while a call of it was under way: a call whose answer is lost    *)
(* settles the card, and nothing sends it again.                           *)
OnceWhileShown == \A a \in Actions : done[a] > 1 => a \in hidden

(* A card that says executed was carried out.  One that says rejected was  *)
(* not, unless it was hidden during a call.                                *)
CardTellsTruth ==
    \A a \in Actions : /\ cards[a] = "executed" => done[a] > 0
                       /\ cards[a] = "rejected" => done[a] = 0 \/ a \in hidden

(* A card can be relied on: it acts once, and says what was done.          *)
CardsHold == OnceWhileShown /\ CardTellsTruth

(* Without the exception: what the lock in resolve_action is for.          *)
CarriedOutOnce == \A a \in Actions : done[a] <= 1
=============================================================================
