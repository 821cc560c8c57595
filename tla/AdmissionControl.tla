-------------------------- MODULE AdmissionControl --------------------------
(***************************************************************************)
(* The resources of one worker process: places behind the admission gate   *)
(* (core/admission.py), worker threads, and connections of the database    *)
(* pool (db/session.py).                                                   *)
(*                                                                         *)
(* A request passes the gate, is authenticated on a thread with its first  *)
(* connection, keeps the connection while it waits for a thread to be      *)
(* handled on, and gives it back when it is closed on the event loop.      *)
(* While it is handled it gives its connection back at a commit, takes one *)
(* again at the next query, and opens further sessions inside: a posting   *)
(* failure or a notification is written in a session of its own, and the   *)
(* low-stock alert opens the notification's session inside its own.        *)
(* Background threads (digests, e-mails) use the pool without the gate.    *)
(* Every request and every background task runs once.                      *)
(***************************************************************************)
EXTENDS Integers, FiniteSets

CONSTANTS Requests,       \* HTTP requests
          Tasks,          \* background tasks
          MaxConcurrent,  \* max_concurrent of the gate
          Pool,           \* pool_size + max_overflow
          Threads,        \* worker threads
          Depth           \* connections a request may hold at once

ASSUME ClientsAssumption == /\ IsFiniteSet(Requests) /\ IsFiniteSet(Tasks)
                            /\ Requests \cap Tasks = {}
ASSUME SizesAssumption == /\ MaxConcurrent \in Nat /\ Pool \in Nat \ {0}
                          /\ Threads \in Nat /\ Depth \in Nat \ {0, 1}

Clients == Requests \cup Tasks

VARIABLES phase,  \* where each request and task is
          held    \* how many connections it has

vars == <<phase, held>>

-----------------------------------------------------------------------------
(***************************************************************************)
(*   queued    at the gate                                                 *)
(*   admitted  inside, waits for a thread to be authenticated on           *)
(*   checking  on a thread, waits for its first connection                 *)
(*   checked   authenticated, waits for a thread to be handled on          *)
(*   handling  at work, on a thread                                        *)
(*   waiting   on a thread, waits for one more connection                  *)
(*   closing   answered, its connection not yet returned                   *)
(***************************************************************************)
Phases == {"new", "queued", "admitted", "checking", "checked", "handling",
           "waiting", "closing", "done"}

In(S) == {r \in Requests : phase[r] \in S}

Inside == In({"admitted", "checking", "checked", "handling", "waiting", "closing"})
OnThread == In({"checking", "handling", "waiting"})

\* What a client may hold: a digest notifies from inside its own session.
Limit(c) == IF c \in Tasks THEN 2 ELSE Depth

\* The connections in use: pairs of a holder and a number.
Connections == {p \in Clients \X (1..(Depth + 2)) : p[2] <= held[p[1]]}

ThreadFree == Cardinality(OnThread) < Threads

ConnectionFree == Cardinality(Connections) < Pool

\* Mutant: the gate is as wide as the pool.
RoomUpToPool == Cardinality(Inside) < Pool

Room == Cardinality(Inside) < MaxConcurrent

-----------------------------------------------------------------------------
Move(c, from, to) == /\ phase[c] = from
                     /\ phase' = [phase EXCEPT ![c] = to]

Hold(c, n) == held' = [held EXCEPT ![c] = n]

Arrive(r) == Move(r, "new", "queued") /\ UNCHANGED held

Admit(r) == Room /\ Move(r, "queued", "admitted") /\ UNCHANGED held

\* queue_timeout: 503 without a place.
Refuse(r) == Move(r, "queued", "done") /\ UNCHANGED held

Authenticate(r) == ThreadFree /\ Move(r, "admitted", "checking") /\ UNCHANGED held

\* Authenticated, or answered 401.
Identify(r) ==
  /\ ConnectionFree
  /\ Move(r, "checking", "checked") \/ Move(r, "checking", "closing")
  /\ Hold(r, held[r] + 1)

\* pool_timeout: 503.
Unidentified(r) == Move(r, "checking", "closing") /\ UNCHANGED held

Handle(r) == ThreadFree /\ Move(r, "checked", "handling") /\ UNCHANGED held

Begin(t) == Move(t, "new", "waiting") /\ UNCHANGED held

\* The first query of a session.
Ask(c) == /\ held[c] < Limit(c)
          /\ Move(c, "handling", "waiting")
          /\ UNCHANGED held

Connect(c) == /\ ConnectionFree
              /\ Move(c, "waiting", "handling")
              /\ Hold(c, held[c] + 1)

\* A commit, or the close of an inner session.
Release(c) == /\ held[c] > 0
              /\ phase[c] = "handling"
              /\ Hold(c, held[c] - 1)
              /\ UNCHANGED phase

\* pool_timeout: an inner session is given up, its error logged; the first
\* session of a request or a task ends it.
GiveUp(c) ==
  /\ \/ Move(c, "waiting", "handling")
     \/ held[c] = 0 /\ Move(c, "waiting", IF c \in Tasks THEN "done" ELSE "closing")
  /\ UNCHANGED held

\* The inner sessions are closed.
EndHandler(r) == /\ held[r] <= 1
                 /\ Move(r, "handling", "closing")
                 /\ UNCHANGED held

\* get_db closes on the event loop: no thread is needed.
Close(r) == Move(r, "closing", "done") /\ Hold(r, 0)

EndTask(t) == /\ held[t] <= 1
              /\ Move(t, "handling", "done")
              /\ Hold(t, 0)

-----------------------------------------------------------------------------
Init == /\ phase = [c \in Clients |-> "new"]
        /\ held = [c \in Clients |-> 0]

Next == \/ \E r \in Requests :
             \/ Arrive(r) \/ Admit(r) \/ Refuse(r)
             \/ Authenticate(r) \/ Identify(r) \/ Unidentified(r)
             \/ Handle(r) \/ EndHandler(r) \/ Close(r)
        \/ \E t \in Tasks : Begin(t) \/ EndTask(t)
        \/ \E c \in Clients : Ask(c) \/ Connect(c) \/ Release(c) \/ GiveUp(c)

(***************************************************************************)
(* A free place, thread or connection is given to somebody who waits; a    *)
(* handler and a task open finitely many sessions, close each, and end.    *)
(* Nothing is assumed of the timeouts.                                     *)
(***************************************************************************)
Fairness ==
  /\ \A r \in Requests : /\ WF_vars(Admit(r)) /\ WF_vars(Authenticate(r))
                         /\ WF_vars(Identify(r)) /\ WF_vars(Handle(r))
                         /\ SF_vars(EndHandler(r)) /\ WF_vars(Close(r))
  /\ \A t \in Tasks : SF_vars(EndTask(t))
  /\ \A c \in Clients : WF_vars(Connect(c)) /\ SF_vars(Release(c))

Spec == Init /\ [][Next]_vars /\ Fairness

-----------------------------------------------------------------------------
(* Properties *)

\* Every client is in a phase and holds at most its limit of connections.
TypeOK == /\ phase \in [Clients -> Phases]
          /\ held \in [Clients -> 0..(Depth + 2)]
          /\ \A c \in Clients : held[c] <= Limit(c)

\* When nobody is at work a connection is free: the pool is never exhausted by
\* clients who all wait, for a thread or for one connection more (main.py,
\* "Keep in-flight requests below the DB pool").
Unstuck == (\A c \in Clients : phase[c] # "handling") => ConnectionFree

\* Every request that arrives is answered, even if no timeout ever fires
\* (admission.py, "keeps latency proportional to load").
EventuallyAnswered == \A r \in Requests : phase[r] = "queued" ~> phase[r] = "done"
=============================================================================
