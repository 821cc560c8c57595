----------------------- MODULE AdmissionControlProofs -----------------------
(***************************************************************************)
(* Proofs about AdmissionControl, for any number of requests and tasks and *)
(* any sizes of the gate, the pool and the thread pool.                    *)
(***************************************************************************)
EXTENDS AdmissionControl, FiniteSetTheorems, TLAPS

USE DEF Move, Hold

\* Who is in which phase bounds what it holds: only a client at work or one
\* that waits for another connection has more than one, and who waits has not
\* reached its limit.
HeldByPhase ==
  /\ \A r \in Requests : phase[r] \in {"new", "queued", "admitted", "checking", "done"} => held[r] = 0
  /\ \A r \in Requests : phase[r] \in {"checked", "closing"} => held[r] <= 1
  /\ \A t \in Tasks : phase[t] \in {"new", "waiting", "handling", "done"}
  /\ \A t \in Tasks : phase[t] \in {"new", "done"} => held[t] = 0
  /\ \A c \in Clients : phase[c] = "waiting" => held[c] < Limit(c)

HeldInv == TypeOK /\ HeldByPhase

-----------------------------------------------------------------------------
\* Types and holdings are kept by every step of the worker process.
LEMMA HeldStep == HeldInv /\ [Next]_vars => HeldInv'
<1> SUFFICES ASSUME HeldInv, [Next]_vars PROVE HeldInv'
  OBVIOUS
<1> USE ClientsAssumption, SizesAssumption
<1> USE DEF HeldInv, TypeOK, HeldByPhase, Phases, Limit, Clients
<1>1. ASSUME NEW r \in Requests, Arrive(r) PROVE HeldInv'
  BY <1>1 DEF Arrive
<1>2. ASSUME NEW r \in Requests, Admit(r) PROVE HeldInv'
  BY <1>2 DEF Admit
<1>3. ASSUME NEW r \in Requests, Refuse(r) PROVE HeldInv'
  BY <1>3 DEF Refuse
<1>4. ASSUME NEW r \in Requests, Authenticate(r) PROVE HeldInv'
  BY <1>4 DEF Authenticate
<1>5. ASSUME NEW r \in Requests, Identify(r) PROVE HeldInv'
  BY <1>5 DEF Identify
<1>6. ASSUME NEW r \in Requests, Unidentified(r) PROVE HeldInv'
  BY <1>6 DEF Unidentified
<1>7. ASSUME NEW r \in Requests, Handle(r) PROVE HeldInv'
  BY <1>7 DEF Handle
<1>8. ASSUME NEW r \in Requests, EndHandler(r) PROVE HeldInv'
  BY <1>8 DEF EndHandler
<1>9. ASSUME NEW r \in Requests, Close(r) PROVE HeldInv'
  BY <1>9 DEF Close
<1>10. ASSUME NEW t \in Tasks, Begin(t) PROVE HeldInv'
  BY <1>10 DEF Begin
<1>11. ASSUME NEW t \in Tasks, EndTask(t) PROVE HeldInv'
  BY <1>11 DEF EndTask
<1>12. ASSUME NEW c \in Clients, Ask(c) PROVE HeldInv'
  BY <1>12 DEF Ask
<1>13. ASSUME NEW c \in Clients, Connect(c) PROVE HeldInv'
  BY <1>13 DEF Connect
<1>14. ASSUME NEW c \in Clients, Release(c) PROVE HeldInv'
  BY <1>14 DEF Release
<1>15. ASSUME NEW c \in Clients, GiveUp(c) PROVE HeldInv'
  BY <1>15 DEF GiveUp
<1>16. CASE UNCHANGED vars
  BY <1>16 DEF vars
<1> QED
  BY <1>1, <1>2, <1>3, <1>4, <1>5, <1>6, <1>7, <1>8, <1>9, <1>10, <1>11, <1>12,
     <1>13, <1>14, <1>15, <1>16 DEF Next

\* Every reachable state is well typed, and what a client holds fits its phase.
THEOREM HeldAlways == Spec => []HeldInv
<1>1. Init => HeldInv
  BY ClientsAssumption, SizesAssumption
  DEF Init, HeldInv, TypeOK, HeldByPhase, Phases, Limit, Clients
<1> QED
  BY <1>1, HeldStep, PTL DEF Spec

-----------------------------------------------------------------------------
\* A set that gains at most one element while there is room stays within its
\* limit.
LEMMA WithinAfter ==
  ASSUME NEW S, IsFiniteSet(S), NEW T, NEW x, NEW n \in Nat, Cardinality(S) <= n,
         T \subseteq S \/ (T \subseteq S \cup {x} /\ Cardinality(S) < n)
  PROVE  Cardinality(T) <= n
<1>1. CASE T \subseteq S
  BY <1>1, FS_Subset, FS_CardinalityType
<1>2. CASE T \subseteq S \cup {x} /\ Cardinality(S) < n
  <2>0. Cardinality(S) \in Nat
    BY FS_CardinalityType
  <2>1. /\ IsFiniteSet(S \cup {x})
        /\ Cardinality(S \cup {x}) <= Cardinality(S) + 1
    BY <2>0, FS_AddElement
  <2>2. /\ IsFiniteSet(T)
        /\ Cardinality(T) <= Cardinality(S \cup {x})
    BY <1>2, <2>1, FS_Subset
  <2> QED
    BY <1>2, <2>1, <2>2, FS_CardinalityType
<1> QED
  BY <1>1, <1>2

\* A union has at most as many elements as its two parts.
LEMMA CardinalityOfUnion ==
  ASSUME NEW S, IsFiniteSet(S), NEW T, IsFiniteSet(T)
  PROVE  /\ IsFiniteSet(S \cup T)
         /\ Cardinality(S \cup T) <= Cardinality(S) + Cardinality(T)
<1>1. IsFiniteSet(S \cap T)
  BY FS_Subset
<1>2. /\ Cardinality(S) \in Nat /\ Cardinality(T) \in Nat
      /\ Cardinality(S \cap T) \in Nat
  BY <1>1, FS_CardinalityType
<1>3. /\ IsFiniteSet(S \cup T)
      /\ Cardinality(S \cup T) = Cardinality(S) + Cardinality(T) - Cardinality(S \cap T)
  BY FS_Union
<1> QED
  BY <1>2, <1>3

\* The sets that are counted are finite.
LEMMA CountedSets ==
  /\ IsFiniteSet(Inside)
  /\ IsFiniteSet(OnThread)
  /\ IsFiniteSet(Connections)
<1>1. IsFiniteSet(Inside) /\ IsFiniteSet(OnThread)
  BY ClientsAssumption, FS_Subset DEF Inside, OnThread, In
<1>2. IsFiniteSet(Clients)
  BY ClientsAssumption, FS_Union DEF Clients
<1>3. IsFiniteSet(1..(Depth + 2))
  BY SizesAssumption, FS_Interval
<1>4. IsFiniteSet(Clients \X (1..(Depth + 2)))
  BY <1>2, <1>3, FS_Product
<1> QED
  BY <1>1, <1>4, FS_Subset DEF Connections

-----------------------------------------------------------------------------
\* Only Admit lets a request inside, and only when there is room.
LEMMA InsideStep ==
  HeldInv /\ [Next]_vars /\ Cardinality(Inside) <= MaxConcurrent
    => (Cardinality(Inside) <= MaxConcurrent)'
<1> SUFFICES ASSUME HeldInv, [Next]_vars, Cardinality(Inside) <= MaxConcurrent
             PROVE  Cardinality(Inside') <= MaxConcurrent
  OBVIOUS
<1> USE DEF HeldInv, TypeOK, Clients, Inside, In
<1>1. ASSUME NEW r \in Requests, Admit(r) PROVE Cardinality(Inside') <= MaxConcurrent
  <2>1. Inside' \subseteq Inside \cup {r} /\ Cardinality(Inside) < MaxConcurrent
    BY <1>1 DEF Admit, Room
  <2> QED
    BY <2>1, CountedSets, SizesAssumption, WithinAfter
<1>2. CASE ~ \E r \in Requests : Admit(r)
  <2>1. Inside' \subseteq Inside
    BY <1>2, ClientsAssumption
    DEF Next, vars, HeldByPhase, Arrive, Refuse, Authenticate, Identify, Unidentified, Handle,
        EndHandler, Close, Begin, EndTask, Ask, Connect, Release, GiveUp
  <2> QED
    BY <2>1, CountedSets, SizesAssumption, WithinAfter
<1> QED
  BY <1>1, <1>2

\* Only Authenticate and Handle put a request on a thread.
LEMMA ThreadStep ==
  HeldInv /\ [Next]_vars /\ Cardinality(OnThread) <= Threads
    => (Cardinality(OnThread) <= Threads)'
<1> SUFFICES ASSUME HeldInv, [Next]_vars, Cardinality(OnThread) <= Threads
             PROVE  Cardinality(OnThread') <= Threads
  OBVIOUS
<1> USE DEF HeldInv, TypeOK, Clients, OnThread, In
<1>1. ASSUME NEW r \in Requests, Authenticate(r) \/ Handle(r)
      PROVE  Cardinality(OnThread') <= Threads
  <2>1. OnThread' \subseteq OnThread \cup {r} /\ Cardinality(OnThread) < Threads
    BY <1>1 DEF Authenticate, Handle, ThreadFree
  <2> QED
    BY <2>1, CountedSets, SizesAssumption, WithinAfter
<1>2. CASE ~ \E r \in Requests : Authenticate(r) \/ Handle(r)
  <2>1. OnThread' \subseteq OnThread
    BY <1>2, ClientsAssumption
    DEF Next, vars, HeldByPhase, Arrive, Admit, Refuse, Identify, Unidentified, EndHandler,
        Close, Begin, EndTask, Ask, Connect, Release, GiveUp
  <2> QED
    BY <2>1, CountedSets, SizesAssumption, WithinAfter
<1> QED
  BY <1>1, <1>2

\* Only Identify and Connect take a connection, one, and only a free one.
LEMMA PoolStep ==
  HeldInv /\ [Next]_vars /\ Cardinality(Connections) <= Pool
    => (Cardinality(Connections) <= Pool)'
<1> SUFFICES ASSUME HeldInv, [Next]_vars, Cardinality(Connections) <= Pool
             PROVE  Cardinality(Connections') <= Pool
  OBVIOUS
<1>0. IsFiniteSet(Connections) /\ Pool \in Nat
  BY CountedSets, SizesAssumption
<1>1. ASSUME NEW c \in Clients, (c \in Requests /\ Identify(c)) \/ Connect(c)
      PROVE  Cardinality(Connections') <= Pool
  <2>1. Connections' \subseteq Connections \cup {<<c, held[c] + 1>>}
    BY <1>1, SizesAssumption DEF Identify, Connect, HeldInv, TypeOK, Connections
  <2>2. Cardinality(Connections) < Pool
    BY <1>1 DEF Identify, Connect, ConnectionFree
  <2> QED
    BY <1>0, <2>1, <2>2, WithinAfter
<1>2. CASE ~ \E c \in Clients : (c \in Requests /\ Identify(c)) \/ Connect(c)
  <2>1. \A c \in Clients : held'[c] <= held[c]
    BY <1>2, SizesAssumption
    DEF HeldInv, TypeOK, Next, vars, Clients, Arrive, Admit, Refuse, Authenticate, Unidentified, Handle,
        EndHandler, Close, Begin, EndTask, Ask, Release, GiveUp
  <2>2. \A c \in Clients : held'[c] \in Int /\ held[c] \in Int
    BY HeldStep, SizesAssumption DEF HeldInv, TypeOK
  <2>3. Connections' \subseteq Connections
    BY <2>1, <2>2, SizesAssumption DEF Connections
  <2> QED
    BY <1>0, <2>3, WithinAfter
<1> QED
  BY <1>1, <1>2

WithinLimits == /\ Cardinality(Inside) <= MaxConcurrent
                /\ Cardinality(OnThread) <= Threads
                /\ Cardinality(Connections) <= Pool

PoolInv == HeldInv /\ WithinLimits

\* The gate, the threads and the pool are never overdrawn (admission.py,
\* session.py).
THEOREM PoolInvAlways == Spec => []PoolInv
<1>1. Init => PoolInv
  <2> SUFFICES ASSUME Init PROVE WithinLimits
    BY ClientsAssumption, SizesAssumption
    DEF Init, PoolInv, HeldInv, TypeOK, HeldByPhase, Phases, Limit, Clients
  <2>1. Inside = {} /\ OnThread = {} /\ Connections = {}
    BY SizesAssumption DEF Init, Inside, OnThread, Connections, In, Clients
  <2> QED
    BY <2>1, FS_EmptySet, SizesAssumption DEF WithinLimits
<1>2. PoolInv /\ [Next]_vars => PoolInv'
  BY HeldStep, InsideStep, ThreadStep, PoolStep DEF PoolInv, WithinLimits
<1> QED
  BY <1>1, <1>2, PTL DEF Spec

-----------------------------------------------------------------------------
\* What all but one of the connections of every request inside, and one of
\* every background task, leave of the pool.
GateFits == MaxConcurrent * (Depth - 1) + Cardinality(Tasks) < Pool

\* When nobody is at work, every request inside and every task has room for one
\* connection more.
LEMMA WaitersLeaveRoom ==
  ASSUME GateFits, PoolInv, \A c \in Clients : phase[c] # "handling"
  PROVE  ConnectionFree
<1> DEFINE Full == (Inside \X (1..(Depth - 1))) \cup (Tasks \X {1})
<1>1. Connections \subseteq Full
  <2> SUFFICES ASSUME NEW c \in Clients, NEW i \in 1..(Depth + 2), i <= held[c]
               PROVE  <<c, i>> \in Full
    BY DEF Connections
  <2>1. held[c] \in Int
    BY SizesAssumption DEF PoolInv, HeldInv, TypeOK
  <2>2. CASE c \in Tasks
    <3>1. held[c] < 2
      BY <2>2, SizesAssumption DEF PoolInv, HeldInv, HeldByPhase, Limit, Clients
    <3> QED
      BY <2>1, <2>2, <3>1, SizesAssumption
  <2>3. CASE c \in Requests
    <3>1. held[c] > 0 /\ phase[c] \in Phases
      BY <2>1, SizesAssumption DEF PoolInv, HeldInv, TypeOK
    <3>2. phase[c] \in {"checked", "waiting", "closing"}
      BY <2>1, <2>3, <3>1 DEF PoolInv, HeldInv, HeldByPhase, Phases
    <3>3. c \in Inside
      BY <2>3, <3>2 DEF Inside, In
    <3>4. held[c] <= Depth - 1
      BY <2>1, <2>3, <3>2, SizesAssumption, ClientsAssumption
      DEF PoolInv, HeldInv, HeldByPhase, Limit
    <3> QED
      BY <2>1, <3>3, <3>4, SizesAssumption
  <2> QED
    BY <2>2, <2>3 DEF Clients
<1>2. /\ IsFiniteSet(Inside \X (1..(Depth - 1)))
      /\ Cardinality(Inside \X (1..(Depth - 1))) = Cardinality(Inside) * (Depth - 1)
  <2>1. IsFiniteSet(1..(Depth - 1)) /\ Cardinality(1..(Depth - 1)) = Depth - 1
    BY SizesAssumption, FS_Interval
  <2> QED
    BY <2>1, CountedSets, FS_Product
<1>3. IsFiniteSet(Tasks \X {1}) /\ Cardinality(Tasks \X {1}) = Cardinality(Tasks)
  <2>1. IsFiniteSet({1}) /\ Cardinality({1}) = 1
    BY FS_Singleton
  <2>2. Cardinality(Tasks) \in Nat
    BY ClientsAssumption, FS_CardinalityType
  <2> QED
    BY <2>1, <2>2, ClientsAssumption, FS_Product
<1>4. IsFiniteSet(Full) /\ Cardinality(Full) <= Cardinality(Inside) * (Depth - 1) + Cardinality(Tasks)
  <2>1. /\ IsFiniteSet(Full)
        /\ Cardinality(Full) <= Cardinality(Inside \X (1..(Depth - 1))) + Cardinality(Tasks \X {1})
    BY <1>2, <1>3, CardinalityOfUnion
  <2> QED
    BY <1>2, <1>3, <2>1
<1>5. Cardinality(Inside) * (Depth - 1) <= MaxConcurrent * (Depth - 1)
  <2>1. Cardinality(Inside) <= MaxConcurrent /\ Cardinality(Inside) \in Nat
    BY CountedSets, FS_CardinalityType DEF PoolInv, WithinLimits
  <2> QED
    BY <2>1, SizesAssumption
<1>6. Cardinality(Connections) <= Cardinality(Full)
  BY <1>1, <1>4, FS_Subset
<1> HIDE DEF Full
<1>7. /\ Cardinality(Connections) \in Nat /\ Cardinality(Full) \in Nat
      /\ Cardinality(Tasks) \in Nat /\ Cardinality(Inside) \in Nat
  BY <1>4, CountedSets, ClientsAssumption, FS_CardinalityType
<1>8. Cardinality(Connections) <= MaxConcurrent * (Depth - 1) + Cardinality(Tasks)
  <2>1. /\ Cardinality(Inside) * (Depth - 1) \in Int
        /\ MaxConcurrent * (Depth - 1) \in Int
    BY <1>7, SizesAssumption
  <2> QED
    BY <1>4, <1>5, <1>6, <1>7, <2>1
<1> QED
  BY <1>7, <1>8, SizesAssumption DEF GateFits, ConnectionFree

\* When nobody is at work a connection is free, for every gate, pool and depth
\* with GateFits: 32 requests of depth 2 fit the default pool of 40, 32 requests
\* of depth 3 do not.
THEOREM UnstuckAlways ==
  ASSUME GateFits
  PROVE  Spec => []Unstuck
<1>1. PoolInv => Unstuck
  BY WaitersLeaveRoom DEF Unstuck
<1> QED
  BY <1>1, PoolInvAlways, PTL
=============================================================================
