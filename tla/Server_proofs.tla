----------------------------- MODULE Server_proofs -----------------------------
(***************************************************************************)
(* Proofs about Server for every number of clients and every max_clients.  *)
(***************************************************************************)
EXTENDS Server, FiniteSetTheorems, TLAPS

(* Between start and append the new handler runs and is not in _active yet. *)
Started == IF pc = "appending" THEN client ELSE {}

(* _active lists every handler that runs but the one just started.          *)
Listed == alive \subseteq active \cup Started

(* _active never has more than max_clients, and leaves a place for the      *)
(* client that is being admitted.                                           *)
Room ==
  /\ IsFiniteSet(active) /\ Cardinality(active) =< MaxClients
  /\ pc \in {"configuring", "starting", "appending"} =>
       Cardinality(active) < MaxClients

OneClient == IsFiniteSet(client)

IInv == TypeOK /\ OneClient /\ Listed /\ Room

-----------------------------------------------------------------------------
(* A part of _active is no larger than it.                                  *)
LEMMA Reaped ==
  ASSUME IsFiniteSet(active), NEW S \in SUBSET active
  PROVE  IsFiniteSet(S) /\ Cardinality(S) =< Cardinality(active)
         /\ Cardinality(S) \in Nat /\ Cardinality(active) \in Nat
BY FS_Subset, FS_CardinalityType

(* A union has no more elements than its parts together.                    *)
LEMMA UnionBound ==
  ASSUME NEW S, NEW T, IsFiniteSet(S), IsFiniteSet(T)
  PROVE  /\ IsFiniteSet(S \cup T) /\ Cardinality(S \cup T) \in Nat
         /\ Cardinality(S) \in Nat /\ Cardinality(T) \in Nat
         /\ Cardinality(S \cup T) =< Cardinality(S) + Cardinality(T)
<1>1. IsFiniteSet(S \cap T)
  BY FS_Intersection
<1>2. Cardinality(S) \in Nat /\ Cardinality(T) \in Nat
        /\ Cardinality(S \cap T) \in Nat
  BY <1>1, FS_CardinalityType
<1>3. IsFiniteSet(S \cup T)
        /\ Cardinality(S \cup T) =
             Cardinality(S) + Cardinality(T) - Cardinality(S \cap T)
  BY FS_Union
<1>4. Cardinality(S \cup T) \in Nat
  BY <1>3, FS_CardinalityType
<1> QED BY <1>2, <1>3, <1>4

LEMMA InitIInv == Init => IInv
<1> SUFFICES ASSUME Init PROVE IInv
  OBVIOUS
<1> USE ServerAssumption DEF Init
<1>0. Cardinality({}) = 0
  BY FS_EmptySet
<1>1. TypeOK
  <2>1. stopFlag \in BOOLEAN /\ stop \in BOOLEAN
    OBVIOUS
  <2>2. faults \in 0..MaxFaults
    OBVIOUS
  <2>3. client \subseteq Clients /\ Cardinality(client) =< 1
    BY <1>0
  <2>4. pc = "idle" /\ main = "web" /\ sock = "none"
    OBVIOUS
  <2>5. /\ active \subseteq Clients /\ backlog \subseteq Clients
        /\ alive \subseteq Clients /\ gone \subseteq Clients
    OBVIOUS
  <2> QED BY <2>1, <2>2, <2>3, <2>4, <2>5 DEF TypeOK
<1>2. OneClient /\ Listed /\ Room
  BY FS_EmptySet DEF OneClient, Listed, Started, Room
<1> QED BY <1>1, <1>2 DEF IInv

(* A step that admits nobody and leaves _active, the client and the         *)
(* handlers alone, or only lets handlers end.                               *)
LEMMA Undisturbed ==
  ASSUME IInv, UNCHANGED <<active, client>>, alive' \subseteq alive,
         pc' = pc \/ (pc # "appending"
                       /\ pc' \notin {"configuring", "starting", "appending"})
  PROVE  OneClient' /\ Listed' /\ Room'
BY DEF IInv, OneClient, Listed, Started, Room

-----------------------------------------------------------------------------
(* The listener keeps its own count in step with the handlers.              *)
LEMMA ListenerIInv ==
  ASSUME IInv, Listener, UNCHANGED <<main, stop>>
  PROVE  IInv'
<1> USE ServerAssumption
<1>1. CASE Serve \/ Open \/ OpenFails \/ Loop \/ AcceptFails \/ Leave \/ Resume
  <2>1. TypeOK'
    <3>1. CASE Serve
      <4>1. stopFlag' \in BOOLEAN /\ UNCHANGED stop
        BY <3>1 DEF Serve
      <4> QED BY <3>1, <4>1 DEF IInv, TypeOK, Serve, netVars
    <3>2. CASE Open \/ OpenFails \/ Loop
      BY <3>2 DEF IInv, TypeOK, Open, OpenFails, Loop, netVars
    <3>3. CASE AcceptFails \/ Leave \/ Resume
      BY <3>3 DEF IInv, TypeOK, AcceptFails, Leave, Resume, netVars
    <3> QED BY <1>1, <3>1, <3>2, <3>3
  <2>2. /\ UNCHANGED <<active, client, alive>> /\ pc # "appending"
        /\ pc' \notin {"configuring", "starting", "appending"}
    BY <1>1 DEF Serve, Open, OpenFails, Loop, AcceptFails, Leave, Resume, netVars
  <2> QED BY <2>1, <2>2, Undisturbed DEF IInv
<1>2. CASE Accept
  <2>1. PICK c \in backlog : client' = {c} /\ backlog' = backlog \ {c}
    BY <1>2 DEF Accept
  <2>2. IsFiniteSet(client') /\ Cardinality(client') = 1
    BY <2>1, FS_Singleton
  <2>3. TypeOK'
    BY <1>2, <2>1, <2>2 DEF IInv, TypeOK, Accept
  <2>4. Listed' /\ Room'
    BY <1>2 DEF IInv, Listed, Started, Room, Accept
  <2> QED BY <2>2, <2>3, <2>4 DEF IInv, OneClient
<1>3. CASE AcceptTimesOut
  <2>1. TypeOK' /\ OneClient'
    BY <1>3 DEF IInv, TypeOK, OneClient, AcceptTimesOut, Reap, netVars
  <2>2. Listed'
    BY <1>3 DEF IInv, Listed, Started, AcceptTimesOut, Reap, netVars
  <2>3. Room'
    <3>1. IsFiniteSet(active) /\ active' \in SUBSET active
      BY <1>3 DEF IInv, Room, AcceptTimesOut, Reap
    <3> QED BY <1>3, <3>1, Reaped DEF IInv, Room, AcceptTimesOut
  <2> QED BY <2>1, <2>2, <2>3 DEF IInv
<1>4. CASE Count
  <2>1. IsFiniteSet(client') /\ Cardinality(client') =< 1
    BY <1>4, FS_EmptySet DEF IInv, TypeOK, OneClient, Count
  <2>2. TypeOK' /\ OneClient'
    BY <1>4, <2>1 DEF IInv, TypeOK, OneClient, Count, Reap
  <2>3. Listed'
    BY <1>4 DEF IInv, Listed, Started, Count, Reap
  <2>4. Room'
    <3>1. IsFiniteSet(active) /\ active' \in SUBSET active
      BY <1>4 DEF IInv, Room, Count, Reap
    <3> QED BY <1>4, <3>1, Reaped DEF IInv, Room, Count, HasSlot
  <2> QED BY <2>2, <2>3, <2>4 DEF IInv
<1>5. CASE Configure
  BY <1>5 DEF IInv, TypeOK, OneClient, Listed, Started, Room, Configure, netVars
<1>6. CASE StartHandler
  BY <1>6 DEF IInv, TypeOK, OneClient, Listed, Started, Room, StartHandler
<1>7. CASE AdmitFails
  <2>1. TypeOK' /\ OneClient'
    BY <1>7, FS_EmptySet DEF IInv, TypeOK, OneClient, AdmitFails
  <2> QED BY <1>7, <2>1 DEF IInv, Listed, Started, Room, AdmitFails
<1>8. CASE AppendHandler
  <2>1. TypeOK' /\ OneClient'
    BY <1>8, FS_EmptySet DEF IInv, TypeOK, OneClient, AppendHandler, netVars
  <2>2. Listed'
    BY <1>8 DEF IInv, Listed, Started, AppendHandler, netVars
  <2>3. Room'
    <3>1. /\ IsFiniteSet(active) /\ IsFiniteSet(client)
          /\ Cardinality(active) \in Nat /\ Cardinality(client) \in Nat
          /\ Cardinality(active) < MaxClients /\ Cardinality(client) =< 1
      BY <1>8, FS_CardinalityType
         DEF IInv, Room, OneClient, TypeOK, AppendHandler
    <3>2. /\ IsFiniteSet(active \cup client)
          /\ Cardinality(active \cup client) \in Nat
          /\ Cardinality(active \cup client) =<
               Cardinality(active) + Cardinality(client)
      BY <3>1, UnionBound
    <3>3. active' \in SUBSET (active \cup client)
      BY <1>8 DEF AppendHandler
    <3>4. /\ IsFiniteSet(active') /\ Cardinality(active') \in Nat
          /\ Cardinality(active') =< Cardinality(active \cup client)
      BY <3>2, <3>3, FS_Subset, FS_CardinalityType
    <3> QED BY <1>8, <3>1, <3>2, <3>4 DEF Room, AppendHandler
  <2> QED BY <2>1, <2>2, <2>3 DEF IInv
<1> QED BY <1>1, <1>2, <1>3, <1>4, <1>5, <1>6, <1>7, <1>8 DEF Listener

(* The outside and the main thread never touch _active.                     *)
LEMMA OthersIInv ==
  ASSUME IInv,
         \/ (ClientComes \/ HandlerEnds) /\ UNCHANGED <<main, stop>>
         \/ Signal \/ WebEnds \/ Main
  PROVE  IInv'
<1>1. CASE (ClientComes \/ HandlerEnds) /\ UNCHANGED <<main, stop>>
  <2>1. TypeOK'
    BY <1>1 DEF IInv, TypeOK, ClientComes, HandlerEnds, listenVars
  <2>2. UNCHANGED <<active, client, pc>> /\ alive' \subseteq alive
    BY <1>1 DEF ClientComes, HandlerEnds, listenVars
  <2> QED BY <2>1, <2>2, Undisturbed DEF IInv
<1>2. CASE Signal \/ WebEnds \/ Main
  <2>1. TypeOK'
    <3>1. CASE Signal \/ WebEnds \/ StopListener \/ CheckSocket \/ Exit
      BY <3>1 DEF IInv, TypeOK, Signal, WebEnds, StopListener, CheckSocket, Exit,
                  listenVars, netVars
    <3>2. CASE CloseSocket
      BY <3>2 DEF IInv, TypeOK, CloseSocket
    <3> QED BY <1>2, <3>1, <3>2 DEF Main
  <2>2. UNCHANGED <<active, client, pc, alive>>
    BY <1>2 DEF Signal, WebEnds, Main, StopListener, CheckSocket, CloseSocket,
                Exit, listenVars, netVars
  <2> QED BY <2>1, <2>2, Undisturbed DEF IInv
<1> QED BY <1>1, <1>2

THEOREM Inductive == IInv /\ [Next]_vars => IInv'
<1> SUFFICES ASSUME IInv, [Next]_vars PROVE IInv'
  OBVIOUS
<1>1. CASE Listener /\ UNCHANGED <<main, stop>>
  BY <1>1, ListenerIInv
<1>2. CASE \/ (ClientComes \/ HandlerEnds) /\ UNCHANGED <<main, stop>>
           \/ Signal \/ WebEnds \/ Main
  BY <1>2, OthersIInv
<1>3. CASE UNCHANGED vars
  BY <1>3 DEF IInv, TypeOK, OneClient, Listed, Started, Room, vars, listenVars,
              netVars
<1> QED BY <1>1, <1>2, <1>3 DEF Next

(* No more handlers run than _active has room for.                          *)
LEMMA IInvBounds == IInv => AtMostMaxClients
<1> SUFFICES ASSUME IInv PROVE Cardinality(alive) =< MaxClients
  BY DEF AtMostMaxClients
<1> USE ServerAssumption
<1>1. /\ IsFiniteSet(active) /\ IsFiniteSet(client)
      /\ Cardinality(active) \in Nat /\ Cardinality(client) \in Nat
      /\ Cardinality(client) =< 1
  BY FS_CardinalityType DEF IInv, Room, OneClient, TypeOK
<1>2. CASE pc = "appending"
  <2>1. alive \in SUBSET (active \cup client) /\ Cardinality(active) < MaxClients
    BY <1>2 DEF IInv, Listed, Started, Room
  <2>2. /\ IsFiniteSet(active \cup client)
        /\ Cardinality(active \cup client) \in Nat
        /\ Cardinality(active \cup client) =<
             Cardinality(active) + Cardinality(client)
    BY <1>1, UnionBound
  <2>3. Cardinality(active \cup client) =< MaxClients
    BY <1>1, <2>1, <2>2
  <2>4. /\ Cardinality(alive) =< Cardinality(active \cup client)
        /\ Cardinality(alive) \in Nat
    BY <2>1, <2>2, FS_Subset, FS_CardinalityType
  <2> QED BY <2>2, <2>3, <2>4
<1>3. CASE pc # "appending"
  <2>1. alive \in SUBSET active /\ Cardinality(active) =< MaxClients
    BY <1>3 DEF IInv, Listed, Started, Room
  <2> QED BY <1>1, <2>1, Reaped
<1> QED BY <1>2, <1>3

THEOREM Invariance == Spec => []IInv
BY InitIInv, Inductive, PTL DEF Spec

(* Every variable keeps its type, and with it the program counters.         *)
THEOREM TypeCorrect == Spec => []TypeOK
<1>1. IInv => TypeOK
  BY DEF IInv
<1> QED BY <1>1, Invariance, PTL

(* However often the listener crashes and starts again and whenever         *)
(* handlers end, at most max_clients of them run (ingest.py:373-390).       *)
THEOREM ClientsBounded == Spec => []AtMostMaxClients
BY IInvBounds, Invariance, PTL
=============================================================================
