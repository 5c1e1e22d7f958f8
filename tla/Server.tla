-------------------------------- MODULE Server --------------------------------
(***************************************************************************)
(* The life of the server: TcpIngest.serve_forever, which accepts receiver *)
(* nodes and gives each a handler thread; the SupervisedThread that calls  *)
(* it again whenever it returns or raises; and the main thread, which runs *)
(* the web application until that ends and then shuts everything down.     *)
(*                                                                         *)
(* A client stands for one connection.  Clients, handlers' ends, signals   *)
(* and the end of the web application come from outside.  The length of    *)
(* the supervisor's pause is left out.  Nobody calls SupervisedThread.stop *)
(* in main, so its loop has no end.                                        *)
(***************************************************************************)
EXTENDS Integers, FiniteSets

CONSTANTS
  Clients,     \* connections
  MaxClients,  \* ingest.max_clients
  MaxFaults    \* bound: exceptions in serve_forever

ASSUME ServerAssumption == MaxClients \in Nat /\ MaxFaults \in Nat

VARIABLES
  pc,        \* the listener's thread: "idle", "opening", "listening",
             \*   "accepting", "counting", "configuring", "starting",
             \*   "appending", "leaving", "failing", "pausing"
  client,    \* the local "client": {} or one connection
  active,    \* _active: connections whose handlers have been started
  stopFlag,  \* _stop
  sock,      \* _server_sock: "none", "open", "closed"
  backlog,   \* connections the kernel holds for accept
  alive,     \* connections whose handler runs
  gone,      \* connections that have been served, refused, dropped or reset
  faults,    \* exceptions so far
  main,      \* the main thread: "web", "stopping", "checking", "closing",
             \*   "stopped", "exited"
  stop       \* _STOP

netVars    == <<backlog, alive, gone>>
listenVars == <<pc, client, active, sock>>
vars       == <<listenVars, netVars, stopFlag, faults, main, stop>>

Running == main # "exited"

-----------------------------------------------------------------------------
Init ==
  /\ pc = "idle" /\ client = {} /\ active = {} /\ stopFlag = FALSE
  /\ sock = "none" /\ backlog = {} /\ alive = {} /\ gone = {} /\ faults = 0
  /\ main = "web" /\ stop = FALSE

(* The supervisor calls serve_forever, which takes back any stop.           *)
Serve ==
  /\ pc = "idle"
  /\ pc' = "opening" /\ stopFlag' = FALSE
  /\ UNCHANGED <<client, active, sock, netVars, faults>>

Open ==
  /\ pc = "opening"
  /\ pc' = "listening" /\ sock' = "open"
  /\ UNCHANGED <<client, active, stopFlag, netVars, faults>>

(* bind raises: there is no socket to close yet.                            *)
OpenFails ==
  /\ pc = "opening" /\ faults < MaxFaults
  /\ pc' = "pausing" /\ faults' = faults + 1
  /\ UNCHANGED <<client, active, sock, stopFlag, netVars>>

Loop ==
  /\ pc = "listening"
  /\ pc' = IF stopFlag THEN "leaving" ELSE "accepting"
  /\ UNCHANGED <<client, active, sock, stopFlag, netVars, faults>>

(* Mutant of Accept: the whole backlog at once.                             *)
AcceptAll ==
  /\ pc = "accepting" /\ sock = "open" /\ backlog # {}
  /\ client' = backlog /\ backlog' = {}
  /\ pc' = "counting"
  /\ UNCHANGED <<active, sock, stopFlag, alive, gone, faults>>

Accept ==
  /\ pc = "accepting" /\ sock = "open"
  /\ \E c \in backlog : client' = {c} /\ backlog' = backlog \ {c}
  /\ pc' = "counting"
  /\ UNCHANGED <<active, sock, stopFlag, alive, gone, faults>>

Reap == active' = active \cap alive

(* A wait that has begun goes on when stop closes the socket.               *)
AcceptTimesOut ==
  /\ pc = "accepting" /\ backlog = {}
  /\ Reap
  /\ pc' = "listening"
  /\ UNCHANGED <<client, sock, stopFlag, netVars, faults>>

(* accept raises on a socket that stop has closed, or on an open one, for   *)
(* want of descriptors or because the connection was aborted meanwhile.     *)
AcceptFails ==
  /\ pc = "accepting"
  /\ \/ sock = "closed" /\ UNCHANGED faults
     \/ sock = "open" /\ faults < MaxFaults /\ faults' = faults + 1
  /\ pc' = "failing"
  /\ UNCHANGED <<client, active, sock, stopFlag, netVars>>

(* Mutant of HasSlot: off by one.                                           *)
HasSlotTooMany == Cardinality(active') =< MaxClients

HasSlot == Cardinality(active') < MaxClients

(* Mutant of Count: the client that is refused is not closed.               *)
CountForgets ==
  /\ pc = "counting"
  /\ Reap
  /\ \/ HasSlot /\ pc' = "configuring" /\ UNCHANGED client
     \/ ~HasSlot /\ pc' = "listening" /\ client' = {}
  /\ UNCHANGED <<sock, stopFlag, netVars, faults>>

(* _count_active, and the refusal.                                          *)
Count ==
  /\ pc = "counting"
  /\ Reap
  /\ \/ HasSlot /\ pc' = "configuring" /\ UNCHANGED <<client, gone>>
     \/ /\ ~HasSlot
        /\ pc' = "listening" /\ client' = {} /\ gone' = gone \cup client
  /\ UNCHANGED <<sock, stopFlag, backlog, alive, faults>>

Configure ==
  /\ pc = "configuring"
  /\ pc' = "starting"
  /\ UNCHANGED <<client, active, sock, stopFlag, netVars, faults>>

StartHandler ==
  /\ pc = "starting"
  /\ alive' = alive \cup client
  /\ pc' = "appending"
  /\ UNCHANGED <<client, active, sock, stopFlag, backlog, gone, faults>>

(* A setsockopt raises because the client has reset the connection, or no   *)
(* thread can be started: the client is dropped and serve_forever left.     *)
AdmitFails ==
  /\ pc \in {"configuring", "starting"} /\ faults < MaxFaults
  /\ pc' = "failing" /\ faults' = faults + 1
  /\ client' = {} /\ gone' = gone \cup client
  /\ UNCHANGED <<active, sock, stopFlag, backlog, alive>>

AppendHandler ==
  /\ pc = "appending"
  /\ active' = (active \cup client) \cap alive
  /\ client' = {} /\ pc' = "listening"
  /\ UNCHANGED <<sock, stopFlag, netVars, faults>>

(* serve_forever's finally: the kernel resets whom it has not accepted.     *)
Leave ==
  /\ pc \in {"leaving", "failing"}
  /\ pc' = IF pc = "leaving" THEN "idle" ELSE "pausing"
  /\ sock' = "none" /\ backlog' = {} /\ gone' = gone \cup backlog
  /\ UNCHANGED <<client, active, stopFlag, alive, faults>>

(* Mutant of Resume: the supervisor gives up.                               *)
ResumeNever == pc = "pausing" /\ FALSE /\ UNCHANGED vars

Resume ==
  /\ pc = "pausing"
  /\ pc' = "idle"
  /\ UNCHANGED <<client, active, sock, stopFlag, netVars, faults>>

Listener == \/ Serve \/ Open \/ OpenFails \/ Loop \/ Accept \/ AcceptTimesOut
            \/ AcceptFails \/ Count \/ Configure \/ StartHandler \/ AdmitFails
            \/ AppendHandler \/ Leave \/ Resume

-----------------------------------------------------------------------------
ClientComes ==
  /\ sock = "open"
  /\ \E c \in Clients \ (backlog \cup client \cup alive \cup gone) :
       backlog' = backlog \cup {c}
  /\ UNCHANGED <<listenVars, stopFlag, alive, gone, faults>>

(* The handler's loop ends: end of stream, idle timeout or error.           *)
HandlerEnds ==
  /\ \E c \in alive : alive' = alive \ {c} /\ gone' = gone \cup {c}
  /\ UNCHANGED <<listenVars, stopFlag, backlog, faults>>

(* SIGTERM, SIGINT or SIGHUP: the handler sets _STOP and returns.           *)
Signal ==
  /\ ~stop /\ stop' = TRUE
  /\ UNCHANGED <<listenVars, stopFlag, netVars, faults, main>>

(* socketio.run returns or raises, and main goes on to its finally.         *)
WebEnds ==
  /\ main = "web"
  /\ main' = "stopping" /\ stop' = TRUE
  /\ UNCHANGED <<listenVars, stopFlag, netVars, faults>>

(* ingest.stop, step by step.                                               *)
StopListener ==
  /\ main = "stopping"
  /\ stopFlag' = TRUE /\ main' = "checking"
  /\ UNCHANGED <<listenVars, netVars, faults, stop>>

CheckSocket ==
  /\ main = "checking"
  /\ main' = IF sock = "none" THEN "stopped" ELSE "closing"
  /\ UNCHANGED <<listenVars, stopFlag, netVars, faults, stop>>

(* The socket closes for everybody who waits in its backlog.  If the        *)
(* listener has dropped it since the check, close is called on None and     *)
(* raises, and main is left without the rest of its finally.                *)
CloseSocket ==
  /\ main = "closing"
  /\ IF sock = "none"
       THEN main' = "exited" /\ UNCHANGED <<sock, backlog, gone>>
       ELSE /\ main' = "stopped" /\ sock' = "closed"
            /\ backlog' = {} /\ gone' = gone \cup backlog
  /\ UNCHANGED <<pc, client, active, stopFlag, alive, faults, stop>>

(* The rest of the finally; the other threads are daemons and end with it.  *)
Exit ==
  /\ main = "stopped"
  /\ main' = "exited"
  /\ UNCHANGED <<listenVars, stopFlag, netVars, faults, stop>>

Main == StopListener \/ CheckSocket \/ CloseSocket \/ Exit

Next == \/ Running /\ Listener /\ UNCHANGED <<main, stop>>
        \/ Running /\ (ClientComes \/ HandlerEnds) /\ UNCHANGED <<main, stop>>
        \/ Running /\ (Signal \/ WebEnds)
        \/ Main
        \/ ~Running /\ UNCHANGED vars

Spec == Init /\ [][Next]_vars

(* The listener's and the main thread keep running.                         *)
FairSpec == /\ Spec
            /\ WF_vars(Running /\ Listener /\ UNCHANGED <<main, stop>>)
            /\ WF_vars(Main)

-----------------------------------------------------------------------------
TypeOK ==
  /\ pc \in {"idle", "opening", "listening", "accepting", "counting",
             "configuring", "starting", "appending", "leaving", "failing",
             "pausing"}
  /\ client \subseteq Clients /\ Cardinality(client) =< 1
  /\ active \subseteq Clients /\ stopFlag \in BOOLEAN
  /\ sock \in {"none", "open", "closed"}
  /\ backlog \subseteq Clients /\ alive \subseteq Clients /\ gone \subseteq Clients
  /\ faults \in 0..MaxFaults
  /\ main \in {"web", "stopping", "checking", "closing", "stopped", "exited"}
  /\ stop \in BOOLEAN

(* No more handlers run than max_clients, through crashes and restarts of   *)
(* the listener and whenever handlers end (ingest.py:373-390, 421-427).     *)
AtMostMaxClients == Cardinality(alive) =< MaxClients

(* A client that the kernel has connected is not left waiting: it gets a    *)
(* handler, or it is told off, even if serve_forever ends first             *)
(* (ingest.py:364-398).                                                     *)
EveryClientAnswered ==
  \A c \in Clients : c \in backlog ~> c \in alive \cup gone \/ ~Running

(* README.md:75: a supervised thread "restarts on any exception": whatever  *)
(* ended the listener, the server accepts connections again.                *)
ListensAgain ==
  pc \in {"leaving", "failing", "pausing"} ~> pc = "accepting" \/ ~Running

(* __main__.py:216: socketio.run blocks; "stop by sending SIGTERM."         *)
SignalStops == stop ~> ~Running
=============================================================================
