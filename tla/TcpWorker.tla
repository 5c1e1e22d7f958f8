------------------------------- MODULE TcpWorker ------------------------------
(***************************************************************************)
(* _EndpointWorker._run_tcp: the client connection to one endpoint, with   *)
(* the queue it drains.                                                    *)
(*                                                                         *)
(* The network is external.  A send while the link is up reaches the       *)
(* endpoint, or fails (a timeout, say) before or after the bytes are out;  *)
(* on a broken connection it fails or, the first time, may seem to succeed *)
(* and reach nobody.  An address the socket library rejects with something *)
(* other than OSError ends the thread through run()'s handler.  The length *)
(* of the back-off is left out: the thread sleeps, and then goes on.       *)
(***************************************************************************)
EXTENDS WorkerQueue

CONSTANT MaxFaults       \* bound: link failures, failed sends and setsockopts

VARIABLES
  pc,         \* "loop", "connect", "asleep", "get", "send", "requeue", "done"
  hand,       \* the local "sentence"
  sock,       \* _sock: "none", "open" or "broken"
  reachable,  \* external: whether the endpoint accepts connections
  badAddress, \* external: the address is one the library rejects
  faults,     \* faults so far
  received,   \* history: what reached the endpoint, in order
  halfSent,   \* history: sentences of which a failed send got through
  undelivered, \* history: sentences sent into a broken connection
  lost,       \* history: sentences that could not be put back
  sentAfterStop  \* history: sends begun after stop had set its flag

histVars == <<received, halfSent, undelivered, lost, sentAfterStop>>
envVars  == <<reachable, badAddress, faults>>

-----------------------------------------------------------------------------
Init ==
  /\ QueueInit
  /\ pc = "loop" /\ hand = Wake /\ sock = "none"
  /\ reachable \in BOOLEAN /\ badAddress \in BOOLEAN /\ faults = 0
  /\ received = <<>> /\ halfSent = {} /\ undelivered = {}
  /\ lost = {} /\ sentAfterStop = 0

(* Mutant of Loop: the stop flag is not looked at.                          *)
LoopForEver ==
  /\ pc = "loop"
  /\ pc' = IF sock = "none" THEN "connect" ELSE "get"
  /\ UNCHANGED <<queueVars, hand, sock, envVars, histVars>>

(* The loop's test; run() closes the socket on the way out.                 *)
Loop ==
  /\ pc = "loop"
  /\ IF StopSet THEN pc' = "done" /\ sock' = "none"
                ELSE /\ pc' = IF sock = "none" THEN "connect" ELSE "get"
                     /\ UNCHANGED sock
  /\ UNCHANGED <<queueVars, hand, envVars, histVars>>

ConnectOk ==
  /\ pc = "connect" /\ reachable /\ ~badAddress
  /\ sock' = "open" /\ pc' = "get"
  /\ UNCHANGED <<queueVars, hand, envVars, histVars>>

(* Mutant of ConnectFails: the worker gives up.                             *)
ConnectFailsForGood ==
  /\ pc = "connect" /\ ~reachable /\ ~badAddress
  /\ pc' = "done"
  /\ UNCHANGED <<queueVars, hand, sock, envVars, histVars>>

(* create_connection fails, or setsockopt on the new connection does, which *)
(* leaves that in _sock: after the back-off the worker goes on with it.     *)
ConnectFails ==
  /\ pc = "connect" /\ ~badAddress
  /\ \/ ~reachable /\ UNCHANGED <<sock, faults>>
     \/ /\ reachable /\ faults < MaxFaults /\ faults' = faults + 1
        /\ sock' \in {"open", "broken"}
  /\ pc' = "asleep"
  /\ UNCHANGED <<queueVars, hand, reachable, badAddress, histVars>>

ConnectCrashes ==
  /\ pc = "connect" /\ badAddress
  /\ pc' = "done"
  /\ UNCHANGED <<queueVars, hand, sock, envVars, histVars>>

BackoffEnds ==
  /\ pc = "asleep"
  /\ pc' = "loop"
  /\ UNCHANGED <<queueVars, hand, sock, envVars, histVars>>

(* queue.get(timeout=1.0): a sentence, stop's token, or Empty.              *)
Get ==
  /\ pc = "get"
  /\ IF queue = <<>>
       THEN pc' = "loop" /\ UNCHANGED <<queue, hand>>
       ELSE /\ queue' = Tail(queue)
            /\ hand' = Head(queue)
            /\ pc' = IF Head(queue) = Wake THEN "loop" ELSE "send"
  /\ UNCHANGED <<putVars, stopping, sock, envVars, histVars>>

(* What becomes of the bytes of a send, and whether sendall returns.        *)
Outcomes ==
  IF sock = "open"
    THEN {[ok |-> TRUE, got |-> TRUE]}
           \cup IF faults < MaxFaults THEN [ok : {FALSE}, got : BOOLEAN] ELSE {}
    ELSE [ok : BOOLEAN, got : {FALSE}]

Send ==
  /\ pc = "send"
  /\ \E o \in Outcomes :
       /\ received' = IF o.got THEN Append(received, hand) ELSE received
       /\ halfSent' = IF o.got /\ ~o.ok THEN halfSent \cup {hand} ELSE halfSent
       /\ undelivered' = IF o.ok /\ ~o.got THEN undelivered \cup {hand}
                                           ELSE undelivered
       /\ pc' = IF o.ok THEN "loop" ELSE "requeue"
       /\ sock' = IF o.ok THEN sock ELSE "none"
       /\ faults' = IF sock = "open" /\ ~o.ok THEN faults + 1 ELSE faults
       /\ hand' = IF o.ok THEN Wake ELSE hand
  /\ sentAfterStop' = IF StopSet THEN sentAfterStop + 1 ELSE sentAfterStop
  /\ UNCHANGED <<queueVars, reachable, badAddress, lost>>

(* Mutant of Requeue: the sentence is not put back.                         *)
ForgetSentence ==
  /\ pc = "requeue"
  /\ pc' = "loop" /\ hand' = Wake
  /\ UNCHANGED <<queueVars, sock, envVars, histVars>>

(* The put_nowait of the OSError handler.                                   *)
Requeue ==
  /\ pc = "requeue"
  /\ IF Full THEN lost' = lost \cup {hand} /\ UNCHANGED queue
             ELSE queue' = Append(queue, hand) /\ UNCHANGED lost
  /\ pc' = "loop" /\ hand' = Wake
  /\ UNCHANGED <<putVars, stopping, sock, envVars, received, halfSent, undelivered,
                 sentAfterStop>>

(* The endpoint goes away, which breaks the connection, or comes back.      *)
LinkDown ==
  /\ reachable /\ faults < MaxFaults
  /\ reachable' = FALSE /\ faults' = faults + 1
  /\ sock' = IF sock = "open" THEN "broken" ELSE sock
  /\ UNCHANGED <<queueVars, pc, hand, badAddress, histVars>>

LinkUp ==
  /\ ~reachable
  /\ reachable' = TRUE
  /\ UNCHANGED <<queueVars, pc, hand, sock, badAddress, faults, histVars>>

Worker == Loop \/ ConnectOk \/ ConnectFails \/ ConnectCrashes \/ BackoffEnds
            \/ Get \/ Send \/ Requeue
Link == LinkDown \/ LinkUp
=============================================================================
