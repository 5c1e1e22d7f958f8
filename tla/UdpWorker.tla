------------------------------- MODULE UdpWorker -------------------------------
(***************************************************************************)
(* _EndpointWorker._run_udp: datagrams to one endpoint, fire and forget.   *)
(* The network is external: a datagram that sendto takes arrives or does   *)
(* not; sendto may refuse it with an OSError, or, for an address such as a *)
(* port above 65535, raise something else and end the thread.  So does an  *)
(* OSError of socket(), which is called before the loop.                   *)
(***************************************************************************)
EXTENDS WorkerQueue

VARIABLES
  pc,         \* "loop", "get", "send", "done"
  hand,       \* the local "sentence"
  badAddress, \* external: the library rejects the address, or the socket
  received,   \* history: what reached the endpoint, in order
  undelivered,   \* history: datagrams refused or lost on the way
  sentAfterStop  \* history: sends begun after stop had set its flag

histVars == <<received, undelivered, sentAfterStop>>

-----------------------------------------------------------------------------
Init ==
  /\ QueueInit
  /\ hand = Wake /\ badAddress \in BOOLEAN
  /\ \/ pc = "loop"
     \/ pc = "done" /\ badAddress
  /\ received = <<>> /\ undelivered = {} /\ sentAfterStop = 0

Loop ==
  /\ pc = "loop"
  /\ pc' = IF StopSet THEN "done" ELSE "get"
  /\ UNCHANGED <<queueVars, hand, badAddress, histVars>>

Get ==
  /\ pc = "get"
  /\ IF queue = <<>>
       THEN pc' = "loop" /\ UNCHANGED <<queue, hand>>
       ELSE /\ queue' = Tail(queue)
            /\ hand' = Head(queue)
            /\ pc' = IF Head(queue) = Wake THEN "loop" ELSE "send"
  /\ UNCHANGED <<putVars, stopping, badAddress, histVars>>

(* sendto returns, or raises an OSError that the loop logs and forgets.     *)
Send ==
  /\ pc = "send" /\ ~badAddress
  /\ \/ received' = Append(received, hand) /\ UNCHANGED undelivered
     \/ undelivered' = undelivered \cup {hand} /\ UNCHANGED received
  /\ hand' = Wake /\ pc' = "loop"
  /\ sentAfterStop' = IF StopSet THEN sentAfterStop + 1 ELSE sentAfterStop
  /\ UNCHANGED <<queueVars, badAddress>>

SendCrashes ==
  /\ pc = "send" /\ badAddress
  /\ undelivered' = undelivered \cup {hand}
  /\ hand' = Wake /\ pc' = "done"
  /\ sentAfterStop' = IF StopSet THEN sentAfterStop + 1 ELSE sentAfterStop
  /\ UNCHANGED <<queueVars, badAddress, received>>

Worker == Loop \/ Get \/ Send \/ SendCrashes
=============================================================================
