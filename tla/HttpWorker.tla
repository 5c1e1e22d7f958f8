------------------------------- MODULE HttpWorker -----------------------------
(***************************************************************************)
(* _EndpointWorker._run_http: sentences are gathered into batches and      *)
(* POSTed.  The HTTP server is external: a POST returns, whatever the      *)
(* status of the response, or raises before or after the server took the   *)
(* batch.  Whether a second has passed since the last flush is left open.  *)
(***************************************************************************)
EXTENDS WorkerQueue

CONSTANT BatchMax   \* sentences that force a flush (100)

VARIABLES
  pc,        \* "loop", "get", "flush", "done"
  batch,     \* the local "batch"
  received,  \* history: what the server accepted, in order
  undelivered,  \* history: sentences of POSTs that failed or were turned down
  sentAfterStop  \* history: POSTs begun after stop had set its flag

histVars == <<received, undelivered, sentAfterStop>>

-----------------------------------------------------------------------------
Init ==
  /\ QueueInit
  /\ pc = "loop" /\ batch = <<>>
  /\ received = <<>> /\ undelivered = {} /\ sentAfterStop = 0

Loop ==
  /\ pc = "loop"
  /\ pc' = IF StopSet THEN "done" ELSE "get"
  /\ UNCHANGED <<queueVars, batch, histVars>>

Get ==
  /\ pc = "get"
  /\ IF queue = <<>>
       THEN UNCHANGED <<queue, batch>>
       ELSE /\ queue' = Tail(queue)
            /\ batch' = IF Head(queue) = Wake THEN batch
                                              ELSE Append(batch, Head(queue))
  /\ pc' = "flush"
  /\ UNCHANGED <<putVars, stopping, histVars>>

(* Nothing to flush yet.                                                    *)
Hold ==
  /\ pc = "flush" /\ Len(batch) < BatchMax
  /\ pc' = "loop"
  /\ UNCHANGED <<queueVars, batch, histVars>>

BatchSet == {batch[i] : i \in 1..Len(batch)}

Flush ==
  /\ pc = "flush" /\ batch # <<>>
  /\ \E took \in BOOLEAN :
       /\ received' = IF took THEN received \o batch ELSE received
       /\ undelivered' = IF took THEN undelivered ELSE undelivered \cup BatchSet
  /\ batch' = <<>> /\ pc' = "loop"
  /\ sentAfterStop' = IF StopSet THEN sentAfterStop + 1 ELSE sentAfterStop
  /\ UNCHANGED queueVars

Worker == Loop \/ Get \/ Hold \/ Flush
=============================================================================
