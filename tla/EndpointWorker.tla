---------------------------- MODULE EndpointWorker ----------------------------
(***************************************************************************)
(* _EndpointWorker of forwarder.py: the queue, fed by the output thread    *)
(* and stopped by the thread that syncs the endpoints, and the loop that   *)
(* run() picks for the endpoint's protocol.                                *)
(***************************************************************************)
EXTENDS WorkerQueue

CONSTANTS
  MaxFaults,   \* bound: link failures, failed sends and setsockopts of TCP
  BatchMax     \* sentences that make an HTTP worker post (100)

ASSUME WorkerAssumption == MaxFaults \in Nat /\ BatchMax \in Nat \ {0}

VARIABLES
  protocol,    \* ep.protocol
  pc, received, undelivered, sentAfterStop,                   \* of every loop
  hand, badAddress,                                           \* of TCP and UDP
  sock, reachable, faults, halfSent, lost,          \* of TCP
  batch                                                       \* of HTTP

T == INSTANCE TcpWorker
U == INSTANCE UdpWorker
H == INSTANCE HttpWorker

shared   == <<pc, received, undelivered, sentAfterStop>>
tcpOnly  == <<sock, reachable, faults, halfSent, lost>>
loopVars == <<protocol, shared, hand, badAddress, tcpOnly, batch>>
vars     == <<queueVars, loopVars>>

-----------------------------------------------------------------------------
(* What a protocol does not look at is fixed.                               *)
NoTcp ==
  /\ sock = "none" /\ reachable = TRUE /\ faults = 0
  /\ halfSent = {} /\ lost = {}

Init ==
  \/ protocol = "tcp" /\ T!Init /\ batch = <<>>
  \/ protocol = "udp" /\ U!Init /\ NoTcp /\ batch = <<>>
  \/ protocol = "http" /\ H!Init /\ NoTcp /\ hand = Wake /\ badAddress = FALSE

(* put is called by dispatch, stop by sync or stop_all.                     *)
Caller == (Put \/ StopFlag \/ StopWake) /\ UNCHANGED loopVars

Tcp  == protocol = "tcp" /\ T!Worker /\ UNCHANGED <<protocol, batch>>
Udp  == protocol = "udp" /\ U!Worker /\ UNCHANGED <<protocol, tcpOnly, batch>>
Http == protocol = "http" /\ H!Worker
          /\ UNCHANGED <<protocol, hand, badAddress, tcpOnly>>
Link == protocol = "tcp" /\ T!Link /\ UNCHANGED <<protocol, batch>>

Run == Tcp \/ Udp \/ Http

Next == Caller \/ Run \/ Link \/ (pc = "done" /\ UNCHANGED vars)

Spec == Init /\ [][Next]_vars

(* The worker is a thread and keeps running, and so does the output thread  *)
(* in the middle of a put; a TCP endpoint comes back some day, and between  *)
(* two flushes of an HTTP worker a second passes again and again.           *)
FairSpec ==
  /\ Spec
  /\ WF_vars(Run)
  /\ WF_vars((PutDiscard \/ PutAgain) /\ UNCHANGED loopVars)
  /\ WF_vars(Link /\ reachable')
  /\ SF_vars(Http /\ batch # <<>> /\ batch' = <<>>)

-----------------------------------------------------------------------------
Elements(seq) == {seq[i] : i \in 1..Len(seq)}
InHand == {hand} \ {Wake}
InPut  == {p.s : p \in putting}

(* A queue without stop's tokens.                                           *)
OnlySentences(seq) ==
  LET upTo[i \in 0..Len(seq)] ==
        IF i = 0 THEN <<>>
        ELSE IF seq[i] = Wake THEN upTo[i - 1] ELSE Append(upTo[i - 1], seq[i])
  IN upTo[Len(seq)]

(* Everything put and not yet sent or given up, oldest first.               *)
Pending == (IF hand = Wake THEN <<>> ELSE <<hand>>) \o batch
             \o OnlySentences(queue)
             \o (IF InPut = {} THEN <<>> ELSE <<CHOOSE s \in InPut : TRUE>>)

GivenUp == discarded \cup refused \cup lost \cup undelivered

Waiting == InHand \cup Elements(batch) \cup QueuedSentences \cup InPut

Distinct(seq) ==
  \A i, j \in 1..Len(seq) : seq[i] = seq[j] /\ seq[i] # Wake => i = j

InOnePlace ==
  /\ Distinct(queue) /\ Distinct(batch)
  /\ InHand \cap (Elements(batch) \cup QueuedSentences \cup InPut) = {}
  /\ Elements(batch) \cap (QueuedSentences \cup InPut) = {}
  /\ QueuedSentences \cap InPut = {}

(* Every sentence put is waiting in one place only, or its fate is known:   *)
(* it reached the endpoint, or was thrown out or refused by put, could not  *)
(* be put back, or was lost by the network; and none of these goes on       *)
(* waiting, but for the one that is sent again because its send failed      *)
(* (forwarder.py:61-73, 100-228).                                           *)
NoSilentLoss ==
  /\ Waiting \cup GivenUp \cup Elements(received) = 1..offered
  /\ InOnePlace
  /\ Waiting \cap GivenUp = {}
  /\ Waiting \cap Elements(received) \subseteq halfSent

(* A stopped worker sends what it has already taken and no more, whatever   *)
(* is left on its queue (forwarder.py:75-80, 102, 172, 209).                *)
OneSendAfterStop == sentAfterStop =< 1

Fifo == INSTANCE LossyFifo
          WITH retrying <- protocol = "tcp", pending <- Pending,
               got <- received, count <- offered

(* Whatever put, stop and the loop do to the queue in turn, the endpoint    *)
(* gets what LossyFifo promises: from UDP and HTTP a subsequence of what    *)
(* was put, none of it twice; from TCP a repeat only of a send that failed  *)
(* after its bytes were out, and disorder only where a failed one was put   *)
(* back.                                                                    *)
KeepsFifoPromise == Fifo!Spec

(* A worker whose address and socket are usable never ends before a stop,   *)
(* and always does after one, even from inside a back-off and even if the   *)
(* queue was too full for stop's token.                                     *)
EndsWhenStopped ==
  /\ [](pc = "done" => stopping # "no" \/ badAddress)
  /\ stopping # "no" ~> pc = "done"

(* Unless it is stopped or cannot use its address or socket, a worker sends *)
(* or gives up every sentence, once a TCP endpoint stays up.                *)
QueueDrains ==
  \A s \in Sentences :
    s \in QueuedSentences ~>
      stopping # "no" \/ badAddress \/ s \in Elements(received) \cup GivenUp
=============================================================================
