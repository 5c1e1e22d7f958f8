------------------------------ MODULE WorkerQueue ------------------------------
(***************************************************************************)
(* What the three kinds of endpoint worker of forwarder.py share: the      *)
(* bounded queue, put, called by the output thread, and stop, called by    *)
(* the thread that syncs the endpoints.  Each call of queue.Queue is       *)
(* atomic; put and stop make several, and the worker runs in between.      *)
(*                                                                         *)
(* Sentences are numbered in the order the output thread puts them.        *)
(***************************************************************************)
EXTENDS Integers, Sequences, FiniteSets

CONSTANTS
  Capacity,      \* forwarder.queue_size
  MaxSentences   \* bound: sentences put in a behaviour

ASSUME CapacityAssumption  == Capacity \in Nat \ {0}
ASSUME SentencesAssumption == MaxSentences \in Nat

VARIABLES
  queue,      \* queue
  offered,    \* how many sentences have been put
  putting,    \* the put under way, if it found the queue full: [s, step]
  stopping,   \* how far stop() is: "no", "flagged", "stopped"
  discarded,  \* history: sentences put threw out as the oldest
  refused     \* history: sentences put gave up on

putVars  == <<offered, putting, discarded, refused>>
queueVars == <<queue, putVars, stopping>>

Wake == 0                           \* stop's "" on the queue
Sentences == 1..MaxSentences

Full == Len(queue) >= Capacity
StopSet == stopping # "no"          \* self._stop.is_set()

QueueInit ==
  /\ queue = <<>> /\ offered = 0 /\ putting = {} /\ stopping = "no"
  /\ discarded = {} /\ refused = {}

(* put, the first put_nowait.                                               *)
PutFirst ==
  /\ putting = {} /\ offered < MaxSentences
  /\ offered' = offered + 1
  /\ IF Full THEN /\ putting' = {[s |-> offered', step |-> "discard"]}
                  /\ UNCHANGED queue
             ELSE /\ queue' = Append(queue, offered')
                  /\ UNCHANGED putting
  /\ UNCHANGED <<stopping, discarded, refused>>

(* put, the get_nowait of its Full handler.                                 *)
PutDiscard ==
  \E p \in putting :
    /\ p.step = "discard"
    /\ putting' = {[p EXCEPT !.step = "again"]}
    /\ IF queue = <<>>
         THEN UNCHANGED <<queue, discarded>>
         ELSE /\ queue' = Tail(queue)
              /\ discarded' = discarded \cup ({Head(queue)} \ {Wake})
    /\ UNCHANGED <<offered, stopping, refused>>

(* Mutant of PutAgain: the sentence goes to the front of the queue.         *)
PutAgainInFront ==
  \E p \in putting :
    /\ p.step = "again"
    /\ putting' = {}
    /\ IF Full THEN refused' = refused \cup {p.s} /\ UNCHANGED queue
               ELSE queue' = <<p.s>> \o queue /\ UNCHANGED refused
    /\ UNCHANGED <<offered, stopping, discarded>>

(* put, the second put_nowait.                                              *)
PutAgain ==
  \E p \in putting :
    /\ p.step = "again"
    /\ putting' = {}
    /\ IF Full THEN refused' = refused \cup {p.s} /\ UNCHANGED queue
               ELSE queue' = Append(queue, p.s) /\ UNCHANGED refused
    /\ UNCHANGED <<offered, stopping, discarded>>

Put == PutFirst \/ PutDiscard \/ PutAgain

(* stop, which a sync whose join raised calls again.                        *)
StopFlag == /\ stopping # "flagged"
            /\ stopping' = "flagged"
            /\ UNCHANGED <<queue, putVars>>

StopWake == /\ stopping = "flagged"
            /\ stopping' = "stopped"
            /\ queue' = IF Full THEN queue ELSE Append(queue, Wake)
            /\ UNCHANGED putVars

-----------------------------------------------------------------------------
QueuedSentences == {queue[i] : i \in 1..Len(queue)} \ {Wake}
=============================================================================
