------------------------------- MODULE Pipeline -------------------------------
(***************************************************************************)
(* Pipeline.on_sentence and Pipeline.output_loop: the duplicate detector   *)
(* and the jitter buffer, run by the ingest threads on one side and the    *)
(* output thread on the other.                                             *)
(*                                                                         *)
(* A sentence a thread has read is stamped, checked, and if it is new      *)
(* pushed under the time the sentence itself tells (AIS types 4 and 11) or *)
(* else under its arrival time.  What is handed to ForwarderManager        *)
(* .dispatch is what has left the batch of the output thread.              *)
(*                                                                         *)
(* The module is the detector's, Dedup, with the buffer beside it: its     *)
(* clock is that of both.                                                  *)
(***************************************************************************)
EXTENDS Dedup, Sequences

CONSTANTS
  Hold, MaxQueue, MaxWait, MaxStarved,
  Intrinsic       \* key -> the time the sentence tells, for those that do

ASSUME BufferAssumption    == Hold \in Nat /\ MaxQueue \in Nat \ {0}
ASSUME IntrinsicAssumption == /\ DOMAIN Intrinsic \subseteq Keys
                              /\ Intrinsic \in [DOMAIN Intrinsic -> Int]

VARIABLES
  pushing,        \* sentences found new, by threads about to push them
  heap, entering, nextSeq, outPc, cutoff, batch, until,
  pushed, popped, dropped, released, starved

R == INSTANCE ReorderBuffer
       WITH Payloads <- [thread : Threads, key : Keys, n : 1..MaxCalls],
            Skews <- {}, MaxThreads <- Cardinality(Threads), MaxPush <- MaxCalls

dedupVars    == <<cache, calls, seen, duplicates, accepted, others, last>>
reorderVars  == <<heap, entering, nextSeq, outPc, cutoff, batch, until,
                  pushed, popped, dropped, released, starved>>
pipelineVars == <<now, dedupVars, pushing, reorderVars>>

-----------------------------------------------------------------------------
PipelineInit == Init /\ R!Init /\ pushing = {}

Busy == {c.thread : c \in calls \cup pushing}
          \cup {e.payload.thread : e \in entering}

(* A thread has read a sentence and notes the time.                         *)
Hear(t, k) ==
  /\ t \notin Busy
  /\ Arrive(t, k)
  /\ UNCHANGED <<pushing, reorderVars>>

(* Mutant of Repeat: the early return is gone, a duplicate is pushed too.   *)
RepeatPushes(t) ==
  /\ \E c \in calls :
       /\ c.thread = t /\ Hit(c)
       /\ pushing' = pushing \cup {[thread |-> t, key |-> c.key, ts |-> c.ts,
                                    n |-> seen + 1]}
  /\ UNCHANGED reorderVars

Repeat(t) ==
  /\ \E c \in calls : c.thread = t /\ Hit(c)
  /\ UNCHANGED <<pushing, reorderVars>>

Fresh(t) ==
  /\ \E c \in calls :
       /\ c.thread = t /\ Miss(c)
       /\ pushing' = pushing \cup {[thread |-> t, key |-> c.key, ts |-> c.ts,
                                    n |-> seen + 1]}
  /\ UNCHANGED reorderVars

TimeOf(p) == IF p.key \in DOMAIN Intrinsic THEN Intrinsic[p.key] ELSE p.ts

PushEnter(t) ==
  /\ \E p \in pushing :
       /\ p.thread = t
       /\ R!Enter([thread |-> t, key |-> p.key, n |-> p.n], TimeOf(p))
       /\ pushing' = pushing \ {p}
  /\ UNCHANGED dedupVars

PushCommit(t) ==
  /\ \E e \in entering : e.payload.thread = t /\ R!Commit(e)
  /\ UNCHANGED <<dedupVars, pushing>>

Ingest(t) == Repeat(t) \/ Fresh(t) \/ PushEnter(t) \/ PushCommit(t)

(* output_loop; its R!Take is the call of dispatch.                         *)
Output == R!Consumer /\ UNCHANGED <<dedupVars, pushing>>

PipelineTick == R!Tick /\ UNCHANGED <<dedupVars, pushing>>

(* A sentence is heard while the bounded clock still lets it come due.      *)
PipelineNext ==
  \/ \E t \in Threads, k \in Keys : now + Hold < MaxTime /\ Hear(t, k)
  \/ \E t \in Threads : Ingest(t)
  \/ Output
  \/ PipelineTick

PipelineSpec == PipelineInit /\ [][PipelineNext]_pipelineVars

-----------------------------------------------------------------------------
(* What has been handed to ForwarderManager.dispatch.                       *)
Dispatched == SubSeq(released, 1, Len(released) - Len(batch))

SeqSet(s) == {s[i] : i \in 1..Len(s)}

(* Every sentence ever accepted is in exactly one place between the check   *)
(* and the dispatch, or was dropped by the full buffer (on_sentence and     *)
(* output_loop, pipeline.py:55-108): nothing is lost on the way.            *)
EachInOnePlace ==
  LET inFlight == {p.n : p \in pushing} \cup {e.payload.n : e \in entering}
      buffered == {x.payload.n : x \in heap}
      left     == {x.payload.n : x \in SeqSet(released)}
  IN /\ inFlight \cap buffered = {} /\ (inFlight \cup buffered) \cap left = {}
     /\ Cardinality(left) = Len(released)
     /\ Cardinality({a.n : a \in accepted}) =
          Cardinality(inFlight) + Cardinality(buffered)
            + Cardinality(left) + dropped

-----------------------------------------------------------------------------
(* The stream this pipeline implements: the acceptances, numbered in order, *)
(* and the sentences of them that are still on the way.                     *)
Latest(k) == CHOOSE a \in accepted :
               a.key = k /\ \A b \in accepted : b.key = k => b.n =< a.n

Window == [k \in Keys |->
             IF \E a \in accepted : a.key = k THEN TTL + Latest(k).at ELSE 0]

Plain(x) == [key |-> x.payload.key, ts |-> x.ts, n |-> x.payload.n]

Underway == {[key |-> p.key, ts |-> TimeOf(p), n |-> p.n] : p \in pushing}
              \cup {Plain(x) : x \in entering \cup heap \cup SeqSet(batch)}

Ranked(s) == [key |-> s.key, ts |-> s.ts,
              n |-> Cardinality({a \in accepted : a.n =< s.n})]

Waiting == {Ranked(s) : s \in Underway}

Out == [i \in 1..Len(Dispatched) |-> Ranked(Plain(Dispatched[i]))]

Stream == INSTANCE AisStream WITH
  window <- Window, heard <- others, taken <- Cardinality(accepted), waiting <- Waiting, out <- Out

(* The pipeline keeps the promise of AisStream.                             *)
KeepsStreamPromise == Stream!Spec
=============================================================================
