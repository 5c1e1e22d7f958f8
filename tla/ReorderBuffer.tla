---------------------------- MODULE ReorderBuffer ----------------------------
(***************************************************************************)
(* The jitter buffer of reorder.py and the half of Pipeline.output_loop    *)
(* that drives it.                                                         *)
(*                                                                         *)
(* Ingest threads push items: the sequence number is taken from            *)
(* itertools.count before the lock is asked for (Enter), the heap is       *)
(* changed under the lock (Commit).  One output thread polls: it reads the *)
(* clock (ReadClock), takes the lock (AcquirePop), pops every due item     *)
(* while it holds the lock (PopOne, PopDone), hands the batch on (Take),   *)
(* and when nothing was due it waits on the condition variable (WaitNext,  *)
(* Timeout).  The lock is held over a step of this module exactly while    *)
(* outPc = "popping"; every other critical section is one step.            *)
(*                                                                         *)
(* Time is counted in ticks and the clock never steps back.  A local of    *)
(* the output thread that is out of scope is 0.                            *)
(***************************************************************************)
EXTENDS Integers, Sequences, FiniteSets

CONSTANTS
  Payloads,        \* what is buffered
  Skews,           \* a pushed time stamp is the current time plus one of these
  Hold,            \* hold_s
  MaxQueue,        \* max_queue
  MaxWait,         \* the 0.25 s cap output_loop gives wait_next
  MaxStarved,      \* bound: ticks the output thread is kept from running
  MaxThreads,      \* bound: pushes in flight
  MaxPush,         \* bound: pushes of a behaviour
  MaxTime          \* bound: the clock

ASSUME HoldAssumption  == Hold \in Nat
ASSUME QueueAssumption == MaxQueue \in Nat \ {0}
ASSUME WaitAssumption  == MaxWait \in Nat \ {0}
ASSUME SkewAssumption  == Skews \subseteq Int
ASSUME BoundAssumption == /\ MaxTime \in Nat /\ MaxPush \in Nat
                          /\ MaxThreads \in Nat /\ MaxStarved \in Nat

VARIABLES
  now,       \* time.time()
  heap,      \* _heap, as the set of its items
  entering,  \* items that have their sequence number and not yet the lock
  nextSeq,   \* _seq
  outPc,     \* where the output thread is
  cutoff,    \* the local of pop_ready
  batch,     \* the local "out" of pop_ready, then "ready" of output_loop
  until,     \* when the output thread's wait ends
  pushed, popped, dropped,
  released,  \* history: every item popped, in order
  starved    \* history: ticks that passed while the output thread could run

bufferVars   == <<heap, entering, nextSeq, pushed, dropped>>
consumerVars == <<outPc, cutoff, batch, until, popped, released>>
vars         == <<now, bufferVars, consumerVars, starved>>

-----------------------------------------------------------------------------
(* _HeapItem is ordered by (ts, seq).                                       *)
Before(a, b) == a.ts < b.ts \/ (a.ts = b.ts /\ a.seq < b.seq)

(* Mutant of IsOldest: the heap is ordered by arrival only.                 *)
IsFirstPushed(x) == x \in heap /\ \A y \in heap \ {x} : x.seq < y.seq

IsOldest(x) == x \in heap /\ \A y \in heap \ {x} : Before(x, y)

(* Mutant of HasRoom: off by one.                                           *)
HasRoomForOneMore == Cardinality(heap) =< MaxQueue

HasRoom == Cardinality(heap) < MaxQueue

(* Mutant of Notify: push does not wake the output thread.                  *)
NoNotify == UNCHANGED <<outPc, until>>

Notify == IF outPc = "asleep" THEN outPc' = "poll" /\ until' = 0
                              ELSE UNCHANGED <<outPc, until>>

(* A heap item remembers, for the properties only, when it was committed    *)
(* and how many items had been released by then.                            *)
HeapItem(e) == [ts |-> e.ts, seq |-> e.seq, payload |-> e.payload,
                at |-> now, after |-> Len(released)]

-----------------------------------------------------------------------------
(* Mutant of Init: the sequence starts below zero.                          *)
InitBelowZero ==
  /\ now = 0
  /\ heap = {} /\ entering = {} /\ nextSeq = -1
  /\ outPc = "poll" /\ cutoff = 0 /\ batch = <<>> /\ until = 0
  /\ pushed = 0 /\ popped = 0 /\ dropped = 0
  /\ released = <<>> /\ starved = 0

Init ==
  /\ now = 0
  /\ heap = {} /\ entering = {} /\ nextSeq = 0
  /\ outPc = "poll" /\ cutoff = 0 /\ batch = <<>> /\ until = 0
  /\ pushed = 0 /\ popped = 0 /\ dropped = 0
  /\ released = <<>> /\ starved = 0

(* push, before the lock.                                                   *)
Enter(p, ts) ==
  /\ nextSeq < MaxPush
  /\ Cardinality(entering) < MaxThreads
  /\ entering' = entering \cup {[ts |-> ts, seq |-> nextSeq, payload |-> p]}
  /\ nextSeq' = nextSeq + 1
  /\ UNCHANGED <<now, heap, pushed, dropped, consumerVars, starved>>

(* push, under the lock: a full heap gives up its oldest item first, and    *)
(* notify wakes the output thread if it is waiting.                         *)
Commit(e) ==
  /\ e \in entering
  /\ outPc # "popping"
  /\ \/ /\ HasRoom
        /\ heap' = heap \cup {HeapItem(e)}
        /\ UNCHANGED dropped
     \/ /\ ~HasRoom
        /\ \E old \in heap :
             /\ IsOldest(old)
             /\ heap' = (heap \ {old}) \cup {HeapItem(e)}
        /\ dropped' = dropped + 1
  /\ entering' = entering \ {e}
  /\ pushed' = pushed + 1
  /\ Notify
  /\ UNCHANGED <<now, nextSeq, cutoff, batch, popped, released, starved>>

(* Mutant of ReadClock: the hold time is left out.                          *)
ReadClockNoHold ==
  /\ outPc = "poll"
  /\ cutoff' = now
  /\ outPc' = "locking"
  /\ UNCHANGED <<now, bufferVars, batch, until, popped, released, starved>>

(* pop_ready: the cutoff is computed before the lock is taken.              *)
ReadClock ==
  /\ outPc = "poll"
  /\ cutoff' = now - Hold
  /\ outPc' = "locking"
  /\ UNCHANGED <<now, bufferVars, batch, until, popped, released, starved>>

AcquirePop ==
  /\ outPc = "locking"
  /\ outPc' = "popping"
  /\ batch' = <<>>
  /\ UNCHANGED <<now, bufferVars, cutoff, until, popped, released, starved>>

PopOne ==
  /\ outPc = "popping"
  /\ \E x \in heap :
       /\ IsOldest(x) /\ x.ts =< cutoff
       /\ heap' = heap \ {x}
       /\ batch' = Append(batch, x)
       /\ released' = Append(released, x)
  /\ popped' = popped + 1
  /\ UNCHANGED <<now, entering, nextSeq, pushed, dropped, outPc, cutoff, until,
                 starved>>

PopDone ==
  /\ outPc = "popping"
  /\ \A x \in heap : x.ts > cutoff
  /\ outPc' = IF batch = <<>> THEN "idle" ELSE "consuming"
  /\ cutoff' = 0
  /\ UNCHANGED <<now, bufferVars, batch, until, popped, released, starved>>

(* output_loop hands the batch on one item at a time, outside the lock.     *)
Take ==
  /\ outPc = "consuming"
  /\ batch' = Tail(batch)
  /\ outPc' = IF Len(batch) = 1 THEN "poll" ELSE "consuming"
  /\ UNCHANGED <<now, bufferVars, cutoff, until, popped, released, starved>>

(* wait_next, under the lock: an empty heap waits for the whole timeout,    *)
(* otherwise the wait ends when the head is due, and no wait at all when it *)
(* already is.                                                              *)
Sleep(delay) ==
  /\ outPc = "idle"
  /\ IF delay > 0
       THEN /\ outPc' = "asleep"
            /\ until' = now + (IF delay < MaxWait THEN delay ELSE MaxWait)
       ELSE outPc' = "poll" /\ UNCHANGED until
  /\ UNCHANGED <<now, bufferVars, cutoff, batch, popped, released, starved>>

WaitNext ==
  \/ heap = {} /\ Sleep(MaxWait)
  \/ \E x \in heap : IsOldest(x) /\ Sleep(x.ts + Hold - now)

(* Mutant of Timeout: the wait for the head has no timeout.                 *)
TimeoutOnlyWhenEmpty ==
  /\ outPc = "asleep" /\ heap = {}
  /\ now >= until \/ now = MaxTime
  /\ outPc' = "poll" /\ until' = 0
  /\ UNCHANGED <<now, bufferVars, cutoff, batch, popped, released, starved>>

(* The wait times out.  The last tick of the bounded clock stands for all   *)
(* the time after it.                                                       *)
Timeout ==
  /\ outPc = "asleep"
  /\ now >= until \/ now = MaxTime
  /\ outPc' = "poll" /\ until' = 0
  /\ UNCHANGED <<now, bufferVars, cutoff, batch, popped, released, starved>>

(* A tick that finds the output thread able to run starves it.              *)
Resting == outPc = "asleep" /\ now < until

Tick ==
  /\ now < MaxTime
  /\ \/ Resting /\ UNCHANGED starved
     \/ ~Resting /\ starved < MaxStarved /\ starved' = starved + 1
  /\ now' = now + 1
  /\ UNCHANGED <<bufferVars, consumerVars>>

Consumer == ReadClock \/ AcquirePop \/ PopOne \/ PopDone \/ Take \/ WaitNext
              \/ Timeout

(* Callers keep within the clock's bound, so that every item can come due.  *)
Push == \/ \E p \in Payloads, d \in Skews :
             now + d + Hold =< MaxTime /\ Enter(p, now + d)
        \/ \E e \in entering : Commit(e)

Next == Push \/ Consumer \/ Tick

Spec == Init /\ [][Next]_vars

(* The output thread is a thread: it keeps running.  So does time.          *)
FairSpec == Spec /\ WF_vars(Consumer) /\ WF_vars(Tick)

-----------------------------------------------------------------------------
EnteringItems == [ts : Int, seq : Nat, payload : Payloads]
Items == [ts : Int, seq : Nat, payload : Payloads, at : Nat, after : Nat]

(* Every variable has its type and the program counter names a place.       *)
TypeOK ==
  /\ now \in Nat /\ nextSeq \in Nat
  /\ heap \in SUBSET Items /\ entering \in SUBSET EnteringItems
  /\ outPc \in {"poll", "locking", "popping", "consuming", "idle", "asleep"}
  /\ cutoff \in Int /\ until \in Int
  /\ batch \in Seq(Items) /\ released \in Seq(Items)
  /\ pushed \in Nat /\ popped \in Nat /\ dropped \in Nat /\ starved \in Nat

(* Whatever was pushed is in the heap, was popped, or was dropped by the    *)
(* safety valve, and the counters the dashboard shows agree with the heap;  *)
(* the heap never outgrows max_queue (push, reorder.py:50-61).              *)
Conservation ==
  /\ pushed = popped + dropped + Cardinality(heap)
  /\ popped = Len(released)
  /\ Cardinality(heap) =< MaxQueue

(* The order reorder.py really gives: an item leaves after a newer one only *)
(* if it was pushed after that one had left, and then it came at or after   *)
(* the end of its own hold time.  Items in time leave in (ts, seq) order    *)
(* whatever the interleaving of pushers and output thread.                  *)
LateOnly ==
  \A j \in 1..Len(released) : \A i \in 1..(j - 1) :
    Before(released[j], released[i]) =>
      /\ released[j].after >= i
      /\ released[j].ts + Hold =< released[j].at

(* An item stays in the heap past the end of its hold time, or past its     *)
(* arrival if it came later, only for as long as the output thread has been *)
(* kept from running: no wake-up of wait_next is lost or late               *)
(* (reorder.py:60, 77-87).                                                  *)
BoundedLatency ==
  \A x \in heap : now - starved =< x.ts + Hold \/ now - starved =< x.at

(* Starved or not, an item does not stay in the heap for ever.              *)
Drains ==
  \A s \in 0..(MaxPush - 1) :
    (\E x \in heap : x.seq = s) ~> (\A x \in heap : x.seq # s)
=============================================================================
