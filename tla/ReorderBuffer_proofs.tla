------------------------- MODULE ReorderBuffer_proofs -------------------------
(***************************************************************************)
(* Proofs about ReorderBuffer for every number of items, hold time, queue  *)
(* bound and interleaving.                                                 *)
(***************************************************************************)
EXTENDS ReorderBuffer, FiniteSetTheorems, TLAPS

(* Sequence numbers are handed out once.                                    *)
FreshSeqs ==
  /\ \A e \in entering : e.seq < nextSeq
  /\ \A x \in heap : x.seq < nextSeq
  /\ \A e \in entering, x \in heap : e.seq # x.seq
  /\ \A d, e \in entering : d.seq = e.seq => d = e

(* An item of the heap comes after everything released since its arrival,   *)
(* and what had been released by then was due by then.                      *)
HeapAfterReleased ==
  \A x \in heap :
    /\ x.after =< Len(released) /\ x.at =< now
    /\ \A i \in 1..Len(released) :
         /\ i =< x.after => released[i].ts + Hold =< x.at
         /\ i > x.after => Before(released[i], x)

(* The consumer's locals: a cutoff is never ahead of the clock, a batch     *)
(* that is being handed on is not empty, a sleep ends by the time the head  *)
(* is due.                                                                  *)
ConsumerInv ==
  /\ outPc \in {"locking", "popping"} => cutoff + Hold =< now
  /\ outPc = "consuming" => batch # <<>>
  /\ outPc = "asleep" => \A x \in heap : until =< x.ts + Hold

ReleasedDue == \A i \in 1..Len(released) : released[i].ts + Hold =< now

(* The heap is finite and the counters account for every item.              *)
Accounting == IsFiniteSet(heap) /\ Conservation

IInv == TypeOK /\ FreshSeqs /\ ConsumerInv /\ ReleasedDue
          /\ HeapAfterReleased /\ LateOnly /\ Accounting /\ BoundedLatency

-----------------------------------------------------------------------------
(* Time stamp order is asymmetric on items.                                 *)
LEMMA BeforeAsymmetric ==
  ASSUME NEW a, NEW b, a.ts \in Int, b.ts \in Int, a.seq \in Nat, b.seq \in Nat,
         Before(a, b)
  PROVE  ~Before(b, a)
BY DEF Before

LEMMA InitIInv == Init => IInv
<1> SUFFICES ASSUME Init PROVE IInv
  OBVIOUS
<1> USE HoldAssumption, QueueAssumption
<1>1. TypeOK
  BY DEF Init, TypeOK
<1>2. Accounting
  BY FS_EmptySet DEF Init, Accounting, Conservation
<1>3. FreshSeqs /\ ConsumerInv /\ ReleasedDue /\ HeapAfterReleased /\ LateOnly
        /\ BoundedLatency
  BY DEF Init, FreshSeqs, ConsumerInv, ReleasedDue, HeapAfterReleased, LateOnly,
         BoundedLatency
<1> QED BY <1>1, <1>2, <1>3 DEF IInv

-----------------------------------------------------------------------------
(* Enter only adds an item to entering, under the next sequence number.     *)
LEMMA EnterIInv ==
  ASSUME IInv, NEW p \in Payloads, NEW ts \in Int, Enter(p, ts)
  PROVE  IInv'
<1> USE HoldAssumption DEF IInv, Enter, consumerVars
<1>1. TypeOK'
  BY DEF TypeOK, Items, EnteringItems
<1>2. FreshSeqs'
  BY DEF TypeOK, FreshSeqs, Items, EnteringItems
<1>3. ConsumerInv' /\ ReleasedDue' /\ HeapAfterReleased' /\ LateOnly'
        /\ BoundedLatency'
  BY DEF ConsumerInv, ReleasedDue, HeapAfterReleased, LateOnly, BoundedLatency
<1>4. Accounting'
  BY DEF Accounting, Conservation
<1> QED BY <1>1, <1>2, <1>3, <1>4

(* Commit adds an item that counts everything released so far as before it. *)
LEMMA CommitIInv ==
  ASSUME IInv, NEW e \in entering, Commit(e)
  PROVE  IInv'
<1> DEFINE x == HeapItem(e)
<1>1. /\ x \in Items /\ x \notin heap
      /\ x.ts = e.ts /\ x.seq = e.seq /\ x.at = now /\ x.after = Len(released)
  BY DEF IInv, TypeOK, FreshSeqs, Items, EnteringItems, HeapItem
<1> HIDE DEF x
<1>2. PICK kept \in SUBSET heap :
        /\ heap' = kept \cup {x}
        /\ \/ kept = heap /\ Cardinality(heap) < MaxQueue /\ dropped' = dropped
           \/ /\ \E old \in heap : kept = heap \ {old}
              /\ Cardinality(heap) >= MaxQueue
              /\ dropped' = dropped + 1
  <2> Cardinality(heap) \in Nat
    BY FS_CardinalityType DEF IInv, Accounting
  <2>1. CASE HasRoom /\ heap' = heap \cup {HeapItem(e)} /\ UNCHANGED dropped
    BY <2>1 DEF x, HasRoom
  <2>2. CASE /\ ~HasRoom
             /\ \E old \in heap :
                  IsOldest(old) /\ heap' = (heap \ {old}) \cup {HeapItem(e)}
             /\ dropped' = dropped + 1
    <3>1. Cardinality(heap) >= MaxQueue
      BY <2>2, QueueAssumption DEF HasRoom
    <3>2. PICK old \in heap : heap' = (heap \ {old}) \cup {x}
      BY <2>2 DEF x
    <3> WITNESS heap \ {old} \in SUBSET heap
    <3> QED BY <2>2, <3>1, <3>2
  <2> QED BY <2>1, <2>2 DEF Commit
<1>3. /\ outPc' # "asleep" /\ outPc # "popping"
      /\ outPc' \in {outPc, "poll"} /\ (outPc' = outPc \/ outPc = "asleep")
      /\ until' \in {until, 0}
      /\ UNCHANGED <<now, nextSeq, cutoff, batch, popped, released, starved>>
      /\ pushed' = pushed + 1 /\ entering' = entering \ {e}
  BY DEF Commit, Notify
<1>4. TypeOK'
  BY <1>1, <1>2, <1>3 DEF IInv, TypeOK
<1>5. FreshSeqs'
  BY <1>1, <1>2, <1>3 DEF IInv, FreshSeqs
<1>6. ConsumerInv' /\ ReleasedDue' /\ LateOnly'
  BY <1>3 DEF IInv, ConsumerInv, ReleasedDue, LateOnly
<1>7. HeapAfterReleased'
  <2> SUFFICES ASSUME NEW y \in heap'
               PROVE  /\ y.after =< Len(released) /\ y.at =< now
                      /\ \A i \in 1..Len(released) :
                           /\ i =< y.after => released[i].ts + Hold =< y.at
                           /\ i > y.after => Before(released[i], y)
    BY <1>3 DEF HeapAfterReleased, Before
  <2>1. CASE y \in heap
    BY <2>1 DEF IInv, HeapAfterReleased
  <2>2. CASE y = x
    BY <2>2, <1>1 DEF IInv, ReleasedDue, TypeOK
  <2> QED BY <2>1, <2>2, <1>2
<1>8. BoundedLatency'
  BY <1>1, <1>2, <1>3 DEF IInv, BoundedLatency, TypeOK
<1>9. Accounting'
  <2>1. IsFiniteSet(heap) /\ Cardinality(heap) \in Nat
    BY FS_CardinalityType DEF IInv, Accounting
  <2>2. CASE kept = heap /\ Cardinality(heap) < MaxQueue /\ dropped' = dropped
    <3>1. IsFiniteSet(heap') /\ Cardinality(heap') = Cardinality(heap) + 1
      BY <1>1, <1>2, <2>1, <2>2, FS_AddElement
    <3> QED BY <1>3, <2>1, <2>2, <3>1, QueueAssumption
            DEF IInv, Accounting, Conservation, TypeOK
  <2>3. CASE /\ \E old \in heap : kept = heap \ {old}
             /\ Cardinality(heap) >= MaxQueue
             /\ dropped' = dropped + 1
    <3>1. IsFiniteSet(kept) /\ Cardinality(kept) = Cardinality(heap) - 1
      BY <2>1, <2>3, FS_RemoveElement
    <3>2. IsFiniteSet(heap') /\ Cardinality(heap') = Cardinality(kept) + 1
      BY <1>1, <1>2, <3>1, FS_AddElement
    <3>3. IsFiniteSet(heap') /\ Cardinality(heap') = Cardinality(heap)
      BY <2>1, <3>1, <3>2
    <3>4. dropped' = dropped + 1 /\ dropped \in Nat /\ popped \in Nat
      BY <2>3 DEF IInv, TypeOK
    <3> QED BY <1>3, <2>1, <3>3, <3>4 DEF IInv, Accounting, Conservation
  <2> QED BY <1>2, <2>2, <2>3
<1> QED BY <1>4, <1>5, <1>6, <1>7, <1>8, <1>9 DEF IInv

(* PopOne moves the oldest item of the heap to the end of released.         *)
LEMMA PopOneIInv ==
  ASSUME IInv, PopOne
  PROVE  IInv'
<1>1. PICK x \in heap : /\ IsOldest(x) /\ x.ts =< cutoff
                        /\ heap' = heap \ {x}
                        /\ batch' = Append(batch, x)
                        /\ released' = Append(released, x)
  BY DEF PopOne
<1>2. /\ outPc = "popping" /\ popped' = popped + 1
      /\ UNCHANGED <<now, entering, nextSeq, pushed, dropped, outPc, cutoff, until,
                     starved>>
  BY DEF PopOne
<1>3. x \in Items /\ released \in Seq(Items) /\ heap \subseteq Items
  BY DEF IInv, TypeOK
<1>4. /\ Len(released') = Len(released) + 1 /\ Len(released) \in Nat
      /\ \A i \in 1..Len(released) : released'[i] = released[i]
      /\ released'[Len(released) + 1] = x
  BY <1>1, <1>3
<1>5. x.ts + Hold =< now
  BY <1>1, <1>2, <1>3, HoldAssumption DEF IInv, ConsumerInv, TypeOK, Items
<1>6. TypeOK'
  BY <1>1, <1>2, <1>3 DEF IInv, TypeOK
<1>7. FreshSeqs' /\ ConsumerInv'
  BY <1>1, <1>2 DEF IInv, FreshSeqs, ConsumerInv
<1>8. ReleasedDue'
  BY <1>2, <1>4, <1>5 DEF IInv, ReleasedDue
<1>9. HeapAfterReleased'
  <2> SUFFICES ASSUME NEW y \in heap \ {x}
               PROVE  /\ y.after =< Len(released') /\ y.at =< now
                      /\ \A i \in 1..Len(released') :
                           /\ i =< y.after => released'[i].ts + Hold =< y.at
                           /\ i > y.after => Before(released'[i], y)
    BY <1>1, <1>2 DEF HeapAfterReleased, Before
  <2>1. /\ y.after =< Len(released) /\ y.at =< now
        /\ \A i \in 1..Len(released) :
             /\ i =< y.after => released[i].ts + Hold =< y.at
             /\ i > y.after => Before(released[i], y)
    BY DEF IInv, HeapAfterReleased
  <2>2. Before(x, y)
    BY <1>1 DEF IsOldest
  <2>3. y.after \in Nat
    BY <1>3 DEF Items
  <2> QED BY <1>4, <2>1, <2>2, <2>3
<1>10. LateOnly'
  <2> SUFFICES ASSUME NEW j \in 1..Len(released'), NEW i \in 1..(j - 1),
                      Before(released'[j], released'[i])
               PROVE  /\ released'[j].after >= i
                      /\ released'[j].ts + Hold =< released'[j].at
    BY DEF LateOnly, Before
  <2>1. CASE j =< Len(released)
    BY <1>4, <2>1 DEF IInv, LateOnly
  <2>2. CASE j = Len(released) + 1
    <3>1. /\ released'[j] = x /\ released'[i] = released[i]
          /\ i \in 1..Len(released)
      BY <1>4, <2>2
    <3>2. released[i] \in Items
      BY <1>3, <3>1
    <3>3. ~Before(released[i], x)
      BY <1>3, <3>1, <3>2, BeforeAsymmetric DEF Items
    <3>4. x.after \in Nat /\ x.at \in Nat /\ x.ts \in Int
            /\ released[i].ts \in Int /\ i \in Nat
      <4>1. i \in Nat
        BY <1>4, <3>1
      <4> QED BY <1>3, <3>2, <4>1 DEF Items
    <3>5. /\ i =< x.after => released[i].ts + Hold =< x.at
          /\ i > x.after => Before(released[i], x)
      BY <3>1 DEF IInv, HeapAfterReleased
    <3>6. i =< x.after /\ released[i].ts + Hold =< x.at
      BY <3>3, <3>4, <3>5
    <3>7. x.ts =< released[i].ts
      BY <3>1, <3>4 DEF Before
    <3> QED BY <3>1, <3>4, <3>6, <3>7, HoldAssumption
  <2> QED BY <1>4, <2>1, <2>2
<1>11. Accounting'
  <2>1. IsFiniteSet(heap) /\ Cardinality(heap) \in Nat
    BY FS_CardinalityType DEF IInv, Accounting
  <2>2. IsFiniteSet(heap') /\ Cardinality(heap') = Cardinality(heap) - 1
    BY <1>1, <2>1, FS_RemoveElement
  <2> QED BY <1>2, <1>4, <2>1, <2>2, QueueAssumption, SMTT(30)
          DEF IInv, Accounting, Conservation, TypeOK
<1>12. BoundedLatency'
  BY <1>1, <1>2 DEF IInv, BoundedLatency
<1> QED BY <1>6, <1>7, <1>8, <1>9, <1>10, <1>11, <1>12 DEF IInv

(* A step that leaves the buffer alone keeps what is said of the buffer.    *)
LEMMA BufferUnchanged ==
  ASSUME IInv, UNCHANGED <<now, bufferVars, popped, released, starved>>
  PROVE  /\ FreshSeqs' /\ ReleasedDue' /\ HeapAfterReleased' /\ LateOnly'
         /\ Accounting' /\ BoundedLatency'
<1> USE DEF IInv, bufferVars
<1>1. FreshSeqs' /\ ReleasedDue' /\ HeapAfterReleased' /\ LateOnly'
  BY DEF FreshSeqs, ReleasedDue, HeapAfterReleased, LateOnly, Before
<1>2. Accounting' /\ BoundedLatency'
  BY DEF Accounting, Conservation, BoundedLatency
<1> QED BY <1>1, <1>2

(* The output thread's steps other than PopOne only move its own locals.    *)
LEMMA ConsumerIInv ==
  ASSUME IInv, Consumer
  PROVE  IInv'
<1>1. CASE PopOne
  BY <1>1, PopOneIInv
<1> USE HoldAssumption, WaitAssumption
<1>2. CASE ReadClock
  <2>1. TypeOK'
    BY <1>2 DEF IInv, TypeOK, ReadClock, bufferVars
  <2>2. ConsumerInv'
    BY <1>2 DEF IInv, TypeOK, ConsumerInv, ReadClock, bufferVars
  <2> QED BY <1>2, <2>1, <2>2, BufferUnchanged DEF IInv, ReadClock
<1>3. CASE AcquirePop
  <2>1. TypeOK'
    BY <1>3 DEF IInv, TypeOK, AcquirePop, bufferVars
  <2>2. ConsumerInv'
    BY <1>3 DEF IInv, TypeOK, ConsumerInv, AcquirePop, bufferVars
  <2> QED BY <1>3, <2>1, <2>2, BufferUnchanged DEF IInv, AcquirePop
<1>4. CASE PopDone
  <2>1. TypeOK'
    BY <1>4 DEF IInv, TypeOK, PopDone, bufferVars
  <2>2. ConsumerInv'
    BY <1>4 DEF IInv, TypeOK, ConsumerInv, PopDone, bufferVars
  <2> QED BY <1>4, <2>1, <2>2, BufferUnchanged DEF IInv, PopDone
<1>5. CASE Take
  <2>1. batch \in Seq(Items) /\ batch # <<>> /\ batch' = Tail(batch)
    BY <1>5 DEF IInv, TypeOK, ConsumerInv, Take
  <2>2. batch' \in Seq(Items) /\ Len(batch') = Len(batch) - 1
    BY <2>1
  <2>3. batch' # <<>> \/ Len(batch) = 1
    <3> SUFFICES ASSUME batch' = <<>> PROVE Len(batch) = 1
      OBVIOUS
    <3>1. Len(batch') = 0 /\ Len(batch) \in Nat
      BY <2>1
    <3> QED BY <2>2, <3>1
  <2>4. TypeOK'
    BY <1>5, <2>2 DEF IInv, TypeOK, Take, bufferVars
  <2>5. ConsumerInv'
    BY <1>5, <2>3 DEF IInv, TypeOK, ConsumerInv, Take, bufferVars
  <2> QED BY <1>5, <2>4, <2>5, BufferUnchanged DEF IInv, Take
<1>6. CASE WaitNext
  <2>1. PICK delay \in Int :
          /\ Sleep(delay)
          /\ \A y \in heap : now + delay =< y.ts + Hold
    <3>1. CASE heap = {} /\ Sleep(MaxWait)
      BY <3>1
    <3>2. CASE \E x \in heap : IsOldest(x) /\ Sleep(x.ts + Hold - now)
      <4>1. PICK x \in heap : IsOldest(x) /\ Sleep(x.ts + Hold - now)
        BY <3>2
      <4>2. now \in Nat /\ heap \subseteq Items
        BY DEF IInv, TypeOK
      <4>3. \A y \in heap : x.ts =< y.ts
        BY <4>1, <4>2 DEF IsOldest, Before, Items
      <4> QED BY <4>1, <4>2, <4>3 DEF Items
    <3> QED BY <1>6, <3>1, <3>2 DEF WaitNext
  <2>2. TypeOK'
    BY <2>1 DEF IInv, TypeOK, Sleep, bufferVars
  <2>3. ConsumerInv'
    <3>1. now \in Nat /\ heap \subseteq Items
      BY DEF IInv, TypeOK
    <3> QED BY <2>1, <3>1 DEF ConsumerInv, Sleep, bufferVars, Items
  <2> QED BY <2>1, <2>2, <2>3, BufferUnchanged DEF IInv, Sleep
<1>7. CASE Timeout
  <2>1. TypeOK'
    BY <1>7 DEF IInv, TypeOK, Timeout, bufferVars
  <2>2. ConsumerInv'
    BY <1>7 DEF IInv, TypeOK, ConsumerInv, Timeout, bufferVars
  <2> QED BY <1>7, <2>1, <2>2, BufferUnchanged DEF IInv, Timeout
<1> QED BY <1>1, <1>2, <1>3, <1>4, <1>5, <1>6, <1>7 DEF Consumer

(* A tick finds the output thread asleep short of every due time, or it     *)
(* starves it and counts.                                                   *)
LEMMA TickIInv ==
  ASSUME IInv, Tick
  PROVE  IInv'
<1> USE HoldAssumption DEF IInv, Tick, bufferVars, consumerVars
<1>1. now \in Nat /\ now' = now + 1 /\ heap \subseteq Items
        /\ released \in Seq(Items) /\ cutoff \in Int /\ until \in Int
  BY DEF TypeOK
<1>2. TypeOK' /\ FreshSeqs'
  BY <1>1 DEF TypeOK, FreshSeqs
<1>3. ConsumerInv'
  BY <1>1 DEF ConsumerInv
<1>4. ReleasedDue'
  <2> SUFFICES ASSUME NEW i \in 1..Len(released)
               PROVE  released[i].ts + Hold =< now'
    BY DEF ReleasedDue
  <2>1. released[i] \in Items
    BY <1>1
  <2>2. released[i].ts \in Int /\ released[i].ts + Hold =< now
    BY <2>1 DEF ReleasedDue, Items
  <2> QED BY <1>1, <2>2
<1>5. HeapAfterReleased'
  <2> SUFFICES ASSUME NEW x \in heap
               PROVE  /\ x.after =< Len(released) /\ x.at =< now'
                      /\ \A i \in 1..Len(released) :
                           /\ i =< x.after => released[i].ts + Hold =< x.at
                           /\ i > x.after => Before(released[i], x)
    BY DEF HeapAfterReleased, Before
  <2> QED BY <1>1 DEF HeapAfterReleased, Items
<1>6. UNCHANGED <<heap, pushed, popped, dropped, released>>
  OBVIOUS
<1>8. LateOnly' /\ Accounting'
  BY <1>6 DEF LateOnly, Before, Accounting, Conservation
<1>7. BoundedLatency'
  <2> SUFFICES ASSUME NEW x \in heap
               PROVE  now' - starved' =< x.ts + Hold \/ now' - starved' =< x.at
    BY DEF BoundedLatency
  <2>1. x.ts \in Int /\ x.at \in Nat /\ starved \in Nat
    BY <1>1 DEF TypeOK, Items
  <2>2. CASE Resting /\ UNCHANGED starved
    BY <1>1, <2>1, <2>2 DEF Resting, ConsumerInv
  <2>3. CASE starved' = starved + 1
    BY <1>1, <2>1, <2>3 DEF BoundedLatency
  <2> QED BY <2>2, <2>3
<1> QED BY <1>2, <1>3, <1>4, <1>5, <1>7, <1>8

THEOREM Inductive == IInv /\ [Next]_vars => IInv'
<1> SUFFICES ASSUME IInv, [Next]_vars PROVE IInv'
  OBVIOUS
<1>1. CASE \E p \in Payloads, d \in Skews : Enter(p, now + d)
  BY <1>1, EnterIInv, SkewAssumption DEF IInv, TypeOK
<1>2. CASE \E e \in entering : Commit(e)
  BY <1>2, CommitIInv
<1>3. CASE Consumer
  BY <1>3, ConsumerIInv
<1>4. CASE Tick
  BY <1>4, TickIInv
<1>5. CASE UNCHANGED vars
  <2>1. TypeOK' /\ ConsumerInv'
    BY <1>5 DEF IInv, vars, bufferVars, consumerVars, TypeOK, ConsumerInv
  <2> QED BY <1>5, <2>1, BufferUnchanged DEF IInv, vars, bufferVars, consumerVars
<1> QED BY <1>1, <1>2, <1>3, <1>4, <1>5 DEF Next, Push

(* Every behaviour of the buffer keeps the inductive invariant.             *)
THEOREM Invariance == Spec => []IInv
BY InitIInv, Inductive, PTL DEF Spec

(* Every variable keeps its type, and with it the program counter.          *)
THEOREM TypeCorrect == Spec => []TypeOK
<1>1. IInv => TypeOK
  BY DEF IInv
<1> QED BY <1>1, Invariance, PTL

(* No item is lost or counted twice, and the heap keeps to max_queue, for   *)
(* any number of pushing threads (push and pop_ready, reorder.py:50-74).    *)
THEOREM NothingLost == Spec => []Conservation
<1>1. IInv => Conservation
  BY DEF IInv, Accounting
<1> QED BY <1>1, Invariance, PTL

(* An item leaves out of (ts, seq) order only if it was pushed at or after  *)
(* its own release time, behind the item it should have preceded            *)
(* (pop_ready, reorder.py:64-74).                                           *)
THEOREM ChronologicalUnlessLate == Spec => []LateOnly
<1>1. IInv => LateOnly
  BY DEF IInv
<1> QED BY <1>1, Invariance, PTL

(* No wake-up of the output thread is lost: an item outstays its hold time  *)
(* at most by as long as that thread was starved (wait_next,                *)
(* reorder.py:77-87).                                                       *)
THEOREM NoLateWakeUp == Spec => []BoundedLatency
<1>1. IInv => BoundedLatency
  BY DEF IInv
<1> QED BY <1>1, Invariance, PTL
=============================================================================
