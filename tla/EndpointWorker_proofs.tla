------------------------- MODULE EndpointWorker_proofs -------------------------
(***************************************************************************)
(* Proofs about EndpointWorker for any queue size, any number of sentences *)
(* and faults and any size of batch.                                       *)
(***************************************************************************)
EXTENDS EndpointWorker, SequenceTheorems, FiniteSetTheorems, TLAPS

(* Every variable that holds sentences has its type, and so has the step    *)
(* each thread is at.                                                       *)
TypeOK ==
  /\ protocol \in {"tcp", "udp", "http"}
  /\ stopping \in {"no", "flagged", "stopped"}
  /\ pc \in {"loop", "connect", "asleep", "get", "flush", "send", "requeue",
             "done"}
  /\ queue \in Seq(Nat) /\ batch \in Seq(Nat) /\ received \in Seq(Nat)
  /\ hand \in Nat /\ offered \in Nat /\ sentAfterStop \in Nat

(* A worker holds a sentence exactly while it sends it or puts it back;     *)
(* only an HTTP worker has a batch; and there is one put at a time.         *)
Held ==
  /\ hand # Wake <=> pc \in {"send", "requeue"}
  /\ protocol = "http" => hand = Wake
  /\ protocol # "http" => batch = <<>>
  /\ \A p, r \in putting : p = r

(* Only after a stop is a send counted, and the next step out of it is the  *)
(* test that ends the loop.                                                 *)
LastSend ==
  /\ stopping = "no" => sentAfterStop = 0
  /\ sentAfterStop # 0 => sentAfterStop = 1 /\ pc \in {"loop", "requeue", "done"}

IInv == TypeOK /\ Held /\ LastSend /\ NoSilentLoss

-----------------------------------------------------------------------------
(* The sentences of a sequence, as one is added, taken or joined to it.     *)
LEMMA ElementsOfEmpty == Elements(<<>>) = {} /\ Distinct(<<>>)
BY DEF Elements, Distinct

LEMMA ElementsOfAppend ==
  ASSUME NEW seq \in Seq(Nat), NEW e \in Nat
  PROVE  Elements(Append(seq, e)) = Elements(seq) \cup {e}
<1>1. Append(seq, e) \in Seq(Nat) /\ Len(Append(seq, e)) = Len(seq) + 1
      /\ (\A i \in 1..Len(seq) : Append(seq, e)[i] = seq[i])
      /\ Append(seq, e)[Len(seq) + 1] = e
  BY AppendProperties
<1>2. Len(seq) \in Nat
  BY LenProperties
<1>3. ASSUME NEW x \in Elements(Append(seq, e))
      PROVE  x \in Elements(seq) \cup {e}
  BY <1>1, <1>2 DEF Elements
<1>4. ASSUME NEW x \in Elements(seq)
      PROVE  x \in Elements(Append(seq, e))
  BY <1>1, <1>2 DEF Elements
<1>5. e \in Elements(Append(seq, e))
  <2>1. Len(seq) + 1 \in 1..Len(Append(seq, e))
    BY <1>1, <1>2
  <2> QED
    BY <1>1, <2>1 DEF Elements
<1> QED
  BY <1>3, <1>4, <1>5

LEMMA DistinctAppend ==
  ASSUME NEW seq \in Seq(Nat), NEW e \in Nat, Distinct(seq),
         e \notin Elements(seq) \/ e = Wake
  PROVE  Distinct(Append(seq, e))
<1>1. Len(Append(seq, e)) = Len(seq) + 1
      /\ (\A i \in 1..Len(seq) : Append(seq, e)[i] = seq[i])
      /\ Append(seq, e)[Len(seq) + 1] = e
  BY AppendProperties
<1>2. Len(seq) \in Nat
  BY LenProperties
<1> SUFFICES ASSUME NEW i \in 1..(Len(seq) + 1), NEW j \in 1..(Len(seq) + 1),
                    Append(seq, e)[i] = Append(seq, e)[j],
                    Append(seq, e)[i] # Wake
             PROVE  i = j
  BY <1>1 DEF Distinct
<1>3. CASE i \in 1..Len(seq) /\ j \in 1..Len(seq)
  BY <1>1, <1>3 DEF Distinct
<1>4. CASE i = Len(seq) + 1 /\ j \in 1..Len(seq)
  BY <1>1, <1>4 DEF Elements
<1>5. CASE i \in 1..Len(seq) /\ j = Len(seq) + 1
  BY <1>1, <1>5 DEF Elements
<1> QED
  BY <1>2, <1>3, <1>4, <1>5

LEMMA ElementsOfTail ==
  ASSUME NEW seq \in Seq(Nat), seq # <<>>, Distinct(seq)
  PROVE  /\ Head(seq) \in Nat /\ Tail(seq) \in Seq(Nat) /\ Distinct(Tail(seq))
         /\ Elements(seq) = Elements(Tail(seq)) \cup {Head(seq)}
         /\ Head(seq) # Wake => Head(seq) \notin Elements(Tail(seq))
<1>1. Head(seq) \in Nat /\ Tail(seq) \in Seq(Nat)
      /\ Len(Tail(seq)) = Len(seq) - 1
      /\ (\A i \in 1..Len(Tail(seq)) : Tail(seq)[i] = seq[i+1])
  BY HeadTailProperties
<1>2. Len(seq) \in Nat \ {0} /\ Head(seq) = seq[1]
  BY EmptySeq, LenProperties
<1>3. ASSUME NEW x \in Elements(seq)
      PROVE  x \in Elements(Tail(seq)) \cup {Head(seq)}
  <2>1. PICK i \in 1..Len(seq) : x = seq[i]
    BY DEF Elements
  <2>2. CASE i = 1
    BY <2>1, <2>2, <1>2
  <2>3. CASE i # 1
    <3>1. i - 1 \in 1..Len(Tail(seq)) /\ (i - 1) + 1 = i
      BY <2>3, <1>1, <1>2
    <3>2. Tail(seq)[i-1] = x
      BY <3>1, <1>1, <2>1
    <3> QED
      BY <3>1, <3>2 DEF Elements
  <2> QED
    BY <2>2, <2>3
<1>4. ASSUME NEW i \in 1..Len(Tail(seq))
      PROVE  i + 1 \in 1..Len(seq) /\ Tail(seq)[i] = seq[i+1] /\ i + 1 # 1
  BY <1>1, <1>2
<1>5. ASSUME NEW x \in Elements(Tail(seq))
      PROVE  x \in Elements(seq)
  BY <1>4 DEF Elements
<1>6. 1 \in 1..Len(seq)
  BY <1>2
<1>7. Head(seq) \in Elements(seq)
  BY <1>6, <1>2 DEF Elements
<1>8. Distinct(Tail(seq))
  <2> SUFFICES ASSUME NEW i \in 1..Len(Tail(seq)), NEW j \in 1..Len(Tail(seq)),
                      Tail(seq)[i] = Tail(seq)[j], Tail(seq)[i] # Wake
               PROVE  i = j
    BY DEF Distinct
  <2>1. i + 1 = j + 1
    BY <1>4 DEF Distinct
  <2> QED
    BY <2>1
<1>9. ASSUME Head(seq) # Wake, Head(seq) \in Elements(Tail(seq))
      PROVE  FALSE
  <2>1. PICK i \in 1..Len(Tail(seq)) : Head(seq) = Tail(seq)[i]
    BY <1>9 DEF Elements
  <2>2. seq[1] = seq[i+1] /\ seq[1] # Wake
    BY <2>1, <1>4, <1>2, <1>9
  <2>3. 1 = i + 1
    BY <2>2, <1>4, <1>6 DEF Distinct
  <2> QED
    BY <2>3, <1>4
<1> QED
  BY <1>1, <1>3, <1>5, <1>7, <1>8, <1>9

LEMMA ElementsOfConcat ==
  ASSUME NEW s \in Seq(Nat), NEW t \in Seq(Nat)
  PROVE  Elements(s \o t) = Elements(s) \cup Elements(t)
<1>1. Len(s \o t) = Len(s) + Len(t)
      /\ (\A i \in 1..(Len(s) + Len(t)) :
            (s \o t)[i] = IF i =< Len(s) THEN s[i] ELSE t[i - Len(s)])
  BY ConcatProperties
<1>2. Len(s) \in Nat /\ Len(t) \in Nat
  BY LenProperties
<1>3. ASSUME NEW x \in Elements(s \o t)
      PROVE  x \in Elements(s) \cup Elements(t)
  <2>1. PICK i \in 1..(Len(s) + Len(t)) : x = (s \o t)[i]
    BY <1>1 DEF Elements
  <2>2. CASE i =< Len(s)
    <3>1. i \in 1..Len(s) /\ x = s[i]
      BY <2>1, <2>2, <1>1, <1>2
    <3> QED
      BY <3>1 DEF Elements
  <2>3. CASE ~(i =< Len(s))
    <3>1. i - Len(s) \in 1..Len(t) /\ x = t[i - Len(s)]
      BY <2>1, <2>3, <1>1, <1>2
    <3> QED
      BY <3>1 DEF Elements
  <2> QED
    BY <2>2, <2>3
<1>4. ASSUME NEW x \in Elements(s)
      PROVE  x \in Elements(s \o t)
  <2>1. PICK i \in 1..Len(s) : x = s[i]
    BY DEF Elements
  <2>2. i \in 1..(Len(s) + Len(t)) /\ i =< Len(s)
    BY <1>2
  <2>3. (s \o t)[i] = x
    BY <2>1, <2>2, <1>1
  <2> QED
    BY <2>2, <2>3, <1>1 DEF Elements
<1>5. ASSUME NEW x \in Elements(t)
      PROVE  x \in Elements(s \o t)
  <2>1. PICK i \in 1..Len(t) : x = t[i]
    BY DEF Elements
  <2>2. i + Len(s) \in 1..(Len(s) + Len(t)) /\ ~(i + Len(s) =< Len(s))
        /\ (i + Len(s)) - Len(s) = i
    BY <1>2
  <2>3. (s \o t)[i + Len(s)] = x
    BY <2>1, <2>2, <1>1
  <2> QED
    BY <2>2, <2>3, <1>1 DEF Elements
<1> QED
  BY <1>3, <1>4, <1>5

-----------------------------------------------------------------------------
(* NoSilentLoss speaks of five places, of what was given up and of what was *)
(* received: this is what it says of them, whatever they are.               *)
Accounted(h, b, q, p, gone, got, half, n) ==
  /\ h \cup b \cup q \cup p \cup gone \cup got = 1..n
  /\ h \cap (b \cup q \cup p) = {}
  /\ b \cap (q \cup p) = {}
  /\ q \cap p = {}
  /\ (h \cup b \cup q \cup p) \cap gone = {}
  /\ (h \cup b \cup q \cup p) \cap got \subseteq half

LEMMA LossIsAccounted ==
  NoSilentLoss <=>
    /\ Distinct(queue) /\ Distinct(batch)
    /\ Accounted(InHand, Elements(batch), QueuedSentences, InPut, GivenUp,
                 Elements(received), halfSent, offered)
BY DEF NoSilentLoss, InOnePlace, Waiting, Accounted

LEMMA LossIsAccountedNext ==
  NoSilentLoss' <=>
    /\ Distinct(queue') /\ Distinct(batch')
    /\ Accounted(InHand', Elements(batch'), QueuedSentences', InPut', GivenUp',
                 Elements(received'), halfSent', offered')
BY DEF NoSilentLoss, InOnePlace, Waiting, Accounted, Distinct, Elements,
       InHand, QueuedSentences, InPut, GivenUp

LEMMA QueuedAreElements == QueuedSentences = Elements(queue) \ {Wake}
BY DEF QueuedSentences, Elements

(* A sentence goes from one place to the next; it enters by put, and leaves *)
(* to what is given up or received.                                         *)
LEMMA MoveIn ==
  ASSUME NEW h, NEW b, NEW q, NEW gone, NEW got, NEW half, NEW n \in Nat,
         Accounted(h, b, q, {}, gone, got, half, n)
  PROVE  /\ Accounted(h, b, q \cup {n + 1}, {}, gone, got, half, n + 1)
         /\ Accounted(h, b, q, {n + 1}, gone, got, half, n + 1)
         /\ n + 1 \notin q
<1>1. n + 1 \notin 1..n /\ 1..(n + 1) = (1..n) \cup {n + 1}
  OBVIOUS
<1> QED
  BY <1>1 DEF Accounted

LEMMA MoveFromPut ==
  ASSUME NEW h, NEW b, NEW q, NEW x, NEW gone, NEW got, NEW half, NEW n \in Nat,
         Accounted(h, b, q, {x}, gone, got, half, n)
  PROVE  /\ Accounted(h, b, q \cup {x}, {}, gone, got, half, n)
         /\ Accounted(h, b, q, {}, gone \cup {x}, got, half, n)
         /\ x \notin q /\ x \in 1..n
BY DEF Accounted

LEMMA MoveFromQueue ==
  ASSUME NEW h, NEW b, NEW q, NEW p, NEW gone, NEW got, NEW half, NEW n \in Nat,
         NEW x \in q, Accounted(h, b, q, p, gone, got, half, n)
  PROVE  /\ Accounted(h \cup {x}, b, q \ {x}, p, gone, got, half, n)
         /\ Accounted(h, b \cup {x}, q \ {x}, p, gone, got, half, n)
         /\ Accounted(h, b, q \ {x}, p, gone \cup {x}, got, half, n)
         /\ x \notin b
BY DEF Accounted

LEMMA MoveFromHand ==
  ASSUME NEW x, NEW b, NEW q, NEW p, NEW gone, NEW got, NEW half, NEW n \in Nat,
         Accounted({x}, b, q, p, gone, got, half, n)
  PROVE  /\ Accounted({}, b, q \cup {x}, p, gone, got, half, n)
         /\ Accounted({}, b, q, p, gone \cup {x}, got, half, n)
         /\ Accounted({}, b, q, p, gone, got \cup {x}, half, n)
         /\ Accounted({x}, b, q, p, gone, got \cup {x}, half \cup {x}, n)
         /\ x \notin q
BY DEF Accounted

LEMMA MoveFromBatch ==
  ASSUME NEW h, NEW b, NEW q, NEW p, NEW gone, NEW got, NEW half, NEW n \in Nat,
         Accounted(h, b, q, p, gone, got, half, n)
  PROVE  /\ Accounted(h, {}, q, p, gone \cup b, got, half, n)
         /\ Accounted(h, {}, q, p, gone, got \cup b, half, n)
BY DEF Accounted

(* The queue, as the oldest is taken and as one is put at its end.          *)
LEMMA QueueTaken ==
  ASSUME queue \in Seq(Nat), queue # <<>>, Distinct(queue), queue' = Tail(queue)
  PROVE  /\ queue' \in Seq(Nat) /\ Distinct(queue') /\ Head(queue) \in Nat
         /\ QueuedSentences' = QueuedSentences \ {Head(queue)}
         /\ Head(queue) # Wake => Head(queue) \in QueuedSentences
<1>1. Head(queue) \in Nat /\ Tail(queue) \in Seq(Nat) /\ Distinct(Tail(queue))
      /\ Elements(queue) = Elements(Tail(queue)) \cup {Head(queue)}
      /\ (Head(queue) # Wake => Head(queue) \notin Elements(Tail(queue)))
  BY ElementsOfTail
<1>2. QueuedSentences' = Elements(queue') \ {Wake}
  BY DEF QueuedSentences, Elements
<1>3. Elements(queue') = Elements(Tail(queue)) /\ Distinct(queue')
  BY <1>1, Zenon
<1> QED
  BY <1>1, <1>2, <1>3, QueuedAreElements

LEMMA QueuePut ==
  ASSUME queue \in Seq(Nat), Distinct(queue), NEW x \in Nat,
         x \notin QueuedSentences, queue' = Append(queue, x)
  PROVE  /\ queue' \in Seq(Nat) /\ Distinct(queue')
         /\ QueuedSentences' = QueuedSentences \cup ({x} \ {Wake})
<1>1. x \notin Elements(queue) \/ x = Wake
  BY QueuedAreElements
<1>2. Distinct(Append(queue, x)) /\ Append(queue, x) \in Seq(Nat)
      /\ Elements(Append(queue, x)) = Elements(queue) \cup {x}
  BY <1>1, DistinctAppend, ElementsOfAppend, AppendProperties
<1>3. QueuedSentences' = Elements(queue') \ {Wake}
  BY DEF QueuedSentences, Elements
<1>4. Elements(queue') = Elements(Append(queue, x)) /\ Distinct(queue')
  BY <1>2, Zenon
<1> QED
  BY <1>2, <1>3, <1>4, QueuedAreElements
-----------------------------------------------------------------------------
(* put and stop, while the loop stands still.                               *)
LEMMA LoopStays ==
  ASSUME UNCHANGED loopVars
  PROVE  /\ InHand' = InHand /\ Elements(batch') = Elements(batch)
         /\ Elements(received') = Elements(received) /\ halfSent' = halfSent
         /\ Distinct(batch) => Distinct(batch')
         /\ lost' = lost /\ undelivered' = undelivered
<1>1. /\ hand' = hand /\ batch' = batch /\ received' = received
      /\ halfSent' = halfSent /\ lost' = lost /\ undelivered' = undelivered
  BY DEF loopVars, shared, tcpOnly
<1> QED
  BY <1>1 DEF InHand, Elements, Distinct

LEMMA PutFirstKeeps ==
  ASSUME IInv, PutFirst, UNCHANGED loopVars
  PROVE  IInv'
<1>1. Accounted(InHand, Elements(batch), QueuedSentences, {}, GivenUp,
                Elements(received), halfSent, offered)
      /\ Distinct(queue) /\ Distinct(batch)
  <2>1. InPut = {}
    BY DEF PutFirst, InPut
  <2> QED
    BY <2>1, LossIsAccounted DEF IInv
<1>2. offered \in Nat /\ offered' = offered + 1 /\ queue \in Seq(Nat)
  BY DEF IInv, TypeOK, PutFirst
<1>3. GivenUp' = GivenUp
  BY LoopStays DEF PutFirst, GivenUp
<1>4. CASE Full
  <2>1. putting' = {[s |-> offered + 1, step |-> "discard"]} /\ queue' = queue
    BY <1>2, <1>4 DEF PutFirst
  <2>2. InPut' = {offered + 1}
    BY <2>1 DEF InPut
  <2>3. QueuedSentences' = QueuedSentences /\ Distinct(queue')
    BY <2>1, <1>1 DEF QueuedSentences, Distinct
  <2>4. Accounted(InHand', Elements(batch'), QueuedSentences', InPut', GivenUp',
                  Elements(received'), halfSent', offered')
    BY <1>1, <1>2, <1>3, <2>2, <2>3, MoveIn, LoopStays
  <2>5. NoSilentLoss'
    BY <2>3, <2>4, <1>1, LoopStays, LossIsAccountedNext
  <2>6. TypeOK' /\ Held' /\ LastSend'
    BY <2>1, <1>2 DEF IInv, TypeOK, Held, LastSend, PutFirst, loopVars, shared
  <2> QED
    BY <2>5, <2>6 DEF IInv
<1>5. CASE ~Full
  <2>1. queue' = Append(queue, offered + 1) /\ putting' = {}
    BY <1>2, <1>5 DEF PutFirst
  <2>2. InPut' = {}
    BY <2>1 DEF InPut
  <2>3. offered + 1 \notin QueuedSentences /\ offered + 1 \in Nat
        /\ {offered + 1} \ {Wake} = {offered + 1}
    <3>1. offered + 1 \notin QueuedSentences
      BY <1>1, <1>2, MoveIn
    <3>2. offered + 1 \in Nat /\ offered + 1 # 0
      BY <1>2
    <3> QED
      BY <3>1, <3>2 DEF Wake
  <2>4. QueuedSentences' = QueuedSentences \cup {offered + 1} /\ Distinct(queue')
        /\ queue' \in Seq(Nat)
    BY <2>1, <2>3, <1>1, <1>2, QueuePut
  <2>5. Accounted(InHand', Elements(batch'), QueuedSentences', InPut', GivenUp',
                  Elements(received'), halfSent', offered')
    BY <1>1, <1>2, <1>3, <2>2, <2>4, MoveIn, LoopStays
  <2>6. NoSilentLoss'
    BY <2>4, <2>5, <1>1, LoopStays, LossIsAccountedNext
  <2>7. TypeOK' /\ Held' /\ LastSend'
    BY <2>1, <2>4, <1>2 DEF IInv, TypeOK, Held, LastSend, PutFirst, loopVars,
                            shared
  <2> QED
    BY <2>6, <2>7 DEF IInv
<1> QED
  BY <1>4, <1>5

LEMMA PutDiscardKeeps ==
  ASSUME IInv, PutDiscard, UNCHANGED loopVars
  PROVE  IInv'
<1>1. Accounted(InHand, Elements(batch), QueuedSentences, InPut, GivenUp,
                Elements(received), halfSent, offered)
      /\ Distinct(queue) /\ Distinct(batch)
  BY LossIsAccounted DEF IInv
<1>2. offered \in Nat /\ offered' = offered /\ queue \in Seq(Nat)
      /\ refused' = refused /\ stopping' = stopping
  BY DEF IInv, TypeOK, PutDiscard
<1>3. PICK m \in putting : /\ m.step = "discard"
                           /\ putting' = {[m EXCEPT !.step = "again"]}
  BY DEF PutDiscard
<1>4. InPut' = InPut
  <2>1. InPut = {m.s}
    BY DEF IInv, Held, InPut
  <2>2. InPut' = {[m EXCEPT !.step = "again"].s}
    BY <1>3 DEF InPut
  <2>3. [m EXCEPT !.step = "again"].s = m.s
    OBVIOUS
  <2> QED
    BY <2>1, <2>2, <2>3
<1>5. queue' \in Seq(Nat) /\ NoSilentLoss'
  <2>1. CASE queue = <<>>
    <3>1. queue' = queue /\ discarded' = discarded
      BY <2>1 DEF PutDiscard
    <3>2. QueuedSentences' = QueuedSentences /\ Distinct(queue')
          /\ GivenUp' = GivenUp
      BY <3>1, <1>1, <1>2, LoopStays DEF QueuedSentences, Distinct, GivenUp
    <3>3. Accounted(InHand', Elements(batch'), QueuedSentences', InPut', GivenUp',
                    Elements(received'), halfSent', offered')
      BY <1>1, <1>2, <1>4, <3>2, LoopStays
    <3> QED
      BY <3>1, <3>2, <3>3, <1>1, <1>2, LoopStays, LossIsAccountedNext
  <2>2. CASE queue # <<>>
    <3>1. queue' = Tail(queue)
          /\ discarded' = discarded \cup ({Head(queue)} \ {Wake})
      BY <2>2 DEF PutDiscard
    <3>2. /\ queue' \in Seq(Nat) /\ Distinct(queue')
          /\ QueuedSentences' = QueuedSentences \ {Head(queue)}
          /\ Head(queue) # Wake => Head(queue) \in QueuedSentences
      BY <2>2, <3>1, <1>1, <1>2, QueueTaken
    <3>3. CASE Head(queue) = Wake
      <4>1. QueuedSentences' = QueuedSentences /\ GivenUp' = GivenUp
        BY <3>1, <3>2, <3>3, <1>2, LoopStays DEF QueuedSentences, GivenUp
      <4>2. Accounted(InHand', Elements(batch'), QueuedSentences', InPut',
                      GivenUp', Elements(received'), halfSent', offered')
        BY <1>1, <1>2, <1>4, <4>1, LoopStays
      <4> QED
        BY <3>2, <4>2, <1>1, LoopStays, LossIsAccountedNext
    <3>4. CASE Head(queue) # Wake
      <4>1. GivenUp' = GivenUp \cup {Head(queue)}
        BY <3>1, <3>4, <1>2, LoopStays DEF GivenUp
      <4>2. Accounted(InHand, Elements(batch), QueuedSentences \ {Head(queue)},
                      InPut, GivenUp \cup {Head(queue)}, Elements(received),
                      halfSent, offered)
        BY <1>1, <1>2, <3>2, <3>4, MoveFromQueue
      <4>3. Accounted(InHand', Elements(batch'), QueuedSentences', InPut',
                      GivenUp', Elements(received'), halfSent', offered')
        BY <1>2, <1>4, <3>2, <4>1, <4>2, LoopStays
      <4> QED
        BY <3>2, <4>3, <1>1, LoopStays, LossIsAccountedNext
    <3> QED
      BY <3>3, <3>4
  <2> QED
    BY <2>1, <2>2
<1>6. TypeOK' /\ Held' /\ LastSend'
  BY <1>2, <1>3, <1>5 DEF IInv, TypeOK, Held, LastSend, loopVars, shared
<1> QED
  BY <1>5, <1>6 DEF IInv

LEMMA PutAgainKeeps ==
  ASSUME IInv, PutAgain, UNCHANGED loopVars
  PROVE  IInv'
<1>1. offered \in Nat /\ offered' = offered /\ queue \in Seq(Nat)
      /\ discarded' = discarded /\ stopping' = stopping /\ putting' = {}
  BY DEF IInv, TypeOK, PutAgain
<1>2. PICK m \in putting :
        IF Full THEN refused' = refused \cup {m.s} /\ UNCHANGED queue
                ELSE queue' = Append(queue, m.s) /\ UNCHANGED refused
  BY DEF PutAgain
<1>3. Accounted(InHand, Elements(batch), QueuedSentences, {m.s}, GivenUp,
                Elements(received), halfSent, offered)
      /\ Distinct(queue) /\ Distinct(batch)
  <2>1. InPut = {m.s}
    BY DEF IInv, Held, InPut
  <2> QED
    BY <2>1, LossIsAccounted DEF IInv
<1>4. InPut' = {}
  BY <1>1 DEF InPut
<1>5. /\ Accounted(InHand, Elements(batch), QueuedSentences \cup {m.s}, {},
                   GivenUp, Elements(received), halfSent, offered)
      /\ Accounted(InHand, Elements(batch), QueuedSentences, {},
                   GivenUp \cup {m.s}, Elements(received), halfSent, offered)
      /\ m.s \notin QueuedSentences /\ m.s \in 1..offered
  BY <1>3, <1>1, MoveFromPut
<1>6. m.s \in Nat /\ {m.s} \ {Wake} = {m.s} /\ m.s \notin QueuedSentences
  BY <1>1, <1>5 DEF Wake
<1>7. queue' \in Seq(Nat) /\ NoSilentLoss'
  <2>1. CASE Full
    <3>1. QueuedSentences' = QueuedSentences /\ Distinct(queue')
          /\ GivenUp' = GivenUp \cup {m.s}
      BY <2>1, <1>3, <1>1, <1>2, LoopStays DEF QueuedSentences, Distinct, GivenUp
    <3>2. Accounted(InHand', Elements(batch'), QueuedSentences', InPut', GivenUp',
                    Elements(received'), halfSent', offered')
      BY <1>1, <1>4, <1>5, <3>1, LoopStays
    <3> QED
      BY <2>1, <3>1, <3>2, <1>3, <1>1, <1>2, LoopStays, LossIsAccountedNext
  <2>2. CASE ~Full
    <3>1. queue' = Append(queue, m.s) /\ refused' = refused
      BY <2>2, <1>2
    <3>2. queue' \in Seq(Nat) /\ Distinct(queue')
          /\ QueuedSentences' = QueuedSentences \cup {m.s}
      BY <3>1, <1>3, <1>1, <1>6, QueuePut
    <3>3. GivenUp' = GivenUp
      BY <3>1, <1>1, LoopStays DEF GivenUp
    <3>4. Accounted(InHand', Elements(batch'), QueuedSentences', InPut', GivenUp',
                    Elements(received'), halfSent', offered')
      BY <1>1, <1>4, <1>5, <3>2, <3>3, LoopStays
    <3> QED
      BY <3>2, <3>4, <1>3, LoopStays, LossIsAccountedNext
  <2> QED
    BY <2>1, <2>2
<1>8. TypeOK' /\ Held' /\ LastSend'
  BY <1>1, <1>7 DEF IInv, TypeOK, Held, LastSend, loopVars, shared
<1> QED
  BY <1>7, <1>8 DEF IInv

LEMMA StopKeeps ==
  ASSUME IInv, StopFlag \/ StopWake, UNCHANGED loopVars
  PROVE  IInv'
<1>1. Accounted(InHand, Elements(batch), QueuedSentences, InPut, GivenUp,
                Elements(received), halfSent, offered)
      /\ Distinct(queue) /\ Distinct(batch)
  BY LossIsAccounted DEF IInv
<1>2. /\ offered' = offered /\ putting' = putting /\ discarded' = discarded
      /\ refused' = refused /\ stopping' \in {"flagged", "stopped"}
      /\ queue' = queue \/ queue' = Append(queue, Wake)
      /\ queue \in Seq(Nat)
  BY DEF IInv, TypeOK, StopFlag, StopWake, putVars
<1>3. InPut' = InPut /\ GivenUp' = GivenUp
  BY <1>2, LoopStays DEF InPut, GivenUp
<1>4. queue' \in Seq(Nat) /\ Distinct(queue')
      /\ QueuedSentences' = QueuedSentences
  <2>1. CASE queue' = queue
    BY <2>1, <1>1, <1>2 DEF Distinct, QueuedSentences
  <2>2. CASE queue' = Append(queue, Wake)
    <3>1. Wake \in Nat /\ Wake \notin QueuedSentences
      BY DEF Wake, QueuedSentences
    <3> QED
      BY <2>2, <3>1, <1>1, <1>2, QueuePut
  <2> QED
    BY <2>1, <2>2, <1>2
<1>5. Accounted(InHand', Elements(batch'), QueuedSentences', InPut', GivenUp',
                Elements(received'), halfSent', offered')
  BY <1>1, <1>2, <1>3, <1>4, LoopStays
<1>6. NoSilentLoss'
  BY <1>1, <1>4, <1>5, LoopStays, LossIsAccountedNext
<1>7. TypeOK' /\ Held' /\ LastSend'
  BY <1>2, <1>4 DEF IInv, TypeOK, Held, LastSend, loopVars, shared
<1> QED
  BY <1>6, <1>7 DEF IInv
-----------------------------------------------------------------------------
(* The loops.  First what their steps have in common, whatever the protocol. *)
QueueStill == UNCHANGED <<queue, offered, putting, stopping, discarded, refused>>

LEMMA QueueStays ==
  ASSUME QueueStill
  PROVE  /\ queue' = queue /\ offered' = offered /\ putting' = putting
         /\ stopping' = stopping /\ discarded' = discarded
         /\ refused' = refused
         /\ InPut' = InPut /\ QueuedSentences' = QueuedSentences
         /\ Distinct(queue) => Distinct(queue')
BY DEF QueueStill, InPut, QueuedSentences, Distinct

(* A step that moves no sentence.                                           *)
LEMMA IdleKeeps ==
  ASSUME IInv, QueueStill,
         UNCHANGED <<protocol, hand, batch, received, halfSent, lost,
                     undelivered, sentAfterStop>>,
         pc \notin {"send", "requeue"},
         pc' \in {"loop", "connect", "asleep", "get", "flush", "done"},
         StopSet /\ pc = "loop" => pc' = "done",
         pc = "done" => pc' = "done"
  PROVE  IInv'
<1>1. NoSilentLoss'
  <2>1. Accounted(InHand, Elements(batch), QueuedSentences, InPut, GivenUp,
                  Elements(received), halfSent, offered)
        /\ Distinct(queue) /\ Distinct(batch)
    BY LossIsAccounted DEF IInv
  <2>2. /\ InHand' = InHand /\ Elements(batch') = Elements(batch)
        /\ Elements(received') = Elements(received) /\ halfSent' = halfSent
        /\ GivenUp' = GivenUp /\ Distinct(batch')
    BY <2>1, QueueStays DEF InHand, Elements, GivenUp, Distinct
  <2>3. Accounted(InHand', Elements(batch'), QueuedSentences', InPut', GivenUp',
                  Elements(received'), halfSent', offered')
    BY <2>1, <2>2, QueueStays
  <2> QED
    BY <2>1, <2>2, <2>3, QueueStays, LossIsAccountedNext
<1>2. TypeOK' /\ Held' /\ LastSend'
  BY QueueStays DEF IInv, TypeOK, Held, LastSend, StopSet
<1> QED
  BY <1>1, <1>2 DEF IInv

(* A step that changes nothing the invariant looks at.                      *)
LEMMA StandStillKeeps ==
  ASSUME IInv, QueueStill,
         UNCHANGED <<protocol, pc, hand, batch, received, halfSent, lost,
                     undelivered, sentAfterStop>>
  PROVE  IInv'
<1>1. Accounted(InHand, Elements(batch), QueuedSentences, InPut, GivenUp,
                Elements(received), halfSent, offered)
      /\ Distinct(queue) /\ Distinct(batch)
  BY LossIsAccounted DEF IInv
<1>2. /\ InHand' = InHand /\ Elements(batch') = Elements(batch)
      /\ Elements(received') = Elements(received) /\ halfSent' = halfSent
      /\ GivenUp' = GivenUp /\ Distinct(batch')
  BY <1>1, QueueStays DEF InHand, Elements, GivenUp, Distinct
<1>3. Accounted(InHand', Elements(batch'), QueuedSentences', InPut', GivenUp',
                Elements(received'), halfSent', offered')
  BY <1>1, <1>2, QueueStays
<1>4. NoSilentLoss'
  BY <1>1, <1>2, <1>3, QueueStays, LossIsAccountedNext
<1>5. TypeOK' /\ Held' /\ LastSend'
  BY QueueStays DEF IInv, TypeOK, Held, LastSend
<1> QED
  BY <1>4, <1>5 DEF IInv

(* get takes a sentence, or stop's token, in hand.                          *)
LEMMA GetKeeps ==
  ASSUME IInv, protocol # "http", pc = "get", queue # <<>>,
         queue' = Tail(queue), hand' = Head(queue),
         pc' = IF Head(queue) = Wake THEN "loop" ELSE "send",
         UNCHANGED <<offered, putting, stopping, discarded, refused, protocol,
                     batch, received, halfSent, lost, undelivered, sentAfterStop>>
  PROVE  IInv'
<1>1. /\ Accounted({}, Elements(batch), QueuedSentences, InPut, GivenUp,
                   Elements(received), halfSent, offered)
      /\ Distinct(queue) /\ Distinct(batch)
      /\ queue \in Seq(Nat) /\ offered \in Nat
  <2>1. InHand = {}
    BY DEF IInv, Held, InHand
  <2> QED
    BY <2>1, LossIsAccounted DEF IInv, TypeOK
<1>2. /\ queue' \in Seq(Nat) /\ Distinct(queue') /\ Head(queue) \in Nat
      /\ QueuedSentences' = QueuedSentences \ {Head(queue)}
      /\ Head(queue) # Wake => Head(queue) \in QueuedSentences
  BY <1>1, QueueTaken
<1>3. /\ InPut' = InPut /\ Elements(batch') = Elements(batch)
      /\ Elements(received') = Elements(received) /\ halfSent' = halfSent
      /\ GivenUp' = GivenUp /\ Distinct(batch') /\ offered' = offered
  BY <1>1 DEF InPut, Elements, GivenUp, Distinct
<1>4. Accounted(InHand', Elements(batch'), QueuedSentences', InPut', GivenUp',
                Elements(received'), halfSent', offered')
  <2>1. CASE Head(queue) = Wake
    <3>1. InHand' = {} /\ QueuedSentences' = QueuedSentences
      BY <2>1, <1>2 DEF InHand, QueuedSentences
    <3> QED
      BY <3>1, <1>1, <1>3
  <2>2. CASE Head(queue) # Wake
    <3>1. InHand' = {} \cup {Head(queue)}
      BY <2>2 DEF InHand
    <3>2. Accounted({} \cup {Head(queue)}, Elements(batch),
                    QueuedSentences \ {Head(queue)}, InPut, GivenUp,
                    Elements(received), halfSent, offered)
      BY <2>2, <1>1, <1>2, MoveFromQueue
    <3> QED
      BY <3>1, <3>2, <1>2, <1>3
  <2> QED
    BY <2>1, <2>2
<1>5. NoSilentLoss'
  BY <1>2, <1>3, <1>4, LossIsAccountedNext
<1>6. TypeOK' /\ Held' /\ LastSend'
  BY <1>2 DEF IInv, TypeOK, Held, LastSend
<1> QED
  BY <1>5, <1>6 DEF IInv

(* A send, successful or not: what is in hand is received, or lost by the   *)
(* network, or stays in hand to be put back.                                *)
LEMMA SendKeeps ==
  ASSUME IInv, QueueStill, pc = "send",
         UNCHANGED <<protocol, batch, lost>>,
         sentAfterStop' = IF StopSet THEN sentAfterStop + 1 ELSE sentAfterStop,
         \/ /\ hand' = Wake /\ pc' \in {"loop", "done"} /\ halfSent' = halfSent
            /\ \/ received' = Append(received, hand)
                  /\ undelivered' = undelivered
               \/ received' = received
                  /\ undelivered' = undelivered \cup {hand}
         \/ /\ hand' = hand /\ pc' = "requeue" /\ undelivered' = undelivered
            /\ \/ received' = Append(received, hand)
                  /\ halfSent' = halfSent \cup {hand}
               \/ received' = received /\ halfSent' = halfSent
  PROVE  IInv'
<1>1. /\ Accounted({hand}, Elements(batch), QueuedSentences, InPut, GivenUp,
                   Elements(received), halfSent, offered)
      /\ Distinct(queue) /\ Distinct(batch)
      /\ received \in Seq(Nat) /\ offered \in Nat /\ hand \in Nat
  <2>1. InHand = {hand}
    BY DEF IInv, Held, InHand
  <2> QED
    BY <2>1, LossIsAccounted DEF IInv, TypeOK
<1>2. /\ Accounted({}, Elements(batch), QueuedSentences, InPut,
                   GivenUp \cup {hand}, Elements(received), halfSent, offered)
      /\ Accounted({}, Elements(batch), QueuedSentences, InPut, GivenUp,
                   Elements(received) \cup {hand}, halfSent, offered)
      /\ Accounted({hand}, Elements(batch), QueuedSentences, InPut, GivenUp,
                   Elements(received) \cup {hand}, halfSent \cup {hand}, offered)
  BY <1>1, MoveFromHand
<1>3. received' = Append(received, hand)
        => received' \in Seq(Nat)
           /\ Elements(received') = Elements(received) \cup {hand}
  <2>1. /\ Append(received, hand) \in Seq(Nat)
        /\ Elements(Append(received, hand)) = Elements(received) \cup {hand}
    BY <1>1, ElementsOfAppend, AppendProperties
  <2> QED
    BY <2>1, Zenon
<1>4. received' = received => Elements(received') = Elements(received)
  BY DEF Elements
<1>5. Elements(batch') = Elements(batch) /\ Distinct(batch')
  BY <1>1 DEF Elements, Distinct
<1>6. hand # Wake
  BY DEF IInv, Held
<1>7. undelivered' = undelivered => GivenUp' = GivenUp
  BY QueueStays DEF GivenUp
<1>8. undelivered' = undelivered \cup {hand} => GivenUp' = GivenUp \cup {hand}
  BY QueueStays DEF GivenUp
<1>9. hand' = Wake => InHand' = {}
  BY DEF InHand
<1>10. hand' = hand => InHand' = {hand}
  BY <1>6 DEF InHand
<1>11. Accounted(InHand', Elements(batch'), QueuedSentences', InPut', GivenUp',
                 Elements(received'), halfSent', offered')
  <2>1. CASE hand' = Wake /\ halfSent' = halfSent /\ undelivered' = undelivered
             /\ received' = Append(received, hand)
    BY <2>1, <1>2, <1>3, <1>5, <1>7, <1>9, QueueStays
  <2>2. CASE hand' = Wake /\ halfSent' = halfSent /\ received' = received
             /\ undelivered' = undelivered \cup {hand}
    BY <2>2, <1>2, <1>4, <1>5, <1>8, <1>9, QueueStays
  <2>3. CASE hand' = hand /\ undelivered' = undelivered
             /\ received' = Append(received, hand)
             /\ halfSent' = halfSent \cup {hand}
    BY <2>3, <1>2, <1>3, <1>5, <1>7, <1>10, QueueStays
  <2>4. CASE hand' = hand /\ undelivered' = undelivered
             /\ received' = received /\ halfSent' = halfSent
    BY <2>4, <1>1, <1>4, <1>5, <1>7, <1>10, QueueStays
  <2> QED
    BY <2>1, <2>2, <2>3, <2>4
<1>12. NoSilentLoss'
  BY <1>1, <1>5, <1>11, QueueStays, LossIsAccountedNext
<1>13. TypeOK' /\ Held'
  BY <1>3, <1>6, QueueStays, SMTT(30) DEF IInv, TypeOK, Held, Wake
<1>14. LastSend'
  BY QueueStays DEF IInv, LastSend, StopSet
<1> QED
  BY <1>12, <1>13, <1>14 DEF IInv

(* A failed send's sentence goes back to the end of the queue, or is lost.  *)
LEMMA RequeueKeeps ==
  ASSUME IInv, pc = "requeue",
         IF Full THEN lost' = lost \cup {hand} /\ queue' = queue
                 ELSE queue' = Append(queue, hand) /\ lost' = lost,
         pc' = "loop", hand' = Wake,
         UNCHANGED <<offered, putting, stopping, discarded, refused, protocol,
                     batch, received, halfSent, undelivered, sentAfterStop>>
  PROVE  IInv'
<1>1. /\ Accounted({hand}, Elements(batch), QueuedSentences, InPut, GivenUp,
                   Elements(received), halfSent, offered)
      /\ Distinct(queue) /\ Distinct(batch) /\ hand # Wake
      /\ queue \in Seq(Nat) /\ offered \in Nat /\ hand \in Nat
  <2>1. InHand = {hand} /\ hand # Wake
    BY DEF IInv, Held, InHand
  <2> QED
    BY <2>1, LossIsAccounted DEF IInv, TypeOK
<1>2. /\ Accounted({}, Elements(batch), QueuedSentences \cup {hand}, InPut,
                   GivenUp, Elements(received), halfSent, offered)
      /\ Accounted({}, Elements(batch), QueuedSentences, InPut,
                   GivenUp \cup {hand}, Elements(received), halfSent, offered)
      /\ hand \notin QueuedSentences
  BY <1>1, MoveFromHand
<1>3. /\ InPut' = InPut /\ Elements(batch') = Elements(batch)
      /\ Elements(received') = Elements(received) /\ halfSent' = halfSent
      /\ Distinct(batch') /\ offered' = offered /\ InHand' = {}
  BY <1>1 DEF InPut, Elements, Distinct, InHand
<1>4. queue' \in Seq(Nat) /\ NoSilentLoss'
  <2>1. CASE Full
    <3>1. queue' = queue /\ lost' = lost \cup {hand}
      BY <2>1
    <3>2. QueuedSentences' = QueuedSentences /\ Distinct(queue')
          /\ GivenUp' = GivenUp \cup {hand}
      BY <3>1, <1>1 DEF QueuedSentences, Distinct, GivenUp
    <3>3. Accounted(InHand', Elements(batch'), QueuedSentences', InPut', GivenUp',
                    Elements(received'), halfSent', offered')
      BY <1>2, <1>3, <3>2
    <3> QED
      BY <1>1, <1>3, <3>1, <3>2, <3>3, LossIsAccountedNext
  <2>2. CASE ~Full
    <3>1. queue' = Append(queue, hand) /\ lost' = lost
      BY <2>2
    <3>2. queue' \in Seq(Nat) /\ Distinct(queue')
          /\ QueuedSentences' = QueuedSentences \cup ({hand} \ {Wake})
      BY <3>1, <1>1, <1>2, QueuePut
    <3>3. GivenUp' = GivenUp
      BY <3>1 DEF GivenUp
    <3>4. {hand} \ {Wake} = {hand}
      BY <1>1
    <3>5. Accounted(InHand', Elements(batch'), QueuedSentences', InPut', GivenUp',
                    Elements(received'), halfSent', offered')
      BY <1>2, <1>3, <3>2, <3>3, <3>4
    <3> QED
      BY <1>3, <3>2, <3>5, LossIsAccountedNext
  <2> QED
    BY <2>1, <2>2
<1>5. TypeOK' /\ Held' /\ LastSend'
  BY <1>4 DEF IInv, TypeOK, Held, LastSend, Wake
<1> QED
  BY <1>4, <1>5 DEF IInv

(* An HTTP worker adds what it gets to its batch, but for stop's token.     *)
LEMMA GatherKeeps ==
  ASSUME IInv, protocol = "http", pc = "get", queue # <<>>,
         queue' = Tail(queue), pc' = "flush",
         batch' = IF Head(queue) = Wake THEN batch ELSE Append(batch, Head(queue)),
         UNCHANGED <<offered, putting, stopping, discarded, refused, protocol,
                     hand, received, halfSent, lost, undelivered, sentAfterStop>>
  PROVE  IInv'
<1>1. /\ Accounted(InHand, Elements(batch), QueuedSentences, InPut, GivenUp,
                   Elements(received), halfSent, offered)
      /\ Distinct(queue) /\ Distinct(batch)
      /\ queue \in Seq(Nat) /\ batch \in Seq(Nat) /\ offered \in Nat
  BY LossIsAccounted DEF IInv, TypeOK
<1>2. /\ queue' \in Seq(Nat) /\ Distinct(queue') /\ Head(queue) \in Nat
      /\ QueuedSentences' = QueuedSentences \ {Head(queue)}
      /\ Head(queue) # Wake => Head(queue) \in QueuedSentences
  BY <1>1, QueueTaken
<1>3. /\ InPut' = InPut /\ InHand' = InHand
      /\ Elements(received') = Elements(received) /\ halfSent' = halfSent
      /\ GivenUp' = GivenUp /\ offered' = offered
  BY DEF InPut, InHand, Elements, GivenUp
<1>4. batch' \in Seq(Nat) /\ NoSilentLoss'
  <2>1. CASE Head(queue) = Wake
    <3>1. batch' = batch
      BY <2>1
    <3>2. /\ Elements(batch') = Elements(batch) /\ Distinct(batch')
          /\ QueuedSentences' = QueuedSentences
      <4>1. Wake \notin QueuedSentences
        BY DEF QueuedSentences
      <4>2. QueuedSentences' = QueuedSentences
        BY <4>1, <2>1, <1>2
      <4> QED
        BY <3>1, <4>2, <1>1 DEF Elements, Distinct
    <3>3. Accounted(InHand', Elements(batch'), QueuedSentences', InPut', GivenUp',
                    Elements(received'), halfSent', offered')
      BY <1>1, <1>3, <3>2
    <3> QED
      BY <1>1, <1>2, <3>1, <3>2, <3>3, LossIsAccountedNext
  <2>2. CASE Head(queue) # Wake
    <3>1. batch' = Append(batch, Head(queue))
      BY <2>2
    <3>2. /\ Accounted(InHand, Elements(batch) \cup {Head(queue)},
                       QueuedSentences \ {Head(queue)}, InPut, GivenUp,
                       Elements(received), halfSent, offered)
          /\ Head(queue) \notin Elements(batch)
      BY <2>2, <1>1, <1>2, MoveFromQueue
    <3>3. /\ Append(batch, Head(queue)) \in Seq(Nat)
          /\ Distinct(Append(batch, Head(queue)))
          /\ Elements(Append(batch, Head(queue)))
               = Elements(batch) \cup {Head(queue)}
      BY <3>2, <1>1, <1>2, DistinctAppend, ElementsOfAppend, AppendProperties
    <3>4. /\ batch' \in Seq(Nat) /\ Distinct(batch')
          /\ Elements(batch') = Elements(batch) \cup {Head(queue)}
      BY <3>1, <3>3, Zenon
    <3>5. Accounted(InHand', Elements(batch'), QueuedSentences', InPut', GivenUp',
                    Elements(received'), halfSent', offered')
      BY <1>2, <1>3, <3>2, <3>4
    <3> QED
      BY <1>2, <3>4, <3>5, LossIsAccountedNext
  <2> QED
    BY <2>1, <2>2
<1>5. TypeOK' /\ Held' /\ LastSend'
  BY <1>2, <1>4 DEF IInv, TypeOK, Held, LastSend
<1> QED
  BY <1>4, <1>5 DEF IInv

(* A POST ends a batch: the server took all of it or it is given up.        *)
LEMMA FlushKeeps ==
  ASSUME IInv, QueueStill, protocol = "http", pc = "flush",
         \/ received' = received \o batch /\ undelivered' = undelivered
         \/ /\ received' = received
            /\ undelivered' = undelivered \cup Elements(batch),
         batch' = <<>>, pc' = "loop",
         sentAfterStop' = IF StopSet THEN sentAfterStop + 1 ELSE sentAfterStop,
         UNCHANGED <<protocol, hand, halfSent, lost>>
  PROVE  IInv'
<1>1. /\ Accounted(InHand, Elements(batch), QueuedSentences, InPut, GivenUp,
                   Elements(received), halfSent, offered)
      /\ Distinct(queue) /\ received \in Seq(Nat) /\ batch \in Seq(Nat)
      /\ offered \in Nat
  BY LossIsAccounted DEF IInv, TypeOK
<1>2. /\ Accounted(InHand, {}, QueuedSentences, InPut,
                   GivenUp \cup Elements(batch), Elements(received), halfSent,
                   offered)
      /\ Accounted(InHand, {}, QueuedSentences, InPut, GivenUp,
                   Elements(received) \cup Elements(batch), halfSent, offered)
  BY <1>1, MoveFromBatch
<1>3. /\ Elements(batch') = {} /\ Distinct(batch') /\ batch' \in Seq(Nat)
      /\ InHand' = InHand
  <2>1. <<>> \in Seq(Nat)
    BY EmptySeq
  <2> QED
    BY <2>1, ElementsOfEmpty DEF InHand
<1>4. received' \in Seq(Nat)
      /\ Accounted(InHand', Elements(batch'), QueuedSentences', InPut', GivenUp',
                   Elements(received'), halfSent', offered')
  <2>1. CASE received' = received \o batch /\ undelivered' = undelivered
    <3>1. /\ received \o batch \in Seq(Nat)
          /\ Elements(received \o batch) = Elements(received) \cup Elements(batch)
      BY <1>1, ElementsOfConcat, ConcatProperties
    <3>2. /\ received' \in Seq(Nat)
          /\ Elements(received') = Elements(received) \cup Elements(batch)
      BY <2>1, <3>1, Zenon
    <3>3. GivenUp' = GivenUp
      BY <2>1, QueueStays DEF GivenUp
    <3> QED
      BY <1>2, <1>3, <3>2, <3>3, QueueStays
  <2>2. CASE received' = received
             /\ undelivered' = undelivered \cup Elements(batch)
    <3>1. Elements(received') = Elements(received)
      BY <2>2 DEF Elements
    <3>2. GivenUp' = GivenUp \cup Elements(batch)
      BY <2>2, QueueStays DEF GivenUp
    <3> QED
      BY <2>2, <1>1, <1>2, <1>3, <3>1, <3>2, QueueStays
  <2> QED
    BY <2>1, <2>2
<1>5. NoSilentLoss'
  BY <1>1, <1>3, <1>4, QueueStays, LossIsAccountedNext
<1>6. TypeOK' /\ Held'
  BY <1>3, <1>4, QueueStays DEF IInv, TypeOK, Held
<1>7. LastSend'
  BY QueueStays DEF IInv, LastSend, StopSet
<1> QED
  BY <1>5, <1>6, <1>7 DEF IInv

-----------------------------------------------------------------------------
(* Each protocol's loop, action by action.                                  *)
LEMMA TcpKeeps ==
  ASSUME IInv, Tcp \/ Link
  PROVE  IInv'
<1> USE DEF queueVars, putVars, T!queueVars, T!putVars, T!envVars, T!histVars,
            tcpOnly, QueueStill
<1>1. protocol = "tcp" /\ UNCHANGED <<protocol, batch>>
  BY DEF Tcp, Link
<1>2. CASE T!Loop
  BY <1>1, <1>2, IdleKeeps DEF T!Loop, T!StopSet, StopSet
<1>3. CASE T!ConnectOk \/ T!ConnectFails \/ T!ConnectCrashes \/ T!BackoffEnds
  BY <1>1, <1>3, IdleKeeps
     DEF T!ConnectOk, T!ConnectFails, T!ConnectCrashes, T!BackoffEnds
<1>4. CASE T!Get
  <2>1. CASE queue = <<>>
    BY <1>1, <1>4, <2>1, IdleKeeps DEF T!Get
  <2>2. CASE queue # <<>>
    BY <1>1, <1>4, <2>2, GetKeeps DEF T!Get, T!Wake, Wake
  <2> QED
    BY <2>1, <2>2
<1>5. CASE T!Send
  <2>1. PICK o \in T!Outcomes :
          /\ received' = IF o.got THEN Append(received, hand) ELSE received
          /\ halfSent' = IF o.got /\ ~o.ok THEN halfSent \cup {hand}
                                           ELSE halfSent
          /\ undelivered' = IF o.ok /\ ~o.got THEN undelivered \cup {hand}
                                              ELSE undelivered
          /\ pc' = IF o.ok THEN "loop" ELSE "requeue"
          /\ hand' = IF o.ok THEN Wake ELSE hand
    BY <1>5 DEF T!Send, T!Wake, Wake
  <2>2. o.got \in BOOLEAN /\ o.ok \in BOOLEAN
    <3>1. \/ o = [ok |-> TRUE, got |-> TRUE]
          \/ o \in [ok : {FALSE}, got : BOOLEAN]
          \/ o \in [ok : BOOLEAN, got : {FALSE}]
      <4>1. CASE sock = "open" /\ faults < MaxFaults
        BY <4>1 DEF T!Outcomes
      <4>2. CASE sock = "open" /\ ~(faults < MaxFaults)
        BY <4>2 DEF T!Outcomes
      <4>3. CASE sock # "open"
        BY <4>3 DEF T!Outcomes
      <4> QED
        BY <4>1, <4>2, <4>3
    <3>2. CASE o = [ok |-> TRUE, got |-> TRUE]
      BY <3>2
    <3>3. CASE o \in [ok : {FALSE}, got : BOOLEAN]
      BY <3>3
    <3>4. CASE o \in [ok : BOOLEAN, got : {FALSE}]
      BY <3>4
    <3> QED
      BY <3>1, <3>2, <3>3, <3>4
  <2>3. \/ /\ hand' = Wake /\ pc' \in {"loop", "done"} /\ halfSent' = halfSent
           /\ \/ received' = Append(received, hand)
                 /\ undelivered' = undelivered
              \/ received' = received
                 /\ undelivered' = undelivered \cup {hand}
        \/ /\ hand' = hand /\ pc' = "requeue" /\ undelivered' = undelivered
           /\ \/ received' = Append(received, hand)
                 /\ halfSent' = halfSent \cup {hand}
              \/ received' = received /\ halfSent' = halfSent
    BY <2>1, <2>2
  <2> QED
    BY <1>1, <1>5, <2>3, SendKeeps DEF T!Send, T!StopSet, StopSet
<1>6. CASE T!Requeue
  BY <1>1, <1>6, RequeueKeeps DEF T!Requeue, T!Full, Full, T!Wake, Wake
<1>7. CASE T!Link
  <2>1. /\ QueueStill
        /\ UNCHANGED <<protocol, pc, hand, batch, received, halfSent, lost,
                       undelivered, sentAfterStop>>
    BY <1>1, <1>7 DEF T!Link, T!LinkDown, T!LinkUp
  <2> QED
    BY <2>1, StandStillKeeps
<1> QED
  BY <1>2, <1>3, <1>4, <1>5, <1>6, <1>7 DEF Tcp, Link, T!Worker

LEMMA UdpKeeps ==
  ASSUME IInv, Udp
  PROVE  IInv'
<1> USE DEF queueVars, putVars, U!queueVars, U!putVars, U!histVars,
            tcpOnly, QueueStill
<1>1. protocol = "udp" /\ UNCHANGED <<protocol, tcpOnly, batch>>
  BY DEF Udp
<1>2. CASE U!Loop
  BY <1>1, <1>2, IdleKeeps DEF U!Loop, U!StopSet, StopSet
<1>3. CASE U!Get
  <2>1. CASE queue = <<>>
    BY <1>1, <1>3, <2>1, IdleKeeps DEF U!Get
  <2>2. CASE queue # <<>>
    BY <1>1, <1>3, <2>2, GetKeeps DEF U!Get, U!Wake, Wake
  <2> QED
    BY <2>1, <2>2
<1>4. CASE U!Send
  BY <1>1, <1>4, SendKeeps DEF U!Send, U!Wake, Wake, U!StopSet, StopSet
<1>5. CASE U!SendCrashes
  BY <1>1, <1>5, SendKeeps DEF U!SendCrashes, U!Wake, Wake, U!StopSet, StopSet
<1> QED
  BY <1>2, <1>3, <1>4, <1>5 DEF Udp, U!Worker

LEMMA HttpKeeps ==
  ASSUME IInv, Http
  PROVE  IInv'
<1> USE DEF queueVars, putVars, H!queueVars, H!putVars, H!histVars,
            tcpOnly, QueueStill
<1>1. protocol = "http" /\ UNCHANGED <<protocol, hand, tcpOnly>>
  BY DEF Http
<1>2. CASE H!Loop
  BY <1>1, <1>2, IdleKeeps DEF H!Loop, H!StopSet, StopSet
<1>3. CASE H!Get
  <2>1. CASE queue = <<>>
    BY <1>1, <1>3, <2>1, IdleKeeps DEF H!Get
  <2>2. CASE queue # <<>>
    BY <1>1, <1>3, <2>2, GatherKeeps DEF H!Get, H!Wake, Wake
  <2> QED
    BY <2>1, <2>2
<1>4. CASE H!Hold
  BY <1>1, <1>4, IdleKeeps DEF H!Hold
<1>5. CASE H!Flush
  <2>1. \/ received' = received \o batch /\ undelivered' = undelivered
        \/ /\ received' = received
           /\ undelivered' = undelivered \cup Elements(batch)
    BY <1>5 DEF H!Flush, H!BatchSet, Elements
  <2> QED
    BY <1>1, <1>5, <2>1, FlushKeeps DEF H!Flush, H!StopSet, StopSet
<1> QED
  BY <1>2, <1>3, <1>4, <1>5 DEF Http, H!Worker

LEMMA InitHolds == Init => IInv
<1> SUFFICES ASSUME Init PROVE IInv
  OBVIOUS
<1>1. /\ queue = <<>> /\ batch = <<>> /\ received = <<>>
      /\ putting = {} /\ discarded = {} /\ refused = {} /\ lost = {}
      /\ undelivered = {} /\ halfSent = {} /\ hand = 0 /\ offered = 0
      /\ pc \in {"loop", "done"} /\ stopping = "no" /\ sentAfterStop = 0
      /\ protocol \in {"tcp", "udp", "http"}
  BY DEF Init, NoTcp, T!Init, U!Init, H!Init, T!QueueInit, U!QueueInit,
         H!QueueInit, T!Wake, U!Wake, Wake
<1>2. TypeOK /\ Held /\ LastSend
  <2>1. <<>> \in Seq(Nat)
    BY EmptySeq
  <2> QED
    BY <1>1, <2>1 DEF TypeOK, Held, LastSend, Wake
<1>3. NoSilentLoss
  <2>1. /\ InHand = {} /\ Elements(batch) = {} /\ Elements(received) = {}
        /\ QueuedSentences = {} /\ InPut = {} /\ GivenUp = {}
        /\ Distinct(queue) /\ Distinct(batch)
    BY <1>1, ElementsOfEmpty, QueuedAreElements DEF InHand, InPut, GivenUp, Wake
  <2>2. 1..offered = {}
    BY <1>1
  <2> QED
    BY <2>1, <2>2, LossIsAccounted DEF Accounted
<1> QED
  BY <1>2, <1>3 DEF IInv

LEMMA NextKeeps == IInv /\ [Next]_vars => IInv'
<1> SUFFICES ASSUME IInv, [Next]_vars PROVE IInv'
  OBVIOUS
<1>1. CASE Caller
  BY <1>1, PutFirstKeeps, PutDiscardKeeps, PutAgainKeeps, StopKeeps
     DEF Caller, Put
<1>2. CASE Run \/ Link
  <2>1. CASE Tcp \/ Link
    BY <2>1, TcpKeeps
  <2>2. CASE Udp
    BY <2>2, UdpKeeps
  <2>3. CASE Http
    BY <2>3, HttpKeeps
  <2> QED
    BY <1>2, <2>1, <2>2, <2>3 DEF Run
<1>3. CASE UNCHANGED vars
  <2>1. /\ QueueStill
        /\ UNCHANGED <<protocol, pc, hand, batch, received, halfSent, lost,
                       undelivered, sentAfterStop>>
    BY <1>3 DEF vars, queueVars, putVars, loopVars, shared, tcpOnly, QueueStill
  <2> QED
    BY <2>1, StandStillKeeps
<1> QED
  BY <1>1, <1>2, <1>3 DEF Next

THEOREM Inductive == Spec => []IInv
<1> QED
  BY InitHolds, NextKeeps, PTL DEF Spec

-----------------------------------------------------------------------------
(* Every sentence put is waiting in one place, was sent, or was given up in *)
(* one of the four ways the code knows: whatever put, stop and the loop do  *)
(* in turn, at any size of the queue and of the batch                       *)
(* (forwarder.py:61-73, 100-228).                                           *)
THEOREM NothingIsSilentlyLost == Spec => []NoSilentLoss
<1>1. IInv => NoSilentLoss
  BY DEF IInv
<1> QED
  BY <1>1, Inductive, PTL

(* Once stop has set its flag a worker of any protocol begins one send at   *)
(* most, however many sentences its queue holds (forwarder.py:75-80, 102,   *)
(* 172, 209).                                                               *)
THEOREM StopIsPrompt == Spec => []OneSendAfterStop
<1>1. IInv => OneSendAfterStop
  BY DEF IInv, TypeOK, LastSend, OneSendAfterStop
<1> QED
  BY <1>1, Inductive, PTL

-----------------------------------------------------------------------------
(* What ends a worker: a stop, or an address or a socket that is refused.   *)
DoneIsDue == pc = "done" => stopping # "no" \/ badAddress

LEMMA CallerLeavesDone ==
  ASSUME DoneIsDue, Caller
  PROVE  DoneIsDue'
<1>1. pc' = pc /\ badAddress' = badAddress
  BY DEF Caller, loopVars, shared
<1>2. stopping' = stopping \/ stopping' # "no"
  BY DEF Caller, Put, PutFirst, PutDiscard, PutAgain, StopFlag, StopWake
<1> QED
  BY <1>1, <1>2 DEF DoneIsDue

LEMMA RunLeavesDone ==
  ASSUME DoneIsDue, Run \/ Link
  PROVE  DoneIsDue'
<1>1. CASE Tcp \/ Link
  <2> USE DEF queueVars, T!queueVars, T!envVars
  <2>1. T!Worker \/ T!Link
    BY <1>1 DEF Tcp, Link
  <2>2. stopping' = stopping /\ badAddress' = badAddress
    BY <2>1 DEF T!Worker, T!Loop, T!ConnectOk, T!ConnectFails,
                T!ConnectCrashes, T!BackoffEnds, T!Get, T!Send, T!Requeue,
                T!Link, T!LinkDown, T!LinkUp
  <2>3. CASE T!Loop
    BY <2>2, <2>3 DEF T!Loop, T!StopSet, DoneIsDue
  <2>4. CASE T!ConnectCrashes
    BY <2>2, <2>4 DEF T!ConnectCrashes, DoneIsDue
  <2>5. CASE T!ConnectOk \/ T!ConnectFails \/ T!BackoffEnds \/ T!Get \/ T!Send
             \/ T!Requeue
    <3>1. pc' # "done"
      BY <2>5 DEF T!ConnectOk, T!ConnectFails, T!BackoffEnds, T!Get, T!Send,
                  T!Requeue
    <3> QED
      BY <3>1 DEF DoneIsDue
  <2>6. CASE T!Link
    <3>1. pc' = pc
      BY <2>6 DEF T!Link, T!LinkDown, T!LinkUp
    <3> QED
      BY <2>2, <3>1 DEF DoneIsDue
  <2> QED
    BY <2>1, <2>3, <2>4, <2>5, <2>6 DEF T!Worker
<1>2. CASE Udp
  <2> USE DEF queueVars, U!queueVars
  <2>1. U!Worker
    BY <1>2 DEF Udp
  <2>2. stopping' = stopping /\ badAddress' = badAddress
    BY <2>1 DEF U!Worker, U!Loop, U!Get, U!Send, U!SendCrashes
  <2>3. CASE U!Loop
    BY <2>2, <2>3 DEF U!Loop, U!StopSet, DoneIsDue
  <2>4. CASE U!SendCrashes
    BY <2>2, <2>4 DEF U!SendCrashes, DoneIsDue
  <2>5. CASE U!Get \/ U!Send
    <3>1. pc' # "done"
      BY <2>5 DEF U!Get, U!Send
    <3> QED
      BY <3>1 DEF DoneIsDue
  <2> QED
    BY <2>1, <2>3, <2>4, <2>5 DEF U!Worker
<1>3. CASE Http
  <2> USE DEF queueVars, H!queueVars
  <2>1. H!Worker /\ badAddress' = badAddress
    BY <1>3 DEF Http
  <2>2. stopping' = stopping
    BY <2>1 DEF H!Worker, H!Loop, H!Get, H!Hold, H!Flush
  <2>3. CASE H!Loop
    BY <2>2, <2>3 DEF H!Loop, H!StopSet, DoneIsDue
  <2>4. CASE H!Get \/ H!Hold \/ H!Flush
    <3>1. pc' # "done"
      BY <2>4 DEF H!Get, H!Hold, H!Flush
    <3> QED
      BY <3>1 DEF DoneIsDue
  <2> QED
    BY <2>1, <2>3, <2>4 DEF H!Worker
<1> QED
  BY <1>1, <1>2, <1>3 DEF Run

(* A worker whose address and socket are usable never ends before a stop,   *)
(* whatever becomes of its connection and of what it sends: the half of     *)
(* EndsWhenStopped that needs no fairness (forwarder.py:100-228).           *)
THEOREM LoopsUntilStopped ==
  Spec => [](pc = "done" => stopping # "no" \/ badAddress)
<1>1. Init => DoneIsDue
  BY DEF Init, T!Init, U!Init, H!Init, DoneIsDue
<1>2. DoneIsDue /\ [Next]_vars => DoneIsDue'
  <2> SUFFICES ASSUME DoneIsDue, [Next]_vars PROVE DoneIsDue'
    OBVIOUS
  <2>1. CASE UNCHANGED vars
    BY <2>1 DEF vars, queueVars, loopVars, shared, DoneIsDue
  <2> QED
    BY <2>1, CallerLeavesDone, RunLeavesDone DEF Next
<1>3. DoneIsDue <=> (pc = "done" => stopping # "no" \/ badAddress)
  BY DEF DoneIsDue
<1> QED
  BY <1>1, <1>2, <1>3, PTL DEF Spec

-----------------------------------------------------------------------------
(* The worker's promise, LossyFifo.  A queue without stop's tokens is       *)
(* defined by recursion over the queue; what it is after a step is proved   *)
(* by induction over the queue's places, and induction from the rule that a *)
(* set of finite sets has a smallest one.                                   *)
LEMMA Induct ==
  ASSUME NEW S, 0 \in S, \A n \in Nat : n \in S => n + 1 \in S
  PROVE  \A n \in Nat : n \in S
<1> SUFFICES ASSUME NEW m \in Nat, m \notin S PROVE FALSE
  OBVIOUS
<1> DEFINE Missed == {0..k : k \in (0..m) \ S}
<1>1. Missed \subseteq FiniteSubsetsOf(0..m) /\ Missed # {}
  <2>1. IsFiniteSet(0..m)
    BY FS_Interval
  <2>2. \A k \in 0..m : 0..k \subseteq 0..m
    OBVIOUS
  <2>3. \A k \in 0..m : IsFiniteSet(0..k)
    BY <2>1, <2>2, FS_Subset
  <2> QED
    BY <2>2, <2>3 DEF FiniteSubsetsOf
<1>2. PICK x \in Missed :
        \A y \in Missed : ~(<<y, x>> \in StrictSubsetOrdering(0..m))
  <2>1. IsWellFoundedOn(StrictSubsetOrdering(0..m), FiniteSubsetsOf(0..m))
    BY FS_StrictSubsetOrderingWellFounded
  <2> QED
    BY <1>1, <2>1, WFMin
<1>3. PICK k \in (0..m) \ S : x = 0..k
  OBVIOUS
<1>4. k # 0 /\ k - 1 \in 0..m /\ k - 1 \notin S
  <2>1. k # 0
    OBVIOUS
  <2>2. k - 1 \in Nat /\ (k - 1) + 1 = k
    BY <2>1
  <2> QED
    BY <2>1, <2>2
<1>5. 0..(k - 1) \in Missed
  BY <1>4
<1>6. <<0..(k - 1), x>> \in StrictSubsetOrdering(0..m)
  <2>1. 0..(k - 1) \subseteq 0..k /\ 0..k \subseteq 0..m /\ 0..(k - 1) # 0..k
    BY <1>4
  <2> QED
    BY <1>3, <2>1 DEF StrictSubsetOrdering
<1> QED
  BY <1>2, <1>5, <1>6

(* The function OnlySentences goes by, and one step of it.                  *)
UpTo(seq) ==
  CHOOSE f : f = [i \in 0..Len(seq) |->
                    IF i = 0 THEN <<>>
                    ELSE IF seq[i] = Wake THEN f[i - 1]
                    ELSE Append(f[i - 1], seq[i])]

Further(seq, i, s) == IF seq[i] = Wake THEN s ELSE Append(s, seq[i])

LEMMA OnlyByUpTo == \A seq : OnlySentences(seq) = UpTo(seq)[Len(seq)]
BY DEF OnlySentences, UpTo

LEMMA UpToExists ==
  ASSUME NEW seq \in Seq(Nat)
  PROVE  /\ UpTo(seq)[0] = <<>>
         /\ \A i \in 1..Len(seq) :
              UpTo(seq)[i] = Further(seq, i, UpTo(seq)[i - 1])
<1> DEFINE Rec(f, n) == f = [i \in 0..n |-> IF i = 0 THEN <<>>
                                            ELSE Further(seq, i, f[i - 1])]
           S == {n \in Nat : \E f : Rec(f, n)}
<1>1. 0 \in S
  <2>1. Rec([i \in 0..0 |-> <<>>], 0)
    OBVIOUS
  <2> QED
    BY <2>1
<1>2. ASSUME NEW n \in Nat, n \in S PROVE n + 1 \in S
  <2>1. PICK f : Rec(f, n)
    BY <1>2
  <2> DEFINE g == [i \in 0..(n + 1) |->
                     IF i =< n THEN f[i] ELSE Further(seq, i, f[n])]
  <2>2. \A i \in 0..n : f[i] = IF i = 0 THEN <<>> ELSE Further(seq, i, f[i - 1])
    BY <2>1
  <2>3. ASSUME NEW i \in 0..(n + 1)
        PROVE  g[i] = IF i = 0 THEN <<>> ELSE Further(seq, i, g[i - 1])
    <3>1. CASE i = 0
      BY <2>2, <3>1
    <3>2. CASE i \in 1..n
      <4>1. i - 1 \in 0..n /\ i \in 0..n /\ i - 1 \in 0..(n + 1)
        BY <3>2
      <4>2. g[i] = f[i] /\ g[i - 1] = f[i - 1] /\ i # 0
        BY <3>2, <4>1
      <4> QED
        BY <2>2, <4>1, <4>2
    <3>3. CASE i = n + 1
      <4>1. ~(i =< n) /\ i # 0 /\ i - 1 = n /\ n \in 0..(n + 1)
        BY <3>3
      <4>2. g[i] = Further(seq, i, f[n]) /\ g[n] = f[n]
        BY <4>1
      <4> QED
        BY <4>1, <4>2
    <3> QED
      BY <3>1, <3>2, <3>3
  <2>4. Rec(g, n + 1)
    <3>1. g = [i \in 0..(n + 1) |-> g[i]]
      OBVIOUS
    <3> HIDE DEF g
    <3> QED
      BY <2>3, <3>1
  <2> HIDE DEF g, Rec
  <2>5. \E f2 : Rec(f2, n + 1)
    BY <2>4
  <2> QED
    BY <2>5
<1>3. Len(seq) \in S
  <2> HIDE DEF S
  <2>1. Len(seq) \in Nat
    BY LenProperties
  <2> QED
    BY <1>1, <1>2, <2>1, Induct
<1>4. PICK f : Rec(f, Len(seq))
  BY <1>3
<1>5. Rec(UpTo(seq), Len(seq))
  BY <1>4 DEF UpTo, Further
<1>6. \A i \in 0..Len(seq) :
        UpTo(seq)[i] = IF i = 0 THEN <<>> ELSE Further(seq, i, UpTo(seq)[i - 1])
  BY <1>5
<1>7. 0 \in 0..Len(seq) /\ \A i \in 1..Len(seq) : i \in 0..Len(seq) /\ i # 0
  OBVIOUS
<1> QED
  BY <1>6, <1>7

LEMMA UpToType ==
  ASSUME NEW seq \in Seq(Nat)
  PROVE  \A i \in 0..Len(seq) : UpTo(seq)[i] \in Seq(Nat)
<1> DEFINE S == {n \in Nat : n =< Len(seq) => UpTo(seq)[n] \in Seq(Nat)}
<1>1. 0 \in S
  BY UpToExists, EmptySeq
<1>2. ASSUME NEW n \in Nat, n \in S PROVE n + 1 \in S
  <2> SUFFICES ASSUME n + 1 =< Len(seq) PROVE UpTo(seq)[n + 1] \in Seq(Nat)
    OBVIOUS
  <2>1. n + 1 \in 1..Len(seq) /\ (n + 1) - 1 = n
    OBVIOUS
  <2>2. UpTo(seq)[n] \in Seq(Nat) /\ seq[n + 1] \in Nat
    BY <1>2, <2>1
  <2>3. UpTo(seq)[n + 1] = Further(seq, n + 1, UpTo(seq)[n])
    BY <2>1, UpToExists
  <2> QED
    BY <2>2, <2>3 DEF Further
<1> HIDE DEF S
<1>3. \A n \in Nat : n \in S
  BY <1>1, <1>2, Induct
<1> QED
  BY <1>3 DEF S

(* Joining is associative.                                                  *)
LEMMA Regroup ==
  ASSUME NEW s \in Seq(Nat), NEW t \in Seq(Nat), NEW u \in Seq(Nat)
  PROVE  (s \o t) \o u = s \o (t \o u)
BY ConcatAssociative, SMTT(30)

LEMMA AppendBehind ==
  ASSUME NEW s \in Seq(Nat), NEW t \in Seq(Nat), NEW x \in Nat
  PROVE  Append(s \o t, x) = s \o Append(t, x)
<1>1. s \o t \in Seq(Nat) /\ <<x>> \in Seq(Nat)
  BY ConcatProperties
<1>2. Append(s \o t, x) = (s \o t) \o <<x>> /\ Append(t, x) = t \o <<x>>
  BY <1>1, AppendIsConcat
<1>3. (s \o t) \o <<x>> = s \o (t \o <<x>>)
  BY <1>1, Regroup
<1> QED
  BY <1>2, <1>3

(* The start and the end of the queue.                                      *)
LEMMA OnlyOfEmpty == OnlySentences(<<>>) = <<>>
<1>1. <<>> \in Seq(Nat) /\ Len(<<>>) = 0
  BY EmptySeq
<1> QED
  BY <1>1, OnlyByUpTo, UpToExists

LEMMA OnlyOfAppend ==
  ASSUME NEW seq \in Seq(Nat), NEW x \in Nat
  PROVE  /\ OnlySentences(seq) \in Seq(Nat)
         /\ OnlySentences(Append(seq, x)) =
              IF x = Wake THEN OnlySentences(seq)
                          ELSE Append(OnlySentences(seq), x)
<1> DEFINE more == Append(seq, x)
<1>1. /\ more \in Seq(Nat) /\ Len(more) = Len(seq) + 1 /\ Len(seq) \in Nat
      /\ \A i \in 1..Len(seq) : more[i] = seq[i]
      /\ more[Len(seq) + 1] = x
  BY AppendProperties, LenProperties
<1> HIDE DEF more
<1> DEFINE S == {n \in Nat : n =< Len(seq) => UpTo(more)[n] = UpTo(seq)[n]}
<1>2. 0 \in S
  BY <1>1, UpToExists
<1>3. ASSUME NEW n \in Nat, n \in S PROVE n + 1 \in S
  <2> SUFFICES ASSUME n + 1 =< Len(seq)
               PROVE  UpTo(more)[n + 1] = UpTo(seq)[n + 1]
    OBVIOUS
  <2>1. n + 1 \in 1..Len(seq) /\ n + 1 \in 1..Len(more) /\ (n + 1) - 1 = n
    BY <1>1
  <2>2. UpTo(more)[n + 1] = Further(more, n + 1, UpTo(more)[n])
        /\ UpTo(seq)[n + 1] = Further(seq, n + 1, UpTo(seq)[n])
    BY <1>1, <2>1, UpToExists
  <2>3. UpTo(more)[n] = UpTo(seq)[n] /\ more[n + 1] = seq[n + 1]
    BY <1>1, <1>3, <2>1
  <2> QED
    BY <2>2, <2>3 DEF Further
<1> HIDE DEF S
<1>4. Len(seq) \in S
  BY <1>1, <1>2, <1>3, Induct
<1>5. UpTo(more)[Len(seq)] = UpTo(seq)[Len(seq)]
  BY <1>4 DEF S
<1>6. UpTo(more)[Len(seq) + 1]
        = Further(more, Len(seq) + 1, UpTo(more)[Len(seq)])
  <2>1. Len(seq) + 1 \in 1..Len(more) /\ (Len(seq) + 1) - 1 = Len(seq)
    BY <1>1
  <2> QED
    BY <1>1, <2>1, UpToExists
<1>7. OnlySentences(more) =
        IF x = Wake THEN OnlySentences(seq) ELSE Append(OnlySentences(seq), x)
  BY <1>1, <1>5, <1>6, OnlyByUpTo DEF Further
<1>8. OnlySentences(seq) \in Seq(Nat)
  <2>1. Len(seq) \in 0..Len(seq)
    BY <1>1
  <2>2. UpTo(seq)[Len(seq)] \in Seq(Nat)
    BY <2>1, UpToType
  <2> QED
    BY <2>2, OnlyByUpTo
<1> QED
  BY <1>7, <1>8 DEF more

(* The first of a queue, if it is a sentence.                               *)
First(seq) == IF Head(seq) = Wake THEN <<>> ELSE <<Head(seq)>>

LEMMA OnlyOfTail ==
  ASSUME NEW seq \in Seq(Nat), seq # <<>>
  PROVE  OnlySentences(seq) = First(seq) \o OnlySentences(Tail(seq))
<1> DEFINE rest == Tail(seq)
<1>1. /\ rest \in Seq(Nat) /\ Len(rest) = Len(seq) - 1 /\ Len(rest) \in Nat
      /\ \A i \in 1..Len(rest) : rest[i] = seq[i + 1]
      /\ Head(seq) = seq[1] /\ Head(seq) \in Nat /\ Len(seq) = Len(rest) + 1
  BY HeadTailProperties, LenProperties, EmptySeq
<1> HIDE DEF rest
<1>2. First(seq) \in Seq(Nat)
  BY <1>1 DEF First
<1> DEFINE S == {n \in Nat : n =< Len(rest) =>
                   UpTo(seq)[n + 1] = First(seq) \o UpTo(rest)[n]}
<1>3. 0 \in S
  <2>1. 1 \in 1..Len(seq) /\ 1 - 1 = 0 /\ 0 + 1 = 1
    BY <1>1
  <2>2. UpTo(seq)[1] = Further(seq, 1, <<>>)
    BY <2>1, UpToExists
  <2>3. UpTo(seq)[1] = First(seq)
    BY <1>1, <2>2 DEF Further, First
  <2>4. First(seq) \o <<>> = First(seq)
    BY <1>2, ConcatEmptySeq
  <2> QED
    BY <1>1, <2>1, <2>3, <2>4, UpToExists
<1>4. ASSUME NEW n \in Nat, n \in S PROVE n + 1 \in S
  <2> SUFFICES ASSUME n + 1 =< Len(rest)
               PROVE  UpTo(seq)[(n + 1) + 1] = First(seq) \o UpTo(rest)[n + 1]
    OBVIOUS
  <2>1. /\ n + 1 \in 1..Len(rest) /\ (n + 1) + 1 \in 1..Len(seq)
        /\ n =< Len(rest)
        /\ ((n + 1) + 1) - 1 = n + 1 /\ (n + 1) - 1 = n /\ n \in 0..Len(rest)
    BY <1>1
  <2>2. UpTo(seq)[(n + 1) + 1] = Further(seq, (n + 1) + 1, UpTo(seq)[n + 1])
        /\ UpTo(rest)[n + 1] = Further(rest, n + 1, UpTo(rest)[n])
    BY <1>1, <2>1, UpToExists
  <2>3. /\ UpTo(seq)[n + 1] = First(seq) \o UpTo(rest)[n]
        /\ rest[n + 1] = seq[(n + 1) + 1] /\ rest[n + 1] \in Nat
    <3>1. UpTo(seq)[n + 1] = First(seq) \o UpTo(rest)[n]
      BY <1>4, <2>1
    <3>2. rest[n + 1] = seq[(n + 1) + 1]
      BY <1>1, <2>1
    <3>3. rest[n + 1] \in Nat
      BY <1>1, <2>1, ElementOfSeq
    <3> QED
      BY <3>1, <3>2, <3>3
  <2>4. UpTo(rest)[n] \in Seq(Nat)
    BY <1>1, <2>1, UpToType
  <2>5. Append(First(seq) \o UpTo(rest)[n], rest[n + 1])
          = First(seq) \o Append(UpTo(rest)[n], rest[n + 1])
    <3>1. /\ First(seq) \in Seq(Nat) /\ UpTo(rest)[n] \in Seq(Nat)
          /\ rest[n + 1] \in Nat
      BY <1>2, <2>3, <2>4
    <3> QED
      BY <3>1, AppendBehind
  <2> QED
    BY <2>2, <2>3, <2>5 DEF Further
<1> HIDE DEF S
<1>5. Len(rest) \in S
  BY <1>1, <1>3, <1>4, Induct
<1>6. UpTo(seq)[Len(rest) + 1] = First(seq) \o UpTo(rest)[Len(rest)]
  BY <1>1, <1>5 DEF S
<1> QED
  BY <1>1, <1>6, OnlyByUpTo DEF rest

(* The two parts of a joined sequence.                                      *)
LEMMA Cut ==
  ASSUME NEW a \in Seq(Nat), NEW c \in Seq(Nat)
  PROVE  /\ SubSeq(a \o c, 1, Len(a)) = a
         /\ SubSeq(a \o c, Len(a) + 1, Len(a \o c)) = c
<1>1. /\ a \o c \in Seq(Nat) /\ Len(a \o c) = Len(a) + Len(c)
      /\ Len(a) \in Nat /\ Len(c) \in Nat
      /\ \A i \in 1..(Len(a) + Len(c)) :
           (a \o c)[i] = IF i =< Len(a) THEN a[i] ELSE c[i - Len(a)]
      /\ \A i \in 1..Len(a \o c) : (a \o c)[i] \in Nat
  BY ConcatProperties, LenProperties, ElementOfSeq
<1> DEFINE w == a \o c
<1> HIDE DEF w
<1>2. SubSeq(w, 1, Len(a)) = a
  <2> DEFINE l == SubSeq(w, 1, Len(a))
  <2>1. /\ l \in Seq(Nat) /\ Len(l) = Len(a)
        /\ \A i \in 1..Len(a) : l[i] = w[1 + i - 1]
    <3>1. \A i \in 1..Len(a) : w[i] \in Nat
      BY <1>1 DEF w
    <3>2. /\ l \in Seq(Nat)
          /\ Len(l) = IF 1 =< Len(a) THEN Len(a) - 1 + 1 ELSE 0
          /\ \A i \in 1..(Len(a) - 1 + 1) : l[i] = w[1 + i - 1]
      BY <1>1, <3>1, SubSeqProperties
    <3> QED
      BY <1>1, <3>2
  <2> HIDE DEF l
  <2>2. \A i \in 1..Len(l) : l[i] = a[i]
    BY <1>1, <2>1 DEF w
  <2> QED
    BY <2>1, <2>2, SeqEqual DEF l
<1>3. SubSeq(w, Len(a) + 1, Len(a) + Len(c)) = c
  <2> DEFINE r == SubSeq(w, Len(a) + 1, Len(a) + Len(c))
  <2>1. /\ r \in Seq(Nat) /\ Len(r) = Len(c)
        /\ \A i \in 1..Len(c) : r[i] = w[Len(a) + i]
    <3>1. \A i \in (Len(a) + 1)..(Len(a) + Len(c)) : w[i] \in Nat
      BY <1>1 DEF w
    <3>2. /\ r \in Seq(Nat)
          /\ Len(r) = IF Len(a) + 1 =< Len(a) + Len(c)
                        THEN Len(a) + Len(c) - (Len(a) + 1) + 1 ELSE 0
          /\ \A i \in 1..(Len(a) + Len(c) - (Len(a) + 1) + 1) :
               r[i] = w[Len(a) + 1 + i - 1]
      BY <1>1, <3>1, SubSeqProperties
    <3> QED
      BY <1>1, <3>2
  <2> HIDE DEF r
  <2>2. \A i \in 1..Len(r) : r[i] = c[i]
    BY <1>1, <2>1 DEF w
  <2> QED
    BY <2>1, <2>2, SeqEqual DEF r
<1> QED
  BY <1>1, <1>2, <1>3 DEF w

-----------------------------------------------------------------------------
(* Pending in its parts: what is in hand, the batch, the queue and the put. *)
Single(x) == IF x = Wake THEN <<>> ELSE <<x>>
Chosen(set) == IF set = {} THEN <<>> ELSE <<CHOOSE s \in set : TRUE>>

LEMMA PendingIs ==
  /\ Pending = ((Single(hand) \o batch) \o OnlySentences(queue)) \o Chosen(InPut)
  /\ Pending' = ((Single(hand') \o batch') \o OnlySentences(queue'))
                  \o Chosen(InPut')
BY DEF Pending, Single, Chosen, InPut

(* Steps of the promise, on a line of sentences cut in parts.               *)
LEMMA Loses ==
  ASSUME NEW a \in Seq(Nat), NEW b \in Seq(Nat), NEW c \in Seq(Nat), b # <<>>,
         Pending = (a \o b) \o c, Pending' = a \o c,
         UNCHANGED <<protocol, received, offered>>
  PROVE  Fifo!Lose
<1>1. a \o b \in Seq(Nat) /\ b \o c \in Seq(Nat)
      /\ Len(a \o b) = Len(a) + Len(b)
  BY ConcatProperties
<1>2. (a \o b) \o c = a \o (b \o c)
  BY Regroup
<1>3. Len((a \o b) \o c) = Len(a \o b) + Len(c)
  BY <1>1, ConcatProperties
<1>4. Len(a) \in Nat /\ Len(b) \in Nat \ {0} /\ Len(c) \in Nat
  BY LenProperties, EmptySeq
<1>5. SubSeq(Pending, 1, Len(a)) = a
  BY <1>1, <1>2, Cut
<1>6. SubSeq(Pending, Len(a \o b) + 1, Len(Pending)) = c
  BY <1>1, Cut
<1>7. Len(a) \in 0..Len(Pending) /\ Len(a \o b) \in 0..Len(Pending)
      /\ Len(a) < Len(a \o b)
  BY <1>1, <1>3, <1>4
<1>8. Pending' = SubSeq(Pending, 1, Len(a))
                   \o SubSeq(Pending, Len(a \o b) + 1, Len(Pending))
  BY <1>5, <1>6
<1> QED
  BY <1>7, <1>8, Zenon DEF Fifo!Lose

LEMMA Delivers ==
  ASSUME NEW a \in Seq(Nat), NEW c \in Seq(Nat), a # <<>>,
         Pending = a \o c, Pending' = c, received' = received \o a,
         UNCHANGED <<protocol, offered>>
  PROVE  Fifo!Deliver
<1>1. Len(a \o c) = Len(a) + Len(c) /\ Len(a) \in Nat \ {0} /\ Len(c) \in Nat
  BY ConcatProperties, LenProperties, EmptySeq
<1>2. Len(a) \in 1..Len(Pending)
  BY <1>1
<1>3. received' = received \o SubSeq(Pending, 1, Len(a))
      /\ Pending' = SubSeq(Pending, Len(a) + 1, Len(Pending))
  BY Cut
<1> QED
  BY <1>2, <1>3, Zenon DEF Fifo!Deliver

LEMMA PutsBack ==
  ASSUME NEW x \in Nat, NEW q \in Seq(Nat), NEW p \in Seq(Nat),
         Pending = (<<x>> \o q) \o p, Pending' = (q \o <<x>>) \o p,
         protocol = "tcp", UNCHANGED <<protocol, received, offered>>
  PROVE  Fifo!PutBack
<1> DEFINE f == <<x>>
           n == 1 + Len(q)
<1>1. /\ f \in Seq(Nat) /\ Len(f) = 1 /\ f[1] = x
      /\ f \o q \in Seq(Nat) /\ Len(f \o q) = n
      /\ Len(Pending) = n + Len(p) /\ Len(q) \in Nat /\ Len(p) \in Nat
      /\ Pending \in Seq(Nat)
  <2>1. f \in Seq(Nat) /\ Len(f) = 1 /\ f[1] = x
    OBVIOUS
  <2> HIDE DEF f
  <2> QED
    BY <2>1, ConcatProperties, LenProperties DEF f
<1>2. n \in 1..Len(Pending)
  BY <1>1
<1>3. SubSeq(Pending, n + 1, Len(Pending)) = p
  BY <1>1, Cut
<1>4. Head(Pending) = x
  <2>1. Pending[1] = x
    <3>1. /\ 1 \in 1..(Len(f \o q) + Len(p)) /\ 1 =< Len(f \o q)
          /\ 1 \in 1..(Len(f) + Len(q))
      BY <1>1
    <3>2. Pending[1] = (f \o q)[1]
      BY <1>1, <3>1, ConcatProperties
    <3>3. (f \o q)[1] = f[1]
      BY <1>1, <3>1, ConcatProperties
    <3> QED
      BY <1>1, <3>2, <3>3
  <2> QED
    BY <1>1, <2>1
<1>5. SubSeq(Pending, 2, n) = q
  <2>1. SubSeq(f \o q, 2, n) = q
    <3>1. Len(f) + 1 = 2 /\ Len(f \o q) = n
      BY <1>1
    <3> QED
      BY <1>1, <3>1, Cut
  <2>2. CASE q = <<>>
    <3>1. n = 1
      BY <2>2
    <3> QED
      BY <2>2, <3>1, SubSeqEmpty
  <2>3. CASE q # <<>>
    <3>1. /\ 2 \in 1..Len(f \o q) /\ n \in 1..Len(f \o q)
      BY <1>1, <2>3, EmptySeq
    <3>2. SubSeq(Pending, 2, n) = SubSeq(f \o q, 2, n)
      BY <1>1, <3>1, SubSeqOfConcat1
    <3> QED
      BY <2>1, <3>2
  <2> QED
    BY <2>2, <2>3
<1>6. Pending' = SubSeq(Pending, 2, n) \o <<Head(Pending)>>
                   \o SubSeq(Pending, n + 1, Len(Pending))
  BY <1>3, <1>4, <1>5
<1> HIDE DEF n, f
<1> QED
  BY <1>2, <1>6, Zenon DEF Fifo!PutBack

LEMMA QueueStart ==
  ASSUME NEW seq \in Seq(Nat), seq # <<>>
  PROVE  /\ First(seq) \in Seq(Nat) /\ OnlySentences(Tail(seq)) \in Seq(Nat)
         /\ OnlySentences(seq) = First(seq) \o OnlySentences(Tail(seq))
         /\ First(seq) = <<>> <=> Head(seq) = Wake
         /\ First(seq) = Single(Head(seq)) /\ Head(seq) \in Nat
<1>1. Head(seq) \in Nat /\ Tail(seq) \in Seq(Nat) /\ 0 \in Nat
  BY HeadTailProperties
<1>2. OnlySentences(Tail(seq)) \in Seq(Nat)
  BY <1>1, OnlyOfAppend
<1> QED
  BY <1>1, <1>2, OnlyOfTail DEF First, Single

LEMMA Accepts ==
  ASSUME NEW w \in Seq(Nat), Pending = w, Pending' = Append(w, offered'),
         offered' = offered + 1, UNCHANGED <<protocol, received>>
  PROVE  Fifo!Accept
BY DEF Fifo!Accept

LEMMA SendsTwice ==
  ASSUME NEW x \in Nat, NEW c \in Seq(Nat), protocol = "tcp",
         Pending = <<x>> \o c, Pending' = Pending,
         received' = Append(received, x), UNCHANGED <<protocol, offered>>
  PROVE  Fifo!DeliverAndKeep
<1>1. <<x>> \in Seq(Nat) /\ Len(<<x>>) = 1 /\ <<x>>[1] = x
  OBVIOUS
<1>2. /\ <<x>> \o c \in Seq(Nat) /\ Len(<<x>> \o c) = 1 + Len(c)
      /\ (<<x>> \o c)[1] = x /\ Len(c) \in Nat
  <2>1. 1 \in 1..(1 + Len(c)) /\ Len(c) \in Nat
    BY LenProperties
  <2> QED
    BY <1>1, <2>1, ConcatProperties
<1>3. Pending # <<>> /\ Head(Pending) = x
  BY <1>2
<1> QED
  BY <1>3 DEF Fifo!DeliverAndKeep

(* What the parts of the line are sequences of.                             *)
LEMMA Parts ==
  ASSUME IInv
  PROVE  /\ Single(hand) \in Seq(Nat) /\ batch \in Seq(Nat)
         /\ OnlySentences(queue) \in Seq(Nat) /\ Chosen(InPut) \in Seq(Nat)
         /\ Single(hand) \o batch \in Seq(Nat)
         /\ Pending = ((Single(hand) \o batch) \o OnlySentences(queue))
                        \o Chosen(InPut)
<1>1. Single(hand) \in Seq(Nat) /\ batch \in Seq(Nat)
  BY DEF IInv, TypeOK, Single
<1>2. OnlySentences(queue) \in Seq(Nat)
  <2>1. queue \in Seq(Nat) /\ 0 \in Nat
    BY DEF IInv, TypeOK
  <2> QED
    BY <2>1, OnlyOfAppend
<1>3. Chosen(InPut) \in Seq(Nat)
  <2>1. InPut \subseteq Nat
    BY DEF IInv, TypeOK, NoSilentLoss, Waiting
  <2>2. CASE InPut = {}
    <3>1. <<>> \in Seq(Nat)
      BY EmptySeq
    <3> QED
      BY <2>2, <3>1 DEF Chosen
  <2>3. CASE InPut # {}
    <3>1. (CHOOSE s \in InPut : TRUE) \in InPut
      BY <2>3
    <3>2. PICK e \in Nat : e = CHOOSE s \in InPut : TRUE
      BY <2>1, <3>1
    <3>3. <<e>> \in Seq(Nat)
      OBVIOUS
    <3> QED
      BY <2>3, <3>2, <3>3 DEF Chosen
  <2> QED
    BY <2>2, <2>3
<1> QED
  BY <1>1, <1>2, <1>3, ConcatProperties, PendingIs

LEMMA ChosenOne == Chosen({}) = <<>> /\ \A x : Chosen({x}) = <<x>>
<1>1. \A x : (CHOOSE s \in {x} : TRUE) = x
  OBVIOUS
<1> QED
  BY <1>1 DEF Chosen

FifoStep == Fifo!Next \/ UNCHANGED Fifo!vars

LEMMA Stutters ==
  ASSUME Pending' = Pending, UNCHANGED <<protocol, received, offered>>
  PROVE  FifoStep
BY DEF FifoStep, Fifo!vars

(* put.                                                                     *)
LEMMA PutFirstMaps ==
  ASSUME IInv, PutFirst, UNCHANGED loopVars
  PROVE  FifoStep
<1> DEFINE front == Single(hand) \o batch
           q == OnlySentences(queue)
           x == offered + 1
<1>1. /\ hand' = hand /\ batch' = batch
      /\ UNCHANGED <<protocol, received>>
  BY DEF loopVars, shared
<1>2. /\ front \in Seq(Nat) /\ q \in Seq(Nat) /\ front \o q \in Seq(Nat)
      /\ Pending = (front \o q) \o Chosen(InPut)
  BY Parts, ConcatProperties
<1>3. InPut = {} /\ Chosen({}) = <<>> /\ (front \o q) \o <<>> = front \o q
  BY <1>2, ChosenOne, ConcatEmptySeq DEF PutFirst, InPut
<1>4. Pending = front \o q
  BY <1>2, <1>3
<1>5. offered' = x /\ x \in Nat /\ x # Wake /\ queue \in Seq(Nat)
  BY DEF PutFirst, IInv, TypeOK, Wake
<1>6. Pending' = (front \o OnlySentences(queue')) \o Chosen(InPut')
  BY <1>1, PendingIs
<1> HIDE DEF front, q, x
<1>7. Pending' = Append(front \o q, x)
  <2>1. CASE Full
    <3>1. queue' = queue /\ putting' = {[s |-> x, step |-> "discard"]}
      BY <1>5, <2>1 DEF PutFirst
    <3>2. InPut' = {x}
      BY <3>1 DEF InPut
    <3>3. Chosen({x}) = <<x>> /\ Append(front \o q, x) = (front \o q) \o <<x>>
      BY <1>2, <1>5, ChosenOne, AppendIsConcat
    <3> QED
      BY <1>6, <3>1, <3>2, <3>3 DEF q
  <2>2. CASE ~Full
    <3>1. queue' = Append(queue, x) /\ putting' = {}
      BY <1>5, <2>2 DEF PutFirst
    <3>2. InPut' = {}
      BY <3>1 DEF InPut
    <3>3. OnlySentences(Append(queue, x)) = Append(q, x)
      BY <1>5, OnlyOfAppend DEF q
    <3>4. Append(front \o q, x) = front \o Append(q, x)
      BY <1>2, <1>5, AppendBehind
    <3>5. front \o Append(q, x) \in Seq(Nat)
      BY <1>2, <1>5, <3>4, AppendProperties
    <3>6. (front \o Append(q, x)) \o <<>> = front \o Append(q, x)
      BY <3>5, ConcatEmptySeq
    <3>7. Pending' = (front \o Append(q, x)) \o <<>>
      BY <1>3, <1>6, <3>1, <3>2, <3>3
    <3> QED
      BY <3>4, <3>6, <3>7
  <2> QED
    BY <2>1, <2>2
<1>8. Fifo!Accept
  BY <1>1, <1>2, <1>4, <1>5, <1>7, Accepts DEF x
<1> QED
  BY <1>8 DEF FifoStep, Fifo!Next

LEMMA PutDiscardMaps ==
  ASSUME IInv, PutDiscard, UNCHANGED loopVars
  PROVE  FifoStep
<1> DEFINE front == Single(hand) \o batch
           p == Chosen(InPut)
           f == First(queue)
           t == OnlySentences(Tail(queue))
<1>1. /\ hand' = hand /\ batch' = batch
      /\ UNCHANGED <<protocol, received, offered>>
  BY DEF loopVars, shared, PutDiscard
<1>2. /\ front \in Seq(Nat) /\ p \in Seq(Nat) /\ queue \in Seq(Nat)
      /\ Pending = (front \o OnlySentences(queue)) \o p
  BY Parts DEF IInv, TypeOK
<1>3. InPut' = InPut
  <2>1. PICK m \in putting : putting' = {[m EXCEPT !.step = "again"]}
    BY DEF PutDiscard
  <2>2. InPut = {m.s}
    BY DEF IInv, Held, InPut
  <2>3. InPut' = {[m EXCEPT !.step = "again"].s}
    BY <2>1 DEF InPut
  <2>4. [m EXCEPT !.step = "again"].s = m.s
    OBVIOUS
  <2> QED
    BY <2>2, <2>3, <2>4
<1>4. Pending' = (front \o OnlySentences(queue')) \o p
  BY <1>1, <1>3, PendingIs
<1>5. CASE queue = <<>>
  <2>1. queue' = queue
    BY <1>5 DEF PutDiscard
  <2>2. Pending' = Pending
    BY <1>2, <1>4, <2>1
  <2> QED
    BY <1>1, <2>2, Stutters
<1>6. CASE queue # <<>>
  <2>1. queue' = Tail(queue)
    BY <1>6 DEF PutDiscard
  <2>2. /\ f \in Seq(Nat) /\ t \in Seq(Nat)
        /\ OnlySentences(queue) = f \o t
        /\ f = <<>> <=> Head(queue) = Wake
    BY <1>2, <1>6, QueueStart
  <2> HIDE DEF front, p, f, t
  <2>3. Pending = (front \o (f \o t)) \o p
    BY <1>2, <2>2
  <2>4. Pending' = (front \o t) \o p
    BY <1>4, <2>1 DEF t
  <2>5. CASE f = <<>>
    <3>1. f \o t = t
      BY <2>2, <2>5, ConcatEmptySeq
    <3>2. Pending' = Pending
      BY <2>3, <2>4, <3>1
    <3> QED
      BY <1>1, <3>2, Stutters
  <2>6. CASE f # <<>>
    <3>1. /\ front \o (f \o t) = (front \o f) \o t
          /\ front \o f \in Seq(Nat) /\ t \o p \in Seq(Nat)
          /\ (front \o t) \o p = front \o (t \o p)
      <4>1. front \in Seq(Nat) /\ f \in Seq(Nat) /\ t \in Seq(Nat)
            /\ p \in Seq(Nat)
        BY <1>2, <2>2
      <4>2. front \o (f \o t) = (front \o f) \o t
        BY <4>1, Regroup, SMTT(30)
      <4>3. (front \o t) \o p = front \o (t \o p)
        BY <4>1, Regroup, SMTT(30)
      <4>4. front \o f \in Seq(Nat) /\ t \o p \in Seq(Nat)
        BY <4>1, ConcatProperties
      <4> QED
        BY <4>2, <4>3, <4>4
    <3>2. ((front \o f) \o t) \o p = (front \o f) \o (t \o p)
      <4>1. front \o f \in Seq(Nat) /\ t \in Seq(Nat) /\ p \in Seq(Nat)
        BY <1>2, <2>2, <3>1
      <4> QED
        BY <4>1, Regroup
    <3>3. Pending = (front \o f) \o (t \o p)
      BY <2>3, <3>1, <3>2
    <3>4. Pending' = front \o (t \o p)
      BY <2>4, <3>1
    <3>5. Fifo!Lose
      BY <1>1, <1>2, <2>2, <2>6, <3>1, <3>3, <3>4, Loses
    <3> QED
      BY <3>5 DEF FifoStep, Fifo!Next
  <2> QED
    BY <2>5, <2>6
<1> QED
  BY <1>5, <1>6

LEMMA PutAgainMaps ==
  ASSUME IInv, PutAgain, UNCHANGED loopVars
  PROVE  FifoStep
<1> DEFINE front == Single(hand) \o batch
           q == OnlySentences(queue)
<1>1. /\ hand' = hand /\ batch' = batch
      /\ UNCHANGED <<protocol, received, offered>> /\ putting' = {}
  BY DEF loopVars, shared, PutAgain
<1>2. /\ front \in Seq(Nat) /\ q \in Seq(Nat) /\ queue \in Seq(Nat)
      /\ front \o q \in Seq(Nat)
      /\ Pending = (front \o q) \o Chosen(InPut)
  BY Parts, ConcatProperties DEF IInv, TypeOK
<1>3. PICK m \in putting :
        IF Full THEN queue' = queue ELSE queue' = Append(queue, m.s)
  BY DEF PutAgain
<1>4. m.s \in Nat /\ m.s # Wake /\ InPut = {m.s}
  <2>1. InPut = {m.s}
    BY DEF IInv, Held, InPut
  <2>2. InPut \subseteq 1..offered /\ offered \in Nat
    BY DEF IInv, TypeOK, NoSilentLoss, Waiting
  <2> QED
    BY <2>1, <2>2 DEF Wake
<1>5. Chosen({m.s}) = <<m.s>> /\ InPut' = {} /\ Chosen({}) = <<>>
  BY <1>1, ChosenOne DEF InPut
<1>6. Pending = (front \o q) \o <<m.s>>
  BY <1>2, <1>4, <1>5
<1>7. Pending' = (front \o OnlySentences(queue')) \o <<>>
  BY <1>1, <1>5, PendingIs
<1> HIDE DEF front, q
<1>8. CASE Full
  <2>1. queue' = queue
    BY <1>3, <1>8
  <2>2. Pending' = (front \o q) \o <<>>
    BY <1>7, <2>1 DEF q
  <2>3. Pending = ((front \o q) \o <<m.s>>) \o <<>>
    <3>1. (front \o q) \o <<m.s>> \in Seq(Nat)
      BY <1>2, <1>4, ConcatProperties
    <3> QED
      BY <1>6, <3>1, ConcatEmptySeq
  <2>4. Fifo!Lose
    <3>1. <<m.s>> \in Seq(Nat) /\ <<m.s>> # <<>> /\ <<>> \in Seq(Nat)
      BY <1>4
    <3> QED
      BY <1>1, <1>2, <2>2, <2>3, <3>1, Loses
  <2> QED
    BY <2>4 DEF FifoStep, Fifo!Next
<1>9. CASE ~Full
  <2>1. queue' = Append(queue, m.s)
    BY <1>3, <1>9
  <2>2. OnlySentences(queue') = Append(q, m.s)
    BY <1>2, <1>4, <2>1, OnlyOfAppend DEF q
  <2>3. Append(front \o q, m.s) = front \o Append(q, m.s)
    BY <1>2, <1>4, AppendBehind
  <2>4. Append(front \o q, m.s) = (front \o q) \o <<m.s>>
    BY <1>2, <1>4, AppendIsConcat
  <2>5. Append(front \o q, m.s) \in Seq(Nat)
    BY <1>2, <1>4, AppendProperties
  <2>6. Append(front \o q, m.s) \o <<>> = Append(front \o q, m.s)
    BY <2>5, ConcatEmptySeq
  <2>7. Pending' = Pending
    BY <1>6, <1>7, <2>2, <2>3, <2>4, <2>6
  <2> QED
    BY <1>1, <2>7, Stutters
<1> QED
  BY <1>8, <1>9

(* stop's token is no sentence.                                             *)
LEMMA StopMaps ==
  ASSUME IInv, StopFlag \/ StopWake, UNCHANGED loopVars
  PROVE  FifoStep
<1>1. /\ hand' = hand /\ batch' = batch /\ putting' = putting
      /\ UNCHANGED <<protocol, received, offered>>
      /\ queue' = queue \/ queue' = Append(queue, Wake)
  BY DEF loopVars, shared, StopFlag, StopWake, putVars
<1>2. InPut' = InPut
  BY <1>1 DEF InPut
<1>3. OnlySentences(queue') = OnlySentences(queue)
  <2>1. queue \in Seq(Nat) /\ Wake \in Nat
    BY DEF IInv, TypeOK, Wake
  <2>2. OnlySentences(Append(queue, Wake)) = OnlySentences(queue)
    BY <2>1, OnlyOfAppend
  <2> QED
    BY <1>1, <2>2
<1>4. Pending' = Pending
  BY <1>1, <1>2, <1>3, PendingIs
<1> QED
  BY <1>1, <1>4, Stutters

(* The loops.                                                               *)
LEMMA IdleMaps ==
  ASSUME QueueStill, UNCHANGED <<protocol, hand, batch, received>>
  PROVE  FifoStep
<1>1. Pending' = Pending /\ offered' = offered
  BY QueueStays, PendingIs
<1> QED
  BY <1>1, Stutters

LEMMA GetMaps ==
  ASSUME IInv, protocol # "http", pc = "get", queue # <<>>,
         queue' = Tail(queue), hand' = Head(queue),
         UNCHANGED <<offered, putting, protocol, batch, received>>
  PROVE  FifoStep
<1> DEFINE f == First(queue)
           t == OnlySentences(Tail(queue))
           p == Chosen(InPut)
<1>1. batch = <<>> /\ hand = Wake /\ queue \in Seq(Nat)
  BY DEF IInv, TypeOK, Held
<1>2. /\ f \in Seq(Nat) /\ t \in Seq(Nat) /\ p \in Seq(Nat)
      /\ OnlySentences(queue) = f \o t /\ f = Single(Head(queue))
  BY <1>1, QueueStart, Parts
<1>3. Pending = ((<<>> \o <<>>) \o (f \o t)) \o p
  BY <1>1, <1>2, PendingIs DEF Single
<1>4. InPut' = InPut
  BY DEF InPut
<1>5. Pending' = ((f \o <<>>) \o t) \o p
  BY <1>1, <1>2, <1>4, PendingIs
<1>6. <<>> \o <<>> = <<>> /\ <<>> \o (f \o t) = f \o t /\ f \o <<>> = f
  <2>1. <<>> \in Seq(Nat) /\ f \o t \in Seq(Nat)
    BY <1>2, ConcatProperties
  <2> QED
    BY <1>2, <2>1, ConcatEmptySeq
<1>7. Pending' = Pending
  BY <1>3, <1>5, <1>6
<1> QED
  BY <1>7, Stutters

LEMMA GatherMaps ==
  ASSUME IInv, protocol = "http", queue # <<>>, queue' = Tail(queue),
         batch' = IF Head(queue) = Wake THEN batch ELSE Append(batch, Head(queue)),
         UNCHANGED <<offered, putting, protocol, hand, received>>
  PROVE  FifoStep
<1> DEFINE f == First(queue)
           t == OnlySentences(Tail(queue))
           p == Chosen(InPut)
<1>1. hand = Wake /\ queue \in Seq(Nat) /\ batch \in Seq(Nat)
  BY DEF IInv, TypeOK, Held
<1>2. /\ f \in Seq(Nat) /\ t \in Seq(Nat) /\ p \in Seq(Nat)
      /\ OnlySentences(queue) = f \o t /\ f = Single(Head(queue))
      /\ Head(queue) \in Nat
  BY <1>1, QueueStart, Parts
<1>3. batch' = batch \o f
  <2>1. CASE Head(queue) = Wake
    BY <1>1, <1>2, <2>1, ConcatEmptySeq DEF Single
  <2>2. CASE Head(queue) # Wake
    BY <1>1, <1>2, <2>2, AppendIsConcat DEF Single
  <2> QED
    BY <2>1, <2>2
<1>4. <<>> \o batch = batch /\ <<>> \o (batch \o f) = batch \o f
  <2>1. batch \o f \in Seq(Nat)
    BY <1>1, <1>2, ConcatProperties
  <2> QED
    BY <1>1, <2>1, ConcatEmptySeq
<1>5. Pending = (batch \o (f \o t)) \o p
  BY <1>1, <1>2, <1>4, PendingIs DEF Single
<1>6. InPut' = InPut
  BY DEF InPut
<1>7. Pending' = ((batch \o f) \o t) \o p
  BY <1>1, <1>3, <1>4, <1>6, PendingIs DEF Single
<1>8. (batch \o f) \o t = batch \o (f \o t)
  BY <1>1, <1>2, Regroup
<1>9. Pending' = Pending
  BY <1>5, <1>7, <1>8
<1> QED
  BY <1>9, Stutters

(* What a worker holds is first in the line.                                *)
LEMMA HandIsFirst ==
  ASSUME IInv, pc \in {"send", "requeue"}
  PROVE  /\ hand \in Nat /\ hand # Wake /\ batch = <<>> /\ <<hand>> \in Seq(Nat)
         /\ Pending = <<hand>> \o (OnlySentences(queue) \o Chosen(InPut))
         /\ Pending = (<<hand>> \o OnlySentences(queue)) \o Chosen(InPut)
<1>1. hand \in Nat /\ hand # Wake /\ batch = <<>> /\ <<hand>> \in Seq(Nat)
  BY DEF IInv, TypeOK, Held
<1>2. <<hand>> \o <<>> = <<hand>>
  BY <1>1, ConcatEmptySeq
<1>3. Pending = (<<hand>> \o OnlySentences(queue)) \o Chosen(InPut)
  BY <1>1, <1>2, PendingIs DEF Single
<1>4. (<<hand>> \o OnlySentences(queue)) \o Chosen(InPut)
        = <<hand>> \o (OnlySentences(queue) \o Chosen(InPut))
  <2>1. OnlySentences(queue) \in Seq(Nat) /\ Chosen(InPut) \in Seq(Nat)
    BY Parts
  <2> QED
    BY <1>1, <2>1, Regroup
<1> QED
  BY <1>1, <1>3, <1>4

LEMMA SendMaps ==
  ASSUME IInv, QueueStill, pc = "send", UNCHANGED <<protocol, batch>>,
         received' \in {received, Append(received, hand)},
         \/ hand' = Wake
         \/ hand' = hand /\ protocol = "tcp"
  PROVE  FifoStep
<1> DEFINE rest == OnlySentences(queue) \o Chosen(InPut)
<1>1. /\ hand \in Nat /\ hand # Wake /\ batch = <<>> /\ <<hand>> \in Seq(Nat)
      /\ Pending = <<hand>> \o rest
      /\ rest \in Seq(Nat) /\ received \in Seq(Nat)
  BY HandIsFirst, Parts, ConcatProperties DEF IInv, TypeOK
<1>2. /\ OnlySentences(queue') = OnlySentences(queue) /\ InPut' = InPut
      /\ offered' = offered
  BY QueueStays
<1>3. Append(received, hand) = received \o <<hand>>
  BY <1>1, AppendIsConcat
<1>4. CASE hand' = Wake
  <2>1. Pending' = rest
    <3>1. (<<>> \o <<>>) \o OnlySentences(queue) = OnlySentences(queue)
      <4>1. <<>> \in Seq(Nat)
        BY EmptySeq
      <4> QED
        BY <4>1, Parts, ConcatEmptySeq
    <3> QED
      BY <1>1, <1>2, <1>4, <3>1, PendingIs DEF Single
  <2> HIDE DEF rest
  <2>2. CASE received' = Append(received, hand)
    <3>1. <<hand>> # <<>>
      OBVIOUS
    <3>2. Fifo!Deliver
      BY <1>1, <1>2, <1>3, <2>1, <2>2, <3>1, Delivers
    <3> QED
      BY <3>2 DEF FifoStep, Fifo!Next
  <2>3. CASE received' = received
    <3>1. /\ <<>> \in Seq(Nat) /\ <<>> \o <<hand>> = <<hand>>
          /\ <<>> \o rest = rest /\ <<hand>> # <<>>
      BY <1>1, EmptySeq, ConcatEmptySeq
    <3>2. Pending = (<<>> \o <<hand>>) \o rest /\ Pending' = <<>> \o rest
      BY <1>1, <2>1, <3>1
    <3>3. Fifo!Lose
      BY <1>1, <1>2, <2>3, <3>1, <3>2, Loses
    <3> QED
      BY <3>3 DEF FifoStep, Fifo!Next
  <2> QED
    BY <2>2, <2>3
<1>5. CASE hand' = hand /\ protocol = "tcp"
  <2>1. Pending' = Pending
    BY <1>2, <1>5, PendingIs
  <2>2. CASE received' = Append(received, hand)
    <3> HIDE DEF rest
    <3>1. Fifo!DeliverAndKeep
      BY <1>1, <1>2, <1>5, <2>1, <2>2, SendsTwice
    <3> QED
      BY <3>1 DEF FifoStep, Fifo!Next
  <2>3. CASE received' = received
    BY <1>2, <2>1, <2>3, Stutters
  <2> QED
    BY <2>2, <2>3
<1> QED
  BY <1>4, <1>5

LEMMA RequeueMaps ==
  ASSUME IInv, protocol = "tcp", pc = "requeue", hand' = Wake,
         IF Full THEN queue' = queue ELSE queue' = Append(queue, hand),
         UNCHANGED <<offered, putting, protocol, batch, received>>
  PROVE  FifoStep
<1> DEFINE q == OnlySentences(queue)
           p == Chosen(InPut)
<1>1. /\ hand \in Nat /\ hand # Wake /\ batch = <<>> /\ <<hand>> \in Seq(Nat)
      /\ Pending = <<hand>> \o (q \o p) /\ Pending = (<<hand>> \o q) \o p
      /\ q \in Seq(Nat) /\ p \in Seq(Nat) /\ queue \in Seq(Nat)
  BY HandIsFirst, Parts DEF IInv, TypeOK
<1>2. InPut' = InPut
  BY DEF InPut
<1>3. Pending' = ((<<>> \o <<>>) \o OnlySentences(queue')) \o p
  BY <1>1, <1>2, PendingIs DEF Single
<1>4. <<>> \in Seq(Nat) /\ <<>> \o <<>> = <<>>
  BY EmptySeq, ConcatEmptySeq
<1>5. CASE Full
  <2>1. Pending' = (<<>> \o q) \o p
    BY <1>3, <1>4, <1>5
  <2> HIDE DEF q, p
  <2>2. q \o p \in Seq(Nat) /\ <<>> \o q = q
    BY <1>1, ConcatProperties, ConcatEmptySeq
  <2>3. <<>> \o (q \o p) = q \o p /\ <<>> \o <<hand>> = <<hand>>
    BY <1>1, <2>2, ConcatEmptySeq
  <2>4. Pending = (<<>> \o <<hand>>) \o (q \o p) /\ Pending' = <<>> \o (q \o p)
    BY <1>1, <2>1, <2>2, <2>3
  <2>5. <<hand>> # <<>>
    OBVIOUS
  <2>6. Fifo!Lose
    BY <1>1, <1>4, <2>2, <2>4, <2>5, Loses
  <2> QED
    BY <2>6 DEF FifoStep, Fifo!Next
<1>6. CASE ~Full
  <2>1. OnlySentences(queue') = Append(q, hand)
    BY <1>1, <1>6, OnlyOfAppend
  <2> HIDE DEF q, p
  <2>2. Append(q, hand) = q \o <<hand>> /\ Append(q, hand) \in Seq(Nat)
    BY <1>1, AppendIsConcat, AppendProperties
  <2>3. <<>> \o Append(q, hand) = Append(q, hand)
    BY <2>2, ConcatEmptySeq
  <2>4. Pending' = (q \o <<hand>>) \o p
    BY <1>3, <1>4, <2>1, <2>2, <2>3
  <2>5. Fifo!PutBack
    BY <1>1, <2>4, PutsBack
  <2> QED
    BY <2>5 DEF FifoStep, Fifo!Next
<1> QED
  BY <1>5, <1>6

LEMMA FlushMaps ==
  ASSUME IInv, QueueStill, protocol = "http", batch # <<>>, batch' = <<>>,
         received' \in {received, received \o batch},
         UNCHANGED <<protocol, hand>>
  PROVE  FifoStep
<1> DEFINE q == OnlySentences(queue)
           p == Chosen(InPut)
<1>1. /\ hand = Wake /\ batch \in Seq(Nat)
      /\ q \in Seq(Nat) /\ p \in Seq(Nat) /\ <<>> \in Seq(Nat)
  BY Parts, EmptySeq DEF IInv, Held
<1>2. /\ OnlySentences(queue') = OnlySentences(queue) /\ InPut' = InPut
      /\ offered' = offered
  BY QueueStays
<1>3. <<>> \o batch = batch /\ <<>> \o <<>> = <<>> /\ <<>> \o q = q
  BY <1>1, ConcatEmptySeq
<1>4. Pending = (batch \o q) \o p
  BY <1>1, <1>3, PendingIs DEF Single
<1>5. Pending' = q \o p
  BY <1>1, <1>2, <1>3, PendingIs DEF Single
<1> HIDE DEF q, p
<1>6. Pending = batch \o (q \o p) /\ q \o p \in Seq(Nat)
  BY <1>1, <1>4, Regroup, ConcatProperties
<1>7. CASE received' = received \o batch
  <2>1. Fifo!Deliver
    BY <1>1, <1>2, <1>5, <1>6, <1>7, Delivers
  <2> QED
    BY <2>1 DEF FifoStep, Fifo!Next
<1>8. CASE received' = received
  <2>1. <<>> \o (q \o p) = q \o p
    BY <1>6, ConcatEmptySeq
  <2>2. Pending = (<<>> \o batch) \o (q \o p) /\ Pending' = <<>> \o (q \o p)
    BY <1>3, <1>5, <1>6, <2>1
  <2>3. Fifo!Lose
    BY <1>1, <1>2, <1>6, <1>8, <2>2, Loses
  <2> QED
    BY <2>3 DEF FifoStep, Fifo!Next
<1> QED
  BY <1>7, <1>8

-----------------------------------------------------------------------------
(* Each protocol's loop, action by action, and the whole.                   *)
LEMMA TcpMaps ==
  ASSUME IInv, Tcp \/ Link
  PROVE  FifoStep
<1> USE DEF queueVars, putVars, T!queueVars, T!putVars, T!envVars, T!histVars,
            tcpOnly, QueueStill
<1>1. protocol = "tcp" /\ UNCHANGED <<protocol, batch>>
  BY DEF Tcp, Link
<1>2. CASE T!Loop \/ T!ConnectOk \/ T!ConnectFails \/ T!ConnectCrashes
            \/ T!BackoffEnds
  BY <1>1, <1>2, IdleMaps
     DEF T!Loop, T!ConnectOk, T!ConnectFails, T!ConnectCrashes, T!BackoffEnds
<1>3. CASE T!Get
  <2>1. CASE queue = <<>>
    BY <1>1, <1>3, <2>1, IdleMaps DEF T!Get
  <2>2. CASE queue # <<>>
    BY <1>1, <1>3, <2>2, GetMaps DEF T!Get
  <2> QED
    BY <2>1, <2>2
<1>4. CASE T!Send
  <2>1. /\ pc = "send" /\ QueueStill
        /\ received' \in {received, Append(received, hand)}
        /\ hand' = Wake \/ hand' = hand
    BY <1>4 DEF T!Send, T!Wake, Wake
  <2> QED
    BY <1>1, <2>1, SendMaps
<1>5. CASE T!Requeue
  BY <1>1, <1>5, RequeueMaps DEF T!Requeue, T!Full, Full, T!Wake, Wake
<1>6. CASE T!Link
  <2>1. QueueStill /\ UNCHANGED <<protocol, hand, batch, received>>
    BY <1>1, <1>6 DEF T!Link, T!LinkDown, T!LinkUp
  <2> QED
    BY <2>1, IdleMaps
<1> QED
  BY <1>2, <1>3, <1>4, <1>5, <1>6 DEF Tcp, Link, T!Worker

LEMMA UdpMaps ==
  ASSUME IInv, Udp
  PROVE  FifoStep
<1> USE DEF queueVars, putVars, U!queueVars, U!putVars, U!histVars,
            tcpOnly, QueueStill
<1>1. protocol = "udp" /\ UNCHANGED <<protocol, tcpOnly, batch>>
  BY DEF Udp
<1>2. CASE U!Loop
  BY <1>1, <1>2, IdleMaps DEF U!Loop
<1>3. CASE U!Get
  <2>1. CASE queue = <<>>
    BY <1>1, <1>3, <2>1, IdleMaps DEF U!Get
  <2>2. CASE queue # <<>>
    BY <1>1, <1>3, <2>2, GetMaps DEF U!Get
  <2> QED
    BY <2>1, <2>2
<1>4. CASE U!Send \/ U!SendCrashes
  <2>1. /\ pc = "send" /\ QueueStill /\ hand' = Wake
        /\ received' \in {received, Append(received, hand)}
    BY <1>4 DEF U!Send, U!SendCrashes, U!Wake, Wake
  <2> QED
    BY <1>1, <2>1, SendMaps
<1> QED
  BY <1>2, <1>3, <1>4 DEF Udp, U!Worker

LEMMA HttpMaps ==
  ASSUME IInv, Http
  PROVE  FifoStep
<1> USE DEF queueVars, putVars, H!queueVars, H!putVars, H!histVars,
            tcpOnly, QueueStill
<1>1. protocol = "http" /\ UNCHANGED <<protocol, hand, tcpOnly>>
  BY DEF Http
<1>2. CASE H!Loop \/ H!Hold
  BY <1>1, <1>2, IdleMaps DEF H!Loop, H!Hold
<1>3. CASE H!Get
  <2>1. CASE queue = <<>>
    BY <1>1, <1>3, <2>1, IdleMaps DEF H!Get
  <2>2. CASE queue # <<>>
    BY <1>1, <1>3, <2>2, GatherMaps DEF H!Get, H!Wake, Wake
  <2> QED
    BY <2>1, <2>2
<1>4. CASE H!Flush
  <2>1. received' \in {received, received \o batch}
    BY <1>4 DEF H!Flush
  <2> QED
    BY <1>1, <1>4, <2>1, FlushMaps DEF H!Flush
<1> QED
  BY <1>2, <1>3, <1>4 DEF Http, H!Worker

LEMMA InitMaps == Init => Fifo!Init
<1> SUFFICES ASSUME Init PROVE Fifo!Init
  OBVIOUS
<1>1. /\ queue = <<>> /\ batch = <<>> /\ received = <<>> /\ putting = {}
      /\ hand = Wake /\ offered = 0
  BY DEF Init, NoTcp, T!Init, U!Init, H!Init, T!QueueInit, U!QueueInit,
         H!QueueInit, T!Wake, U!Wake, Wake
<1>2. InPut = {} /\ Chosen({}) = <<>> /\ Single(Wake) = <<>>
  BY <1>1, ChosenOne DEF InPut, Single
<1>3. <<>> \o <<>> = <<>>
  BY EmptySeq, ConcatEmptySeq
<1>4. Pending = <<>>
  BY <1>1, <1>2, <1>3, OnlyOfEmpty, PendingIs
<1> QED
  BY <1>1, <1>4 DEF Fifo!Init

LEMMA NextMaps == IInv /\ [Next]_vars => [Fifo!Next]_Fifo!vars
<1> SUFFICES ASSUME IInv, [Next]_vars PROVE FifoStep
  BY DEF FifoStep
<1>1. CASE Caller
  BY <1>1, PutFirstMaps, PutDiscardMaps, PutAgainMaps, StopMaps DEF Caller, Put
<1>2. CASE Run \/ Link
  BY <1>2, TcpMaps, UdpMaps, HttpMaps DEF Run
<1>3. CASE UNCHANGED vars
  <2>1. QueueStill /\ UNCHANGED <<protocol, hand, batch, received>>
    BY <1>3 DEF vars, queueVars, putVars, loopVars, shared, QueueStill
  <2> QED
    BY <2>1, IdleMaps
<1> QED
  BY <1>1, <1>2, <1>3 DEF Next

(* A worker of any protocol keeps LossyFifo's promise, whatever put, stop   *)
(* and its loop do to the queue in turn, at any size of the queue and of    *)
(* the batch: UDP and HTTP endpoints get a subsequence of what was put, and *)
(* a TCP endpoint a repeat or disorder only from a failed send              *)
(* (forwarder.py:61-73, 100-228).                                           *)
THEOREM FifoPromiseKept == Spec => KeepsFifoPromise
<1> QED
  BY InitMaps, NextMaps, Inductive, PTL DEF Spec, KeepsFifoPromise, Fifo!Spec
=============================================================================
