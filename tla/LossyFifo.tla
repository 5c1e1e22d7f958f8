------------------------------- MODULE LossyFifo -------------------------------
(***************************************************************************)
(* What an endpoint is promised: the sentences put, in the order they were *)
(* put, some of them lost.  Where a worker retries, a sentence whose send  *)
(* failed may arrive more than once and fall behind the ones put after it. *)
(***************************************************************************)
EXTENDS Naturals, Sequences

VARIABLES
  retrying, \* whether the worker retries
  pending,  \* sentences put and not yet sent or lost
  got,      \* what the endpoint received
  count     \* how many sentences have been put

vars == <<retrying, pending, got, count>>

Init == pending = <<>> /\ got = <<>> /\ count = 0

Accept == /\ count' = count + 1
          /\ pending' = Append(pending, count')
          /\ UNCHANGED <<retrying, got>>

Deliver == \E n \in 1..Len(pending) :
             /\ got' = got \o SubSeq(pending, 1, n)
             /\ pending' = SubSeq(pending, n + 1, Len(pending))
             /\ UNCHANGED <<retrying, count>>

Lose == \E m, n \in 0..Len(pending) :
          /\ m < n
          /\ pending' = SubSeq(pending, 1, m) \o SubSeq(pending, n + 1, Len(pending))
          /\ UNCHANGED <<retrying, got, count>>

(* A send that fails after the bytes are out.                               *)
DeliverAndKeep == /\ retrying /\ pending # <<>>
                  /\ got' = Append(got, Head(pending))
                  /\ UNCHANGED <<retrying, pending, count>>

PutBack == \E n \in 1..Len(pending) :
             /\ retrying
             /\ pending' = SubSeq(pending, 2, n) \o <<Head(pending)>>
                              \o SubSeq(pending, n + 1, Len(pending))
             /\ UNCHANGED <<retrying, got, count>>

Next == Accept \/ Deliver \/ Lose \/ DeliverAndKeep \/ PutBack

Spec == Init /\ [][Next]_vars
=============================================================================
