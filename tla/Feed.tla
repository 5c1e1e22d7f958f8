--------------------------------- MODULE Feed ---------------------------------
(***************************************************************************)
(* events.py: the bus between the threads that receive and forward         *)
(* sentences and the live page.  publish takes the lock to note the        *)
(* payload and to list the subscribers, and calls them without it, in the  *)
(* thread that publishes.  A callback (web/sockets.py) may be slow for     *)
(* ever; what it raises is passed over.  Payloads are left out.            *)
(***************************************************************************)
EXTENDS Integers

CONSTANTS
  Publishers,   \* connection handlers and workers
  Readers       \* requests for the recent payloads, and the thread that
                \*   subscribes at the start

VARIABLES
  feedPc,       \* "idle", "waiting" for the lock, "inside" it, "calling"
  subscribed    \* has register_sockets subscribed?

Threads == Publishers \union Readers

Init == feedPc = [t \in Threads |-> "idle"] /\ subscribed = FALSE

Goto(t, from, to) == feedPc[t] = from /\ feedPc' = [feedPc EXCEPT ![t] = to]

(* Mutant of Holding: the subscribers are called under the lock.            *)
HoldingThrough == {"inside", "calling"}

Holding == {"inside"}

Call(t) == Goto(t, "idle", "waiting") /\ UNCHANGED subscribed

Acquire(t) ==
  /\ \A u \in Threads : feedPc[u] \notin Holding
  /\ Goto(t, "waiting", "inside") /\ UNCHANGED subscribed

Publish(t) ==
  /\ t \in Publishers
  /\ Goto(t, "inside", IF subscribed THEN "calling" ELSE "idle")
  /\ UNCHANGED subscribed

Subscribe(t) == t \in Readers /\ Goto(t, "inside", "idle") /\ subscribed' = TRUE

Recent(t) ==
  /\ t \in Readers /\ subscribed
  /\ Goto(t, "inside", "idle") /\ UNCHANGED subscribed

(* The callback returns, or raises, when and if it does.                    *)
Emit(t) == Goto(t, "calling", "idle") /\ UNCHANGED subscribed

Leave(t) == Publish(t) \/ Subscribe(t) \/ Recent(t)

Next == \E t \in Threads : Call(t) \/ Acquire(t) \/ Leave(t) \/ Emit(t)

-----------------------------------------------------------------------------
(* A subscriber that never returns holds up the thread that called it and   *)
(* no other: everyone else who publishes, or asks for the recent payloads,  *)
(* gets as far as its own callback (events.py:23-36).                       *)
OthersGoOn ==
  \A t \in Threads : feedPc[t] = "waiting" ~> feedPc[t] \in {"idle", "calling"}
=============================================================================
