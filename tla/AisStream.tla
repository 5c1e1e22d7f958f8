------------------------------ MODULE AisStream ------------------------------
(***************************************************************************)
(* What the server promises about the stream it makes of everything its    *)
(* nodes hear, with the internals left out: a sentence is taken in at most *)
(* once per ttl, as long as fewer than MaxEntries others are heard in      *)
(* between, waits at least until its hold time is over, and leaves exactly *)
(* once, unless more than a queueful is waiting.                           *)
(***************************************************************************)
EXTENDS Integers, Sequences, FiniteSets

CONSTANTS Keys, TTL, MaxEntries, Hold, MaxQueue

VARIABLES
  now,      \* the clock
  window,   \* per key, the end of its dedup window
  heard,    \* per key, the others heard since it was heard last
  waiting,  \* sentences taken in and not yet forwarded, as [key, ts, n]
  taken,    \* how many sentences have been taken in
  out       \* sentences forwarded, in order

vars == <<now, window, heard, waiting, taken, out>>

Init == /\ now = 0
        /\ window = [k \in Keys |-> 0] /\ heard = [k \in Keys |-> {}]
        /\ waiting = {} /\ taken = 0 /\ out = <<>>

Hear(k) == heard' = [l \in Keys |-> IF l = k THEN {} ELSE heard[l] \cup {k}]

TakeIn(k) ==
  /\ now >= window[k] \/ Cardinality(heard[k]) >= MaxEntries
  /\ Hear(k)
  /\ window' = [window EXCEPT ![k] = now + TTL]
  /\ \E x \in waiting' \ waiting :
       x.key = k /\ x.n = taken + 1 /\ waiting' = waiting \cup {x}
  /\ taken' = taken + 1
  /\ UNCHANGED <<now, out>>

(* A copy that comes within the window is heard, and goes no further.       *)
Copy(k) == /\ now < window[k]
           /\ Hear(k)
           /\ UNCHANGED <<now, window, waiting, taken, out>>

Forward == \E x \in waiting :
             /\ x.ts + Hold =< now
             /\ waiting' = waiting \ {x}
             /\ out' = Append(out, x)
             /\ UNCHANGED <<now, window, heard, taken>>

Overflow == /\ Cardinality(waiting) > MaxQueue
            /\ \E x \in waiting : waiting' = waiting \ {x}
            /\ UNCHANGED <<now, window, heard, taken, out>>

Tick == now' = now + 1 /\ UNCHANGED <<window, heard, waiting, taken, out>>

Next == Forward \/ Overflow \/ Tick \/ \E k \in Keys : TakeIn(k) \/ Copy(k)

Spec == Init /\ [][Next]_vars
=============================================================================
