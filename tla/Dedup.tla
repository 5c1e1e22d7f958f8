-------------------------------- MODULE Dedup --------------------------------
(***************************************************************************)
(* The duplicate detector of dedup.py on top of cachetools.TTLCache.       *)
(*                                                                         *)
(* An ingest thread stamps a sentence with its arrival time (Arrive) and   *)
(* then asks for the lock; check is one step under it (Hit or Miss).       *)
(* Other threads run between the two.                                      *)
(*                                                                         *)
(* TTLCache is a library.  What check relies on: an entry lives ttl from   *)
(* its insertion and a lookup does not renew it; a lookup does make it the *)
(* most recently used; an insertion first discards the expired entries and *)
(* then, if there is still no room, the least recently used one.           *)
(***************************************************************************)
EXTENDS Integers, FiniteSets

CONSTANTS
  Threads,     \* ingest threads
  Keys,        \* SHA-1 keys of canonicalised sentences
  TTL,         \* dedup.ttl_seconds
  MaxEntries,  \* dedup.max_entries
  MaxCalls,    \* bound: calls of check in a behaviour
  MaxTime      \* bound: the clock

ASSUME TTLAssumption     == TTL \in Nat \ {0}
ASSUME EntriesAssumption == MaxEntries \in Nat \ {0}
ASSUME DedupBounds       == MaxCalls \in Nat /\ MaxTime \in Nat

VARIABLES
  now,         \* the clock
  cache,       \* _cache: key -> [ts, expires, used]
  calls,       \* calls of check that wait for the lock
  seen, duplicates,
  accepted,    \* history: the calls that returned True
  others,      \* history: per key, the other keys looked up since its last use
  last         \* history: the last answer given

vars == <<now, cache, calls, seen, duplicates, accepted, others, last>>

-----------------------------------------------------------------------------
Live == {k \in DOMAIN cache : now < cache[k].expires}

LeastUsed(S) == {k \in S : \A l \in S : cache[k].used =< cache[l].used}

(* What an insertion keeps.                                                 *)
Kept == IF Cardinality(Live) < MaxEntries
          THEN {Live}
          ELSE {Live \ {k} : k \in LeastUsed(Live)}

(* The lookup of k is a use of k and one more key seen by all the others.   *)
Looked(k) == [l \in Keys |-> IF l = k THEN {} ELSE others[l] \cup {k}]

-----------------------------------------------------------------------------
Init ==
  /\ now = 0
  /\ cache = [k \in {} |-> 0]
  /\ calls = {}
  /\ seen = 0 /\ duplicates = 0
  /\ accepted = {} /\ others = [k \in Keys |-> {}] /\ last = {}

Arrive(t, k) ==
  /\ seen + Cardinality(calls) < MaxCalls
  /\ \A c \in calls : c.thread # t
  /\ calls' = calls \cup {[thread |-> t, key |-> k, ts |-> now]}
  /\ UNCHANGED <<now, cache, seen, duplicates, accepted, others, last>>

(* Mutant of Recall: the copy's own time is remembered instead.             *)
RecallAnew(c) ==
  cache' = [cache EXCEPT
    ![c.key] = [ts |-> c.ts, expires |-> now + TTL, used |-> seen + 1]]

Recall(c) == cache' = [cache EXCEPT ![c.key].used = seen + 1]

(* Mutant of Remember: a new sentence is not remembered.                    *)
RememberNot(c) == UNCHANGED cache

Remember(c) ==
  \E kept \in Kept :
    cache' = [k \in kept \cup {c.key} |->
                IF k = c.key
                  THEN [ts |-> c.ts, expires |-> now + TTL, used |-> seen + 1]
                  ELSE cache[k]]

(* check finds a live entry: a duplicate, and the entry's time is returned. *)
Hit(c) ==
  /\ c \in calls /\ c.key \in Live
  /\ Recall(c)
  /\ duplicates' = duplicates + 1
  /\ seen' = seen + 1
  /\ calls' = calls \ {c}
  /\ others' = Looked(c.key)
  /\ last' = {[key |-> c.key, isNew |-> FALSE, at |-> now,
               arrival |-> c.ts, effective |-> cache[c.key].ts]}
  /\ UNCHANGED <<now, accepted>>

(* check finds none: the sentence is new and is remembered with its time.   *)
Miss(c) ==
  /\ c \in calls /\ c.key \notin Live
  /\ Remember(c)
  /\ seen' = seen + 1
  /\ calls' = calls \ {c}
  /\ others' = Looked(c.key)
  /\ accepted' = accepted \cup
       {[key |-> c.key, ts |-> c.ts, at |-> now, n |-> seen + 1,
         crowd |-> Cardinality(others[c.key])]}
  /\ last' = {[key |-> c.key, isNew |-> TRUE, at |-> now,
               arrival |-> c.ts, effective |-> c.ts]}
  /\ UNCHANGED <<now, duplicates>>

Tick == /\ now < MaxTime
        /\ now' = now + 1
        /\ UNCHANGED <<cache, calls, seen, duplicates, accepted, others, last>>

(* The end of the bounded clock, with every call answered.                  *)
Quiet == now = MaxTime /\ calls = {} /\ UNCHANGED vars

Next == \/ \E t \in Threads, k \in Keys : Arrive(t, k)
        \/ \E c \in calls : Hit(c) \/ Miss(c)
        \/ Tick
        \/ Quiet

Spec == Init /\ [][Next]_vars

-----------------------------------------------------------------------------
Entries == [ts : Nat, expires : Nat, used : Nat]
Calls == [thread : Threads, key : Keys, ts : Nat]
Acceptances == [key : Keys, ts : Nat, at : Nat, n : Nat, crowd : Nat]
Answers == [key : Keys, isNew : BOOLEAN, at : Nat, arrival : Nat, effective : Nat]

(* Every variable has its type.                                             *)
TypeOK ==
  /\ now \in Nat /\ seen \in Nat /\ duplicates \in Nat
  /\ DOMAIN cache \subseteq Keys /\ cache \in [DOMAIN cache -> Entries]
  /\ calls \subseteq Calls
  /\ accepted \subseteq Acceptances
  /\ others \in [Keys -> SUBSET Keys]
  /\ last \subseteq Answers

(* The cache keeps to max_entries, and every call is counted as a duplicate *)
(* or has been accepted (dedup.py:44-52).                                   *)
Bounded ==
  /\ Cardinality(DOMAIN cache) =< MaxEntries
  /\ seen = duplicates + Cardinality(accepted)

(* A sentence is accepted again within ttl of its last acceptance only if   *)
(* at least max_entries other sentences were looked up since its last copy: *)
(* neither the expiry sweep nor the eviction forgets it any earlier.        *)
OncePerWindow ==
  \A a, b \in accepted :
    a.key = b.key /\ b.n < a.n => a.at >= b.at + TTL \/ a.crowd >= MaxEntries

(* A copy is refused only within ttl of the acceptance it repeats, however  *)
(* many copies came in between, and is told that acceptance's time.         *)
RefusedInWindow ==
  \A r \in last :
    ~r.isNew => \E a \in accepted :
                  /\ a.key = r.key /\ a.ts = r.effective
                  /\ r.at < a.at + TTL
                  /\ \A b \in accepted : b.key = r.key => b.n =< a.n
=============================================================================
