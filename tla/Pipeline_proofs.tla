--------------------------- MODULE Pipeline_proofs ---------------------------
(***************************************************************************)
(* Proofs about the duplicate detector (Dedup) for every set of threads    *)
(* and keys, every ttl and every max_entries; then about the pipeline it   *)
(* feeds, for every queue bound and hold time as well.                     *)
(***************************************************************************)
EXTENDS Pipeline, FiniteSetTheorems, SequenceTheorems, TLAPS

(***************************************************************************)
(* The duplicate detector.                                                 *)
(***************************************************************************)

(* The sets whose sizes matter are finite.                                  *)
Finite ==
  /\ IsFiniteSet(DOMAIN cache) /\ IsFiniteSet(accepted)
  /\ \A k \in Keys : IsFiniteSet(others[k])

(* Acceptances are numbered in the order of their times.                    *)
Numbered ==
  /\ \A a \in accepted : a.n =< seen /\ a.at =< now
  /\ \A a, b \in accepted : a.n =< b.n => a.at =< b.at

(* The entry of a key carries the latest acceptance of it.                  *)
CacheMatches ==
  \A k \in DOMAIN cache : \E a \in accepted :
    /\ a.key = k /\ a.ts = cache[k].ts /\ cache[k].expires = a.at + TTL
    /\ \A b \in accepted : b.key = k => b.n =< a.n

(* Entries are ordered by their last use, and others knows who came after.  *)
UseOrder ==
  \A k \in DOMAIN cache :
    /\ cache[k].used =< seen
    /\ \A l \in DOMAIN cache \ {k} :
         /\ cache[l].used # cache[k].used
         /\ cache[l].used > cache[k].used => l \in others[k]

(* A key the cache lost early was crowded out.                              *)
Forgotten ==
  \A a \in accepted :
    \/ a.key \in DOMAIN cache
    \/ now >= a.at + TTL
    \/ Cardinality(others[a.key]) >= MaxEntries

IInv == TypeOK /\ Finite /\ Numbered /\ CacheMatches /\ UseOrder /\ Forgotten
          /\ Bounded /\ OncePerWindow /\ RefusedInWindow

-----------------------------------------------------------------------------
LEMMA InitIInv == Init => IInv
<1> SUFFICES ASSUME Init PROVE IInv
  OBVIOUS
<1>1. TypeOK
  BY DEF Init, TypeOK
<1>2. Finite /\ Bounded
  BY FS_EmptySet, EntriesAssumption DEF Init, Finite, Bounded
<1>3. Numbered /\ CacheMatches /\ UseOrder /\ Forgotten /\ OncePerWindow
        /\ RefusedInWindow
  BY DEF Init, Numbered, CacheMatches, UseOrder, Forgotten, OncePerWindow,
         RefusedInWindow
<1> QED BY <1>1, <1>2, <1>3 DEF IInv

-----------------------------------------------------------------------------
(* A lookup adds at most one key to what each key has seen go by.           *)
LEMMA LookedFacts ==
  ASSUME IInv, NEW k \in Keys
  PROVE  /\ Looked(k) \in [Keys -> SUBSET Keys]
         /\ \A l \in Keys : IsFiniteSet(Looked(k)[l])
         /\ \A l \in Keys \ {k} :
              /\ Looked(k)[l] = others[l] \cup {k}
              /\ Cardinality(Looked(k)[l]) >= Cardinality(others[l])
<1>1. Looked(k) \in [Keys -> SUBSET Keys]
  BY DEF IInv, TypeOK, Looked
<1>2. ASSUME NEW l \in Keys PROVE IsFiniteSet(Looked(k)[l])
  BY FS_EmptySet, FS_AddElement DEF IInv, Finite, Looked
<1>3. ASSUME NEW l \in Keys \ {k}
      PROVE  /\ Looked(k)[l] = others[l] \cup {k}
             /\ Cardinality(Looked(k)[l]) >= Cardinality(others[l])
  <2>1. Looked(k)[l] = others[l] \cup {k}
    BY DEF Looked
  <2>2. others[l] \subseteq Looked(k)[l] /\ IsFiniteSet(Looked(k)[l])
    BY <2>1, <1>2
  <2>3. Cardinality(others[l]) =< Cardinality(Looked(k)[l])
    BY <2>2, FS_Subset
  <2>4. Cardinality(others[l]) \in Nat /\ Cardinality(Looked(k)[l]) \in Nat
    BY <1>2, FS_CardinalityType DEF IInv, Finite
  <2> QED BY <2>1, <2>3, <2>4
<1> QED BY <1>1, <1>2, <1>3

(* A duplicate only refreshes the last use of its entry.                    *)
LEMMA HitIInv ==
  ASSUME IInv, NEW c \in calls, Hit(c)
  PROVE  IInv'
<1> DEFINE k == c.key
<1>1. /\ k \in Keys /\ c.ts \in Nat /\ k \in DOMAIN cache /\ now < cache[k].expires
      /\ cache[k].ts \in Nat
  BY DEF IInv, TypeOK, Calls, Entries, Hit, Recall, Live
<1>2. /\ cache' = [cache EXCEPT ![k].used = seen + 1]
      /\ duplicates' = duplicates + 1 /\ seen' = seen + 1
      /\ calls' = calls \ {c} /\ others' = Looked(k)
      /\ last' = {[key |-> k, isNew |-> FALSE, at |-> now,
                   arrival |-> c.ts, effective |-> cache[k].ts]}
      /\ now' = now /\ accepted' = accepted
  BY DEF Hit, Recall
<1> HIDE DEF k
<1>3. /\ DOMAIN cache' = DOMAIN cache
      /\ \A l \in DOMAIN cache \ {k} : cache'[l] = cache[l]
      /\ cache'[k] = [cache[k] EXCEPT !.used = seen + 1]
  BY <1>1, <1>2
<1>4. /\ cache'[k].used = seen + 1 /\ cache'[k].ts = cache[k].ts
      /\ cache'[k].expires = cache[k].expires /\ cache'[k] \in Entries
      /\ cache[k] \in Entries
  BY <1>1, <1>3 DEF IInv, TypeOK, Entries
<1>5. TypeOK'
  <2>1. cache' \in [DOMAIN cache' -> Entries] /\ DOMAIN cache' \subseteq Keys
    BY <1>2, <1>3, <1>4 DEF IInv, TypeOK
  <2>2. others' \in [Keys -> SUBSET Keys]
    BY <1>1, <1>2, LookedFacts
  <2>3. last' \subseteq Answers
    BY <1>1, <1>2 DEF IInv, TypeOK, Answers
  <2> QED BY <1>2, <2>1, <2>2, <2>3 DEF IInv, TypeOK
<1>6. Finite'
  BY <1>1, <1>2, <1>3, LookedFacts DEF IInv, Finite
<1>7. Numbered' /\ OncePerWindow'
  BY <1>2 DEF IInv, TypeOK, Acceptances, Numbered, OncePerWindow
<1>8. CacheMatches'
  <2> SUFFICES ASSUME NEW l \in DOMAIN cache
               PROVE  \E a \in accepted :
                        /\ a.key = l /\ a.ts = cache'[l].ts
                        /\ cache'[l].expires = a.at + TTL
                        /\ \A b \in accepted : b.key = l => b.n =< a.n
    BY <1>2, <1>3 DEF CacheMatches
  <2>1. cache'[l].ts = cache[l].ts /\ cache'[l].expires = cache[l].expires
    BY <1>3, <1>4
  <2> QED BY <2>1 DEF IInv, CacheMatches
<1>9. UseOrder'
  <2> SUFFICES ASSUME NEW m \in DOMAIN cache
               PROVE  /\ cache'[m].used =< seen + 1
                      /\ \A l \in DOMAIN cache \ {m} :
                           /\ cache'[l].used # cache'[m].used
                           /\ cache'[l].used > cache'[m].used => l \in others'[m]
    BY <1>2, <1>3 DEF UseOrder
  <2>1. seen \in Nat /\ DOMAIN cache \subseteq Keys
          /\ \A l \in DOMAIN cache : cache[l].used \in Nat
    BY DEF IInv, TypeOK, Entries
  <2>2. \A l \in DOMAIN cache : cache[l].used =< seen
    BY DEF IInv, UseOrder
  <2>3. CASE m = k
    <3>1. cache'[m].used = seen + 1
      BY <1>4, <2>3
    <3>2. \A l \in DOMAIN cache \ {m} : /\ cache'[l].used = cache[l].used
                                        /\ cache[l].used =< seen
      BY <1>3, <2>2, <2>3
    <3> QED BY <2>1, <3>1, <3>2
  <2>4. CASE m # k
    <3>1. others'[m] = others[m] \cup {k} /\ cache'[m] = cache[m]
      BY <1>1, <1>2, <1>3, <2>1, <2>4, LookedFacts
    <3>2. ASSUME NEW l \in DOMAIN cache \ {m}
          PROVE  /\ cache'[l].used # cache'[m].used
                 /\ cache'[l].used > cache'[m].used => l \in others'[m]
      <4>1. CASE l = k
        BY <1>4, <2>1, <2>2, <3>1, <4>1
      <4>2. CASE l # k
        BY <1>3, <3>1, <4>2 DEF IInv, UseOrder
      <4> QED BY <4>1, <4>2
    <3> QED BY <2>1, <2>2, <3>1, <3>2
  <2> QED BY <2>3, <2>4
<1>10. Forgotten'
  <2> SUFFICES ASSUME NEW a \in accepted, a.key \notin DOMAIN cache,
                      ~(now >= a.at + TTL)
               PROVE  Cardinality(others'[a.key]) >= MaxEntries
    BY <1>2, <1>3 DEF Forgotten
  <2>1. a.key \in Keys \ {k}
    BY <1>1 DEF IInv, TypeOK, Acceptances
  <2>2. Cardinality(others[a.key]) >= MaxEntries
    BY DEF IInv, Forgotten
  <2>3. Cardinality(others'[a.key]) >= Cardinality(others[a.key])
    BY <1>1, <1>2, <2>1, LookedFacts
  <2>4. Cardinality(others[a.key]) \in Nat /\ Cardinality(others'[a.key]) \in Nat
    BY <1>6, <2>1, FS_CardinalityType DEF IInv, Finite
  <2> QED BY <2>2, <2>3, <2>4, EntriesAssumption
<1>11. Bounded'
  <2>1. Cardinality(accepted) \in Nat
    BY FS_CardinalityType DEF IInv, Finite
  <2> QED BY <1>2, <1>3, <2>1 DEF IInv, TypeOK, Bounded
<1>12. RefusedInWindow'
  <2> SUFFICES \E a \in accepted :
                  /\ a.key = k /\ a.ts = cache[k].ts
                  /\ now < a.at + TTL
                  /\ \A b \in accepted : b.key = k => b.n =< a.n
    BY <1>2 DEF RefusedInWindow
  <2> QED BY <1>1 DEF IInv, CacheMatches
<1> QED BY <1>5, <1>6, <1>7, <1>8, <1>9, <1>10, <1>11, <1>12 DEF IInv

(* An acceptance may drop expired entries and one live entry.               *)
LEMMA MissIInv ==
  ASSUME IInv, NEW c \in calls, Miss(c)
  PROVE  IInv'
<1> DEFINE k == c.key
           new == [key |-> k, ts |-> c.ts, at |-> now, n |-> seen + 1,
                   crowd |-> Cardinality(others[k])]
<1>0. k \in Keys /\ c.ts \in Nat /\ k \notin Live
  BY DEF IInv, TypeOK, Calls, Miss, Remember
<1>1. PICK kept \in Kept :
        cache' = [l \in kept \cup {k} |->
                    IF l = k
                      THEN [ts |-> c.ts, expires |-> now + TTL, used |-> seen + 1]
                      ELSE cache[l]]
  BY DEF Miss, Remember
<1>2. /\ seen' = seen + 1 /\ calls' = calls \ {c} /\ others' = Looked(k)
      /\ accepted' = accepted \cup {new}
      /\ last' = {[key |-> k, isNew |-> TRUE, at |-> now,
                   arrival |-> c.ts, effective |-> c.ts]}
      /\ now' = now /\ duplicates' = duplicates
  BY DEF Miss, Remember
<1>3. /\ Live \subseteq DOMAIN cache /\ DOMAIN cache \subseteq Keys
      /\ IsFiniteSet(Live) /\ Cardinality(Live) \in Nat
      /\ Cardinality(Live) =< MaxEntries
  <2>1. Live \subseteq DOMAIN cache /\ DOMAIN cache \subseteq Keys
    BY DEF Live, IInv, TypeOK
  <2>2. /\ IsFiniteSet(Live) /\ Cardinality(Live) =< Cardinality(DOMAIN cache)
        /\ Cardinality(DOMAIN cache) =< MaxEntries
    BY <2>1, FS_Subset DEF IInv, Finite, Bounded
  <2>3. Cardinality(Live) \in Nat /\ Cardinality(DOMAIN cache) \in Nat
    BY <2>2, FS_CardinalityType DEF IInv, Finite
  <2> QED BY <2>1, <2>2, <2>3, EntriesAssumption
<1>4. /\ kept \subseteq Live
      /\ \/ kept = Live /\ Cardinality(Live) < MaxEntries
         \/ Cardinality(Live) >= MaxEntries
              /\ \E g \in LeastUsed(Live) : kept = Live \ {g}
  <2>1. CASE Cardinality(Live) < MaxEntries
    BY <2>1 DEF Kept
  <2>2. CASE ~(Cardinality(Live) < MaxEntries)
    <3>1. Cardinality(Live) >= MaxEntries
      BY <1>3, <2>2, EntriesAssumption
    <3> QED BY <2>2, <3>1 DEF Kept
  <2> QED BY <2>1, <2>2
<1>5. k \notin kept
  BY <1>0, <1>4
<1>6. /\ DOMAIN cache' = kept \cup {k}
      /\ \A l \in kept : cache'[l] = cache[l]
      /\ cache'[k] = [ts |-> c.ts, expires |-> now + TTL, used |-> seen + 1]
  BY <1>1, <1>5
<1>7. new.key = k /\ new.ts = c.ts /\ new.at = now /\ new.n = seen + 1
        /\ new.crowd = Cardinality(others[k]) /\ new \in Acceptances
  <2>1. Cardinality(others[k]) \in Nat
    BY <1>0, FS_CardinalityType DEF IInv, Finite
  <2> QED BY <1>0, <2>1 DEF IInv, TypeOK, Acceptances
<1> HIDE DEF k, new
<1>8. now \in Nat /\ seen \in Nat /\ TTL \in Nat
        /\ \A a \in accepted : /\ a.at \in Nat /\ a.n \in Nat /\ a.n =< seen
                               /\ a.at =< now /\ a.key \in Keys
  BY TTLAssumption DEF IInv, TypeOK, Acceptances, Numbered
<1>9. new \notin accepted
  BY <1>7, <1>8
<1>10. TypeOK'
  <2>1. cache' \in [DOMAIN cache' -> Entries] /\ DOMAIN cache' \subseteq Keys
    <3>1. \A l \in kept : cache[l] \in Entries
      BY <1>3, <1>4 DEF IInv, TypeOK
    <3>2. cache'[k] \in Entries
      BY <1>0, <1>6, <1>8 DEF Entries
    <3> QED BY <1>0, <1>1, <1>3, <1>4, <1>6, <3>1, <3>2
  <2>2. others' \in [Keys -> SUBSET Keys]
    BY <1>0, <1>2, LookedFacts
  <2>3. last' \subseteq Answers
    BY <1>0, <1>2, <1>8 DEF Answers
  <2> QED BY <1>2, <1>7, <2>1, <2>2, <2>3 DEF IInv, TypeOK
<1>11. Finite'
  <2>1. IsFiniteSet(kept)
    BY <1>3, <1>4, FS_Subset
  <2>2. IsFiniteSet(DOMAIN cache')
    BY <1>6, <2>1, FS_AddElement
  <2>3. IsFiniteSet(accepted')
    BY <1>2, FS_AddElement DEF IInv, Finite
  <2> QED BY <1>0, <1>2, <2>2, <2>3, LookedFacts DEF IInv, Finite
<1>12. Numbered'
  BY <1>2, <1>7, <1>8 DEF IInv, Numbered
<1>13. CacheMatches'
  <2> SUFFICES ASSUME NEW l \in kept \cup {k}
               PROVE  \E a \in accepted' :
                        /\ a.key = l /\ a.ts = cache'[l].ts
                        /\ cache'[l].expires = a.at + TTL
                        /\ \A b \in accepted' : b.key = l => b.n =< a.n
    BY <1>6 DEF CacheMatches
  <2>1. CASE l = k
    <3>1. /\ new.ts = cache'[l].ts /\ cache'[l].expires = new.at + TTL
      BY <1>6, <1>7, <2>1
    <3>2. \A b \in accepted' : b.n =< new.n
      BY <1>2, <1>7, <1>8
    <3> QED BY <1>2, <1>7, <2>1, <3>1, <3>2
  <2>2. CASE l \in kept
    BY <1>2, <1>3, <1>4, <1>5, <1>6, <1>7, <2>2 DEF IInv, CacheMatches
  <2> QED BY <2>1, <2>2
<1>14. UseOrder'
  <2> SUFFICES ASSUME NEW m \in kept \cup {k}
               PROVE  /\ cache'[m].used =< seen + 1
                      /\ \A l \in (kept \cup {k}) \ {m} :
                           /\ cache'[l].used # cache'[m].used
                           /\ cache'[l].used > cache'[m].used => l \in others'[m]
    BY <1>2, <1>6 DEF UseOrder
  <2>1. \A l \in kept : /\ cache'[l].used \in Nat /\ cache'[l].used =< seen
                        /\ cache'[l].used = cache[l].used /\ l \in Keys \ {k}
    BY <1>3, <1>4, <1>5, <1>6 DEF IInv, TypeOK, Entries, UseOrder
  <2>2. cache'[k].used = seen + 1
    BY <1>6
  <2>3. \A l \in kept : others'[l] = others[l] \cup {k}
    BY <1>0, <1>2, <2>1, LookedFacts
  <2>4. CASE m = k
    BY <1>8, <2>1, <2>2, <2>4
  <2>5. CASE m \in kept
    <3>1. ASSUME NEW l \in (kept \cup {k}) \ {m}
          PROVE  /\ cache'[l].used # cache'[m].used
                 /\ cache'[l].used > cache'[m].used => l \in others'[m]
      <4>1. CASE l = k
        BY <1>8, <2>1, <2>2, <2>3, <2>5, <4>1
      <4>2. CASE l \in kept
        BY <1>3, <1>4, <2>1, <2>3, <2>5, <4>2 DEF IInv, UseOrder
      <4> QED BY <4>1, <4>2
    <3> QED BY <1>8, <2>1, <2>5, <3>1
  <2> QED BY <2>4, <2>5
<1>15. \A a \in accepted : a.key \in DOMAIN cache \ Live => now >= a.at + TTL
  <2> SUFFICES ASSUME NEW a \in accepted, a.key \in DOMAIN cache \ Live
               PROVE  now >= a.at + TTL
    OBVIOUS
  <2>1. PICK b \in accepted : /\ cache[a.key].expires = b.at + TTL
                              /\ a.n =< b.n
    BY DEF IInv, CacheMatches
  <2>2. now >= b.at + TTL
    BY <1>8, <2>1 DEF Live
  <2>3. a.at =< b.at
    BY <2>1 DEF IInv, Numbered
  <2> QED BY <1>8, <2>2, <2>3
<1>16. Forgotten'
  <2> SUFFICES ASSUME NEW a \in accepted', a.key \notin DOMAIN cache',
                      ~(now >= a.at + TTL)
               PROVE  Cardinality(others'[a.key]) >= MaxEntries
    BY <1>2 DEF Forgotten
  <2>1. a \in accepted /\ a.key \notin kept /\ a.key \in Keys \ {k}
    BY <1>2, <1>6, <1>7, <1>8
  <2>2. IsFiniteSet(others'[a.key]) /\ Cardinality(others'[a.key]) \in Nat
    BY <1>11, <2>1, FS_CardinalityType DEF Finite
  <2>3. CASE a.key \notin DOMAIN cache
    <3>1. Cardinality(others[a.key]) >= MaxEntries
      BY <2>1, <2>3 DEF IInv, Forgotten
    <3>2. Cardinality(others'[a.key]) >= Cardinality(others[a.key])
      BY <1>0, <1>2, <2>1, LookedFacts
    <3>3. Cardinality(others[a.key]) \in Nat
      BY <2>1, FS_CardinalityType DEF IInv, Finite
    <3> QED BY <2>2, <3>1, <3>2, <3>3, EntriesAssumption
  <2>4. CASE a.key \in DOMAIN cache
    <3>1. a.key \in Live
      BY <1>15, <2>1, <2>4
    <3>2. /\ a.key \in LeastUsed(Live) /\ kept = Live \ {a.key}
          /\ Cardinality(Live) = MaxEntries
      BY <1>3, <1>4, <2>1, <3>1, EntriesAssumption
    <3>3. Cardinality(kept) = MaxEntries - 1 /\ IsFiniteSet(kept)
      BY <1>3, <3>1, <3>2, FS_RemoveElement
    <3>4. Cardinality(kept \cup {k}) = MaxEntries
      <4>1. Cardinality(kept \cup {k}) = Cardinality(kept) + 1
        BY <1>5, <3>3, FS_AddElement
      <4> QED BY <3>3, <4>1, EntriesAssumption
    <3>5. kept \cup {k} \subseteq others'[a.key]
      <4>1. others'[a.key] = others[a.key] \cup {k}
        BY <1>0, <1>2, <2>1, LookedFacts
      <4>2. ASSUME NEW l \in kept PROVE l \in others[a.key]
        <5>1. l \in DOMAIN cache \ {a.key} /\ l \in Live
          BY <1>3, <3>2
        <5>2. cache[a.key].used =< cache[l].used
          BY <3>2, <5>1 DEF LeastUsed
        <5>3. cache[a.key].used \in Nat /\ cache[l].used \in Nat
          BY <2>4, <5>1 DEF IInv, TypeOK, Entries
        <5> QED BY <2>4, <5>1, <5>2, <5>3 DEF IInv, UseOrder
      <4> QED BY <4>1, <4>2
    <3>6. Cardinality(kept \cup {k}) =< Cardinality(others'[a.key])
      BY <2>2, <3>5, FS_Subset
    <3> QED BY <2>2, <3>4, <3>6, EntriesAssumption
  <2> QED BY <2>3, <2>4
<1>17. Bounded'
  <2>1. IsFiniteSet(kept) /\ Cardinality(kept) \in Nat
          /\ Cardinality(kept) =< MaxEntries - 1
    <3>1. CASE kept = Live /\ Cardinality(Live) < MaxEntries
      BY <1>3, <3>1, EntriesAssumption
    <3>2. CASE Cardinality(Live) >= MaxEntries
                 /\ \E g \in LeastUsed(Live) : kept = Live \ {g}
      <4>1. PICK g \in Live : kept = Live \ {g}
        BY <3>2 DEF LeastUsed
      <4>2. IsFiniteSet(kept) /\ Cardinality(kept) = Cardinality(Live) - 1
        BY <1>3, <4>1, FS_RemoveElement
      <4>3. Cardinality(kept) \in Nat
        BY <4>2, FS_CardinalityType
      <4> QED BY <1>3, <4>2, <4>3, EntriesAssumption
    <3> QED BY <1>4, <3>1, <3>2
  <2>2. Cardinality(DOMAIN cache') = Cardinality(kept) + 1
    BY <1>5, <1>6, <2>1, FS_AddElement
  <2>3. Cardinality(accepted') = Cardinality(accepted) + 1
          /\ Cardinality(accepted) \in Nat
    BY <1>2, <1>9, FS_AddElement, FS_CardinalityType DEF IInv, Finite
  <2>4. seen = duplicates + Cardinality(accepted) /\ duplicates \in Nat
    BY DEF IInv, Bounded, TypeOK
  <2>5. Cardinality(DOMAIN cache') =< MaxEntries
    BY <2>1, <2>2, EntriesAssumption
  <2>6. seen' = duplicates' + Cardinality(accepted')
    BY <1>2, <1>8, <2>3, <2>4
  <2> QED BY <2>5, <2>6 DEF Bounded
<1>18. OncePerWindow'
  <2> SUFFICES ASSUME NEW a \in accepted', NEW b \in accepted',
                      a.key = b.key, b.n < a.n
               PROVE  a.at >= b.at + TTL \/ a.crowd >= MaxEntries
    BY DEF OncePerWindow
  <2>1. b \in accepted
    BY <1>2, <1>7, <1>8
  <2>2. CASE a \in accepted
    BY <2>1, <2>2 DEF IInv, OncePerWindow
  <2>3. CASE a = new
    <3>1. CASE b.key \in DOMAIN cache
      BY <1>0, <1>7, <1>15, <2>1, <2>3, <3>1
    <3>2. CASE b.key \notin DOMAIN cache
      BY <1>7, <2>1, <2>3, <3>2 DEF IInv, Forgotten
    <3> QED BY <3>1, <3>2
  <2> QED BY <1>2, <2>2, <2>3
<1>19. RefusedInWindow'
  BY <1>2 DEF RefusedInWindow
<1> QED BY <1>10, <1>11, <1>12, <1>13, <1>14, <1>16, <1>17, <1>18, <1>19 DEF IInv

THEOREM Inductive == IInv /\ [Next]_vars => IInv'
<1> SUFFICES ASSUME IInv, [Next]_vars PROVE IInv'
  OBVIOUS
<1>1. ASSUME NEW t \in Threads, NEW k \in Keys, Arrive(t, k) PROVE IInv'
  <2>1. TypeOK'
    BY <1>1 DEF IInv, TypeOK, Arrive, Calls
  <2>2. Finite' /\ Numbered' /\ CacheMatches' /\ UseOrder' /\ Forgotten'
          /\ Bounded' /\ OncePerWindow' /\ RefusedInWindow'
    BY <1>1 DEF IInv, Arrive, Finite, Numbered, CacheMatches, UseOrder,
                Forgotten, Bounded, OncePerWindow, RefusedInWindow
  <2> QED BY <2>1, <2>2 DEF IInv
<1>2. CASE \E c \in calls : Hit(c) \/ Miss(c)
  BY <1>2, HitIInv, MissIInv
<1>3. CASE Tick
  <2>1. TypeOK'
    BY <1>3 DEF IInv, TypeOK, Tick
  <2>2. Finite' /\ CacheMatches' /\ UseOrder' /\ Bounded' /\ OncePerWindow'
          /\ RefusedInWindow'
    BY <1>3 DEF IInv, Tick, Finite, CacheMatches, UseOrder, Bounded,
                OncePerWindow, RefusedInWindow
  <2>3. now \in Nat /\ \A a \in accepted : a.at \in Nat
    BY DEF IInv, TypeOK, Acceptances
  <2>4. Numbered' /\ Forgotten'
    BY <1>3, <2>3, TTLAssumption DEF IInv, Tick, Numbered, Forgotten
  <2> QED BY <2>1, <2>2, <2>4 DEF IInv
<1>4. CASE UNCHANGED vars
  <2>1. TypeOK' /\ Finite' /\ Numbered'
    BY <1>4 DEF IInv, vars, TypeOK, Finite, Numbered
  <2>2. CacheMatches' /\ UseOrder' /\ Forgotten'
          /\ Bounded' /\ OncePerWindow' /\ RefusedInWindow'
    BY <1>4 DEF IInv, vars, CacheMatches, UseOrder,
                Forgotten, Bounded, OncePerWindow, RefusedInWindow
  <2> QED BY <2>1, <2>2 DEF IInv
<1> QED BY <1>1, <1>2, <1>3, <1>4 DEF Next, Quiet

(* Every behaviour of the detector keeps the inductive invariant.           *)
THEOREM Invariance == Spec => []IInv
BY InitIInv, Inductive, PTL DEF Spec

(* Every variable keeps its type.                                           *)
THEOREM TypeCorrect == Spec => []TypeOK
<1>1. IInv => TypeOK
  BY DEF IInv
<1> QED BY <1>1, Invariance, PTL

(* Counters and cache size agree with the calls made (dedup.py:44-52).      *)
THEOREM CacheBounded == Spec => []Bounded
<1>1. IInv => Bounded
  BY DEF IInv
<1> QED BY <1>1, Invariance, PTL

(* No sentence is let through twice within ttl, unless max_entries other    *)
(* ones were looked up in between (check, dedup.py:36-52).                  *)
THEOREM AtMostOncePerWindow == Spec => []OncePerWindow
<1>1. IInv => OncePerWindow
  BY DEF IInv
<1> QED BY <1>1, Invariance, PTL

(* A refused copy repeats an acceptance less than ttl old (dedup.py:46-52). *)
THEOREM RefusalsJustified == Spec => []RefusedInWindow
<1>1. IInv => RefusedInWindow
  BY DEF IInv
<1> QED BY <1>1, Invariance, PTL

-----------------------------------------------------------------------------
(***************************************************************************)
(* The pipeline.                                                           *)
(***************************************************************************)
Sentences == [thread : Threads, key : Keys, n : Nat]
Pushing   == [thread : Threads, key : Keys, ts : Nat, n : Nat]
Entering  == [ts : Int, seq : Int, payload : Sentences]
Buffered  == [ts : Int, seq : Int, payload : Sentences, at : Int, after : Int]

(* What the variables between the detector and the dispatch hold.           *)
PlaceTypes ==
  /\ pushing \subseteq Pushing /\ IsFiniteSet(pushing)
  /\ entering \subseteq Entering /\ IsFiniteSet(entering)
  /\ heap \subseteq Buffered /\ IsFiniteSet(heap)
  /\ released \in Seq(Buffered) /\ batch \in Seq(Buffered)
  /\ nextSeq \in Int /\ cutoff \in Int /\ dropped \in Nat

(* The number of a sentence tells it apart, in a place and between places.  *)
Apart ==
  /\ \A p, q \in pushing : p.n = q.n => p = q
  /\ \A d, e \in entering : d.payload.n = e.payload.n => d = e
  /\ \A x, y \in heap : x.payload.n = y.payload.n => x = y
  /\ \A i, j \in 1..Len(released) :
       released[i].payload.n = released[j].payload.n => i = j
  /\ \A p \in pushing, e \in entering : p.n # e.payload.n
  /\ \A x \in heap :
       /\ \A p \in pushing : p.n # x.payload.n
       /\ \A e \in entering : e.payload.n # x.payload.n
  /\ \A i \in 1..Len(released) :
       /\ \A p \in pushing : p.n # released[i].payload.n
       /\ \A y \in entering \cup heap : y.payload.n # released[i].payload.n

(* Whatever is in a place has been accepted, under a number of its own.     *)
AcceptedNs == {a.n : a \in accepted}

Known ==
  /\ \A a, b \in accepted : a.n = b.n => a = b
  /\ \A p \in pushing : p.n \in AcceptedNs
  /\ \A x \in entering \cup heap : x.payload.n \in AcceptedNs
  /\ \A i \in 1..Len(released) : released[i].payload.n \in AcceptedNs

Places == PlaceTypes /\ Apart /\ Known

(* The batch is the end of what was released, and all of it is due.         *)
Flow ==
  /\ outPc \in {"locking", "popping"} => cutoff + Hold =< now
  /\ batch # <<>> => outPc \in {"popping", "consuming"}
  /\ outPc = "consuming" => batch # <<>>
  /\ Len(batch) =< Len(released)
  /\ \A i \in 1..Len(batch) :
       /\ batch[i] = released[Len(released) - Len(batch) + i]
       /\ batch[i].ts + Hold =< now

PipeInv == IInv /\ Places /\ Flow /\ EachInOnePlace

(* The detector takes no notice of the rest of the pipeline.                *)
LEMMA DetectorStep == [PipelineNext]_pipelineVars => [Next]_vars
<1>1. ASSUME NEW t \in Threads, NEW k \in Keys, Hear(t, k) PROVE Next
  BY <1>1 DEF Hear, Next
<1>2. ASSUME NEW t \in Threads, Repeat(t) \/ Fresh(t) PROVE Next
  BY <1>2 DEF Repeat, Fresh, Next
<1>3. ASSUME NEW t \in Threads, PushEnter(t) PROVE UNCHANGED vars
  BY <1>3 DEF PushEnter, R!Enter, dedupVars, vars
<1>4. ASSUME NEW t \in Threads, PushCommit(t) PROVE UNCHANGED vars
  BY <1>4 DEF PushCommit, R!Commit, dedupVars, vars
<1>5. CASE Output
  BY <1>5 DEF Output, R!Consumer, R!ReadClock, R!AcquirePop, R!PopOne, R!PopDone,
              R!Take, R!WaitNext, R!Sleep, R!Timeout, dedupVars, vars
<1>6. CASE PipelineTick
  BY <1>6 DEF PipelineTick, R!Tick, Tick, Next, dedupVars
<1>7. CASE UNCHANGED pipelineVars
  BY <1>7 DEF pipelineVars, dedupVars, vars
<1> QED BY <1>1, <1>2, <1>3, <1>4, <1>5, <1>6, <1>7 DEF PipelineNext, Ingest

(* What the detector promises, it promises in the pipeline.                 *)
THEOREM DetectorInvariance == PipelineSpec => []IInv
<1>1. PipelineInit => Init
  BY DEF PipelineInit
<1> QED BY <1>1, InitIInv, Inductive, DetectorStep, PTL DEF PipelineSpec

-----------------------------------------------------------------------------
(* The numbers in the places, as the sets EachInOnePlace counts.            *)
InHands  == {p.n : p \in pushing}
Ns(S)    == {x.payload.n : x \in S}
Left(rs) == {rs[i].payload.n : i \in 1..Len(rs)}

Counted(hands, ens, hs, ls, len, acs, lost) ==
  /\ (hands \cup ens) \cap hs = {} /\ ((hands \cup ens) \cup hs) \cap ls = {}
  /\ Cardinality(ls) = len
  /\ Cardinality(acs) =
       Cardinality(hands \cup ens) + Cardinality(hs) + Cardinality(ls) + lost

LEMMA OnePlace ==
  EachInOnePlace <=> Counted(InHands, Ns(entering), Ns(heap), Left(released),
                             Len(released), AcceptedNs, dropped)
<1>1. {x.payload.n : x \in SeqSet(released)} = Left(released)
  BY DEF SeqSet, Left
<1> QED BY <1>1 DEF EachInOnePlace, Counted, InHands, Ns, AcceptedNs

LEMMA OnePlacePrimed ==
  EachInOnePlace' <=> Counted(InHands', Ns(entering'), Ns(heap'), Left(released'),
                              Len(released'), AcceptedNs', dropped')
<1>1. {x.payload.n : x \in SeqSet(released)}' = Left(released')
  BY DEF SeqSet, Left
<1> QED BY <1>1 DEF EachInOnePlace, Counted, InHands, Ns, AcceptedNs

(* All these sets are finite, since only numbers given so far are in them.  *)
LEMMA PlacesFinite ==
  ASSUME PipeInv
  PROVE  /\ IsFiniteSet(InHands) /\ IsFiniteSet(Ns(entering))
         /\ IsFiniteSet(Ns(heap)) /\ IsFiniteSet(Left(released))
         /\ IsFiniteSet(AcceptedNs)
<1>1. AcceptedNs \subseteq 0..seen /\ seen \in Nat
  BY DEF PipeInv, IInv, TypeOK, Numbered, Acceptances, AcceptedNs
<1>2. IsFiniteSet(0..seen)
  BY <1>1, FS_Interval
<1>3. /\ InHands \subseteq AcceptedNs /\ Ns(entering) \subseteq AcceptedNs
      /\ Ns(heap) \subseteq AcceptedNs /\ Left(released) \subseteq AcceptedNs
  BY DEF PipeInv, Places, Known, InHands, Ns, Left
<1> QED BY <1>1, <1>2, <1>3, FS_Subset

(* A number newly given goes to one of the threads.                         *)
LEMMA CountNew ==
  ASSUME NEW hands, NEW ens, NEW hs, NEW ls, NEW len, NEW acs, NEW lost \in Nat,
         Counted(hands, ens, hs, ls, len, acs, lost),
         IsFiniteSet(hands), IsFiniteSet(ens), IsFiniteSet(hs), IsFiniteSet(ls),
         IsFiniteSet(acs), NEW n, n \notin hands \cup ens \cup hs \cup ls \cup acs
  PROVE  Counted(hands \cup {n}, ens, hs, ls, len, acs \cup {n}, lost)
<1>1. (hands \cup {n}) \cup ens = (hands \cup ens) \cup {n}
  OBVIOUS
<1>2. IsFiniteSet(hands \cup ens)
  BY FS_Union
<1>3. Cardinality((hands \cup ens) \cup {n}) = Cardinality(hands \cup ens) + 1
      /\ Cardinality(acs \cup {n}) = Cardinality(acs) + 1
  BY <1>2, FS_AddElement
<1>4. /\ Cardinality(hands \cup ens) \in Nat /\ Cardinality(acs) \in Nat
      /\ Cardinality(hs) \in Nat /\ Cardinality(ls) \in Nat
  BY <1>2, FS_CardinalityType
<1>5. Cardinality(acs \cup {n}) =
        Cardinality((hands \cup ens) \cup {n}) + Cardinality(hs) + Cardinality(ls) + lost
  BY <1>3, <1>4 DEF Counted
<1> QED BY <1>1, <1>5 DEF Counted

(* A number goes from the threads to the heap, in which it may replace one. *)
LEMMA CountCommit ==
  ASSUME NEW hands, NEW ens, NEW hs, NEW ls, NEW len, NEW acs, NEW lost \in Nat,
         Counted(hands, ens, hs, ls, len, acs, lost),
         IsFiniteSet(hands), IsFiniteSet(ens), IsFiniteSet(hs), IsFiniteSet(ls),
         NEW n \in ens, n \notin hands
  PROVE  /\ Counted(hands, ens \ {n}, hs \cup {n}, ls, len, acs, lost)
         /\ \A o \in hs :
              Counted(hands, ens \ {n}, (hs \ {o}) \cup {n}, ls, len, acs, lost + 1)
<1>1. hands \cup (ens \ {n}) = (hands \cup ens) \ {n} /\ n \notin hs
  BY DEF Counted
<1>2. IsFiniteSet(hands \cup ens)
  BY FS_Union
<1>3. /\ Cardinality(hands \cup ens) \in Nat
      /\ Cardinality(hs) \in Nat /\ Cardinality(ls) \in Nat
  BY <1>2, FS_CardinalityType
<1>4. Cardinality((hands \cup ens) \ {n}) = Cardinality(hands \cup ens) - 1
      /\ Cardinality(hs \cup {n}) = Cardinality(hs) + 1
  BY <1>1, <1>2, FS_AddElement, FS_RemoveElement
<1>5. Counted(hands, ens \ {n}, hs \cup {n}, ls, len, acs, lost)
  <2>1. Cardinality(acs) = Cardinality((hands \cup ens) \ {n})
                           + Cardinality(hs \cup {n}) + Cardinality(ls) + lost
    BY <1>3, <1>4 DEF Counted
  <2> QED BY <1>1, <2>1 DEF Counted
<1>6. ASSUME NEW o \in hs
      PROVE  Counted(hands, ens \ {n}, (hs \ {o}) \cup {n}, ls, len, acs, lost + 1)
  <2>1. IsFiniteSet(hs \ {o}) /\ Cardinality(hs \ {o}) = Cardinality(hs) - 1
    BY FS_RemoveElement
  <2>2. Cardinality((hs \ {o}) \cup {n}) = Cardinality(hs \ {o}) + 1
    BY <1>1, <2>1, FS_AddElement
  <2>3. Cardinality(acs) = Cardinality((hands \cup ens) \ {n})
                           + Cardinality((hs \ {o}) \cup {n}) + Cardinality(ls) + (lost + 1)
    BY <1>3, <1>4, <2>1, <2>2 DEF Counted
  <2> QED BY <1>1, <2>3 DEF Counted
<1> QED BY <1>5, <1>6

(* A number goes from the heap to what was released.                        *)
LEMMA CountPop ==
  ASSUME NEW hands, NEW ens, NEW hs, NEW ls, NEW len \in Nat, NEW acs,
         NEW lost \in Nat, Counted(hands, ens, hs, ls, len, acs, lost),
         IsFiniteSet(hands), IsFiniteSet(ens), IsFiniteSet(hs), IsFiniteSet(ls),
         NEW n \in hs
  PROVE  Counted(hands, ens, hs \ {n}, ls \cup {n}, len + 1, acs, lost)
<1>1. n \notin ls
  BY DEF Counted
<1>2. Cardinality(hs \ {n}) = Cardinality(hs) - 1
      /\ Cardinality(ls \cup {n}) = Cardinality(ls) + 1
  BY <1>1, FS_AddElement, FS_RemoveElement
<1>3. /\ Cardinality(hands \cup ens) \in Nat
      /\ Cardinality(hs) \in Nat /\ Cardinality(ls) \in Nat
  BY FS_Union, FS_CardinalityType
<1>4. Cardinality(acs) = Cardinality(hands \cup ens) + Cardinality(hs \ {n})
                          + Cardinality(ls \cup {n}) + lost
  BY <1>2, <1>3 DEF Counted
<1> QED BY <1>2, <1>4 DEF Counted

-----------------------------------------------------------------------------
(* Numbers are not given twice.                                             *)
LEMMA NextIsNew == PipeInv => seen \in Nat /\ \A n \in AcceptedNs : n \in Nat /\ n =< seen
BY DEF PipeInv, IInv, TypeOK, Numbered, Acceptances, AcceptedNs

(* Steps that leave the places and the acceptances alone.                   *)
LEMMA Undisturbed ==
  ASSUME PipeInv, UNCHANGED <<pushing, entering, heap, released, nextSeq, dropped,
                              accepted>>,
         batch' \in Seq(Buffered), cutoff' \in Int
  PROVE  Places' /\ EachInOnePlace'
<1>1. AcceptedNs' = AcceptedNs /\ InHands' = InHands
  BY DEF AcceptedNs, InHands
<1>2. PlaceTypes'
  BY DEF PipeInv, Places, PlaceTypes
<1>3. Apart'
  BY DEF PipeInv, Places, Apart
<1>4. Known'
  BY <1>1 DEF PipeInv, Places, Known
<1>5. EachInOnePlace'
  BY <1>1, OnePlace, OnePlacePrimed DEF PipeInv
<1> QED BY <1>2, <1>3, <1>4, <1>5 DEF Places

(* A sentence found new: accepted, and in the hands of its thread.          *)
LEMMA FreshKeeps ==
  ASSUME PipeInv, NEW t \in Threads, Fresh(t)
  PROVE  Places' /\ Flow' /\ EachInOnePlace'
<1>1. PICK c \in calls :
        /\ c.thread = t /\ Miss(c)
        /\ pushing' = pushing \cup {[thread |-> t, key |-> c.key, ts |-> c.ts,
                                     n |-> seen + 1]}
  BY DEF Fresh
<1> DEFINE p == [thread |-> t, key |-> c.key, ts |-> c.ts, n |-> seen + 1]
<1>2. p \in Pushing /\ p.n = seen + 1 /\ pushing' = pushing \cup {p}
  BY <1>1 DEF PipeInv, IInv, TypeOK, Calls, Pushing
<1> HIDE DEF p
<1> DEFINE a == [key |-> c.key, ts |-> c.ts, at |-> now, n |-> seen + 1,
                 crowd |-> Cardinality(others[c.key])]
<1>3. accepted' = accepted \cup {a} /\ a.n = seen + 1
  BY <1>1 DEF Miss
<1> HIDE DEF a
<1>4. /\ UNCHANGED <<heap, entering, nextSeq, outPc, cutoff, batch, dropped, released>>
      /\ now' = now
  BY <1>1 DEF Fresh, Miss, reorderVars
<1>5. seen + 1 \notin AcceptedNs
  BY NextIsNew
<1>6. AcceptedNs' = AcceptedNs \cup {seen + 1} /\ InHands' = InHands \cup {seen + 1}
  BY <1>2, <1>3 DEF AcceptedNs, InHands
<1>7. PlaceTypes'
  BY <1>2, <1>4, FS_AddElement DEF PipeInv, Places, PlaceTypes
<1>8. Known'
  <2>1. \A b, d \in accepted' : b.n = d.n => b = d
    BY <1>3, <1>5 DEF PipeInv, Places, Known, AcceptedNs
  <2> QED BY <1>2, <1>4, <1>6, <2>1 DEF PipeInv, Places, Known
<1>9. Apart'
  BY <1>2, <1>4, <1>5 DEF PipeInv, Places, Known, Apart
<1>10. EachInOnePlace'
  <2>1. seen + 1 \notin InHands \cup Ns(entering) \cup Ns(heap) \cup Left(released)
                           \cup AcceptedNs
    BY <1>5 DEF PipeInv, Places, Known, InHands, Ns, Left
  <2>2. Counted(InHands, Ns(entering), Ns(heap), Left(released), Len(released),
                AcceptedNs, dropped)
    BY OnePlace DEF PipeInv
  <2>3. dropped \in Nat
    BY DEF PipeInv, Places, PlaceTypes
  <2>4. Counted(InHands \cup {seen + 1}, Ns(entering), Ns(heap), Left(released),
                Len(released), AcceptedNs \cup {seen + 1}, dropped)
    BY <2>1, <2>2, <2>3, PlacesFinite, CountNew
  <2> QED BY <1>4, <1>6, <2>4, OnePlacePrimed
<1>11. Flow'
  BY <1>4 DEF PipeInv, Flow
<1> QED BY <1>7, <1>8, <1>9, <1>10, <1>11 DEF Places

(* A push before the lock: from the thread's hands to entering.             *)
LEMMA EnterKeeps ==
  ASSUME PipeInv, NEW t \in Threads, PushEnter(t)
  PROVE  Places' /\ Flow' /\ EachInOnePlace'
<1>1. PICK p \in pushing :
        /\ p.thread = t
        /\ R!Enter([thread |-> t, key |-> p.key, n |-> p.n], TimeOf(p))
        /\ pushing' = pushing \ {p}
  BY DEF PushEnter
<1> DEFINE e == [ts |-> TimeOf(p), seq |-> nextSeq,
                 payload |-> [thread |-> t, key |-> p.key, n |-> p.n]]
<1>2. p \in Pushing
  BY DEF PipeInv, Places, PlaceTypes
<1>3. TimeOf(p) \in Int
  BY <1>2, IntrinsicAssumption DEF TimeOf, Pushing
<1>4. e \in Entering /\ e.payload.n = p.n
  BY <1>2, <1>3 DEF Entering, Sentences, Pushing, PipeInv, Places, PlaceTypes
<1>5. /\ entering' = entering \cup {e} /\ nextSeq' = nextSeq + 1
      /\ UNCHANGED <<now, heap, outPc, cutoff, batch, dropped, released, accepted>>
  BY <1>1 DEF PushEnter, R!Enter, R!consumerVars, dedupVars
<1> HIDE DEF e
<1>6. AcceptedNs' = AcceptedNs
  BY <1>5 DEF AcceptedNs
<1>7. InHands' \cup Ns(entering') = InHands \cup Ns(entering)
  BY <1>1, <1>4, <1>5 DEF InHands, Ns
<1>8. PlaceTypes'
  <2>1. IsFiniteSet(entering') /\ IsFiniteSet(pushing')
    BY <1>1, <1>5, FS_AddElement, FS_RemoveElement DEF PipeInv, Places, PlaceTypes
  <2> QED BY <1>1, <1>4, <1>5, <2>1 DEF PipeInv, Places, PlaceTypes
<1>9. Known'
  BY <1>1, <1>4, <1>5, <1>6 DEF PipeInv, Places, Known
<1>10. Apart'
  BY <1>1, <1>4, <1>5 DEF PipeInv, Places, Apart
<1>11. EachInOnePlace'
  <2>1. Counted(InHands, Ns(entering), Ns(heap), Left(released), Len(released),
                AcceptedNs, dropped)
    BY OnePlace DEF PipeInv
  <2>2. Counted(InHands', Ns(entering'), Ns(heap), Left(released), Len(released),
                AcceptedNs, dropped)
    BY <1>7, <2>1 DEF Counted
  <2> QED BY <1>5, <1>6, <2>2, OnePlacePrimed
<1>12. Flow'
  BY <1>5 DEF PipeInv, Flow
<1> QED BY <1>8, <1>9, <1>10, <1>11, <1>12 DEF Places

(* What a push under the lock does to the places.                           *)
LEMMA CommitFacts ==
  ASSUME PipeInv, NEW t \in Threads, PushCommit(t)
  PROVE  \E e \in entering, x \in Buffered :
           /\ x.payload = e.payload /\ x.ts = e.ts
           /\ entering' = entering \ {e}
           /\ \/ heap' = heap \cup {x} /\ dropped' = dropped
              \/ /\ ~R!HasRoom /\ dropped' = dropped + 1
                 /\ \E old \in heap : heap' = (heap \ {old}) \cup {x}
           /\ outPc # "popping" /\ outPc' \in {outPc, "poll"}
           /\ outPc' = "poll" => outPc \in {"asleep", "poll"}
           /\ UNCHANGED <<now, nextSeq, cutoff, batch, released, pushing, accepted>>
<1>1. PICK e \in entering : R!Commit(e)
  BY DEF PushCommit
<1> DEFINE x == R!HeapItem(e)
<1>2. /\ x \in Buffered /\ x.payload = e.payload /\ x.ts = e.ts
  <2>1. now \in Int /\ Len(released) \in Int /\ e \in Entering
    BY LenProperties DEF PipeInv, IInv, TypeOK, Places, PlaceTypes
  <2> QED BY <2>1 DEF R!HeapItem, Buffered, Entering
<1>3. /\ entering' = entering \ {e}
      /\ \/ heap' = heap \cup {x} /\ dropped' = dropped
         \/ /\ ~R!HasRoom /\ dropped' = dropped + 1
            /\ \E old \in heap : heap' = (heap \ {old}) \cup {x}
  BY <1>1 DEF R!Commit
<1>4. /\ outPc # "popping" /\ outPc' \in {outPc, "poll"}
      /\ outPc' = "poll" => outPc \in {"asleep", "poll"}
      /\ UNCHANGED <<now, nextSeq, cutoff, batch, released, pushing, accepted>>
  BY <1>1 DEF PushCommit, R!Commit, R!Notify, dedupVars
<1> HIDE DEF x
<1> QED BY <1>2, <1>3, <1>4

LEMMA CommitKeeps ==
  ASSUME PipeInv, NEW t \in Threads, PushCommit(t)
  PROVE  Places' /\ Flow' /\ EachInOnePlace'
<1>1. PICK e \in entering, x \in Buffered :
        /\ x.payload = e.payload /\ entering' = entering \ {e}
        /\ \/ heap' = heap \cup {x} /\ dropped' = dropped
           \/ /\ dropped' = dropped + 1
              /\ \E old \in heap : heap' = (heap \ {old}) \cup {x}
        /\ outPc # "popping" /\ outPc' \in {outPc, "poll"}
        /\ outPc' = "poll" => outPc \in {"asleep", "poll"}
        /\ UNCHANGED <<now, nextSeq, cutoff, batch, released, pushing, accepted>>
  BY CommitFacts
<1>2. AcceptedNs' = AcceptedNs /\ InHands' = InHands
  BY <1>1 DEF AcceptedNs, InHands
<1>3. heap' \subseteq heap \cup {x}
  BY <1>1
<1>4. PlaceTypes'
  <2>1. IsFiniteSet(heap')
    BY <1>1, <1>3, FS_AddElement, FS_Subset DEF PipeInv, Places, PlaceTypes
  <2>2. IsFiniteSet(entering') /\ entering' \subseteq Entering /\ dropped' \in Nat
    BY <1>1, FS_RemoveElement DEF PipeInv, Places, PlaceTypes
  <2> QED BY <1>1, <1>3, <2>1, <2>2 DEF PipeInv, Places, PlaceTypes
<1>5. Known'
  BY <1>1, <1>2, <1>3 DEF PipeInv, Places, Known
<1>6. Apart'
  BY <1>1, <1>3 DEF PipeInv, Places, Apart
<1>7. EachInOnePlace'
  <2> DEFINE n == e.payload.n
  <2>1. Counted(InHands, Ns(entering), Ns(heap), Left(released), Len(released),
                AcceptedNs, dropped)
    BY OnePlace DEF PipeInv
  <2>2. n \in Ns(entering) /\ n \notin InHands
    BY DEF PipeInv, Places, Apart, InHands, Ns
  <2>3. Ns(entering') = Ns(entering) \ {n}
    BY <1>1 DEF PipeInv, Places, Apart, Ns
  <2>4. dropped \in Nat
    BY DEF PipeInv, Places, PlaceTypes
  <2>5. CASE heap' = heap \cup {x} /\ dropped' = dropped
    <3>1. Ns(heap') = Ns(heap) \cup {n}
      BY <1>1, <2>5 DEF Ns
    <3> HIDE DEF n
    <3>2. Counted(InHands, Ns(entering) \ {n}, Ns(heap) \cup {n}, Left(released),
                  Len(released), AcceptedNs, dropped)
      BY <2>1, <2>2, <2>4, PlacesFinite, CountCommit
    <3> QED BY <1>1, <1>2, <2>3, <2>5, <3>1, <3>2, OnePlacePrimed
  <2>6. ASSUME NEW old \in heap, heap' = (heap \ {old}) \cup {x}, dropped' = dropped + 1
        PROVE  EachInOnePlace'
    <3> DEFINE o == old.payload.n
    <3>1. Ns(heap') = (Ns(heap) \ {o}) \cup {n} /\ o \in Ns(heap)
      BY <1>1, <2>6 DEF PipeInv, Places, Apart, Ns
    <3> HIDE DEF n, o
    <3>2. Counted(InHands, Ns(entering) \ {n}, (Ns(heap) \ {o}) \cup {n}, Left(released),
                  Len(released), AcceptedNs, dropped + 1)
      BY <2>1, <2>2, <2>4, <3>1, PlacesFinite, CountCommit
    <3> QED BY <1>1, <1>2, <2>3, <2>6, <3>1, <3>2, OnePlacePrimed
  <2> QED BY <1>1, <2>5, <2>6
<1>8. Flow'
  BY <1>1 DEF PipeInv, Flow
<1> QED BY <1>4, <1>5, <1>6, <1>7, <1>8 DEF Places

(* pop_ready takes one item: from the heap to the end of released and batch. *)
LEMMA PopKeeps ==
  ASSUME PipeInv, R!PopOne, UNCHANGED <<dedupVars, pushing>>
  PROVE  Places' /\ Flow' /\ EachInOnePlace'
<1>1. PICK x \in heap : /\ x.ts =< cutoff /\ heap' = heap \ {x}
                        /\ batch' = Append(batch, x)
                        /\ released' = Append(released, x)
  BY DEF R!PopOne
<1>2. /\ outPc = "popping"
      /\ UNCHANGED <<now, entering, nextSeq, dropped, outPc, cutoff, accepted, pushing>>
  BY DEF R!PopOne, dedupVars
<1>3. x \in Buffered /\ released \in Seq(Buffered) /\ batch \in Seq(Buffered)
  BY DEF PipeInv, Places, PlaceTypes
<1>4. /\ Len(released) \in Nat /\ Len(released') = Len(released) + 1
      /\ \A i \in 1..Len(released) : released'[i] = released[i]
      /\ released'[Len(released) + 1] = x
  BY <1>1, <1>3
<1>5. /\ Len(batch) \in Nat /\ Len(batch') = Len(batch) + 1
      /\ \A i \in 1..Len(batch) : batch'[i] = batch[i]
      /\ batch'[Len(batch) + 1] = x
  BY <1>1, <1>3
<1>6. AcceptedNs' = AcceptedNs /\ InHands' = InHands
  BY <1>2 DEF AcceptedNs, InHands
<1>7. PlaceTypes'
  BY <1>1, <1>2, <1>3, FS_RemoveElement DEF PipeInv, Places, PlaceTypes
<1>8. Known'
  <2>1. \A i \in 1..Len(released') : released'[i].payload.n \in AcceptedNs
    BY <1>4 DEF PipeInv, Places, Known
  <2> QED BY <1>1, <1>2, <1>6, <2>1 DEF PipeInv, Places, Known
<1>9. Apart'
  <2>1. \A i \in 1..Len(released) : released[i].payload.n # x.payload.n
    BY DEF PipeInv, Places, Apart
  <2>2. \A i, j \in 1..Len(released') :
          released'[i].payload.n = released'[j].payload.n => i = j
    BY <1>4, <2>1 DEF PipeInv, Places, Apart
  <2>3. \A i \in 1..Len(released') :
          /\ \A p \in pushing : p.n # released'[i].payload.n
          /\ \A y \in entering \cup heap' : y.payload.n # released'[i].payload.n
    BY <1>1, <1>4 DEF PipeInv, Places, Apart
  <2> QED BY <1>1, <1>2, <2>2, <2>3 DEF PipeInv, Places, Apart
<1>10. EachInOnePlace'
  <2> DEFINE n == x.payload.n
  <2>1. Counted(InHands, Ns(entering), Ns(heap), Left(released), Len(released),
                AcceptedNs, dropped)
    BY OnePlace DEF PipeInv
  <2>2. Ns(heap') = Ns(heap) \ {n} /\ n \in Ns(heap)
    BY <1>1 DEF PipeInv, Places, Apart, Ns
  <2>3. Left(released') = Left(released) \cup {n}
    BY <1>4 DEF Left
  <2>4. dropped \in Nat
    BY DEF PipeInv, Places, PlaceTypes
  <2> HIDE DEF n
  <2>5. Counted(InHands, Ns(entering), Ns(heap) \ {n}, Left(released) \cup {n},
                Len(released) + 1, AcceptedNs, dropped)
    BY <1>4, <2>1, <2>2, <2>4, PlacesFinite, CountPop
  <2> QED BY <1>2, <1>4, <1>6, <2>2, <2>3, <2>5, OnePlacePrimed
<1>11. Flow'
  <2>1. /\ cutoff + Hold =< now /\ Len(batch) =< Len(released)
        /\ \A i \in 1..Len(batch) :
             /\ batch[i] = released[Len(released) - Len(batch) + i]
             /\ batch[i].ts + Hold =< now
    BY <1>2 DEF PipeInv, Flow
  <2>2. x.ts + Hold =< now
    <3>1. x.ts \in Int /\ cutoff \in Int /\ now \in Int /\ Hold \in Int
      BY <1>3, BufferAssumption
         DEF Buffered, PipeInv, IInv, TypeOK, Places, PlaceTypes
    <3> QED BY <1>1, <2>1, <3>1
  <2>3. \A i \in 1..Len(batch') :
          /\ batch'[i] = released'[Len(released') - Len(batch') + i]
          /\ batch'[i].ts + Hold =< now
    <3> SUFFICES ASSUME NEW i \in 1..Len(batch')
                 PROVE  /\ batch'[i] = released'[Len(released') - Len(batch') + i]
                        /\ batch'[i].ts + Hold =< now
      OBVIOUS
    <3>1. CASE i = Len(batch) + 1
      BY <1>4, <1>5, <2>2, <3>1
    <3>2. CASE i \in 1..Len(batch)
      <4>1. Len(released) - Len(batch) + i \in 1..Len(released)
        BY <1>4, <1>5, <2>1, <3>2
      <4>2. released'[Len(released) - Len(batch) + i]
              = released[Len(released) - Len(batch) + i]
        BY <1>4, <4>1
      <4>3. Len(released') - Len(batch') + i = Len(released) - Len(batch) + i
        BY <1>4, <1>5
      <4> QED BY <1>5, <2>1, <3>2, <4>2, <4>3
    <3> QED BY <1>5, <3>1, <3>2
  <2>4. /\ outPc' = "popping" /\ cutoff' + Hold =< now'
        /\ Len(batch') =< Len(released') /\ now' = now
    BY <1>2, <1>4, <1>5, <2>1
  <2> QED BY <2>3, <2>4 DEF Flow
<1> QED BY <1>7, <1>8, <1>9, <1>10, <1>11 DEF Places

(* The output thread hands on the head of its batch.                        *)
LEMMA TakeFlow ==
  ASSUME PipeInv, R!Take
  PROVE  /\ batch' \in Seq(Buffered) /\ Len(batch') = Len(batch) - 1
         /\ Len(batch) \in Nat \ {0} /\ batch[1] = Head(batch)
         /\ \A i \in 1..Len(batch') : batch'[i] = batch[i + 1]
         /\ Flow'
<1>1. /\ outPc = "consuming" /\ batch' = Tail(batch)
      /\ outPc' = IF Len(batch) = 1 THEN "poll" ELSE "consuming"
      /\ UNCHANGED <<now, cutoff, released>>
  BY DEF R!Take
<1>2. batch \in Seq(Buffered) /\ batch # <<>> /\ Len(released) \in Nat
  BY <1>1, LenProperties DEF PipeInv, Flow, Places, PlaceTypes
<1>3. /\ batch' \in Seq(Buffered) /\ Len(batch') = Len(batch) - 1
      /\ Len(batch) \in Nat \ {0} /\ batch[1] = Head(batch)
      /\ \A i \in 1..Len(batch') : batch'[i] = batch[i + 1]
  BY <1>1, <1>2, EmptySeq, HeadTailProperties, LenProperties
<1>4. /\ Len(batch) =< Len(released)
      /\ \A i \in 1..Len(batch) :
           /\ batch[i] = released[Len(released) - Len(batch) + i]
           /\ batch[i].ts + Hold =< now
  BY DEF PipeInv, Flow
<1>5. \A i \in 1..Len(batch') :
        /\ batch'[i] = released[Len(released) - Len(batch') + i]
        /\ batch'[i].ts + Hold =< now
  <2> SUFFICES ASSUME NEW i \in 1..Len(batch')
               PROVE  /\ batch'[i] = released[Len(released) - Len(batch') + i]
                      /\ batch'[i].ts + Hold =< now
    OBVIOUS
  <2>1. i + 1 \in 1..Len(batch)
    BY <1>3
  <2>2. Len(released) - Len(batch') + i = Len(released) - Len(batch) + (i + 1)
    BY <1>2, <1>3
  <2> QED BY <1>3, <1>4, <2>1, <2>2
<1>6. /\ outPc' = "consuming" => batch' # <<>>
      /\ batch' # <<>> => outPc' = "consuming"
  <2>1. batch' # <<>> <=> Len(batch') # 0
    BY <1>3, EmptySeq
  <2> QED BY <1>1, <1>3, <2>1
<1>7. Len(batch') =< Len(released)
  BY <1>2, <1>3, <1>4
<1>8. outPc' \in {"poll", "consuming"}
  BY <1>1
<1>9. Flow'
  BY <1>1, <1>5, <1>6, <1>7, <1>8 DEF Flow
<1> QED BY <1>3, <1>9

(* The other steps of the output thread move its locals only.               *)
LEMMA OutputKeeps ==
  ASSUME PipeInv, Output
  PROVE  Places' /\ Flow' /\ EachInOnePlace'
<1>1. CASE R!PopOne
  BY <1>1, PopKeeps DEF Output
<1>2. UNCHANGED <<pushing, accepted>>
  BY DEF Output, dedupVars
<1>3. now \in Int /\ batch \in Seq(Buffered) /\ cutoff \in Int /\ Hold \in Int
  BY BufferAssumption DEF PipeInv, IInv, TypeOK, Places, PlaceTypes
<1>4. CASE R!ReadClock
  <2>1. /\ cutoff' = now - Hold /\ outPc = "poll" /\ outPc' = "locking"
        /\ UNCHANGED <<now, heap, entering, nextSeq, dropped, batch, released>>
    BY <1>4 DEF R!ReadClock, R!bufferVars
  <2>2. Flow'
    BY <1>3, <2>1 DEF PipeInv, Flow
  <2> QED BY <1>2, <1>3, <2>1, <2>2, Undisturbed
<1>5. CASE R!AcquirePop
  <2>1. /\ batch' = <<>> /\ outPc = "locking" /\ outPc' = "popping"
        /\ UNCHANGED <<now, heap, entering, nextSeq, dropped, cutoff, released>>
    BY <1>5 DEF R!AcquirePop, R!bufferVars
  <2>2. batch' \in Seq(Buffered) /\ Len(batch') = 0 /\ Len(released) \in Nat
    BY <2>1, EmptySeq, LenProperties DEF PipeInv, Places, PlaceTypes
  <2>3. Flow'
    BY <2>1, <2>2 DEF PipeInv, Flow
  <2> QED BY <1>2, <1>3, <2>1, <2>2, <2>3, Undisturbed
<1>6. CASE R!PopDone
  <2>1. /\ cutoff' = 0 /\ outPc = "popping"
        /\ outPc' = IF batch = <<>> THEN "idle" ELSE "consuming"
        /\ UNCHANGED <<now, heap, entering, nextSeq, dropped, batch, released>>
    BY <1>6 DEF R!PopDone, R!bufferVars
  <2>2. Flow'
    BY <2>1 DEF PipeInv, Flow
  <2> QED BY <1>2, <1>3, <2>1, <2>2, Undisturbed
<1>7. CASE R!Take
  <2>1. UNCHANGED <<now, heap, entering, nextSeq, dropped, cutoff, released>>
    BY <1>7 DEF R!Take, R!bufferVars
  <2> QED BY <1>2, <1>3, <1>7, <2>1, TakeFlow, Undisturbed
<1>8. CASE R!WaitNext \/ R!Timeout
  <2>1. /\ outPc \in {"idle", "asleep"} /\ outPc' \in {"asleep", "poll"}
        /\ UNCHANGED <<now, heap, entering, nextSeq, dropped, batch, cutoff, released>>
    BY <1>8 DEF R!WaitNext, R!Sleep, R!Timeout, R!bufferVars
  <2>2. Flow'
    BY <2>1 DEF PipeInv, Flow
  <2> QED BY <1>2, <1>3, <2>1, <2>2, Undisturbed
<1> QED BY <1>1, <1>4, <1>5, <1>6, <1>7, <1>8 DEF Output, R!Consumer

LEMMA TickKeeps ==
  ASSUME PipeInv, PipelineTick
  PROVE  Places' /\ Flow' /\ EachInOnePlace'
<1>1. /\ now' = now + 1
      /\ UNCHANGED <<pushing, accepted, heap, entering, nextSeq, dropped, batch, cutoff,
                     released, outPc>>
  BY DEF PipelineTick, R!Tick, R!bufferVars, R!consumerVars, dedupVars
<1>2. now \in Int /\ batch \in Seq(Buffered) /\ cutoff \in Int /\ Hold \in Int
  BY BufferAssumption DEF PipeInv, IInv, TypeOK, Places, PlaceTypes
<1>3. \A i \in 1..Len(batch) : batch[i].ts \in Int
  <2>1. \A i \in 1..Len(batch) : batch[i] \in Buffered
    BY <1>2
  <2> QED BY <2>1 DEF Buffered
<1>4. \A i \in 1..Len(batch) : batch[i].ts + Hold =< now'
  BY <1>1, <1>2, <1>3 DEF PipeInv, Flow
<1>5. Flow'
  BY <1>1, <1>2, <1>4 DEF PipeInv, Flow
<1> QED BY <1>1, <1>2, <1>5, Undisturbed

-----------------------------------------------------------------------------
LEMMA PipelineStart == PipelineInit => PipeInv
<1> SUFFICES ASSUME PipelineInit PROVE PipeInv
  OBVIOUS
<1>1. IInv
  BY InitIInv DEF PipelineInit
<1>2. /\ pushing = {} /\ entering = {} /\ heap = {} /\ accepted = {}
      /\ released = <<>> /\ batch = <<>> /\ nextSeq = 0 /\ cutoff = 0
      /\ dropped = 0 /\ outPc = "poll"
  BY DEF PipelineInit, Init, R!Init
<1>3. <<>> \in Seq(Buffered) /\ Len(<<>>) = 0
  BY EmptySeq
<1>4. PlaceTypes
  BY <1>2, <1>3, FS_EmptySet DEF PlaceTypes
<1>5. Apart /\ Known /\ Flow
  BY <1>2, <1>3 DEF Apart, Known, Flow
<1>6. EachInOnePlace
  <2>1. /\ InHands = {} /\ Ns(entering) = {} /\ Ns(heap) = {}
        /\ Left(released) = {} /\ AcceptedNs = {}
    BY <1>2, <1>3 DEF InHands, Ns, Left, AcceptedNs
  <2>2. Counted({}, {}, {}, {}, 0, {}, 0)
    BY FS_EmptySet DEF Counted
  <2> QED BY <1>2, <1>3, <2>1, <2>2, OnePlace
<1> QED BY <1>1, <1>4, <1>5, <1>6 DEF PipeInv, Places

LEMMA PipelineStep == PipeInv /\ [PipelineNext]_pipelineVars => PipeInv'
<1> SUFFICES ASSUME PipeInv, [PipelineNext]_pipelineVars PROVE PipeInv'
  OBVIOUS
<1>1. IInv'
  BY Inductive, DetectorStep DEF PipeInv
<1>2. batch \in Seq(Buffered) /\ cutoff \in Int
  BY DEF PipeInv, Places, PlaceTypes
<1>3. ASSUME NEW t \in Threads, (\E k \in Keys : Hear(t, k)) \/ Repeat(t)
      PROVE  Places' /\ Flow' /\ EachInOnePlace'
  <2>1. UNCHANGED <<now, accepted, pushing, reorderVars>>
    BY <1>3 DEF Hear, Arrive, Repeat, Hit
  <2>2. UNCHANGED <<pushing, entering, heap, released, nextSeq, dropped, accepted,
                    batch, cutoff, outPc, now>>
    BY <2>1 DEF reorderVars
  <2>3. Flow'
    BY <2>2 DEF PipeInv, Flow
  <2> QED BY <1>2, <2>2, <2>3, Undisturbed
<1>4. CASE UNCHANGED pipelineVars
  <2>1. UNCHANGED <<pushing, entering, heap, released, nextSeq, dropped, accepted,
                    batch, cutoff, outPc, now>>
    BY <1>4 DEF pipelineVars, dedupVars, reorderVars
  <2>2. Flow'
    BY <2>1 DEF PipeInv, Flow
  <2> QED BY <1>1, <1>2, <2>1, <2>2, Undisturbed DEF PipeInv
<1> QED BY <1>1, <1>3, <1>4, FreshKeeps, EnterKeeps, CommitKeeps, OutputKeeps,
           TickKeeps DEF PipelineNext, Ingest, PipeInv

(* Every behaviour of the pipeline keeps its invariant.                     *)
THEOREM PipelineInvariance == PipelineSpec => []PipeInv
BY PipelineStart, PipelineStep, PTL DEF PipelineSpec

(* Between the check and the dispatch nothing is lost and nothing doubled,  *)
(* for any number of threads and whatever times sentences tell              *)
(* (on_sentence and output_loop, pipeline.py:55-108).                       *)
THEOREM NothingLostOnTheWay == PipelineSpec => []EachInOnePlace
<1>1. PipeInv => EachInOnePlace
  BY DEF PipeInv
<1> QED BY <1>1, PipelineInvariance, PTL

-----------------------------------------------------------------------------
(***************************************************************************)
(* The promise of AisStream.  A sentence accepted as the m-th is the m-th  *)
(* the stream takes in.                                                    *)
(***************************************************************************)
RankIn(acs, n)   == Cardinality({a \in acs : a.n =< n})
RankedIn(acs, s) == [key |-> s.key, ts |-> s.ts, n |-> RankIn(acs, s.n)]
AllRanked(acs, ss) == {RankedIn(acs, s) : s \in ss}

Numbering(acs) == /\ IsFiniteSet(acs) /\ \A a \in acs : a.n \in Nat
                 /\ \A a, b \in acs : a.n = b.n => a = b

(* Ranks grow with the numbers.                                             *)
LEMMA RankFacts ==
  ASSUME NEW acs, Numbering(acs)
  PROVE  /\ Cardinality(acs) \in Nat
         /\ \A n : RankIn(acs, n) \in Nat /\ RankIn(acs, n) =< Cardinality(acs)
         /\ \A a, b \in acs : RankIn(acs, a.n) = RankIn(acs, b.n) => a.n = b.n
<1>1. Cardinality(acs) \in Nat
  BY FS_CardinalityType DEF Numbering
<1>2. ASSUME NEW n
      PROVE  /\ IsFiniteSet({a \in acs : a.n =< n})
             /\ RankIn(acs, n) \in Nat /\ RankIn(acs, n) =< Cardinality(acs)
  <2> DEFINE low == {a \in acs : a.n =< n}
  <2>1. low \in SUBSET acs
    OBVIOUS
  <2> HIDE DEF low
  <2>2. IsFiniteSet(low) /\ Cardinality(low) =< Cardinality(acs)
    BY <2>1, FS_Subset DEF Numbering
  <2>3. Cardinality(low) \in Nat
    BY <2>2, FS_CardinalityType
  <2> QED BY <2>2, <2>3 DEF low, RankIn
<1>3. ASSUME NEW a \in acs, NEW b \in acs, a.n < b.n
      PROVE  RankIn(acs, a.n) # RankIn(acs, b.n)
  <2> DEFINE few  == {c \in acs : c.n =< a.n}
             more == {c \in acs : c.n =< b.n}
  <2>0. a.n \in Nat /\ b.n \in Nat /\ \A c \in acs : c.n \in Nat
    BY DEF Numbering
  <2>1. few \subseteq more /\ b \in more /\ b \notin few
    BY <1>3, <2>0
  <2>2. IsFiniteSet(more)
    BY <1>2
  <2> HIDE DEF few, more
  <2>3. Cardinality(few) # Cardinality(more)
    BY <2>1, <2>2, FS_Subset
  <2> QED BY <2>3 DEF few, more, RankIn
<1>4. ASSUME NEW a \in acs, NEW b \in acs, RankIn(acs, a.n) = RankIn(acs, b.n)
      PROVE  a.n = b.n
  <2>1. a.n \in Nat /\ b.n \in Nat
    BY DEF Numbering
  <2>2. ~(a.n < b.n) /\ ~(b.n < a.n)
    BY <1>3, <1>4
  <2> QED BY <2>1, <2>2
<1> QED BY <1>1, <1>2, <1>4

UpTo(acs, top) == \A b \in acs : b.n =< top

(* A new acceptance takes the next rank and moves none of the others.       *)
LEMMA RankNew ==
  ASSUME NEW acs, Numbering(acs), NEW top \in Nat, UpTo(acs, top),
         NEW a, a.n = top + 1
  PROVE  /\ Cardinality(acs \cup {a}) = Cardinality(acs) + 1
         /\ RankIn(acs \cup {a}, top + 1) = Cardinality(acs) + 1
         /\ \A n \in Nat : n =< top => RankIn(acs \cup {a}, n) = RankIn(acs, n)
<1>0. \A b \in acs : b.n \in Nat /\ b.n =< top
  BY DEF Numbering, UpTo
<1>1. a \notin acs
  BY <1>0
<1>2. Cardinality(acs \cup {a}) = Cardinality(acs) + 1
  BY <1>1, FS_AddElement DEF Numbering
<1>3. {b \in acs \cup {a} : b.n =< top + 1} = acs \cup {a}
  BY <1>0
<1>4. ASSUME NEW n \in Nat, n =< top
      PROVE  {b \in acs \cup {a} : b.n =< n} = {b \in acs : b.n =< n}
  BY <1>0, <1>4
<1> QED BY <1>2, <1>3, <1>4 DEF RankIn

(* Sentences under way are told apart by their numbers, hence by their      *)
(* ranks; so removing one removes one from what waits.                      *)
LEMMA RankedApart ==
  ASSUME NEW acs, Numbering(acs), NEW ss,
         \A s \in ss : \E a \in acs : a.n = s.n,
         \A r, s \in ss : r.n = s.n => r = s
  PROVE  /\ \A r, s \in ss : RankedIn(acs, r) = RankedIn(acs, s) => r = s
         /\ IsFiniteSet(ss) /\ IsFiniteSet(AllRanked(acs, ss))
         /\ Cardinality(AllRanked(acs, ss)) = Cardinality(ss)
         /\ \A o \in ss : AllRanked(acs, ss \ {o}) = AllRanked(acs, ss) \ {RankedIn(acs, o)}
<1>1. ASSUME NEW r \in ss, NEW s \in ss, RankedIn(acs, r) = RankedIn(acs, s)
      PROVE  r = s
  <2>1. PICK a \in acs, b \in acs : a.n = r.n /\ b.n = s.n
    OBVIOUS
  <2>2. RankIn(acs, r.n) = RankIn(acs, s.n)
    BY <1>1 DEF RankedIn
  <2>3. a.n = b.n
    BY <2>1, <2>2, RankFacts
  <2> QED BY <2>1, <2>3
<1>2. \A o \in ss : AllRanked(acs, ss \ {o}) = AllRanked(acs, ss) \ {RankedIn(acs, o)}
  <2> SUFFICES ASSUME NEW o \in ss
               PROVE  AllRanked(acs, ss \ {o}) = AllRanked(acs, ss) \ {RankedIn(acs, o)}
    OBVIOUS
  <2>1. ASSUME NEW w \in AllRanked(acs, ss \ {o})
        PROVE  w \in AllRanked(acs, ss) /\ w # RankedIn(acs, o)
    BY <1>1 DEF AllRanked
  <2>2. ASSUME NEW w \in AllRanked(acs, ss), w # RankedIn(acs, o)
        PROVE  w \in AllRanked(acs, ss \ {o})
    BY <2>2 DEF AllRanked
  <2> QED BY <2>1, <2>2
<1>3. IsFiniteSet(ss)
  <2> DEFINE of == [s \in ss |-> CHOOSE a \in acs : a.n = s.n]
  <2>1. \A s \in ss : of[s] \in acs /\ of[s].n = s.n
    OBVIOUS
  <2>2. of \in [ss -> acs]
    BY <2>1
  <2>3. \A q, s \in ss : of[q] = of[s] => q = s
    BY <2>1
  <2> HIDE DEF of
  <2>4. of \in Injection(ss, acs)
    BY <2>2, <2>3 DEF Injection, IsInjective
  <2> QED BY <2>4, FS_Injection DEF Numbering
<1>4. [s \in ss |-> RankedIn(acs, s)] \in Bijection(ss, AllRanked(acs, ss))
  BY <1>1 DEF AllRanked, Bijection, Injection, IsInjective, Surjection
<1>5. ExistsBijection(ss, AllRanked(acs, ss))
  BY <1>4 DEF ExistsBijection
<1>6. IsFiniteSet(AllRanked(acs, ss)) /\ Cardinality(AllRanked(acs, ss)) = Cardinality(ss)
  BY <1>3, <1>5, FS_Bijection
<1> QED BY <1>1, <1>2, <1>3, <1>6

(* Each key that was accepted was accepted last some time.                  *)
LatelyIn(acs) ==
  \A a \in acs : \E b \in acs :
    b.key = a.key /\ \A d \in acs : d.key = a.key => d.n =< b.n

Lately == LatelyIn(accepted)

StreamInv == PipeInv /\ Lately

LEMMA StreamStart == PipelineInit => StreamInv
<1> SUFFICES ASSUME PipelineInit PROVE StreamInv
  OBVIOUS
<1>1. Lately
  BY DEF PipelineInit, Init, Lately, LatelyIn
<1> QED BY <1>1, PipelineStart DEF StreamInv

LEMMA StreamStep == StreamInv /\ [PipelineNext]_pipelineVars => StreamInv'
<1> SUFFICES ASSUME StreamInv, [PipelineNext]_pipelineVars PROVE StreamInv'
  OBVIOUS
<1>1. PipeInv' /\ [Next]_vars /\ IInv
  BY PipelineStep, DetectorStep DEF StreamInv, PipeInv
<1>2. ASSUME NEW c \in calls, Miss(c) PROVE Lately'
  <2> DEFINE a == [key |-> c.key, ts |-> c.ts, at |-> now, n |-> seen + 1,
                   crowd |-> Cardinality(others[c.key])]
  <2>1. accepted' = accepted \cup {a} /\ a.key = c.key /\ a.n = seen + 1
    BY <1>2 DEF Miss
  <2>2. /\ seen \in Nat /\ \A b \in accepted : b.n \in Nat /\ b.n =< seen
    BY <1>1 DEF IInv, TypeOK, Acceptances, Numbered
  <2> HIDE DEF a
  <2>3. \A b \in accepted' : b.n =< a.n
    BY <2>1, <2>2
  <2>4. ASSUME NEW b \in accepted'
        PROVE  \E d \in accepted' :
                 d.key = b.key /\ \A f \in accepted' : f.key = b.key => f.n =< d.n
    <3>1. CASE b.key = a.key
      BY <2>1, <2>3, <3>1
    <3>2. CASE b.key # a.key
      BY <2>1, <3>2 DEF StreamInv, Lately, LatelyIn
    <3> QED BY <3>1, <3>2
  <2> QED BY <2>4 DEF Lately, LatelyIn
<1>3. ASSUME UNCHANGED accepted PROVE Lately'
  BY <1>3 DEF StreamInv, Lately, LatelyIn
<1>4. CASE UNCHANGED vars \/ Tick \/ (\E c \in calls : Hit(c))
             \/ \E t \in Threads, k \in Keys : Arrive(t, k)
  <2>1. UNCHANGED accepted
    BY <1>4 DEF vars, Tick, Hit, Arrive
  <2> QED BY <1>1, <1>3, <2>1 DEF StreamInv
<1> QED BY <1>1, <1>2, <1>4 DEF Next, Quiet, StreamInv

-----------------------------------------------------------------------------
(* Whatever is in the buffer and in the batch is told apart by its number.  *)
LEMMA UnderwayItems ==
  ASSUME PipeInv
  PROVE  /\ \A x, y \in entering \cup heap \cup SeqSet(batch) :
              x.payload.n = y.payload.n => x = y
         /\ \A p \in pushing, x \in entering \cup heap \cup SeqSet(batch) :
              p.n # x.payload.n
         /\ \A x \in entering \cup heap \cup SeqSet(batch) :
              x.payload.n \in AcceptedNs
         /\ \A x \in heap : x \notin entering
         /\ \A x \in entering \cup heap : x \notin SeqSet(batch)
<1> DEFINE items == entering \cup heap \cup SeqSet(batch)
<1>2. \A x \in SeqSet(batch) : \E j \in 1..Len(released) : x = released[j]
  <2> SUFFICES ASSUME NEW i \in 1..Len(batch)
               PROVE  \E j \in 1..Len(released) : batch[i] = released[j]
    BY DEF SeqSet
  <2>1. Len(batch) \in Nat /\ Len(released) \in Nat
    BY LenProperties DEF PipeInv, Places, PlaceTypes
  <2>2. /\ Len(batch) =< Len(released)
        /\ batch[i] = released[Len(released) - Len(batch) + i]
    BY DEF PipeInv, Flow
  <2>3. Len(released) - Len(batch) + i \in 1..Len(released)
    BY <2>1, <2>2
  <2> QED BY <2>2, <2>3
<1>3. \A x, y \in items : x.payload.n = y.payload.n => x = y
  BY <1>2 DEF PipeInv, Places, Apart
<1>4. \A p \in pushing, x \in items : p.n # x.payload.n
  BY <1>2 DEF PipeInv, Places, Apart
<1>5. \A x \in items : x.payload.n \in AcceptedNs
  BY <1>2 DEF PipeInv, Places, Known
<1>6. \A x \in heap : x \notin entering
  BY DEF PipeInv, Places, Apart
<1>7. \A x \in entering \cup heap : x \notin SeqSet(batch)
  BY <1>2 DEF PipeInv, Places, Apart
<1> QED BY <1>3, <1>4, <1>5, <1>6, <1>7

(* What is under way has been accepted, and is told apart by its number.    *)
LEMMA UnderwayApart ==
  ASSUME PipeInv
  PROVE  /\ Numbering(accepted)
         /\ \A s \in Underway : \E a \in accepted : a.n = s.n
         /\ \A r, s \in Underway : r.n = s.n => r = s
<1> DEFINE items == entering \cup heap \cup SeqSet(batch)
<1>1. Numbering(accepted)
  BY DEF PipeInv, IInv, Finite, TypeOK, Acceptances, Places, Known, Numbering
<1>3. \A x, y \in items : x.payload.n = y.payload.n => x = y
  BY UnderwayItems
<1>4. \A p \in pushing, x \in items : p.n # x.payload.n
  BY UnderwayItems
<1>5. /\ \A p \in pushing : p.n \in AcceptedNs
      /\ \A x \in items : x.payload.n \in AcceptedNs
  BY UnderwayItems DEF PipeInv, Places, Known
<1>6. \A s \in Underway : \/ \E p \in pushing :
                                s = [key |-> p.key, ts |-> TimeOf(p), n |-> p.n]
                          \/ \E x \in items : s = Plain(x)
  BY DEF Underway
<1> HIDE DEF items
<1>7. \A s \in Underway : \E a \in accepted : a.n = s.n
  BY <1>5, <1>6 DEF AcceptedNs, Plain
<1>8. ASSUME NEW r \in Underway, NEW s \in Underway, r.n = s.n PROVE r = s
  <2>1. CASE \E x \in items, y \in items : r = Plain(x) /\ s = Plain(y)
    BY <1>3, <1>8, <2>1 DEF Plain
  <2>2. CASE \E p \in pushing, q \in pushing :
               /\ r = [key |-> p.key, ts |-> TimeOf(p), n |-> p.n]
               /\ s = [key |-> q.key, ts |-> TimeOf(q), n |-> q.n]
    BY <1>8, <2>2 DEF PipeInv, Places, Apart
  <2>3. CASE \E p \in pushing, x \in items :
               \/ /\ r = [key |-> p.key, ts |-> TimeOf(p), n |-> p.n]
                  /\ s = Plain(x)
               \/ /\ s = [key |-> p.key, ts |-> TimeOf(p), n |-> p.n]
                  /\ r = Plain(x)
    BY <1>4, <1>8, <2>3 DEF Plain
  <2> QED BY <1>6, <2>1, <2>2, <2>3
<1> QED BY <1>1, <1>7, <1>8

(* The variables of the stream, in terms of these operators.                *)
LatestIn(acs, k) ==
  CHOOSE a \in acs : a.key = k /\ \A b \in acs : b.key = k => b.n =< a.n

WindowIn(acs) ==
  [k \in Keys |-> IF \E a \in acs : a.key = k THEN TTL + LatestIn(acs, k).at ELSE 0]

OutIn(acs, ds) == [i \in 1..Len(ds) |-> RankedIn(acs, Plain(ds[i]))]

LEMMA Mapped ==
  /\ Waiting = AllRanked(accepted, Underway) /\ Waiting' = AllRanked(accepted', Underway')
  /\ Window = WindowIn(accepted) /\ Window' = WindowIn(accepted')
  /\ Out = OutIn(accepted, Dispatched) /\ Out' = OutIn(accepted', Dispatched')
<1>1. Waiting = AllRanked(accepted, Underway) /\ Waiting' = AllRanked(accepted', Underway')
  BY DEF Waiting, Ranked, AllRanked, RankedIn, RankIn
<1>2. Window = WindowIn(accepted) /\ Window' = WindowIn(accepted')
  BY DEF Window, Latest, WindowIn, LatestIn
<1>3. Out = OutIn(accepted, Dispatched) /\ Out' = OutIn(accepted', Dispatched')
  BY DEF Out, Ranked, OutIn, RankedIn, RankIn
<1> QED BY <1>1, <1>2, <1>3

(* The stream counts as this module does.                                   *)
LEMMA SameCount == /\ \A S : Stream!Cardinality(S) = Cardinality(S)
                   /\ \A S : R!Cardinality(S) = Cardinality(S)
BY DEF Stream!Cardinality, R!Cardinality, Cardinality

(* A dispatched sequence, by its elements.                                  *)
LEMMA DispatchedBy ==
  ASSUME PipeInv
  PROVE  /\ Len(Dispatched) = Len(released) - Len(batch)
         /\ Len(released) - Len(batch) \in Nat
         /\ \A i \in 1..Len(Dispatched) :
              Dispatched[i] = released[i] /\ i \in 1..Len(released)
<1> DEFINE m == Len(released) - Len(batch)
<1>1. released \in Seq(Buffered) /\ Len(released) \in Nat /\ Len(batch) \in Nat
  BY LenProperties DEF PipeInv, Places, PlaceTypes
<1>2. m \in Nat /\ m =< Len(released)
  BY <1>1 DEF PipeInv, Flow
<1> HIDE DEF m
<1>3. \A i \in 1..m : i \in 1..Len(released) /\ released[i] \in Buffered
  BY <1>1, <1>2
<1>4. /\ Len(SubSeq(released, 1, m)) = m
      /\ \A i \in 1..m : SubSeq(released, 1, m)[i] = released[i]
  BY <1>1, <1>2, <1>3, SubSeqProperties
<1> QED BY <1>2, <1>3, <1>4 DEF Dispatched, m

-----------------------------------------------------------------------------
(* The latest acceptance of a key is unique.                                *)
LEMMA LatestIs ==
  ASSUME NEW acs, Numbering(acs), NEW a \in acs,
         \A b \in acs : b.key = a.key => b.n =< a.n
  PROVE  LatestIn(acs, a.key) = a
<1> DEFINE l == LatestIn(acs, a.key)
<1>1. l \in acs /\ l.key = a.key /\ \A b \in acs : b.key = a.key => b.n =< l.n
  BY DEF LatestIn
<1> HIDE DEF l
<1>2. l.n \in Nat /\ a.n \in Nat /\ l.n =< a.n /\ a.n =< l.n
  BY <1>1 DEF Numbering
<1>3. l = a
  BY <1>1, <1>2 DEF Numbering
<1> QED BY <1>3 DEF l

(* A new acceptance opens the window of its key and of no other.            *)
LEMMA WindowNew ==
  ASSUME NEW acs, Numbering(acs), NEW top \in Nat, UpTo(acs, top), LatelyIn(acs),
         NEW a, a.n = top + 1, a.key \in Keys
  PROVE  WindowIn(acs \cup {a}) = [WindowIn(acs) EXCEPT ![a.key] = TTL + a.at]
<1> DEFINE more == acs \cup {a}
<1>1. \A b \in acs : b.n \in Nat /\ b.n =< top
  BY DEF Numbering, UpTo
<1>2. Numbering(more)
  BY <1>1, FS_AddElement DEF Numbering
<1>3. \A b \in more : b.n =< a.n
  BY <1>1
<1>4. LatestIn(more, a.key) = a
  BY <1>2, <1>3, LatestIs
<1>5. ASSUME NEW k \in Keys, k # a.key
      PROVE  WindowIn(more)[k] = WindowIn(acs)[k]
  <2>1. CASE \E b \in acs : b.key = k
    <3>1. PICK d \in acs : d.key = k /\ \A f \in acs : f.key = k => f.n =< d.n
      BY <2>1 DEF LatelyIn
    <3>2. LatestIn(acs, k) = d
      BY <3>1, LatestIs
    <3>3. d \in more /\ \A f \in more : f.key = k => f.n =< d.n
      BY <1>5, <3>1
    <3> HIDE DEF more
    <3>4. LatestIn(more, k) = d
      BY <1>2, <3>1, <3>3, LatestIs
    <3> QED BY <3>1, <3>2, <3>3, <3>4 DEF WindowIn
  <2>2. CASE ~\E b \in acs : b.key = k
    BY <1>5, <2>2 DEF WindowIn
  <2> QED BY <2>1, <2>2
<1>6. WindowIn(more)[a.key] = TTL + a.at
  BY <1>4 DEF WindowIn
<1>7. /\ DOMAIN WindowIn(more) = Keys /\ DOMAIN WindowIn(acs) = Keys
      /\ WindowIn(more) = [k \in Keys |-> WindowIn(more)[k]]
  BY DEF WindowIn
<1> HIDE DEF more
<1>8. WindowIn(more) = [WindowIn(acs) EXCEPT ![a.key] = TTL + a.at]
  BY <1>5, <1>6, <1>7
<1> QED BY <1>8 DEF more

(* Steps that leave what is heard, accepted, under way and dispatched alone *)
(* the stream does not see.                                                 *)
LEMMA Unseen ==
  ASSUME UNCHANGED <<now, accepted, others>>, Underway' = Underway, Dispatched' = Dispatched
  PROVE  UNCHANGED Stream!vars
<1>1. Waiting' = Waiting /\ Window' = Window /\ Out' = Out
  BY Mapped
<1>2. Cardinality(accepted)' = Cardinality(accepted)
  OBVIOUS
<1> QED BY <1>1, <1>2 DEF Stream!vars

(* What is under way, by where it is.                                       *)
Hand(p)    == [key |-> p.key, ts |-> TimeOf(p), n |-> p.n]
Hands(ps)  == {Hand(p) : p \in ps}
Plains(xs) == {Plain(x) : x \in xs}

LEMMA UnderwayBy ==
  /\ Underway = Hands(pushing) \cup Plains(entering \cup heap \cup SeqSet(batch))
  /\ Underway' = Hands(pushing') \cup Plains(entering' \cup heap' \cup SeqSet(batch'))
BY DEF Underway, Hands, Hand, Plains, TimeOf, Plain, SeqSet

LEMMA PlainsGrow ==
  ASSUME NEW S, NEW x PROVE Plains(S \cup {x}) = Plains(S) \cup {Plain(x)}
BY DEF Plains

LEMMA PlainsJoin ==
  ASSUME NEW S, NEW T, NEW U
  PROVE  Plains(S \cup T \cup U) = Plains(S) \cup Plains(T) \cup Plains(U)
BY DEF Plains

LEMMA UnderwayParts ==
  /\ Underway = Hands(pushing) \cup Plains(entering) \cup Plains(heap)
                 \cup Plains(SeqSet(batch))
  /\ Underway' = Hands(pushing') \cup Plains(entering') \cup Plains(heap')
                  \cup Plains(SeqSet(batch'))
<1>1. Plains(entering \cup heap \cup SeqSet(batch))
        = Plains(entering) \cup Plains(heap) \cup Plains(SeqSet(batch))
  BY PlainsJoin
<1>2. Plains(entering' \cup heap' \cup SeqSet(batch'))
        = Plains(entering') \cup Plains(heap') \cup Plains(SeqSet(batch'))
  BY PlainsJoin
<1> QED BY <1>1, <1>2, UnderwayBy

LEMMA EnterUnseen ==
  ASSUME NEW t \in Threads, PushEnter(t)
  PROVE  UNCHANGED Stream!vars
<1>1. PICK p \in pushing :
        /\ R!Enter([thread |-> t, key |-> p.key, n |-> p.n], TimeOf(p))
        /\ pushing' = pushing \ {p}
  BY DEF PushEnter
<1> DEFINE e == [ts |-> TimeOf(p), seq |-> nextSeq,
                 payload |-> [thread |-> t, key |-> p.key, n |-> p.n]]
<1>2. /\ entering' = entering \cup {e}
      /\ UNCHANGED <<now, heap, batch, released, accepted, others>>
  BY <1>1 DEF PushEnter, R!Enter, R!consumerVars, dedupVars
<1>3. Plain(e) = Hand(p)
  BY DEF Plain, Hand
<1> HIDE DEF e
<1>4. Hands(pushing') \cup Plains(entering') = Hands(pushing) \cup Plains(entering)
  BY <1>1, <1>2, <1>3 DEF Hands, Plains
<1>5. Underway' = Underway
  BY <1>2, <1>4, UnderwayBy DEF Plains
<1>6. Dispatched' = Dispatched
  BY <1>2 DEF Dispatched
<1> QED BY <1>2, <1>5, <1>6, Unseen

(* A push under the lock: nothing to see, or the overflow of a queueful.    *)
LEMMA CommitMaps ==
  ASSUME PipeInv, NEW t \in Threads, PushCommit(t)
  PROVE  UNCHANGED Stream!vars \/ Stream!Overflow
<1>0. UNCHANGED others
  BY DEF PushCommit, dedupVars
<1>1. PICK e \in entering, x \in Buffered :
        /\ x.payload = e.payload /\ x.ts = e.ts
        /\ entering' = entering \ {e}
        /\ \/ heap' = heap \cup {x}
           \/ ~R!HasRoom /\ \E old \in heap : heap' = (heap \ {old}) \cup {x}
        /\ UNCHANGED <<now, batch, released, pushing, accepted, others>>
  BY <1>0, CommitFacts
<1>2. Plain(x) = Plain(e)
  BY <1>1 DEF Plain
<1>3. Dispatched' = Dispatched /\ Window' = Window /\ Out' = Out
      /\ Cardinality(accepted)' = Cardinality(accepted)
  <2>1. Dispatched' = Dispatched
    BY <1>1 DEF Dispatched
  <2> QED BY <1>1, <2>1, Mapped
<1>4. CASE heap' = heap \cup {x}
  <2>1. Plains(entering') \cup Plains(heap') = Plains(entering) \cup Plains(heap)
    BY <1>1, <1>2, <1>4 DEF Plains
  <2>2. UNCHANGED <<batch, pushing>>
    BY <1>1
  <2>3. Underway' = Underway
    BY <2>1, <2>2, UnderwayParts
  <2> QED BY <1>1, <1>3, <2>3, Unseen
<1>5. ASSUME NEW old \in heap, heap' = (heap \ {old}) \cup {x}, ~R!HasRoom
      PROVE  Stream!Overflow
  <2>1. Plain(old) \in Underway
    BY UnderwayBy DEF Plains
  <2>2. ASSUME NEW y \in entering \cup (heap \ {old}) \cup SeqSet(batch)
        PROVE  Plain(y) # Plain(old)
    BY UnderwayItems DEF Plain
  <2>3. ASSUME NEW p \in pushing PROVE Hand(p) # Plain(old)
    BY UnderwayItems DEF Plain, Hand
  <2>4. Plains(entering') \cup Plains(heap') =
          Plains(entering) \cup Plains(heap \ {old})
    <3>1. Plains(heap') = Plains(heap \ {old}) \cup {Plain(e)}
      BY <1>2, <1>5, PlainsGrow
    <3>2. entering = entering' \cup {e}
      BY <1>1
    <3>3. Plains(entering) = Plains(entering') \cup {Plain(e)}
      BY <3>2, PlainsGrow
    <3> QED BY <3>1, <3>3
  <2>5. Underway' = Hands(pushing)
                      \cup Plains(entering \cup (heap \ {old}) \cup SeqSet(batch))
    <3>1. UNCHANGED <<batch, pushing>>
      BY <1>1
    <3>2. Plains(entering \cup (heap \ {old}) \cup SeqSet(batch))
            = Plains(entering) \cup Plains(heap \ {old}) \cup Plains(SeqSet(batch))
      BY PlainsJoin
    <3> QED BY <2>4, <3>1, <3>2, UnderwayParts
  <2>6. Plains(entering \cup heap \cup SeqSet(batch)) =
          Plains(entering \cup (heap \ {old}) \cup SeqSet(batch)) \cup {Plain(old)}
    BY DEF Plains
  <2>7. Underway' = Underway \ {Plain(old)}
    <3>1. Plain(old) \notin Plains(entering \cup (heap \ {old}) \cup SeqSet(batch))
      BY <2>2 DEF Plains
    <3>2. Plain(old) \notin Hands(pushing)
      BY <2>3 DEF Hands
    <3> QED BY <2>5, <2>6, <3>1, <3>2, UnderwayBy
  <2>8. Waiting' = Waiting \ {RankedIn(accepted, Plain(old))}
        /\ RankedIn(accepted, Plain(old)) \in Waiting
    <3>1. AllRanked(accepted, Underway \ {Plain(old)}) =
            AllRanked(accepted, Underway) \ {RankedIn(accepted, Plain(old))}
      BY <2>1, UnderwayApart, RankedApart
    <3>2. Waiting' = AllRanked(accepted, Underway \ {Plain(old)})
      BY <1>1, <2>7, Mapped
    <3>3. RankedIn(accepted, Plain(old)) \in AllRanked(accepted, Underway)
      BY <2>1 DEF AllRanked
    <3> QED BY <3>1, <3>2, <3>3, Mapped
  <2>9. Stream!Cardinality(Waiting) > MaxQueue
    <3> DEFINE full == heap \cup {e}
               Of   == [y \in full |-> Plain(y)]
    <3>1. \A y, z \in full : y.payload.n = z.payload.n => y = z
      BY UnderwayItems
    <3>2. Of \in Injection(full, Underway)
      <4>1. \A y \in full : Plain(y) \in Underway
        BY UnderwayBy DEF Plains
      <4>2. \A y, z \in full : Plain(y) = Plain(z) => y = z
        BY <3>1 DEF Plain
      <4> QED BY <4>1, <4>2 DEF Injection, IsInjective
    <3>3. e \notin heap
      BY DEF PipeInv, Places, Apart
    <3>4. IsFiniteSet(heap) /\ Cardinality(full) = Cardinality(heap) + 1
      BY <3>3, FS_AddElement DEF PipeInv, Places, PlaceTypes
    <3>5. ~(Cardinality(heap) < MaxQueue) /\ Cardinality(heap) \in Nat
      BY <1>5, <3>4, SameCount, FS_CardinalityType DEF R!HasRoom
    <3>6. /\ IsFiniteSet(Waiting) /\ Cardinality(Waiting) = Cardinality(Underway)
          /\ IsFiniteSet(Underway)
      BY UnderwayApart, RankedApart, Mapped
    <3> HIDE DEF full, Of
    <3>7. Cardinality(full) =< Cardinality(Underway) /\ Cardinality(Underway) \in Nat
      BY <3>2, <3>6, FS_Injection, FS_CardinalityType
    <3>8. Cardinality(Waiting) > MaxQueue
      BY <3>4, <3>5, <3>6, <3>7, BufferAssumption
    <3> QED BY <3>8, SameCount
  <2> QED BY <1>1, <1>3, <2>8, <2>9 DEF Stream!Overflow
<1> QED BY <1>1, <1>4, <1>5

-----------------------------------------------------------------------------
(* The sequences that grow at one end.                                      *)
LEMMA Prefixes ==
  ASSUME NEW S, NEW rs \in Seq(S), NEW m \in 0..Len(rs), NEW x \in S
  PROVE  /\ SubSeq(Append(rs, x), 1, m) = SubSeq(rs, 1, m)
         /\ m < Len(rs) =>
              SubSeq(rs, 1, m + 1) = Append(SubSeq(rs, 1, m), rs[m + 1])
<1>1. /\ Len(rs) \in Nat /\ Len(Append(rs, x)) = Len(rs) + 1
      /\ \A i \in 1..Len(rs) : rs[i] \in S /\ Append(rs, x)[i] = rs[i]
      /\ Append(rs, x) \in Seq(S)
  OBVIOUS
<1>2. /\ SubSeq(rs, 1, m) \in Seq(S) /\ Len(SubSeq(rs, 1, m)) = m
      /\ \A i \in 1..m : SubSeq(rs, 1, m)[i] = rs[i]
  BY <1>1, SubSeqProperties
<1>3. /\ SubSeq(Append(rs, x), 1, m) \in Seq(S)
      /\ Len(SubSeq(Append(rs, x), 1, m)) = m
      /\ \A i \in 1..m : SubSeq(Append(rs, x), 1, m)[i] = Append(rs, x)[i]
  BY <1>1, SubSeqProperties
<1>4. SubSeq(Append(rs, x), 1, m) = SubSeq(rs, 1, m)
  BY <1>1, <1>2, <1>3, SeqEqual
<1>5. ASSUME m < Len(rs)
      PROVE  SubSeq(rs, 1, m + 1) = Append(SubSeq(rs, 1, m), rs[m + 1])
  <2> DEFINE up == SubSeq(rs, 1, m + 1)
             on == Append(SubSeq(rs, 1, m), rs[m + 1])
  <2>1. rs[m + 1] \in S
    BY <1>1, <1>5
  <2>2. /\ up \in Seq(S) /\ Len(up) = m + 1
        /\ \A i \in 1..(m + 1) : up[i] = rs[i]
    BY <1>1, <1>5, SubSeqProperties
  <2>3. /\ on \in Seq(S) /\ Len(on) = m + 1
        /\ \A i \in 1..m : on[i] = rs[i]
        /\ on[m + 1] = rs[m + 1]
    BY <1>2, <2>1, AppendProperties
  <2> HIDE DEF up, on
  <2>4. up = on
    BY <2>2, <2>3, SeqEqual
  <2> QED BY <2>4 DEF up, on
<1> QED BY <1>4, <1>5

LEMMA OutGrows ==
  ASSUME NEW acs, NEW S, NEW ds \in Seq(S), NEW x \in S
  PROVE  OutIn(acs, Append(ds, x)) = Append(OutIn(acs, ds), RankedIn(acs, Plain(x)))
<1> DEFINE W == {RankedIn(acs, Plain(y)) : y \in S}
           more == OutIn(acs, Append(ds, x))
           then == Append(OutIn(acs, ds), RankedIn(acs, Plain(x)))
<1>1. /\ Len(ds) \in Nat /\ Len(Append(ds, x)) = Len(ds) + 1
      /\ \A i \in 1..Len(ds) : ds[i] \in S /\ Append(ds, x)[i] = ds[i]
      /\ Append(ds, x)[Len(ds) + 1] = x
  OBVIOUS
<1>2. \A y \in S : RankedIn(acs, Plain(y)) \in W
  OBVIOUS
<1> HIDE DEF W
<1>3. OutIn(acs, ds) \in Seq(W) /\ Len(OutIn(acs, ds)) = Len(ds)
  BY <1>1, <1>2 DEF OutIn
<1>4. /\ more \in Seq(W) /\ Len(more) = Len(ds) + 1
      /\ \A i \in 1..Len(ds) : more[i] = RankedIn(acs, Plain(ds[i]))
      /\ more[Len(ds) + 1] = RankedIn(acs, Plain(x))
  <2>1. \A i \in 1..(Len(ds) + 1) : Append(ds, x)[i] \in S
    BY <1>1
  <2> QED BY <1>1, <1>2, <2>1 DEF OutIn
<1>5. /\ then \in Seq(W) /\ Len(then) = Len(ds) + 1
      /\ \A i \in 1..Len(ds) : then[i] = RankedIn(acs, Plain(ds[i]))
      /\ then[Len(ds) + 1] = RankedIn(acs, Plain(x))
  <2>1. RankedIn(acs, Plain(x)) \in W
    BY <1>2
  <2>2. \A i \in 1..Len(ds) : OutIn(acs, ds)[i] = RankedIn(acs, Plain(ds[i]))
    BY DEF OutIn
  <2> QED BY <1>1, <1>3, <2>1, <2>2, AppendProperties
<1> HIDE DEF more, then
<1>6. \A i \in 1..Len(more) : more[i] = then[i]
  BY <1>1, <1>4, <1>5
<1>7. more = then
  BY <1>4, <1>5, <1>6, SeqEqual
<1> QED BY <1>7 DEF more, then

(* A pop moves a sentence within what is under way.                         *)
LEMMA PopUnseen ==
  ASSUME PipeInv, R!PopOne, UNCHANGED <<dedupVars, pushing>>
  PROVE  UNCHANGED Stream!vars
<1>1. PICK x \in heap : /\ heap' = heap \ {x}
                        /\ batch' = Append(batch, x)
                        /\ released' = Append(released, x)
  BY DEF R!PopOne
<1>2. UNCHANGED <<now, entering, accepted, others, pushing>>
  BY DEF R!PopOne, dedupVars
<1>3. x \in Buffered /\ released \in Seq(Buffered) /\ batch \in Seq(Buffered)
  BY DEF PipeInv, Places, PlaceTypes
<1>4. /\ Len(batch) \in Nat /\ Len(batch') = Len(batch) + 1
      /\ \A i \in 1..Len(batch) : batch'[i] = batch[i]
      /\ batch'[Len(batch) + 1] = x
      /\ Len(released) \in Nat /\ Len(released') = Len(released) + 1
  BY <1>1, <1>3
<1>5. SeqSet(batch') = SeqSet(batch) \cup {x}
  BY <1>4 DEF SeqSet
<1>6. entering' \cup heap' \cup SeqSet(batch') = entering \cup heap \cup SeqSet(batch)
  BY <1>1, <1>2, <1>5
<1>7. Underway' = Underway
  BY <1>2, <1>6, UnderwayBy
<1>8. Dispatched' = Dispatched
  <2>1. Len(released') - Len(batch') = Len(released) - Len(batch)
        /\ Len(released) - Len(batch) \in 0..Len(released)
    BY <1>4, DispatchedBy
  <2>2. SubSeq(Append(released, x), 1, Len(released) - Len(batch))
          = SubSeq(released, 1, Len(released) - Len(batch))
    BY <1>3, <2>1, Prefixes
  <2> QED BY <1>1, <2>1, <2>2 DEF Dispatched
<1> QED BY <1>2, <1>7, <1>8, Unseen

(* The head of the batch is handed on when it is due.                       *)
LEMMA TakeMaps ==
  ASSUME PipeInv, R!Take, UNCHANGED <<dedupVars, pushing>>
  PROVE  Stream!Forward
<1> DEFINE x == batch[1]
           m == Len(released) - Len(batch)
<1>1. /\ batch' \in Seq(Buffered) /\ Len(batch') = Len(batch) - 1
      /\ Len(batch) \in Nat \ {0}
      /\ \A i \in 1..Len(batch') : batch'[i] = batch[i + 1]
  BY TakeFlow
<1>2. UNCHANGED <<now, heap, entering, released, accepted, others, pushing>>
  BY DEF R!Take, R!bufferVars, dedupVars
<1>3. /\ released \in Seq(Buffered) /\ batch \in Seq(Buffered)
      /\ Len(released) \in Nat
  BY LenProperties DEF PipeInv, Places, PlaceTypes
<1>4. /\ m \in 0..Len(released) /\ m < Len(released) /\ x = released[m + 1]
      /\ x.ts + Hold =< now /\ x \in Buffered
  BY <1>1, <1>3 DEF PipeInv, Flow
<1>5. SeqSet(batch) = SeqSet(batch') \cup {x} /\ x \notin SeqSet(batch')
  <2>1. SeqSet(batch) = SeqSet(batch') \cup {x}
    <3>1. \A i \in 1..Len(batch) : i = 1 \/ i - 1 \in 1..Len(batch')
      BY <1>1
    <3>2. \A i \in 1..Len(batch) : batch[i] = x \/ batch[i] \in SeqSet(batch')
      <4> SUFFICES ASSUME NEW i \in 1..Len(batch), i # 1
                   PROVE  batch[i] \in SeqSet(batch')
        OBVIOUS
      <4>1. i - 1 \in 1..Len(batch') /\ (i - 1) + 1 = i
        BY <3>1
      <4>2. batch'[i - 1] = batch[i]
        BY <1>1, <4>1
      <4> QED BY <4>1, <4>2 DEF SeqSet
    <3>3. \A i \in 1..Len(batch') : i + 1 \in 1..Len(batch)
      BY <1>1
    <3>4. 1 \in 1..Len(batch)
      BY <1>1
    <3>5. SeqSet(batch) \subseteq SeqSet(batch') \cup {x}
      BY <3>2 DEF SeqSet
    <3>6. SeqSet(batch') \subseteq SeqSet(batch) /\ x \in SeqSet(batch)
      BY <1>1, <3>3, <3>4 DEF SeqSet
    <3> QED BY <3>5, <3>6
  <2>2. \A i \in 1..Len(batch') : batch'[i] # x
    <3> SUFFICES ASSUME NEW i \in 1..Len(batch'), batch'[i] = x PROVE FALSE
      OBVIOUS
    <3>1. i + 1 \in 1..Len(batch) /\ i \in Nat
      BY <1>1
    <3>2. batch[i + 1] = released[m + (i + 1)] /\ batch[i + 1] = x
      BY <1>1, <3>1 DEF PipeInv, Flow
    <3>3. m + (i + 1) \in 1..Len(released) /\ m + 1 \in 1..Len(released)
          /\ m + (i + 1) # m + 1
      BY <1>1, <1>3, <1>4, <3>1
    <3> QED BY <1>4, <3>2, <3>3 DEF PipeInv, Places, Apart
  <2> QED BY <2>1, <2>2 DEF SeqSet
<1> HIDE DEF x, m
<1>6. Underway' = Underway \ {Plain(x)} /\ Plain(x) \in Underway
  <2> DEFINE rest == entering \cup heap \cup SeqSet(batch')
  <2>1. entering \cup heap \cup SeqSet(batch) = rest \cup {x} /\ x \notin rest
    BY <1>5, UnderwayItems
  <2>2. entering' \cup heap' \cup SeqSet(batch') = rest
    BY <1>2
  <2> HIDE DEF rest
  <2>3. \A y \in rest : y.payload.n # x.payload.n
    BY <2>1, UnderwayItems
  <2>4. \A p \in pushing : p.n # x.payload.n
    BY <2>1, UnderwayItems
  <2>5. Plain(x) \notin Plains(rest) /\ Plain(x) \notin Hands(pushing)
    BY <2>3, <2>4 DEF Plains, Plain, Hands, Hand
  <2>6. Plains(rest \cup {x}) = Plains(rest) \cup {Plain(x)}
    BY DEF Plains
  <2>7. Underway = Hands(pushing) \cup Plains(rest \cup {x})
        /\ Underway' = Hands(pushing) \cup Plains(rest)
    BY <1>2, <2>1, <2>2, UnderwayBy
  <2> QED BY <2>5, <2>6, <2>7
<1>7. /\ Waiting' = Waiting \ {RankedIn(accepted, Plain(x))}
      /\ RankedIn(accepted, Plain(x)) \in Waiting
  <2>1. AllRanked(accepted, Underway \ {Plain(x)}) =
          AllRanked(accepted, Underway) \ {RankedIn(accepted, Plain(x))}
    BY <1>6, UnderwayApart, RankedApart
  <2>2. Waiting' = AllRanked(accepted, Underway \ {Plain(x)})
    BY <1>2, <1>6, Mapped
  <2>3. RankedIn(accepted, Plain(x)) \in AllRanked(accepted, Underway)
    BY <1>6 DEF AllRanked
  <2> QED BY <2>1, <2>2, <2>3, Mapped
<1>8. Out' = Append(Out, RankedIn(accepted, Plain(x)))
  <2>1. Dispatched = SubSeq(released, 1, m) /\ Dispatched' = SubSeq(released, 1, m + 1)
    <3>1. Len(released) - Len(batch') = m + 1
      BY <1>1, <1>3 DEF m
    <3> QED BY <1>2, <3>1 DEF Dispatched, m
  <2>2. Dispatched' = Append(Dispatched, x)
    BY <1>3, <1>4, <2>1, Prefixes
  <2>3. Dispatched \in Seq(Buffered)
    <3>1. \A i \in 1..m : released[i] \in Buffered
      BY <1>3, <1>4
    <3> QED BY <1>3, <1>4, <2>1, <3>1, SubSeqProperties
  <2> QED BY <1>2, <1>4, <2>2, <2>3, OutGrows, Mapped
<1>9. RankedIn(accepted, Plain(x)).ts + Hold =< now
  BY <1>4 DEF RankedIn, Plain
<1>10. /\ Window' = Window /\ Cardinality(accepted)' = Cardinality(accepted)
       /\ now' = now /\ others' = others
  BY <1>2, Mapped
<1> QED BY <1>7, <1>8, <1>9, <1>10 DEF Stream!Forward

(* The other steps of the output thread are not seen.                       *)
LEMMA OutputMaps ==
  ASSUME PipeInv, Output
  PROVE  UNCHANGED Stream!vars \/ Stream!Forward
<1>1. UNCHANGED <<dedupVars, pushing>> /\ UNCHANGED <<accepted, others>>
  BY DEF Output, dedupVars
<1>2. CASE R!PopOne
  BY <1>1, <1>2, PopUnseen
<1>3. CASE R!Take
  BY <1>1, <1>3, TakeMaps
<1>4. CASE R!AcquirePop
  <2>1. /\ batch = <<>> /\ batch' = <<>>
        /\ UNCHANGED <<now, heap, entering, released>>
    BY <1>4 DEF R!AcquirePop, R!bufferVars, PipeInv, Flow
  <2>2. Underway' = Underway
    BY <1>1, <2>1, UnderwayBy
  <2>3. Dispatched' = Dispatched
    BY <2>1 DEF Dispatched
  <2> QED BY <1>1, <2>1, <2>2, <2>3, Unseen
<1>5. CASE R!ReadClock \/ R!PopDone \/ R!WaitNext \/ R!Timeout
  <2>1. UNCHANGED <<now, heap, entering, released, batch>>
    BY <1>5 DEF R!ReadClock, R!PopDone, R!WaitNext, R!Sleep, R!Timeout, R!bufferVars
  <2>2. Underway' = Underway
    BY <1>1, <2>1, UnderwayBy
  <2>3. Dispatched' = Dispatched
    BY <2>1 DEF Dispatched
  <2> QED BY <1>1, <2>1, <2>2, <2>3, Unseen
<1> QED BY <1>2, <1>3, <1>4, <1>5 DEF Output, R!Consumer

LEMMA TickMaps == ASSUME PipelineTick PROVE Stream!Tick
<1>1. /\ now' = now + 1
      /\ UNCHANGED <<pushing, accepted, others, heap, entering, batch, released>>
  BY DEF PipelineTick, R!Tick, R!bufferVars, R!consumerVars, dedupVars
<1>2. Underway' = Underway
  BY <1>1, UnderwayBy
<1>3. Dispatched' = Dispatched
  BY <1>1 DEF Dispatched
<1>4. Waiting' = Waiting /\ Window' = Window /\ Out' = Out
      /\ Cardinality(accepted)' = Cardinality(accepted)
  BY <1>1, <1>2, <1>3, Mapped
<1> QED BY <1>1, <1>4 DEF Stream!Tick

(* A thread that has read a sentence has not yet looked it up.              *)
LEMMA HearUnseen ==
  ASSUME NEW t \in Threads, NEW k \in Keys, Hear(t, k)
  PROVE  UNCHANGED Stream!vars
<1>1. UNCHANGED <<now, accepted, others, pushing, reorderVars>>
  BY DEF Hear, Arrive
<1>2. UNCHANGED <<now, accepted, others, pushing, heap, entering, batch, released>>
  BY <1>1 DEF reorderVars
<1>3. Underway' = Underway
  BY <1>2, UnderwayBy
<1>4. Dispatched' = Dispatched
  BY <1>2 DEF Dispatched
<1> QED BY <1>2, <1>3, <1>4, Unseen

(* The entry of a key ends when its window does.                            *)
LEMMA EntryIsWindow ==
  ASSUME StreamInv, NEW k \in DOMAIN cache
  PROVE  k \in Keys /\ cache[k].expires = WindowIn(accepted)[k]
<1>1. Numbering(accepted) /\ k \in Keys
  BY UnderwayApart DEF StreamInv, PipeInv, IInv, TypeOK
<1>2. PICK a \in accepted : /\ a.key = k /\ cache[k].expires = a.at + TTL
                            /\ \A b \in accepted : b.key = k => b.n =< a.n
  BY DEF StreamInv, PipeInv, IInv, CacheMatches
<1>3. LatestIn(accepted, k) = a
  BY <1>1, <1>2, LatestIs
<1>4. a.at \in Nat /\ TTL \in Nat
  BY TTLAssumption DEF StreamInv, PipeInv, IInv, TypeOK, Acceptances
<1>5. WindowIn(accepted)[k] = TTL + a.at
  BY <1>1, <1>2, <1>3 DEF WindowIn
<1> QED BY <1>1, <1>2, <1>4, <1>5

(* A copy found in the cache is one the stream hears within the window.     *)
LEMMA RepeatMaps ==
  ASSUME StreamInv, NEW t \in Threads, Repeat(t)
  PROVE  \E k \in Keys : Stream!Copy(k)
<1>1. PICK c \in calls : Hit(c)
  BY DEF Repeat
<1>2. /\ UNCHANGED <<now, accepted, pushing, heap, entering, batch, released>>
      /\ others' = Looked(c.key)
  BY <1>1 DEF Repeat, reorderVars, Hit
<1>3. c.key \in DOMAIN cache /\ now < cache[c.key].expires
  BY <1>1 DEF Hit, Live
<1>4. c.key \in Keys /\ now < Window[c.key]
  BY <1>3, EntryIsWindow, Mapped
<1>5. Underway' = Underway
  BY <1>2, UnderwayBy
<1>6. Dispatched' = Dispatched
  BY <1>2 DEF Dispatched
<1>7. Waiting' = Waiting /\ Window' = Window /\ Out' = Out
      /\ Cardinality(accepted)' = Cardinality(accepted)
  BY <1>2, <1>5, <1>6, Mapped
<1>8. Stream!Hear(c.key)
  BY <1>2 DEF Stream!Hear, Looked
<1>9. Stream!Copy(c.key)
  BY <1>2, <1>4, <1>7, <1>8 DEF Stream!Copy
<1> QED BY <1>4, <1>9

(* What is found new is outside the window of its key, or its entry has     *)
(* been crowded out.                                                        *)
LEMMA OutsideWindow ==
  ASSUME StreamInv, NEW k \in Keys, k \notin Live
  PROVE  now >= WindowIn(accepted)[k] \/ Cardinality(others[k]) >= MaxEntries
<1>1. now \in Nat /\ Numbering(accepted)
  BY UnderwayApart DEF StreamInv, PipeInv, IInv, TypeOK
<1>2. CASE ~\E a \in accepted : a.key = k
  BY <1>1, <1>2 DEF WindowIn
<1>3. CASE k \in DOMAIN cache
  <2>1. /\ cache[k].expires \in Nat /\ ~(now < cache[k].expires)
    BY <1>3 DEF Live, StreamInv, PipeInv, IInv, TypeOK, Entries
  <2> QED BY <1>1, <1>3, <2>1, EntryIsWindow
<1>4. CASE k \notin DOMAIN cache /\ \E a \in accepted : a.key = k
  <2>1. PICK l \in accepted : l.key = k /\ \A b \in accepted : b.key = k => b.n =< l.n
    BY <1>4 DEF StreamInv, Lately, LatelyIn
  <2>2. l.at \in Nat /\ TTL \in Nat
    BY TTLAssumption DEF StreamInv, PipeInv, IInv, TypeOK, Acceptances
  <2>3. LatestIn(accepted, k) = l
    BY <1>1, <2>1, LatestIs
  <2>4. WindowIn(accepted)[k] = TTL + l.at
    BY <1>4, <2>3 DEF WindowIn
  <2>5. now >= l.at + TTL \/ Cardinality(others[k]) >= MaxEntries
    BY <1>4, <2>1 DEF StreamInv, PipeInv, IInv, Forgotten
  <2> QED BY <1>1, <2>2, <2>4, <2>5
<1> QED BY <1>2, <1>3, <1>4

(* A sentence found new is the one the stream takes in.                     *)
LEMMA FreshMaps ==
  ASSUME StreamInv, NEW t \in Threads, Fresh(t)
  PROVE  \E k \in Keys : Stream!TakeIn(k)
<1>1. PICK c \in calls :
        /\ c.thread = t /\ Miss(c)
        /\ pushing' = pushing \cup {[thread |-> t, key |-> c.key, ts |-> c.ts,
                                     n |-> seen + 1]}
  BY DEF Fresh
<1> DEFINE a == [key |-> c.key, ts |-> c.ts, at |-> now, n |-> seen + 1,
                 crowd |-> Cardinality(others[c.key])]
           p == [thread |-> t, key |-> c.key, ts |-> c.ts, n |-> seen + 1]
           s == Hand(p)
<1>2. c.key \in Keys
  BY <1>1 DEF StreamInv, PipeInv, IInv, TypeOK, Calls
<1>3. /\ a.key = c.key /\ a.at = now /\ a.n = seen + 1
      /\ s.key = c.key /\ s.n = seen + 1
  BY DEF Hand
<1>4. accepted' = accepted \cup {a} /\ now' = now /\ others' = Looked(c.key)
  BY <1>1 DEF Miss
<1>5. UNCHANGED <<entering, heap, batch, released>> /\ pushing' = pushing \cup {p}
  BY <1>1 DEF Fresh, reorderVars
<1>6. Underway' = Underway \cup {s}
  BY <1>5, UnderwayBy DEF Hands
<1> HIDE DEF a, p, s
<1>7. Numbering(accepted) /\ seen \in Nat /\ UpTo(accepted, seen)
  BY UnderwayApart DEF StreamInv, PipeInv, IInv, TypeOK, Numbered, UpTo
<1>8. \A n \in AcceptedNs : n \in Nat /\ n =< seen
  BY NextIsNew DEF StreamInv
<1>9. /\ Cardinality(accepted') = Cardinality(accepted) + 1
      /\ RankIn(accepted', seen + 1) = Cardinality(accepted) + 1
      /\ \A n \in Nat : n =< seen => RankIn(accepted', n) = RankIn(accepted, n)
  <2>1. a.n = seen + 1
    BY <1>3
  <2>2. /\ Cardinality(accepted \cup {a}) = Cardinality(accepted) + 1
        /\ RankIn(accepted \cup {a}, seen + 1) = Cardinality(accepted) + 1
        /\ \A n \in Nat : n =< seen =>
             RankIn(accepted \cup {a}, n) = RankIn(accepted, n)
    BY <1>7, <2>1, RankNew
  <2> QED BY <1>4, <2>2
<1> DEFINE x == RankedIn(accepted', s)
<1>10. x.key = c.key /\ x.n = Cardinality(accepted) + 1
  BY <1>3, <1>9 DEF RankedIn
<1>11. \A r \in Underway : RankedIn(accepted', r) = RankedIn(accepted, r)
                            /\ RankedIn(accepted, r) # x
  <2> SUFFICES ASSUME NEW r \in Underway
               PROVE  RankedIn(accepted', r) = RankedIn(accepted, r)
                      /\ RankedIn(accepted, r) # x
    OBVIOUS
  <2>1. r.n \in AcceptedNs
    BY UnderwayApart DEF StreamInv, AcceptedNs
  <2>2. RankIn(accepted', r.n) = RankIn(accepted, r.n)
    BY <1>8, <1>9, <2>1
  <2>3. /\ RankIn(accepted, r.n) \in Nat /\ RankIn(accepted, r.n) =< Cardinality(accepted)
        /\ Cardinality(accepted) \in Nat
    BY <1>7, RankFacts
  <2>4. RankedIn(accepted, r).n = RankIn(accepted, r.n)
    BY DEF RankedIn
  <2>5. RankedIn(accepted, r) # x
    BY <1>10, <2>3, <2>4
  <2> QED BY <2>2, <2>5 DEF RankedIn
<1> HIDE DEF x
<1>12. Waiting' = Waiting \cup {x} /\ x \notin Waiting
  <2>1. Waiting' = AllRanked(accepted', Underway \cup {s})
    BY <1>6, Mapped
  <2>2. AllRanked(accepted', Underway \cup {s}) = AllRanked(accepted', Underway) \cup {x}
    BY DEF AllRanked, x
  <2>3. AllRanked(accepted', Underway) = AllRanked(accepted, Underway)
    BY <1>11 DEF AllRanked
  <2>4. x \notin AllRanked(accepted, Underway)
    BY <1>11 DEF AllRanked
  <2> QED BY <2>1, <2>2, <2>3, <2>4, Mapped
<1>13. Window' = [Window EXCEPT ![c.key] = now + TTL]
  <2>0. a.key \in Keys /\ a.n = seen + 1 /\ LatelyIn(accepted)
    BY <1>2, <1>3 DEF StreamInv, Lately
  <2>1. WindowIn(accepted \cup {a}) = [WindowIn(accepted) EXCEPT ![a.key] = TTL + a.at]
    BY <1>7, <2>0, WindowNew
  <2>2. TTL + a.at = now + TTL
    BY <1>3, TTLAssumption DEF StreamInv, PipeInv, IInv, TypeOK
  <2> QED BY <1>3, <1>4, <2>1, <2>2, Mapped
<1>14. Out' = Out
  <2>1. Dispatched' = Dispatched
    BY <1>5 DEF Dispatched
  <2>2. ASSUME NEW i \in 1..Len(Dispatched)
        PROVE  RankedIn(accepted', Plain(Dispatched[i]))
                 = RankedIn(accepted, Plain(Dispatched[i]))
    <3>1. Dispatched[i].payload.n \in AcceptedNs
      BY DispatchedBy DEF StreamInv, PipeInv, Places, Known
    <3>2. RankIn(accepted', Plain(Dispatched[i]).n) = RankIn(accepted, Plain(Dispatched[i]).n)
      BY <1>8, <1>9, <3>1 DEF Plain
    <3> QED BY <3>2 DEF RankedIn
  <2>3. OutIn(accepted', Dispatched) = OutIn(accepted, Dispatched)
    BY <2>2 DEF OutIn
  <2> QED BY <2>1, <2>3, Mapped
<1>15. /\ now >= Window[c.key] \/ Stream!Cardinality(others[c.key]) >= MaxEntries
       /\ Stream!Hear(c.key)
  <2>1. now >= Window[c.key] \/ Cardinality(others[c.key]) >= MaxEntries
    BY <1>1, <1>2, OutsideWindow, Mapped DEF Miss
  <2>2. Stream!Cardinality(others[c.key]) = Cardinality(others[c.key])
    BY SameCount
  <2>3. Stream!Hear(c.key)
    BY <1>4 DEF Stream!Hear, Looked
  <2> QED BY <2>1, <2>2, <2>3
<1>16. Stream!TakeIn(c.key)
  <2>1. x \in Waiting' \ Waiting
    BY <1>12
  <2>2. \E y \in Waiting' \ Waiting :
          y.key = c.key /\ y.n = Cardinality(accepted) + 1 /\ Waiting' = Waiting \cup {y}
    BY <1>10, <1>12, <2>1
  <2>3. Cardinality(accepted)' = Cardinality(accepted) + 1
    BY <1>9
  <2> QED BY <1>4, <1>13, <1>14, <1>15, <2>2, <2>3 DEF Stream!TakeIn
<1> QED BY <1>2, <1>16

LEMMA StartMaps == PipelineInit => Stream!Init
<1> SUFFICES ASSUME PipelineInit PROVE Stream!Init
  OBVIOUS
<1>1. /\ now = 0 /\ pushing = {} /\ entering = {} /\ heap = {} /\ accepted = {}
      /\ released = <<>> /\ batch = <<>> /\ others = [k \in Keys |-> {}]
  BY DEF PipelineInit, Init, R!Init
<1>2. Window = [k \in Keys |-> 0]
  BY <1>1 DEF Window
<1>3. Waiting = {}
  <2>1. SeqSet(batch) = {}
    BY <1>1, EmptySeq DEF SeqSet
  <2> QED BY <1>1, <2>1 DEF Waiting, Underway
<1>4. Out = <<>>
  <2>1. Len(Dispatched) = 0
    BY <1>1, PipelineStart, DispatchedBy, EmptySeq
  <2> QED BY <2>1 DEF Out
<1>5. Cardinality(accepted) = 0
  BY <1>1, FS_EmptySet
<1> QED BY <1>1, <1>2, <1>3, <1>4, <1>5 DEF Stream!Init

(* Every step of the pipeline is a step of the stream or none.              *)
LEMMA StepMaps ==
  ASSUME StreamInv, [PipelineNext]_pipelineVars
  PROVE  [Stream!Next]_(Stream!vars)
<1>1. PipeInv
  BY DEF StreamInv
<1>2. CASE UNCHANGED pipelineVars
  <2>1. UNCHANGED <<now, accepted, others, pushing, heap, entering, batch, released>>
    BY <1>2 DEF pipelineVars, dedupVars, reorderVars
  <2>2. Underway' = Underway
    BY <2>1, UnderwayBy
  <2>3. Dispatched' = Dispatched
    BY <2>1 DEF Dispatched
  <2> QED BY <2>1, <2>2, <2>3, Unseen
<1>3. ASSUME NEW t \in Threads, NEW k \in Keys, Hear(t, k)
      PROVE  UNCHANGED Stream!vars
  BY <1>3, HearUnseen
<1>4. ASSUME NEW t \in Threads, Repeat(t) \/ Fresh(t) PROVE Stream!Next
  BY <1>4, RepeatMaps, FreshMaps DEF Stream!Next
<1>5. ASSUME NEW t \in Threads, PushEnter(t) PROVE UNCHANGED Stream!vars
  BY <1>5, EnterUnseen
<1>6. ASSUME NEW t \in Threads, PushCommit(t)
      PROVE  UNCHANGED Stream!vars \/ Stream!Next
  BY <1>1, <1>6, CommitMaps DEF Stream!Next
<1>7. CASE Output
  BY <1>1, <1>7, OutputMaps DEF Stream!Next
<1>8. CASE PipelineTick
  BY <1>8, TickMaps DEF Stream!Next
<1> QED BY <1>2, <1>3, <1>4, <1>5, <1>6, <1>7, <1>8 DEF PipelineNext, Ingest

(* The pipeline implements AisStream: a sentence is taken in at most once   *)
(* per ttl unless max_entries others were heard since its last copy, waits  *)
(* out its hold time, leaves exactly once, and is given up only when more   *)
(* than a queueful waits (on_sentence and output_loop, pipeline.py:55-108). *)
THEOREM PromiseKept == PipelineSpec => KeepsStreamPromise
<1>1. PipelineInit => Stream!Init
  BY StartMaps
<1>2. StreamInv /\ [PipelineNext]_pipelineVars => [Stream!Next]_(Stream!vars)
  BY StepMaps
<1> QED BY <1>1, <1>2, StreamStart, StreamStep, PTL
        DEF PipelineSpec, KeepsStreamPromise, Stream!Spec
=============================================================================
