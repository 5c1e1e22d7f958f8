-------------------------- MODULE NodeRegistry_proofs --------------------------
(***************************************************************************)
(* Proofs about NodeRegistry for any sessions, whatever hosts and tags     *)
(* they share, and any number of lines.                                    *)
(***************************************************************************)
EXTENDS NodeRegistry, FiniteSetTheorems, SequenceTheorems, TLAPS

Names == Hosts \cup Tags
Infos == [key : Names, source : Names \cup {None}, active : Nat, messages : Nat]
PCs   == {"new", "reading", "upgrading", "touching", "failed", "closed"}

(* The types of the registry, its sessions and the history but for mixed.   *)
Types ==
  /\ objects \in Seq(Infos)
  /\ nodes \in [Known -> 1..Len(objects)]
  /\ Known \subseteq Names /\ IsFiniteSet(Known)
  /\ pc \in [Sessions -> PCs]
  /\ IsFiniteSet(Open)
  /\ key \in [Sessions -> Names]
  /\ info \in [Sessions -> 0..Len(objects)]
  /\ tag \in [Sessions -> Tags \cup {None}]
  /\ handled \in Nat /\ lines \in Nat /\ forgotten \in Nat
  /\ upgraded \subseteq Hosts

(* Every variable of the registry and of its sessions has its type.         *)
TypeOK == Types /\ mixed \subseteq Nat

(* A session goes by its host or by a source id, by its host until it is    *)
(* open and until a session of the host got a name; and it upgrades to a    *)
(* source id.                                                               *)
Keys ==
  \A s \in Sessions :
    /\ key[s] \in {HostOf[s]} \cup Tags
    /\ pc[s] = "new" \/ HostOf[s] \notin upgraded => key[s] = HostOf[s]
    /\ pc[s] = "upgrading" => tag[s] \in Tags

(* What holds without regard to what is mixed, and what has to be added for *)
(* the counts of nodes that are not: every object that is, is marked.       *)
Base == Types /\ Keys /\ Filed /\ CountsSurviveUpgrades /\ ExactUntilNamed
IInv == Base /\ ExactWhileUnmixed /\ Mixed \subseteq mixed /\ mixed \subseteq Nat

-----------------------------------------------------------------------------
(* One key counts what it counts.                                           *)
LEMMA TallyOfOne ==
  ASSUME NEW k, NEW n, n[k] \in Nat
  PROVE  IsFiniteSet(Tally({k}, n)) /\ Total({k}, n) = n[k]
<1>1. Tally({k}, n) = {k} \X (1..n[k])
  BY DEF Tally
<1>2. IsFiniteSet({k}) /\ Cardinality({k}) = 1
  BY FS_Singleton
<1>3. IsFiniteSet(1..n[k]) /\ Cardinality(1..n[k]) = n[k]
  BY FS_Interval, SMTT(30)
<1>4. /\ IsFiniteSet({k} \X (1..n[k]))
      /\ Cardinality({k} \X (1..n[k])) = Cardinality({k}) * Cardinality(1..n[k])
  BY <1>2, <1>3, FS_Product
<1>5. 1 * n[k] = n[k]
  OBVIOUS
<1>6. Cardinality({k} \X (1..n[k])) = 1 * n[k]
  BY <1>2, <1>3, <1>4
<1> QED BY <1>1, <1>4, <1>5, <1>6, Zenon DEF Total

LEMMA TallyFinite ==
  ASSUME NEW S, IsFiniteSet(S), NEW n, \A k \in S : n[k] \in Nat
  PROVE  IsFiniteSet(Tally(S, n)) /\ Total(S, n) \in Nat
<1> DEFINE parts == {{k} \X (1..n[k]) : k \in S}
           f     == [k \in S |-> {k} \X (1..n[k])]
<1>1. f \in Surjection(S, parts)
  BY DEF Surjection
<1>2. IsFiniteSet(parts)
  BY <1>1, FS_Surjection
<1>3. ASSUME NEW T \in parts PROVE IsFiniteSet(T)
  <2>1. PICK k \in S : T = {k} \X (1..n[k])
    OBVIOUS
  <2>2. IsFiniteSet({k})
    BY FS_Singleton
  <2>3. IsFiniteSet(1..n[k])
    BY FS_Interval
  <2>4. IsFiniteSet({k} \X (1..n[k]))
    BY <2>2, <2>3, FS_Product
  <2> QED BY <2>1, <2>4
<1>4. IsFiniteSet(Tally(S, n))
  BY <1>2, <1>3, FS_UNION DEF Tally
<1> QED BY <1>4, FS_CardinalityType DEF Total

(* A sum is the sum over a part and the sum over the rest.                  *)
LEMMA TotalSplit ==
  ASSUME NEW S, IsFiniteSet(S), NEW n, \A k \in S : n[k] \in Nat,
         NEW A \in SUBSET S
  PROVE  Total(S, n) = Total(A, n) + Total(S \ A, n)
<1>1. IsFiniteSet(A) /\ IsFiniteSet(S \ A)
  BY FS_Subset
<1>2. /\ IsFiniteSet(Tally(A, n)) /\ IsFiniteSet(Tally(S \ A, n))
      /\ Total(A, n) \in Nat /\ Total(S \ A, n) \in Nat
  BY <1>1, TallyFinite
<1>3. Tally(S, n) = Tally(A, n) \cup Tally(S \ A, n)
  BY DEF Tally
<1>4. Tally(A, n) \cap Tally(S \ A, n) = {}
  BY DEF Tally
<1>5. Cardinality(Tally(S, n)) =
        Cardinality(Tally(A, n)) + Cardinality(Tally(S \ A, n)) - Cardinality({})
  <2>1. Cardinality(Tally(A, n) \cup Tally(S \ A, n)) =
          Cardinality(Tally(A, n)) + Cardinality(Tally(S \ A, n))
            - Cardinality(Tally(A, n) \cap Tally(S \ A, n))
    BY <1>2, FS_Union
  <2> QED BY <2>1, <1>3, <1>4
<1> QED BY <1>2, <1>5, FS_EmptySet DEF Total

LEMMA TotalAt ==
  ASSUME NEW S, IsFiniteSet(S), NEW n, \A k \in S : n[k] \in Nat, NEW k \in S
  PROVE  Total(S, n) = n[k] + Total(S \ {k}, n)
<1>1. Total(S, n) = Total({k}, n) + Total(S \ {k}, n)
  BY TotalSplit
<1> QED BY <1>1, TallyOfOne

(* A sum depends on what the keys it ranges over count.                     *)
LEMMA TotalSame ==
  ASSUME NEW S, NEW m, NEW n, \A k \in S : m[k] = n[k]
  PROVE  Total(S, m) = Total(S, n)
<1>1. Tally(S, m) = Tally(S, n)
  BY DEF Tally
<1> QED BY <1>1 DEF Total

(* One more key counts what it does.                                        *)
LEMMA TotalAdd ==
  ASSUME NEW S, IsFiniteSet(S), NEW n, \A l \in S : n[l] \in Nat,
         NEW k, k \notin S, NEW m, m[k] \in Nat, \A l \in S : m[l] = n[l]
  PROVE  Total(S \cup {k}, m) = m[k] + Total(S, n)
<1>1. IsFiniteSet(S \cup {k}) /\ \A l \in S \cup {k} : m[l] \in Nat
  BY FS_AddElement
<1>2. Total(S \cup {k}, m) = m[k] + Total((S \cup {k}) \ {k}, m)
  BY <1>1, TotalAt
<1>3. (S \cup {k}) \ {k} = S
  OBVIOUS
<1>4. Total(S, m) = Total(S, n)
  BY TotalSame
<1> QED BY <1>2, <1>3, <1>4

(* Keys that count nothing add nothing.                                     *)
LEMMA TotalOfZeros ==
  ASSUME NEW S, NEW n, \A k \in S : n[k] = 0
  PROVE  Total(S, n) = 0
<1>1. Tally(S, n) = {}
  BY DEF Tally
<1> QED BY <1>1, FS_EmptySet DEF Total

-----------------------------------------------------------------------------
(* The registry and its objects are what their types say.                   *)
LEMMA Facts ==
  ASSUME Types
  PROVE  /\ Len(objects) \in Nat
         /\ \A o \in 1..Len(objects) : objects[o] \in Infos
         /\ \A k \in Known : /\ nodes[k] \in 1..Len(objects)
                             /\ Messages[k] \in Nat
                             /\ objects[nodes[k]].active \in Nat
         /\ Total(Known, Messages) \in Nat
         /\ \A h : IsFiniteSet(From(h)) /\ Cardinality(From(h)) \in Nat
         /\ \A o : IsFiniteSet(Users(o)) /\ Cardinality(Users(o)) \in Nat
<1>1. Len(objects) \in Nat
  BY LenProperties DEF Types
<1>2. \A o \in 1..Len(objects) : objects[o] \in Infos
  BY ElementOfSeq DEF Types
<1>3. ASSUME NEW k \in Known
      PROVE  /\ nodes[k] \in 1..Len(objects)
             /\ Messages[k] \in Nat /\ objects[nodes[k]].active \in Nat
  <2>1. nodes[k] \in 1..Len(objects)
    BY DEF Types
  <2>2. objects[nodes[k]] \in Infos
    BY <1>2, <2>1
  <2> QED BY <2>1, <2>2 DEF Messages, Infos
<1>4. Total(Known, Messages) \in Nat
  BY <1>3, TallyFinite DEF Types
<1>5. ASSUME NEW h PROVE IsFiniteSet(From(h)) /\ Cardinality(From(h)) \in Nat
  <2>1. From(h) \in SUBSET Open
    BY DEF From
  <2> QED BY <2>1, FS_Subset, FS_CardinalityType DEF Types
<1>6. ASSUME NEW o PROVE IsFiniteSet(Users(o)) /\ Cardinality(Users(o)) \in Nat
  <2>1. Users(o) \in SUBSET Open
    BY DEF Users
  <2> QED BY <2>1, FS_Subset, FS_CardinalityType DEF Types
<1> QED BY <1>1, <1>2, <1>3, <1>4, <1>5, <1>6

(* The node under k comes to be e, those of K stay, which are others, and   *)
(* the rest is gone.                                                        *)
Becomes(K, k, e) ==
  /\ objects' \in Seq(Infos) /\ nodes' \in [Known' -> 1..Len(objects')]
  /\ Len(objects) =< Len(objects')
  /\ Known' = K \cup {k}
  /\ objects'[nodes'[k]] = e
  /\ \A l \in K : /\ nodes'[l] = nodes[l] /\ nodes'[k] # nodes[l]
                  /\ objects'[nodes'[l]] = objects[nodes[l]]

LEMMA BecomesFacts ==
  ASSUME Types, Filed, NEW K \in SUBSET Known, NEW k, k \notin K,
         NEW e \in Infos, e.key = k, Becomes(K, k, e)
  PROVE  /\ Filed' /\ IsFiniteSet(Known')
         /\ Total(Known, Messages)' = Total(K, Messages) + e.messages
<1>1. IsFiniteSet(K)
  BY FS_Subset DEF Types
<1>2. IsFiniteSet(Known')
  BY <1>1, FS_AddElement DEF Becomes
<1>3. Filed'
  <2>1. \A l \in Known' : objects'[nodes'[l]].key = l
    BY DEF Becomes, Filed
  <2> QED BY <2>1 DEF Filed
<1>4. Total(Known, Messages)' = Total(K, Messages) + e.messages
  <2>1. PICK n : n = Messages'
    OBVIOUS
  <2>2. n[k] = e.messages /\ \A l \in K : n[l] = Messages[l]
    BY <2>1 DEF Becomes, Messages
  <2>3. n[k] \in Nat
    BY <2>2 DEF Infos
  <2>4. \A l \in K : Messages[l] \in Nat
    BY Facts
  <2>5. \A l \in K : n[l] = Messages[l]
    BY <2>2
  <2>6. Total(K \cup {k}, n) = n[k] + Total(K, Messages)
    BY <1>1, <2>3, <2>4, <2>5, TotalAdd
  <2>7. Total(Known, Messages)' = Total(K \cup {k}, n)
    BY <2>1 DEF Becomes, Total, Tally
  <2>8. Total(K, Messages) \in Nat
    BY <1>1, <2>4, TallyFinite
  <2> QED BY <2>2, <2>3, <2>6, <2>7, <2>8
<1> QED BY <1>2, <1>3, <1>4

(* A node counts something else.                                            *)
LEMMA ChangeNode ==
  ASSUME Types, Filed, NEW k \in Known, NEW e \in Infos,
         objects' = [objects EXCEPT ![nodes[k]] = e], nodes' = nodes
  PROVE  /\ Becomes(Known \ {k}, k, e) /\ Len(objects') = Len(objects)
<1>1. Known' = Known /\ nodes[k] \in 1..Len(objects)
  BY Facts DEF Known
<1>2. /\ objects' \in Seq(Infos) /\ Len(objects') = Len(objects)
      /\ \A o \in 1..Len(objects) :
           objects'[o] = IF o = nodes[k] THEN e ELSE objects[o]
  BY <1>1, ExceptSeq DEF Types
<1>3. \A l \in Known \ {k} : nodes[l] # nodes[k] /\ nodes[l] \in 1..Len(objects)
  BY Facts DEF Filed
<1>4. \A l \in Known \ {k} : objects'[nodes[l]] = objects[nodes[l]]
  BY <1>2, <1>3
<1>5. objects'[nodes[k]] = e
  BY <1>1, <1>2
<1>6. nodes' \in [Known' -> 1..Len(objects')]
  BY <1>1, <1>2 DEF Types
<1>7. Len(objects) =< Len(objects')
  BY <1>2, Facts
<1> QED BY <1>1, <1>2, <1>3, <1>4, <1>5, <1>6, <1>7 DEF Becomes

(* A node is made under a key nobody has.                                   *)
LEMMA AddNode ==
  ASSUME Types, NEW k, k \notin Known, NEW e \in Infos,
         objects' = Append(objects, e), nodes' = With(nodes, k, Len(objects'))
  PROVE  /\ Becomes(Known, k, e) /\ Len(objects') = Len(objects) + 1
         /\ nodes'[k] = Len(objects) + 1
<1> DEFINE n == Len(objects)
<1>1. /\ objects' \in Seq(Infos) /\ Len(objects') = n + 1
      /\ \A o \in 1..n : objects'[o] = objects[o]
      /\ objects'[n + 1] = e
  BY AppendProperties DEF Types
<1>2. /\ Known' = Known \cup {k}
      /\ nodes' = [l \in Known \cup {k} |-> IF l = k THEN n + 1 ELSE nodes[l]]
  BY <1>1 DEF With, Known
<1>3. n \in Nat /\ \A l \in Known : nodes[l] \in 1..n
  BY Facts
<1> HIDE DEF n
<1>4. nodes'[k] = n + 1 /\ \A l \in Known : nodes'[l] = nodes[l]
  BY <1>2
<1>5. nodes' \in [Known' -> 1..Len(objects')]
  BY <1>1, <1>2, <1>3
<1>6. objects'[nodes'[k]] = e
  BY <1>1, <1>4
<1>7. \A l \in Known : objects'[nodes'[l]] = objects[nodes[l]]
  BY <1>1, <1>3, <1>4
<1>8. n =< Len(objects') /\ \A l \in Known : nodes'[k] # nodes[l]
  BY <1>1, <1>3, <1>4
<1> QED BY <1>1, <1>2, <1>4, <1>5, <1>6, <1>7, <1>8 DEF Becomes, n

(* A node moves to a key nobody has, and is another.                        *)
LEMMA MoveNode ==
  ASSUME Types, Filed, NEW k \in Known, NEW t, t \notin Known, NEW e \in Infos,
         objects' = [objects EXCEPT ![nodes[k]] = e],
         nodes' = With(Without(nodes, {k}), t, nodes[k])
  PROVE  /\ Becomes(Known \ {k}, t, e) /\ Len(objects') = Len(objects)
         /\ nodes'[t] = nodes[k]
<1>1. nodes[k] \in 1..Len(objects)
  BY Facts
<1>2. /\ objects' \in Seq(Infos) /\ Len(objects') = Len(objects)
      /\ \A o \in 1..Len(objects) :
           objects'[o] = IF o = nodes[k] THEN e ELSE objects[o]
  BY <1>1, ExceptSeq DEF Types
<1>3. \A l \in Known \ {k} : nodes[l] # nodes[k] /\ nodes[l] \in 1..Len(objects)
  BY Facts DEF Filed
<1>4. /\ Known' = (Known \ {k}) \cup {t}
      /\ nodes' = [l \in (Known \ {k}) \cup {t} |->
                     IF l = t THEN nodes[k] ELSE nodes[l]]
  BY DEF With, Without, Known
<1>5. nodes'[t] = nodes[k] /\ \A l \in Known \ {k} : nodes'[l] = nodes[l]
  BY <1>4
<1>6. \A l \in Known \ {k} : objects'[nodes'[l]] = objects[nodes[l]]
  BY <1>2, <1>3, <1>5
<1>7. objects'[nodes'[t]] = e
  BY <1>1, <1>2, <1>5
<1>8. nodes' \in [Known' -> 1..Len(objects')]
  BY <1>1, <1>2, <1>3, <1>4
<1>9. Len(objects) =< Len(objects')
  BY <1>2, Facts
<1> QED BY <1>2, <1>3, <1>4, <1>5, <1>6, <1>7, <1>8, <1>9 DEF Becomes

LEMMA BecomesCounted ==
  ASSUME NEW K \in SUBSET Known, NEW k, k \notin K, NEW e, Becomes(K, k, e), NEW h
  PROVE  Counted(h)' = IF h = k THEN e.active
                       ELSE IF h \in K THEN Counted(h) ELSE 0
BY DEF Becomes, Counted

(* What all nodes count, as what one counts and what the others do.         *)
LEMMA TotalWithout ==
  ASSUME Types, NEW k
  PROVE  /\ Total(Known \ {k}, Messages) \in Nat
         /\ Counted(k) \in Nat
         /\ Total(Known, Messages) = Total(Known \ {k}, Messages)
                                      + (IF k \in Known THEN Messages[k] ELSE 0)
<1>1. \A l \in Known : Messages[l] \in Nat
  BY Facts
<1>2. IsFiniteSet(Known) /\ IsFiniteSet(Known \ {k})
  BY FS_Subset DEF Types
<1>3. Total(Known \ {k}, Messages) \in Nat
  BY <1>1, <1>2, TallyFinite
<1>4. Counted(k) \in Nat
  BY Facts DEF Counted
<1>5. CASE k \in Known
  <2>1. Total(Known, Messages) = Messages[k] + Total(Known \ {k}, Messages)
    BY <1>1, <1>2, <1>5, TotalAt
  <2> QED BY <1>1, <1>3, <1>4, <1>5, <2>1
<1>6. CASE k \notin Known
  <2>1. Known \ {k} = Known
    BY <1>6
  <2>2. Total(Known \ {k}, Messages) = Total(Known, Messages)
    BY <2>1, Zenon
  <2> QED BY <1>3, <1>4, <1>6, <2>2
<1> QED BY <1>5, <1>6

-----------------------------------------------------------------------------
LEMMA InitIInv == Init => IInv
<1> SUFFICES ASSUME Init PROVE IInv
  OBVIOUS
<1>1. Known = {} /\ Open = {}
  BY DEF Init, Known, Open
<1>2. Types
  <2>1. objects \in Seq(Infos) /\ Len(objects) = 0
    BY EmptySeq DEF Init
  <2>2. nodes \in [Known -> 1..Len(objects)]
    BY <1>1 DEF Init
  <2>3. key \in [Sessions -> Names] /\ info \in [Sessions -> 0..Len(objects)]
    BY <2>1 DEF Init, Names, Hosts
  <2>4. pc \in [Sessions -> PCs] /\ tag \in [Sessions -> Tags \cup {None}]
    BY DEF Init, PCs
  <2> QED BY <1>1, <2>1, <2>2, <2>3, <2>4, FS_EmptySet DEF Types, Init
<1>3. Keys
  BY <1>1 DEF Keys, Init
<1>4. Filed
  BY <1>1 DEF Filed
<1>5. Total(Known, Messages) = 0
  BY <1>1, TotalOfZeros
<1>6. CountsSurviveUpgrades
  BY <1>5 DEF Init, CountsSurviveUpgrades
<1>7. ExactUntilNamed
  <2>1. \A h : Counted(h) = 0 /\ From(h) = {}
    BY <1>1 DEF Counted, From
  <2> QED BY <2>1, FS_EmptySet DEF ExactUntilNamed
<1>8. ExactWhileUnmixed /\ Mixed = {} /\ mixed = {}
  BY <1>1 DEF ExactWhileUnmixed, Mixed, Init
<1> QED BY <1>2, <1>3, <1>4, <1>6, <1>7, <1>8 DEF IInv, Base

-----------------------------------------------------------------------------
(* The steps of a session that change no node and neither open nor close it.*)
LEMMA QuietStep ==
  ASSUME Base, UNCHANGED <<objects, nodes, lines, forgotten>>, Open' = Open,
         upgraded \subseteq upgraded', Types', Keys'
  PROVE  Base'
<1>1. Filed'
  BY DEF Base, Filed, Known
<1>2. Known' = Known /\ Messages' = Messages
  BY DEF Known, Messages
<1>3. CountsSurviveUpgrades'
  BY <1>2 DEF Base, CountsSurviveUpgrades, Total, Tally
<1>4. ExactUntilNamed'
  BY <1>2 DEF Base, ExactUntilNamed, Counted, From
<1> QED BY <1>1, <1>3, <1>4 DEF Base

(* A line is taken up, turns out to be invalid, or is cut short.            *)
LEMMA ReadStep ==
  ASSUME Base, NEW s \in Sessions,
         (\E t \in Tags \cup {None} : Read(s, t)) \/ Skip(s) \/ Raise(s)
  PROVE  Base'
<1>1. UNCHANGED <<objects, nodes, key, info, lines, forgotten, upgraded>>
  BY DEF Read, Skip, Raise, registry, history
<1>2. Open' = Open /\ pc' \in [Sessions -> PCs]
  BY DEF Base, Types, Read, Skip, Raise, Open, PCs
<1>3. handled' \in Nat /\ tag' \in [Sessions -> Tags \cup {None}]
  BY DEF Base, Types, Read, Skip, Raise, history
<1>4. Types'
  BY <1>1, <1>2, <1>3 DEF Base, Types, Known
<1>5. Keys'
  <2>1. ASSUME NEW q \in Sessions
        PROVE  /\ pc'[q] = "new" => pc[q] = "new"
               /\ pc'[q] = "upgrading" => tag'[q] \in Tags
    BY DEF Base, Types, Keys, Read, Skip, Raise
  <2> QED BY <1>1, <2>1 DEF Base, Keys
<1> QED BY <1>1, <1>2, <1>4, <1>5, QuietStep

LEMMA UpgradedFacts ==
  ASSUME Base, NEW s \in Sessions, pc[s] = "upgrading", Upgraded(s)
  PROVE  /\ tag[s] \in Tags /\ tag[s] \notin Hosts /\ HostOf[s] \in Hosts
         /\ tag[s] \in Names
         /\ UNCHANGED <<info, tag, handled, lines, forgotten>>
         /\ Open' = Open /\ s \in Open /\ pc' \in [Sessions -> PCs]
         /\ key' = [key EXCEPT ![s] = tag[s]] /\ key' \in [Sessions -> Names]
         /\ upgraded' = upgraded \cup {HostOf[s]} /\ upgraded' \subseteq Hosts
         /\ Keys'
<1>1. /\ tag[s] \in Tags /\ tag[s] \notin Hosts /\ HostOf[s] \in Hosts
      /\ tag[s] \in Names
  BY NamesDisjoint DEF Base, Keys, Hosts, Names
<1>2. /\ UNCHANGED <<info, tag, handled, lines, forgotten>>
      /\ Open' = Open /\ s \in Open /\ pc' \in [Sessions -> PCs]
      /\ key' = [key EXCEPT ![s] = tag[s]]
      /\ upgraded' = upgraded \cup {HostOf[s]}
  BY DEF Base, Types, Upgraded, Open, PCs
<1>3. key' \in [Sessions -> Names] /\ upgraded' \subseteq Hosts
  BY <1>1, <1>2 DEF Base, Types
<1>4. Keys'
  <2>1. ASSUME NEW q \in Sessions
        PROVE  /\ key'[q] \in {HostOf[q]} \cup Tags
               /\ pc'[q] = "new" \/ HostOf[q] \notin upgraded' => key'[q] = HostOf[q]
               /\ pc'[q] = "upgrading" => tag'[q] \in Tags
    BY <1>1, <1>2 DEF Base, Types, Keys, Upgraded
  <2> QED BY <2>1 DEF Keys
<1> QED BY <1>1, <1>2, <1>3, <1>4

LEMMA JoinNamedStep ==
  ASSUME Base, NEW s \in Sessions, JoinNamed(s)
  PROVE  Base'
<1>1. pc[s] = "upgrading" /\ Upgraded(s) /\ UNCHANGED <<objects, nodes>>
  BY DEF JoinNamed, registry
<1>2. Types'
  BY <1>1, UpgradedFacts DEF Base, Types, Known
<1> QED BY <1>1, <1>2, UpgradedFacts, QuietStep

-----------------------------------------------------------------------------
LEMMA StartStep ==
  ASSUME Base, NEW s \in Sessions, Start(s)
  PROVE  Base'
<1> DEFINE h == HostOf[s]
<1>1. h \in Hosts /\ h \in Names
  BY DEF Hosts, Names
<1>2. \E e \in Infos :
        /\ e.key = h /\ e.active = Counted(h) + 1
        /\ e.messages = IF h \in Known THEN Messages[h] ELSE 0
        /\ Becomes(Known \ {h}, h, e)
        /\ info' = [info EXCEPT ![s] = nodes'[h]]
  <2>1. CASE h \in Known
    <3> DEFINE e == [objects[nodes[h]] EXCEPT !.active = @ + 1]
    <3>1. objects[nodes[h]] \in Infos
      BY <2>1, Facts DEF Base
    <3>2. /\ e \in Infos /\ e.key = objects[nodes[h]].key
          /\ e.active = objects[nodes[h]].active + 1
          /\ e.messages = objects[nodes[h]].messages
      BY <3>1 DEF Infos
    <3>3. objects' = [objects EXCEPT ![nodes[h]] = e]
      BY <2>1 DEF Start
    <3>4. nodes' = nodes
      <4>1. nodes' = With(nodes, h, nodes[h])
        BY <2>1 DEF Start
      <4> QED BY <2>1, <4>1 DEF With, Known, Base, Types
    <3> HIDE DEF e
    <3>5. /\ Becomes(Known \ {h}, h, e)
      BY <2>1, <3>2, <3>3, <3>4, ChangeNode DEF Base
    <3>6. e.key = h /\ e.active = Counted(h) + 1 /\ e.messages = Messages[h]
      BY <2>1, <3>2 DEF Base, Filed, Counted, Messages
    <3>7. info' = [info EXCEPT ![s] = nodes'[h]]
      BY <2>1, <3>4 DEF Start
    <3> QED BY <2>1, <3>2, <3>5, <3>6, <3>7
  <2>2. CASE h \notin Known
    <3> DEFINE e == NewNode(h, None, 1)
    <3>1. e \in Infos /\ e.key = h /\ e.active = 1 /\ e.messages = 0
      BY <1>1 DEF NewNode, Infos
    <3>2. objects' = Append(objects, e)
      BY <2>2 DEF Start
    <3> HIDE DEF e
    <3>3. Len(objects') = Len(objects) + 1
      BY <3>1, <3>2, AppendProperties DEF Base, Types
    <3>4. nodes' = With(nodes, h, Len(objects'))
      BY <2>2, <3>3 DEF Start
    <3>5. Known \ {h} = Known
      BY <2>2
    <3>6. /\ Becomes(Known \ {h}, h, e) /\ nodes'[h] = Len(objects) + 1
      BY <2>2, <3>1, <3>2, <3>4, <3>5, AddNode DEF Base
    <3>7. Counted(h) = 0
      BY <2>2 DEF Counted
    <3>8. info' = [info EXCEPT ![s] = nodes'[h]]
      BY <2>2, <3>6 DEF Start
    <3> QED BY <2>2, <3>1, <3>6, <3>7, <3>8
  <2> QED BY <2>1, <2>2
<1> HIDE DEF h
<1>3. PICK e \in Infos :
        /\ e.key = h /\ e.active = Counted(h) + 1
        /\ e.messages = IF h \in Known THEN Messages[h] ELSE 0
        /\ Becomes(Known \ {h}, h, e)
        /\ info' = [info EXCEPT ![s] = nodes'[h]]
  BY <1>2
<1>4. /\ Filed' /\ IsFiniteSet(Known')
      /\ Total(Known, Messages)' = Total(Known \ {h}, Messages) + e.messages
  BY <1>3, BecomesFacts DEF Base
<1>5. /\ s \notin Open /\ Open' = Open \cup {s} /\ pc' \in [Sessions -> PCs]
      /\ UNCHANGED <<key, tag, handled, lines, forgotten, upgraded>>
  BY DEF Base, Types, Start, Open, PCs, history
<1>6. IsFiniteSet(Open')
  BY <1>5, FS_AddElement DEF Base, Types
<1>7. Types'
  <2>1. Known' \subseteq Names
    BY <1>1, <1>3 DEF Base, Types, Becomes
  <2>2. info' \in [Sessions -> 0..Len(objects')]
    <3>1. nodes'[h] \in 1..Len(objects') /\ Len(objects) =< Len(objects')
      BY <1>3 DEF Becomes
    <3>2. Len(objects) \in Nat /\ Len(objects') \in Nat
      BY <1>3, Facts, LenProperties DEF Base, Becomes
    <3>3. nodes'[h] \in 0..Len(objects') /\ 0..Len(objects) \subseteq 0..Len(objects')
      BY <3>1, <3>2
    <3> QED BY <1>3, <3>3 DEF Base, Types
  <2> QED BY <1>3, <1>4, <1>5, <1>6, <2>1, <2>2 DEF Base, Types, Becomes
<1>8. Keys'
  <2>1. ASSUME NEW q \in Sessions
        PROVE  (pc'[q] = "new" => pc[q] = "new") /\ (pc'[q] = "upgrading" => pc[q] = "upgrading")
    BY DEF Base, Types, Start
  <2> QED BY <1>5, <2>1 DEF Base, Keys
<1>9. CountsSurviveUpgrades'
  <2>1. Total(Known, Messages)' = Total(Known, Messages)
    BY <1>3, <1>4, TotalWithout DEF Base
  <2> QED BY <1>5, <2>1 DEF Base, CountsSurviveUpgrades
<1>10. ExactUntilNamed'
  <2>1. ASSUME NEW g \in Hosts \ upgraded
        PROVE  Counted(g)' = Cardinality(From(g))'
    <3>1. Counted(g) = Cardinality(From(g)) /\ IsFiniteSet(From(g))
      BY Facts DEF Base, ExactUntilNamed
    <3>2. Counted(g)' = IF g = h THEN Counted(h) + 1 ELSE Counted(g)
      <4>1. Counted(g)' = IF g = h THEN e.active
                          ELSE IF g \in Known \ {h} THEN Counted(g) ELSE 0
        BY <1>3, BecomesCounted
      <4> QED BY <1>3, <4>1 DEF Counted
    <3>3. CASE g = h
      <4>1. From(g)' = From(g) \cup {s} /\ s \notin From(g)
        BY <1>5, <3>3 DEF From, h
      <4>2. Cardinality(From(g) \cup {s}) = Cardinality(From(g)) + 1
        BY <3>1, <4>1, FS_AddElement
      <4> QED BY <3>1, <3>2, <3>3, <4>1, <4>2
    <3>4. CASE g # h
      <4>1. From(g)' = From(g)
        BY <1>5, <3>4 DEF From, h
      <4> QED BY <3>1, <3>2, <3>4, <4>1
    <3> QED BY <3>3, <3>4
  <2> QED BY <1>5, <2>1 DEF ExactUntilNamed
<1> QED BY <1>4, <1>7, <1>8, <1>9, <1>10 DEF Base

-----------------------------------------------------------------------------
(* The session's own node is renamed.  If it was the node of a host, that   *)
(* is the host of the session, which no longer counts as unnamed.           *)
LEMMA RenameStep ==
  ASSUME Base, NEW s \in Sessions, Rename(s)
  PROVE  Base'
<1> DEFINE t == tag[s]
           k == key[s]
           e == [objects[nodes[k]] EXCEPT !.key = t, !.source = t]
<1>1. /\ pc[s] = "upgrading" /\ Upgraded(s)
      /\ t \notin Known /\ k \in Known
      /\ objects' = [objects EXCEPT ![nodes[k]] = e]
      /\ nodes' = With(Without(nodes, {k}), t, nodes[k])
  BY DEF Rename
<1>2. /\ t \in Tags /\ t \in Names /\ t \notin Hosts
      /\ k \in Hosts => k = HostOf[s]
  BY <1>1, NamesDisjoint, UpgradedFacts DEF Base, Keys, Hosts
<1>3. e \in Infos /\ e.key = t /\ e.messages = Messages[k]
  <2>1. objects[nodes[k]] \in Infos
    BY <1>1, Facts DEF Base
  <2> QED BY <1>1, <1>2, <2>1 DEF Infos, Messages
<1>4. /\ UNCHANGED <<info, tag, handled, lines, forgotten>>
      /\ Open' = Open /\ pc' \in [Sessions -> PCs] /\ key' \in [Sessions -> Names]
      /\ HostOf[s] \in upgraded' /\ upgraded \subseteq upgraded'
      /\ upgraded' \subseteq Hosts /\ Keys'
  BY <1>1, UpgradedFacts
<1> HIDE DEF e, t, k
<1>5. /\ Becomes(Known \ {k}, t, e) /\ Len(objects') = Len(objects)
  <2>1. Types /\ Filed /\ t \notin Known /\ k \in Known
    BY <1>1 DEF Base
  <2>2. /\ objects' = [objects EXCEPT ![nodes[k]] = e]
        /\ nodes' = With(Without(nodes, {k}), t, nodes[k])
    BY <1>1
  <2> QED BY <1>3, <2>1, <2>2, MoveNode
<1>6. /\ Filed' /\ IsFiniteSet(Known')
      /\ Total(Known, Messages)' = Total(Known \ {k}, Messages) + e.messages
  BY <1>1, <1>3, <1>5, BecomesFacts DEF Base
<1>7. Total(Known, Messages)' = Total(Known, Messages)
  BY <1>1, <1>3, <1>6, TotalWithout DEF Base
<1>8. Types'
  <2>1. Known' \subseteq Names
    BY <1>2, <1>5 DEF Base, Types, Becomes
  <2>2. info' \in [Sessions -> 0..Len(objects')]
    BY <1>4, <1>5 DEF Base, Types
  <2> QED BY <1>4, <1>5, <1>6, <2>1, <2>2 DEF Base, Types, Becomes
<1>9. CountsSurviveUpgrades'
  BY <1>4, <1>7 DEF Base, CountsSurviveUpgrades
<1>10. ExactUntilNamed'
  <2>1. ASSUME NEW g \in Hosts, g \notin upgraded'
        PROVE  Counted(g)' = Cardinality(From(g))'
    <3>1. Counted(g) = Cardinality(From(g)) /\ g # k /\ g # t
      BY <1>2, <1>4, <2>1 DEF Base, ExactUntilNamed
    <3>2. Counted(g)' = IF g \in Known \ {k} THEN Counted(g) ELSE 0
      BY <1>1, <1>5, <3>1, BecomesCounted
    <3>3. From(g)' = From(g)
      BY <1>4 DEF From
    <3> QED BY <3>1, <3>2, <3>3 DEF Counted
  <2> QED BY <2>1 DEF ExactUntilNamed
<1> QED BY <1>4, <1>6, <1>8, <1>9, <1>10 DEF Base

(* A node that is made for a session counts nothing, and no host is a tag.  *)
LEMMA MakeNamedStep ==
  ASSUME Base, NEW s \in Sessions, MakeNamed(s)
  PROVE  Base'
<1> DEFINE t == tag[s]
           e == NewNode(t, t, 0)
<1>1. /\ pc[s] = "upgrading" /\ Upgraded(s) /\ t \notin Known
      /\ objects' = Append(objects, e) /\ nodes' = With(nodes, t, Len(objects'))
  BY DEF MakeNamed
<1>2. t \in Names /\ t \notin Hosts
  BY <1>1, UpgradedFacts
<1>3. e \in Infos /\ e.key = t /\ e.messages = 0
  BY <1>2 DEF NewNode, Infos
<1>4. /\ UNCHANGED <<info, tag, handled, lines, forgotten>>
      /\ Open' = Open /\ pc' \in [Sessions -> PCs] /\ key' \in [Sessions -> Names]
      /\ upgraded \subseteq upgraded' /\ upgraded' \subseteq Hosts /\ Keys'
  BY <1>1, UpgradedFacts
<1> HIDE DEF e, t
<1>5. /\ Becomes(Known, t, e) /\ Len(objects') = Len(objects) + 1
  BY <1>1, <1>3, AddNode DEF Base
<1>6. /\ Filed' /\ IsFiniteSet(Known')
      /\ Total(Known, Messages)' = Total(Known, Messages) + e.messages
  BY <1>1, <1>3, <1>5, BecomesFacts DEF Base
<1>7. Total(Known, Messages)' = Total(Known, Messages)
  BY <1>3, <1>6, Facts DEF Base
<1>8. Types'
  <2>1. Known' \subseteq Names
    BY <1>2, <1>5 DEF Base, Types, Becomes
  <2>2. info' \in [Sessions -> 0..Len(objects')]
    <3>1. 0..Len(objects) \subseteq 0..Len(objects')
      BY <1>5, Facts DEF Base
    <3> QED BY <1>4, <3>1 DEF Base, Types
  <2> QED BY <1>4, <1>5, <1>6, <2>1, <2>2 DEF Base, Types, Becomes
<1>9. CountsSurviveUpgrades'
  BY <1>4, <1>7 DEF Base, CountsSurviveUpgrades
<1>10. ExactUntilNamed'
  <2>1. ASSUME NEW g \in Hosts, g \notin upgraded'
        PROVE  Counted(g)' = Cardinality(From(g))'
    <3>1. Counted(g) = Cardinality(From(g)) /\ g # t
      BY <1>2, <1>4, <2>1 DEF Base, ExactUntilNamed
    <3>2. Counted(g)' = IF g \in Known THEN Counted(g) ELSE 0
      BY <1>1, <1>5, <3>1, BecomesCounted
    <3>3. From(g)' = From(g)
      BY <1>4 DEF From
    <3> QED BY <3>1, <3>2, <3>3 DEF Counted
  <2> QED BY <2>1 DEF ExactUntilNamed
<1> QED BY <1>4, <1>6, <1>8, <1>9, <1>10 DEF Base

-----------------------------------------------------------------------------
(* A valid line is counted once, by one node, because no other shares it.   *)
LEMMA TouchStep ==
  ASSUME Base, NEW s \in Sessions, Touch(s)
  PROVE  Base'
<1> DEFINE k == key[s]
<1>1. /\ UNCHANGED <<nodes, key, info, tag, handled, forgotten, upgraded>>
      /\ Open' = Open /\ Known' = Known /\ pc' \in [Sessions -> PCs]
      /\ \A q \in Sessions : /\ pc'[q] = "new" => pc[q] = "new"
                             /\ pc'[q] = "upgrading" => pc[q] = "upgrading"
  BY DEF Base, Types, Touch, Open, Known, PCs
<1>2. Keys'
  BY <1>1 DEF Base, Keys
<1>3. CASE k \in Known
  <2> DEFINE e == [objects[nodes[k]] EXCEPT !.messages = @ + 1]
  <2>1. /\ e \in Infos /\ e.key = k
        /\ e.active = objects[nodes[k]].active /\ e.messages = Messages[k] + 1
    <3>1. objects[nodes[k]] \in Infos /\ objects[nodes[k]].key = k
      BY <1>3, Facts DEF Base, Filed
    <3> QED BY <1>3, <3>1 DEF Infos, Messages
  <2>2. /\ objects' = [objects EXCEPT ![nodes[k]] = e] /\ nodes' = nodes
        /\ lines' = lines + 1
    BY <1>3 DEF Touch
  <2>3. Counted(k) = e.active /\ Messages[k] \in Nat
    BY <1>3, <2>1, Facts DEF Base, Counted
  <2> HIDE DEF e, k
  <2>4. /\ Becomes(Known \ {k}, k, e) /\ Len(objects') = Len(objects)
    BY <1>3, <2>1, <2>2, ChangeNode DEF Base
  <2>5. /\ Filed'
        /\ Total(Known, Messages)' = Total(Known \ {k}, Messages) + e.messages
    BY <2>1, <2>4, BecomesFacts DEF Base
  <2>6. Total(Known, Messages)' = Total(Known, Messages) + 1
    BY <1>3, <2>1, <2>3, <2>5, TotalWithout DEF Base
  <2>7. Types'
    BY <1>1, <2>2, <2>4 DEF Base, Types, Becomes
  <2>8. CountsSurviveUpgrades'
    <3>1. Total(Known, Messages) \in Nat /\ forgotten \in Nat
      BY Facts DEF Base, Types
    <3> QED BY <1>1, <2>2, <2>6, <3>1 DEF Base, CountsSurviveUpgrades
  <2>9. ExactUntilNamed'
    <3>1. ASSUME NEW g PROVE Counted(g)' = Counted(g) /\ From(g)' = From(g)
      <4>1. Counted(g)' = IF g = k THEN e.active
                          ELSE IF g \in Known \ {k} THEN Counted(g) ELSE 0
        BY <2>4, BecomesCounted
      <4>2. Counted(g)' = Counted(g)
        BY <2>3, <4>1 DEF Counted
      <4> QED BY <1>1, <4>2 DEF From
    <3> QED BY <1>1, <3>1 DEF Base, ExactUntilNamed
  <2> QED BY <1>2, <2>5, <2>7, <2>8, <2>9 DEF Base
<1>4. CASE k \notin Known
  <2>1. UNCHANGED <<objects, lines>>
    BY <1>4 DEF Touch
  <2>2. Types'
    BY <1>1, <2>1 DEF Base, Types
  <2> QED BY <1>1, <1>2, <2>1, <2>2, QuietStep
<1> QED BY <1>3, <1>4

(* A connection that ends takes one from the count of its node, which for a *)
(* host that was never named is at least one; where there is nothing to     *)
(* take, its host was named.                                                *)
LEMMA EndStep ==
  ASSUME Base, NEW s \in Sessions, End(s)
  PROVE  Base'
<1> DEFINE k == key[s]
<1>1. /\ UNCHANGED <<nodes, key, info, tag, handled, lines, forgotten, upgraded>>
      /\ Open' = Open \ {s} /\ s \in Open /\ Known' = Known
      /\ pc' \in [Sessions -> PCs]
      /\ \A q \in Sessions : /\ pc'[q] = "new" => pc[q] = "new"
                             /\ pc'[q] = "upgrading" => pc[q] = "upgrading"
  BY DEF Base, Types, End, Open, Known, PCs, history
<1>2. Keys'
  BY <1>1 DEF Base, Keys
<1>3. IsFiniteSet(Open')
  BY <1>1, FS_RemoveElement DEF Base, Types
<1>4. ASSUME NEW g \in Hosts \ upgraded
      PROVE  /\ Counted(g) = Cardinality(From(g)) /\ Counted(g) \in Nat
             /\ Cardinality(From(g))' = IF g = HostOf[s] THEN Counted(g) - 1
                                                         ELSE Counted(g)
             /\ g = HostOf[s] => k = g /\ Counted(g) > 0
             /\ g # HostOf[s] => k # g
  <2>1. /\ Counted(g) = Cardinality(From(g)) /\ IsFiniteSet(From(g))
        /\ Cardinality(From(g)) \in Nat
    BY Facts DEF Base, ExactUntilNamed
  <2>2. CASE g = HostOf[s]
    <3>1. s \in From(g) /\ From(g)' = From(g) \ {s}
      BY <1>1, <2>2 DEF From
    <3>2. Cardinality(From(g) \ {s}) = Cardinality(From(g)) - 1
      BY <2>1, <3>1, FS_RemoveElement
    <3>3. Cardinality(From(g) \ {s}) \in Nat
      BY <2>1, FS_RemoveElement, FS_CardinalityType
    <3>4. k = g
      BY <2>2 DEF Base, Keys
    <3> QED BY <2>1, <2>2, <3>1, <3>2, <3>3, <3>4
  <2>3. CASE g # HostOf[s]
    <3>1. From(g)' = From(g)
      BY <1>1, <2>3 DEF From
    <3>2. k # g
      BY <2>3, NamesDisjoint DEF Base, Keys, Hosts
    <3> QED BY <2>1, <2>3, <3>1, <3>2
  <2> QED BY <2>2, <2>3
<1>5. CASE k \in Known /\ objects[nodes[k]].active > 0
  <2> DEFINE e == [objects[nodes[k]] EXCEPT !.active = @ - 1]
  <2>1. /\ e \in Infos /\ e.key = k
        /\ e.active = objects[nodes[k]].active - 1 /\ e.messages = Messages[k]
    <3>1. objects[nodes[k]] \in Infos /\ objects[nodes[k]].key = k
      BY <1>5, Facts DEF Base, Filed
    <3> QED BY <1>5, <3>1 DEF Infos, Messages
  <2>2. objects' = [objects EXCEPT ![nodes[k]] = e] /\ nodes' = nodes
    BY <1>5 DEF End
  <2>3. e.active = Counted(k) - 1 /\ Messages[k] \in Nat
    BY <1>5, <2>1, Facts DEF Base, Counted
  <2> HIDE DEF e, k
  <2>4. /\ Becomes(Known \ {k}, k, e) /\ Len(objects') = Len(objects)
    BY <1>5, <2>1, <2>2, ChangeNode DEF Base
  <2>5. /\ Filed'
        /\ Total(Known, Messages)' = Total(Known \ {k}, Messages) + e.messages
    BY <2>1, <2>4, BecomesFacts DEF Base
  <2>6. Total(Known, Messages)' = Total(Known, Messages)
    BY <1>5, <2>1, <2>5, TotalWithout DEF Base
  <2>7. Types'
    BY <1>1, <1>3, <2>2, <2>4 DEF Base, Types, Becomes
  <2>8. CountsSurviveUpgrades'
    BY <1>1, <2>6 DEF Base, CountsSurviveUpgrades
  <2>9. ExactUntilNamed'
    <3>1. ASSUME NEW g \in Hosts \ upgraded
          PROVE  Counted(g)' = Cardinality(From(g))'
      <4>1. Counted(g)' = IF g = k THEN e.active
                          ELSE IF g \in Known \ {k} THEN Counted(g) ELSE 0
        BY <2>4, BecomesCounted
      <4>2. Counted(g)' = IF g = k THEN Counted(k) - 1 ELSE Counted(g)
        BY <2>3, <4>1 DEF Counted
      <4> QED BY <1>4, <4>2
    <3> QED BY <1>1, <3>1 DEF ExactUntilNamed
  <2> QED BY <1>2, <2>5, <2>7, <2>8, <2>9 DEF Base
<1>6. CASE ~(k \in Known /\ objects[nodes[k]].active > 0)
  <2>1. objects' = objects
    BY <1>6 DEF End
  <2>2. Filed' /\ Messages' = Messages
    BY <1>1, <2>1 DEF Base, Filed, Messages
  <2>3. Types'
    BY <1>1, <1>3, <2>1 DEF Base, Types
  <2>4. CountsSurviveUpgrades'
    BY <1>1, <2>2 DEF Base, CountsSurviveUpgrades, Total, Tally
  <2>5. ExactUntilNamed'
    <3>1. ASSUME NEW g \in Hosts \ upgraded
          PROVE  Counted(g)' = Cardinality(From(g))'
      <4>1. Counted(g)' = Counted(g)
        BY <1>1, <2>1 DEF Counted
      <4>2. g # HostOf[s]
        BY <1>4, <1>6 DEF Counted
      <4> QED BY <1>4, <4>1, <4>2
    <3> QED BY <1>1, <3>1 DEF ExactUntilNamed
  <2> QED BY <1>2, <2>2, <2>3, <2>4, <2>5 DEF Base
<1> QED BY <1>5, <1>6

-----------------------------------------------------------------------------
(* What is pruned counts no session.                                        *)
LEMMA PruneFacts ==
  ASSUME Base, Prune
  PROVE  /\ UNCHANGED <<objects, pc, key, info, tag, handled, lines, upgraded>>
         /\ Known' \subseteq Known /\ Open' = Open
         /\ \A l \in Known' : nodes'[l] = nodes[l]
         /\ \A l \in Known \ Known' : objects[nodes[l]].active = 0
         /\ nodes' \in [Known' -> 1..Len(objects)]
         /\ forgotten' = forgotten + Total(Known \ Known', Messages)
<1>1. PICK old \in SUBSET Prunable :
        /\ nodes' = Without(nodes, old)
        /\ forgotten' = forgotten + Total(old, Messages)
  BY DEF Prune
<1>2. UNCHANGED <<objects, pc, key, info, tag, handled, lines, upgraded>>
  BY DEF Prune, session
<1>3. old \subseteq Known /\ \A l \in old : objects[nodes[l]].active = 0
  BY DEF Prunable
<1>4. /\ Known' = Known \ old /\ Open' = Open
      /\ \A l \in Known' : nodes'[l] = nodes[l]
      /\ nodes' \in [Known' -> 1..Len(objects)]
  BY <1>1, <1>2, <1>3 DEF Without, Known, Open, Base, Types
<1>5. Known \ Known' = old
  BY <1>3, <1>4
<1> QED BY <1>1, <1>2, <1>3, <1>4, <1>5

LEMMA PruneStep ==
  ASSUME Base, Prune
  PROVE  Base'
<1> DEFINE old == Known \ Known'
<1>1. /\ UNCHANGED <<objects, pc, key, info, tag, handled, lines, upgraded>>
      /\ Known' \subseteq Known /\ Open' = Open
      /\ \A l \in Known' : nodes'[l] = nodes[l]
      /\ \A l \in old : objects[nodes[l]].active = 0
      /\ nodes' \in [Known' -> 1..Len(objects)]
      /\ forgotten' = forgotten + Total(old, Messages)
  BY PruneFacts
<1>2. PICK gone \in SUBSET Known : gone = old
  OBVIOUS
<1>3. Known' = Known \ gone
  BY <1>1, <1>2
<1> HIDE DEF old
<1>4. /\ IsFiniteSet(Known) /\ IsFiniteSet(gone) /\ IsFiniteSet(Known \ gone)
      /\ \A l \in Known : Messages[l] \in Nat
  BY FS_Subset, Facts DEF Base, Types
<1>5. Total(gone, Messages) \in Nat /\ Total(Known \ gone, Messages) \in Nat
  BY <1>4, TallyFinite
<1>6. /\ Total(Known, Messages)' = Total(Known \ gone, Messages)
      /\ Total(Known, Messages) = Total(gone, Messages) + Total(Known, Messages)'
  <2>1. PICK m : m = Messages'
    OBVIOUS
  <2>2. Total(Known, Messages)' = Total(Known \ gone, m)
    BY <1>3, <2>1 DEF Total, Tally
  <2>3. \A l \in Known \ gone : m[l] = Messages[l]
    BY <1>1, <1>3, <2>1 DEF Messages
  <2>4. Total(Known \ gone, m) = Total(Known \ gone, Messages)
    BY <2>3, TotalSame
  <2>5. Total(Known, Messages) = Total(gone, Messages) + Total(Known \ gone, Messages)
    BY <1>4, TotalSplit
  <2> QED BY <2>2, <2>4, <2>5
<1>7. Types'
  <2>1. Known' \subseteq Names /\ IsFiniteSet(Known')
    BY <1>1, <1>3, <1>4 DEF Base, Types
  <2>2. forgotten' \in Nat
    BY <1>1, <1>2, <1>5 DEF Base, Types
  <2> QED BY <1>1, <2>1, <2>2 DEF Base, Types
<1>8. Keys'
  BY <1>1 DEF Base, Keys
<1>9. Filed'
  BY <1>1 DEF Base, Filed
<1>10. CountsSurviveUpgrades'
  <2>1. forgotten \in Nat /\ Total(Known, Messages)' \in Nat
    BY <1>5, <1>6 DEF Base, Types
  <2> QED BY <1>1, <1>2, <1>5, <1>6, <2>1 DEF Base, CountsSurviveUpgrades
<1>11. ExactUntilNamed'
  <2>1. ASSUME NEW g PROVE Counted(g)' = Counted(g) /\ From(g)' = From(g)
    BY <1>1, <1>2, <1>3 DEF Counted, From
  <2> QED BY <1>1, <2>1 DEF Base, ExactUntilNamed
<1> QED BY <1>7, <1>8, <1>9, <1>10, <1>11 DEF Base

LEMMA StepBase ==
  ASSUME Base, Step
  PROVE  Base'
<1>1. ASSUME NEW s \in Sessions,
             Start(s) \/ (\E t \in Tags \cup {None} : Read(s, t))
               \/ JoinNamed(s) \/ Rename(s) \/ MakeNamed(s) \/ Raise(s)
               \/ Touch(s) \/ Skip(s) \/ End(s)
      PROVE  Base'
  BY <1>1, StartStep, ReadStep, JoinNamedStep, RenameStep, MakeNamedStep,
     TouchStep, EndStep
<1> QED BY <1>1, PruneStep DEF Step

-----------------------------------------------------------------------------
(* What the steps leave of the counts of nodes that are not mixed.          *)

(* Sessions neither come nor go, and every node is one there was, perhaps   *)
(* under another key, with the same count.                                  *)
LEMMA NodesKept ==
  ASSUME ExactWhileUnmixed, mixed \subseteq mixed', UNCHANGED info, Open' = Open,
         \A k \in Known' : \E l \in Known :
           nodes'[k] = nodes[l] /\ objects'[nodes'[k]].active = objects[nodes[l]].active
  PROVE  ExactWhileUnmixed'
<1>1. ASSUME NEW k \in Known', nodes'[k] \notin mixed'
      PROVE  objects'[nodes'[k]].active = Cardinality(Users(nodes[k]))'
  <2>1. PICK l \in Known :
          nodes'[k] = nodes[l] /\ objects'[nodes'[k]].active = objects[nodes[l]].active
    OBVIOUS
  <2>2. objects[nodes[l]].active = Cardinality(Users(nodes[l]))
    BY <1>1, <2>1 DEF ExactWhileUnmixed
  <2>3. Users(nodes[k])' = Users(nodes[l])
    BY <2>1 DEF Users
  <2> QED BY <2>1, <2>2, <2>3
<1> QED BY <1>1 DEF ExactWhileUnmixed

LEMMA StartExact ==
  ASSUME IInv, mixed \subseteq mixed', NEW s \in Sessions, Start(s)
  PROVE  ExactWhileUnmixed'
<1> DEFINE h == HostOf[s]
<1>1. /\ s \notin Open /\ Open' = Open \cup {s}
  BY DEF IInv, Base, Types, Start, Open
<1>2. CASE h \in Known
  <2>1. /\ nodes' = nodes /\ Known' = Known
        /\ objects' = [objects EXCEPT ![nodes[h]].active = @ + 1]
        /\ info' = [info EXCEPT ![s] = nodes[h]]
    <3>1. nodes' = With(nodes, h, nodes[h])
      BY <1>2 DEF Start
    <3>2. nodes' = nodes
      BY <1>2, <3>1 DEF With, Known, IInv, Base, Types
    <3> QED BY <1>2, <3>2 DEF Start, Known
  <2>2. ASSUME NEW k \in Known, nodes[k] \notin mixed
        PROVE  objects'[nodes[k]].active = Cardinality(Users(nodes[k]))'
    <3>1. /\ objects[nodes[k]].active = Cardinality(Users(nodes[k]))
          /\ IsFiniteSet(Users(nodes[k]))
          /\ nodes[k] \in 1..Len(objects) /\ nodes[h] \in 1..Len(objects)
          /\ objects[nodes[k]] \in Infos
      BY <1>2, <2>2, Facts DEF IInv, Base, ExactWhileUnmixed
    <3>2. objects \in Seq(Infos) /\ info \in [Sessions -> 0..Len(objects)]
      BY DEF IInv, Base, Types
    <3>3. CASE k = h
      <4>1. Users(nodes[k])' = Users(nodes[k]) \cup {s} /\ s \notin Users(nodes[k])
        BY <1>1, <2>1, <3>2, <3>3 DEF Users
      <4>2. Cardinality(Users(nodes[k]) \cup {s}) = Cardinality(Users(nodes[k])) + 1
        BY <3>1, <4>1, FS_AddElement
      <4>3. objects'[nodes[k]].active = objects[nodes[k]].active + 1
        BY <2>1, <3>1, <3>2, <3>3 DEF Infos
      <4> QED BY <3>1, <4>1, <4>2, <4>3
    <3>4. CASE k # h
      <4>1. nodes[k] # nodes[h]
        BY <1>2, <3>4 DEF IInv, Base, Filed
      <4>2. Users(nodes[k])' = Users(nodes[k])
        BY <1>1, <2>1, <3>2, <4>1 DEF Users
      <4>3. objects'[nodes[k]] = objects[nodes[k]]
        BY <2>1, <3>1, <3>2, <4>1
      <4> QED BY <3>1, <4>2, <4>3
    <3> QED BY <3>3, <3>4
  <2> QED BY <2>1, <2>2 DEF ExactWhileUnmixed
<1>3. CASE h \notin Known
  <2>0. PICK n \in Nat : n = Len(objects)
    BY Facts DEF IInv, Base
  <2>1. /\ objects' = Append(objects, NewNode(h, None, 1))
        /\ nodes' = With(nodes, h, n + 1)
        /\ info' = [info EXCEPT ![s] = n + 1]
    <3>1. Len(Append(objects, NewNode(h, None, 1))) = n + 1
      BY <2>0, AppendProperties DEF IInv, Base, Types, NewNode, Infos, Names, Hosts
    <3> QED BY <1>3, <2>0, <3>1 DEF Start
  <2>2. (\A k \in Known : nodes[k] \in 1..n) /\ info \in [Sessions -> 0..n]
    BY <2>0, Facts DEF IInv, Base, Types
  <2>3. /\ objects'[n + 1] = NewNode(h, None, 1)
        /\ \A o \in 1..n : objects'[o] = objects[o]
    <3>1. NewNode(h, None, 1) \in Infos
      BY DEF NewNode, Infos, Names, Hosts
    <3> QED BY <2>0, <2>1, <3>1, AppendProperties DEF IInv, Base, Types
  <2>4. /\ Known' = Known \cup {h} /\ nodes'[h] = n + 1
        /\ \A k \in Known : nodes'[k] = nodes[k]
    BY <1>3, <2>1 DEF With, Known
  <2>5. {q \in Open' : info'[q] = n + 1} = {s}
    <3>1. \A q \in Sessions : info'[q] = n + 1 <=> q = s
      BY <2>1, <2>2
    <3> QED BY <1>1, <3>1 DEF Open
  <2>6. objects'[n + 1].active = Cardinality({q \in Open' : info'[q] = n + 1})
    <3>1. Cardinality({s}) = 1
      BY FS_Singleton
    <3>2. objects'[n + 1].active = 1
      BY <2>3 DEF NewNode
    <3> QED BY <2>5, <3>1, <3>2
  <2>7. ASSUME NEW k \in Known, nodes[k] \notin mixed
        PROVE  objects'[nodes[k]].active = Cardinality(Users(nodes[k]))'
    <3>1. objects[nodes[k]].active = Cardinality(Users(nodes[k]))
      BY <2>7 DEF IInv, ExactWhileUnmixed
    <3>2. nodes[k] \in 1..n /\ nodes[k] # n + 1
      BY <2>2
    <3>3. nodes'[k] = nodes[k]
      BY <2>4
    <3>4. Users(nodes[k])' = Users(nodes[k])
      BY <1>1, <2>1, <2>2, <3>2, <3>3 DEF Users
    <3> QED BY <2>3, <3>1, <3>2, <3>4
  <2>8. ASSUME NEW k \in Known', nodes'[k] \notin mixed'
        PROVE  objects'[nodes'[k]].active = Cardinality(Users(nodes[k]))'
    <3>1. CASE k = h
      <4>1. Users(nodes[k])' = {q \in Open' : info'[q] = n + 1}
        BY <2>4, <3>1 DEF Users
      <4> QED BY <2>4, <2>6, <3>1, <4>1
    <3>2. CASE k # h
      BY <2>4, <2>7, <2>8, <3>2
    <3> QED BY <3>1, <3>2
  <2> QED BY <2>8 DEF ExactWhileUnmixed
<1> QED BY <1>2, <1>3

LEMMA RenameExact ==
  ASSUME IInv, mixed \subseteq mixed', NEW s \in Sessions, Rename(s)
  PROVE  ExactWhileUnmixed'
<1> DEFINE t == tag[s]
           k == key[s]
           e == [objects[nodes[k]] EXCEPT !.key = t, !.source = t]
<1>1. /\ pc[s] = "upgrading" /\ Upgraded(s) /\ t \notin Known /\ k \in Known
      /\ objects' = [objects EXCEPT ![nodes[k]] = e]
      /\ nodes' = With(Without(nodes, {k}), t, nodes[k])
  BY DEF Rename
<1>2. info' = info /\ Open' = Open /\ t \in Names
  BY <1>1, UpgradedFacts DEF IInv
<1>3. objects[nodes[k]] \in Infos
  BY <1>1, Facts DEF IInv, Base
<1>4. e \in Infos /\ e.active = objects[nodes[k]].active
  BY <1>2, <1>3 DEF Infos
<1> HIDE DEF e, t, k
<1>5. Becomes(Known \ {k}, t, e) /\ nodes'[t] = nodes[k]
  BY <1>1, <1>4, MoveNode DEF IInv, Base
<1>6. ASSUME NEW l \in Known'
      PROVE  \E m \in Known : /\ nodes'[l] = nodes[m]
                              /\ objects'[nodes'[l]].active = objects[nodes[m]].active
  <2>1. CASE l = t
    BY <1>1, <1>4, <1>5, <2>1 DEF Becomes
  <2>2. CASE l # t
    BY <1>5, <2>2 DEF Becomes
  <2> QED BY <2>1, <2>2
<1> QED BY <1>2, <1>6, NodesKept DEF IInv

LEMMA MakeNamedExact ==
  ASSUME IInv, mixed \subseteq mixed', NEW s \in Sessions, MakeNamed(s)
  PROVE  ExactWhileUnmixed'
<1> DEFINE t == tag[s]
           e == NewNode(t, t, 0)
<1>1. /\ pc[s] = "upgrading" /\ Upgraded(s) /\ t \notin Known
      /\ objects' = Append(objects, e) /\ nodes' = With(nodes, t, Len(objects'))
  BY DEF MakeNamed
<1>2. info' = info /\ Open' = Open /\ t \in Names
  BY <1>1, UpgradedFacts DEF IInv
<1>3. e \in Infos /\ e.active = 0
  BY <1>2 DEF NewNode, Infos
<1>4. PICK n \in Nat : n = Len(objects)
  BY Facts DEF IInv, Base
<1> HIDE DEF e, t
<1>5. Becomes(Known, t, e) /\ nodes'[t] = n + 1
  BY <1>1, <1>3, <1>4, AddNode DEF IInv, Base
<1>6. {q \in Open' : info'[q] = n + 1} = {}
  <2>1. \A q \in Sessions : info[q] # n + 1
    BY <1>4 DEF IInv, Base, Types
  <2> QED BY <1>2, <2>1 DEF Open
<1>7. ASSUME NEW k \in Known', nodes'[k] \notin mixed'
      PROVE  objects'[nodes'[k]].active = Cardinality(Users(nodes[k]))'
  <2>1. CASE k = t
    <3>1. Users(nodes[k])' = {q \in Open' : info'[q] = n + 1}
      BY <1>5, <2>1 DEF Users
    <3> QED BY <1>3, <1>5, <1>6, <2>1, <3>1, FS_EmptySet DEF Becomes
  <2>2. CASE k # t
    <3>1. k \in Known /\ nodes'[k] = nodes[k] /\ objects'[nodes'[k]] = objects[nodes[k]]
      BY <1>5, <2>2 DEF Becomes
    <3>2. objects[nodes[k]].active = Cardinality(Users(nodes[k]))
      BY <1>7, <3>1 DEF IInv, ExactWhileUnmixed
    <3>3. Users(nodes[k])' = Users(nodes[k])
      BY <1>2, <3>1 DEF Users
    <3> QED BY <3>1, <3>2, <3>3
  <2> QED BY <2>1, <2>2
<1> QED BY <1>7 DEF ExactWhileUnmixed

(* A session that ends signs off from the object it began with, if that is  *)
(* not mixed, and from no other that is not.                                *)
LEMMA EndExact ==
  ASSUME IInv, mixed \subseteq mixed', NEW s \in Sessions, End(s)
  PROVE  ExactWhileUnmixed'
<1> DEFINE h == key[s]
<1>1. /\ nodes' = nodes /\ Known' = Known /\ info' = info
      /\ Open' = Open \ {s} /\ s \in Open
  BY DEF IInv, Base, Types, End, Open, Known
<1>2. objects \in Seq(Infos)
  BY DEF IInv, Base, Types
<1>3. ASSUME NEW k \in Known, nodes[k] \notin mixed
      PROVE  objects'[nodes[k]].active = Cardinality(Users(nodes[k]))'
  <2>1. /\ objects[nodes[k]].active = Cardinality(Users(nodes[k]))
        /\ IsFiniteSet(Users(nodes[k]))
        /\ Cardinality(Users(nodes[k])) \in Nat
        /\ nodes[k] \in 1..Len(objects) /\ objects[nodes[k]] \in Infos
    BY <1>3, Facts DEF IInv, Base, ExactWhileUnmixed
  <2>2. key[s] = k <=> info[s] = nodes[k]
    BY <1>1, <1>3 DEF IInv, Mixed
  <2>3. CASE k = h
    <3>1. s \in Users(nodes[k]) /\ Users(nodes[k])' = Users(nodes[k]) \ {s}
      BY <1>1, <2>2, <2>3 DEF Users
    <3>2. Cardinality(Users(nodes[k]) \ {s}) = Cardinality(Users(nodes[k])) - 1
      BY <2>1, <3>1, FS_RemoveElement
    <3>3. Cardinality(Users(nodes[k]) \ {s}) \in Nat
      BY <2>1, FS_RemoveElement, FS_CardinalityType
    <3>4. objects[nodes[k]].active > 0
      BY <2>1, <3>2, <3>3
    <3>5. objects' = [objects EXCEPT ![nodes[k]].active = @ - 1]
      BY <2>3, <3>4 DEF End
    <3>6. objects'[nodes[k]].active = objects[nodes[k]].active - 1
      BY <1>2, <2>1, <3>5 DEF Infos
    <3> QED BY <2>1, <3>1, <3>2, <3>6
  <2>4. CASE k # h
    <3>1. Users(nodes[k])' = Users(nodes[k])
      BY <1>1, <2>2, <2>4 DEF Users
    <3>2. objects'[nodes[k]] = objects[nodes[k]]
      <4>1. CASE h \in Known
        <5>1. nodes[h] # nodes[k]
          BY <2>4, <4>1 DEF IInv, Base, Filed
        <5> QED BY <1>2, <2>1, <5>1 DEF End
      <4>2. CASE h \notin Known
        BY <4>2 DEF End
      <4> QED BY <4>1, <4>2
    <3> QED BY <2>1, <3>1, <3>2
  <2> QED BY <2>3, <2>4
<1> QED BY <1>1, <1>3 DEF ExactWhileUnmixed

(* The other steps leave every node they keep under its key with its count. *)
LEMMA OtherExact ==
  ASSUME IInv, mixed \subseteq mixed',
         \/ \E s \in Sessions :
              \/ (\E t \in Tags \cup {None} : Read(s, t))
              \/ JoinNamed(s) \/ Raise(s) \/ Touch(s) \/ Skip(s)
         \/ Prune
  PROVE  ExactWhileUnmixed'
<1>1. CASE Prune
  <2>1. /\ UNCHANGED <<objects, info>> /\ Open' = Open /\ Known' \subseteq Known
        /\ \A k \in Known' : nodes'[k] = nodes[k]
    BY <1>1, PruneFacts DEF IInv
  <2>2. \A k \in Known' : \E l \in Known :
          nodes'[k] = nodes[l] /\ objects'[nodes'[k]].active = objects[nodes[l]].active
    BY <2>1
  <2> QED BY <2>1, <2>2, NodesKept DEF IInv
<1>2. ASSUME NEW s \in Sessions,
             \/ (\E t \in Tags \cup {None} : Read(s, t))
             \/ JoinNamed(s) \/ Raise(s) \/ Touch(s) \/ Skip(s)
      PROVE  ExactWhileUnmixed'
  <2>1. info' = info /\ Open' = Open /\ nodes' = nodes /\ Known' = Known
    BY <1>2 DEF IInv, Base, Types, Read, JoinNamed, Upgraded, Raise, Touch, Skip,
                registry, Open, Known
  <2>2. ASSUME NEW k \in Known
        PROVE  objects'[nodes[k]].active = objects[nodes[k]].active
    <3>1. CASE objects' = objects
      BY <3>1
    <3>2. CASE key[s] \in Known
                 /\ objects' = [objects EXCEPT ![nodes[key[s]]].messages = @ + 1]
      <4>1. /\ nodes[k] \in 1..Len(objects) /\ objects[nodes[k]] \in Infos
            /\ nodes[key[s]] \in 1..Len(objects) /\ objects \in Seq(Infos)
        BY <3>2, Facts DEF IInv, Base, Types
      <4> QED BY <3>2, <4>1 DEF Infos
    <3> QED BY <1>2, <3>1, <3>2 DEF Read, JoinNamed, Raise, Touch, Skip, registry
  <2>3. \A k \in Known' : \E l \in Known :
          nodes'[k] = nodes[l] /\ objects'[nodes'[k]].active = objects[nodes[l]].active
    BY <2>1, <2>2
  <2> QED BY <2>1, <2>3, NodesKept DEF IInv
<1> QED BY <1>1, <1>2

LEMMA NextIInv == IInv /\ [Next]_vars => IInv'
<1> SUFFICES ASSUME IInv, [Next]_vars PROVE IInv'
  OBVIOUS
<1>1. CASE UNCHANGED vars
  <2>1. /\ UNCHANGED <<objects, nodes, lines, forgotten, upgraded, info, key>>
        /\ UNCHANGED mixed /\ Known' = Known /\ Open' = Open
        /\ Types' /\ Keys'
    BY <1>1 DEF vars, registry, session, history, IInv, Base, Types, Keys,
                Known, Open
  <2>2. Base'
    BY <2>1, QuietStep DEF IInv
  <2>3. ExactWhileUnmixed' /\ Mixed' = Mixed
    BY <2>1 DEF IInv, ExactWhileUnmixed, Users, Mixed
  <2> QED BY <2>1, <2>2, <2>3 DEF IInv
<1>2. CASE Step /\ mixed' = mixed \cup Mixed'
  <2>1. Base'
    BY <1>2, StepBase DEF IInv
  <2>2. mixed \subseteq mixed' /\ Mixed' \subseteq mixed'
    BY <1>2
  <2>3. mixed' \subseteq Nat
    <3>1. \A k \in Known' : nodes'[k] \in Nat
      BY <2>1, LenProperties DEF Base, Types
    <3> QED BY <1>2, <3>1 DEF IInv, Mixed
  <2>4. ExactWhileUnmixed'
    BY <1>2, <2>2, StartExact, RenameExact, MakeNamedExact, EndExact, OtherExact
       DEF Step
  <2> QED BY <2>1, <2>2, <2>3, <2>4 DEF IInv
<1> QED BY <1>1, <1>2 DEF Next

LEMMA Invariance == Spec => []IInv
<1> QED BY InitIInv, NextIInv, PTL DEF Spec

(* Every variable of the registry keeps its type.                           *)
THEOREM TypeCorrect == Spec => []TypeOK
<1>1. IInv => TypeOK
  BY DEF IInv, Base, TypeOK
<1> QED BY <1>1, Invariance, PTL

(* However sessions share hosts and names: every node is filed under its    *)
(* own key, and no two keys share one (ingest.py:132-148).                  *)
THEOREM NodesAreFiled == Spec => []Filed
<1>1. IInv => Filed
  BY DEF IInv, Base
<1> QED BY <1>1, Invariance, PTL

(* No valid line that found a node is ever lost from the counts, or counted *)
(* twice, by a rename or a prune (ingest.py:134, 187-212).                  *)
THEOREM LinesStayCounted == Spec => []CountsSurviveUpgrades
<1>1. IInv => CountsSurviveUpgrades
  BY DEF IInv, Base
<1> QED BY <1>1, Invariance, PTL

(* Until a tag block names a node of the host, its count is exact           *)
(* (ingest.py:106-130).                                                     *)
THEOREM UnnamedCountsExact == Spec => []ExactUntilNamed
<1>1. IInv => ExactUntilNamed
  BY DEF IInv, Base
<1> QED BY <1>1, Invariance, PTL

(* The count of each single node is exact, through all its renames, until   *)
(* an open session goes by its key that did not begin with it, or the other *)
(* way round (ingest.py:106-148).                                           *)
THEOREM UnmixedCountsExact == Spec => []ExactWhileUnmixed
<1>1. IInv => ExactWhileUnmixed
  BY DEF IInv
<1> QED BY <1>1, Invariance, PTL

-----------------------------------------------------------------------------
(* The node under the key of an open session is still there after the step, *)
(* perhaps renamed together with the session.                               *)
Stays == \A s \in Open :
           /\ key[s] \in Known /\ s \in Open'
           /\ nodes[key[s]] \notin mixed'
           => key'[s] \in Known'

(* A node an open session goes by counts that session, so prune spares it;  *)
(* a session that renames it under the eyes of another mixes it.            *)
LEMMA StepStays ==
  ASSUME IInv, Step, mixed' = mixed \cup Mixed'
  PROVE  Stays
<1> SUFFICES ASSUME NEW s \in Open, key[s] \in Known, s \in Open',
                    nodes[key[s]] \notin mixed'
             PROVE  key'[s] \in Known'
  BY DEF Stays
<1> DEFINE k == key[s]
<1>1. s \in Sessions /\ info[s] = nodes[k] /\ nodes[k] \notin mixed
  BY DEF IInv, Mixed, Open
<1>2. ASSUME NEW q \in Sessions,
             \/ (\E t \in Tags \cup {None} : Read(q, t))
             \/ Raise(q) \/ Touch(q) \/ Skip(q) \/ End(q)
      PROVE  key'[s] \in Known'
  BY <1>2 DEF Read, Raise, Touch, Skip, End, registry, Known
<1>3. ASSUME NEW q \in Sessions, Start(q)
      PROVE  key'[s] \in Known'
  BY <1>3 DEF Start, With, Known
<1>4. ASSUME NEW q \in Sessions, JoinNamed(q)
      PROVE  key'[s] \in Known'
  <2>1. Known' = Known /\ tag[q] \in Known /\ key' = [key EXCEPT ![q] = tag[q]]
    BY <1>4 DEF JoinNamed, Upgraded, registry, Known
  <2> QED BY <1>1, <2>1 DEF IInv, Base, Types
<1>5. ASSUME NEW q \in Sessions, MakeNamed(q)
      PROVE  key'[s] \in Known'
  <2>1. Known' = Known \cup {tag[q]} /\ key' = [key EXCEPT ![q] = tag[q]]
    BY <1>5 DEF MakeNamed, Upgraded, With, Known
  <2> QED BY <1>1, <2>1 DEF IInv, Base, Types
<1>6. ASSUME NEW q \in Sessions, Rename(q)
      PROVE  key'[s] \in Known'
  <2> DEFINE t == tag[q]
  <2>1. /\ nodes' = With(Without(nodes, {key[q]}), t, nodes[key[q]])
        /\ key' = [key EXCEPT ![q] = t] /\ info' = info /\ t \notin Known
    BY <1>6 DEF Rename, Upgraded
  <2> HIDE DEF t
  <2>2. Known' = (Known \ {key[q]}) \cup {t} /\ nodes'[t] = nodes[key[q]]
    BY <2>1 DEF With, Without, Known
  <2>3. CASE q = s
    BY <1>1, <2>1, <2>2, <2>3 DEF IInv, Base, Types
  <2>4. CASE q # s
    <3>1. key'[s] = k
      BY <1>1, <2>1, <2>4 DEF IInv, Base, Types
    <3>2. CASE key[q] # k
      BY <2>2, <3>1, <3>2
    <3>3. CASE key[q] = k
      <4>1. t \in Known' /\ nodes'[t] = nodes[k] /\ info'[s] = nodes'[t]
        BY <1>1, <2>1, <2>2, <3>3
      <4>2. key'[s] # t
        BY <2>1, <3>1
      <4>3. nodes'[t] \in Mixed'
        BY <4>1, <4>2 DEF Mixed
      <4> QED BY <4>1, <4>3
    <3> QED BY <3>2, <3>3
  <2> QED BY <2>3, <2>4
<1>7. CASE Prune
  <2>1. /\ Known' \subseteq Known /\ key' = key
        /\ \A l \in Known \ Known' : objects[nodes[l]].active = 0
    BY <1>7, PruneFacts DEF IInv
  <2>2. /\ objects[nodes[k]].active = Cardinality(Users(nodes[k]))
        /\ IsFiniteSet(Users(nodes[k])) /\ s \in Users(nodes[k])
    BY <1>1, Facts DEF IInv, Base, ExactWhileUnmixed, Users
  <2>3. Cardinality(Users(nodes[k])) # 0
    BY <2>2, FS_EmptySet
  <2> QED BY <2>1, <2>2, <2>3
<1> QED BY <1>2, <1>3, <1>4, <1>5, <1>6, <1>7 DEF Step

(* A session loses the node it goes by, to a prune or to a rename that will *)
(* make its next upgrade raise a KeyError, only once that node is mixed     *)
(* (ingest.py:132-148, 187-206).                                            *)
THEOREM UnmixedNodesStay == Spec => NodeStays
<1>1. IInv /\ [Next]_vars => [Stays]_vars
  <2> SUFFICES ASSUME IInv, [Next]_vars PROVE Stays \/ UNCHANGED vars
    OBVIOUS
  <2> QED BY StepStays DEF Next
<1> QED BY <1>1, Invariance, PTL DEF Spec, NodeStays, Stays

=============================================================================
