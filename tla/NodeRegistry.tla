----------------------------- MODULE NodeRegistry -----------------------------
(***************************************************************************)
(* NodeRegistry of ingest.py and the connection threads that keep it up    *)
(* to date.  A session is one TCP connection of a receiver node; a node is *)
(* known under its host until a tag block names it, then under that name.  *)
(*                                                                         *)
(* Each method of the registry is one step under its lock.  The thread of  *)
(* a session runs several of them per line, and decides between two of     *)
(* them on a field of a NodeInfo that other sessions may hold as well:     *)
(* objects have an identity here, the registry maps keys to them.          *)
(* What a node counts is its valid lines and its open sessions.  last_seen  *)
(* is left out: a node may be of any age when the registry is pruned.       *)
(***************************************************************************)
EXTENDS Integers, Sequences, FiniteSets

CONSTANTS
  Sessions,   \* connections; each is opened once
  HostOf,     \* session -> the address it comes from
  Tags,       \* the source ids in tag blocks
  None,       \* no source id
  MaxLines    \* bound: lines handled in a behaviour

ASSUME NamesDisjoint ==
  {HostOf[s] : s \in Sessions} \cap Tags = {} /\ None \notin Tags
ASSUME LinesAssumption == MaxLines \in Nat

VARIABLES
  objects,   \* every NodeInfo made, as [key, source, active, messages]
  nodes,     \* _nodes: key -> index into objects
  pc,        \* session -> "new", "reading", "upgrading", "touching", "failed",
             \* "closed"
  key,       \* session -> run()'s key
  info,      \* session -> run()'s info, an index into objects
  tag,       \* session -> the source id it is upgrading to
  handled,   \* history: lines taken up
  lines,     \* history: valid lines counted by some node
  forgotten, \* history: lines counted by nodes that were pruned
  upgraded,  \* history: hosts a session of which got a name
  mixed      \* history: objects that sessions knew under different keys

registry == <<objects, nodes>>
session  == <<pc, key, info, tag>>
history  == <<handled, lines, forgotten, upgraded>>
vars == <<registry, session, history, mixed>>

Hosts == {HostOf[s] : s \in Sessions}
Known == DOMAIN nodes
Open  == {s \in Sessions : pc[s] \notin {"new", "closed"}}

(* The objects for which it makes a difference whether an open session is   *)
(* asked for its key or for the object it began with.                       *)
Mixed == {nodes[k] : k \in {l \in Known : \E s \in Open :
                                ~(key[s] = l <=> info[s] = nodes[l])}}

With(f, k, o) == [l \in DOMAIN f \cup {k} |-> IF l = k THEN o ELSE f[l]]

(* Mutant of Without: the old key is looked up, not popped.                 *)
Untouched(f, S) == f

Without(f, S)   == [l \in DOMAIN f \ S |-> f[l]]
NewNode(k, src, active) ==
  [key |-> k, source |-> src, active |-> active, messages |-> 0]

(* What each node counts.                                                   *)
Messages == [k \in Known |-> objects[nodes[k]].messages]
Active   == [k \in Known |-> objects[nodes[k]].active]

(* The sum of n[k] over the keys in S, as the size of a set.                *)
Tally(S, n) == UNION {{k} \X (1..n[k]) : k \in S}
Total(S, n) == Cardinality(Tally(S, n))

-----------------------------------------------------------------------------
Init ==
  /\ objects = <<>> /\ nodes = [k \in {} |-> 0]
  /\ pc = [s \in Sessions |-> "new"]
  /\ key = [s \in Sessions |-> HostOf[s]]
  /\ info = [s \in Sessions |-> 0] /\ tag = [s \in Sessions |-> None]
  /\ handled = 0 /\ lines = 0 /\ forgotten = 0 /\ upgraded = {} /\ mixed = {}

(* Mutant of Start: a node that exists is replaced.                         *)
StartAfresh(s) ==
  /\ pc[s] = "new"
  /\ objects' = Append(objects, NewNode(HostOf[s], None, 1))
  /\ nodes' = With(nodes, HostOf[s], Len(objects'))
  /\ info' = [info EXCEPT ![s] = Len(objects')]
  /\ pc' = [pc EXCEPT ![s] = "reading"]
  /\ UNCHANGED <<key, tag, history>>

(* on_session_start: the host's node is made or found, and counts one more. *)
Start(s) ==
  /\ pc[s] = "new"
  /\ LET h == HostOf[s]
         o == IF h \in Known THEN nodes[h] ELSE Len(objects) + 1
     IN /\ objects' = IF h \in Known
                        THEN [objects EXCEPT ![o].active = @ + 1]
                        ELSE Append(objects, NewNode(h, None, 1))
        /\ nodes' = With(nodes, h, o)
        /\ info' = [info EXCEPT ![s] = o]
  /\ pc' = [pc EXCEPT ![s] = "reading"]
  /\ UNCHANGED <<key, tag, history>>

(* _handle_line, up to the first call of the registry: a tag block matters  *)
(* only if it does not name the object the session was started with.  Each  *)
(* line of a connection may carry another source id, or none.               *)
Read(s, t) ==
  /\ pc[s] = "reading"
  /\ handled < MaxLines /\ handled' = handled + 1
  /\ IF t # None /\ t # objects[info[s]].source
       THEN pc' = [pc EXCEPT ![s] = "upgrading"] /\ tag' = [tag EXCEPT ![s] = t]
       ELSE pc' = [pc EXCEPT ![s] = "touching"] /\ UNCHANGED tag
  /\ UNCHANGED <<registry, key, info, lines, forgotten, upgraded>>

(* set_source_id has returned: the session goes by the source id.           *)
Upgraded(s) ==
  /\ key' = [key EXCEPT ![s] = tag[s]]
  /\ pc' = [pc EXCEPT ![s] = "touching"]
  /\ upgraded' = upgraded \cup {HostOf[s]}
  /\ UNCHANGED <<info, tag, handled, lines, forgotten>>

(* set_source_id, when a node of that name exists: the session moves over   *)
(* to it, and that is all.                                                  *)
JoinNamed(s) ==
  /\ pc[s] = "upgrading" /\ tag[s] \in Known
  /\ Upgraded(s)
  /\ UNCHANGED registry

(* set_source_id, when it does not and the session's own node is there:     *)
(* that node is renamed.                                                    *)
Rename(s) ==
  /\ pc[s] = "upgrading" /\ tag[s] \notin Known /\ key[s] \in Known
  /\ LET o == nodes[key[s]]
     IN /\ objects' = [objects EXCEPT ![o].key = tag[s], ![o].source = tag[s]]
        /\ nodes' = With(Without(nodes, {key[s]}), tag[s], o)
  /\ Upgraded(s)

(* set_source_id, when neither is there: the session's node was renamed by  *)
(* another one, or pruned.  A node is made that counts no session.          *)
MakeNamed(s) ==
  /\ pc[s] = "upgrading" /\ tag[s] \notin Known /\ key[s] \notin Known
  /\ key[s] # tag[s]
  /\ objects' = Append(objects, NewNode(tag[s], tag[s], 0))
  /\ nodes' = With(nodes, tag[s], Len(objects'))
  /\ Upgraded(s)

(* set_source_id, when the session goes by that name already and its node   *)
(* was renamed by another one, or pruned: a KeyError, which ends run().     *)
Raise(s) ==
  /\ pc[s] = "upgrading" /\ tag[s] \notin Known /\ key[s] = tag[s]
  /\ pc' = [pc EXCEPT ![s] = "failed"]
  /\ UNCHANGED <<registry, key, info, tag, history>>

(* touch for an invalid line, which this module does not count.             *)
Skip(s) ==
  /\ pc[s] = "touching"
  /\ pc' = [pc EXCEPT ![s] = "reading"]
  /\ UNCHANGED <<registry, key, info, tag, history>>

(* touch for a valid sentence: counted by the node of the session's key, if *)
(* there is one.                                                            *)
Touch(s) ==
  /\ pc[s] = "touching"
  /\ IF key[s] \in Known
       THEN /\ objects' = [objects EXCEPT ![nodes[key[s]]].messages = @ + 1]
            /\ lines' = lines + 1
       ELSE UNCHANGED <<objects, lines>>
  /\ pc' = [pc EXCEPT ![s] = "reading"]
  /\ UNCHANGED <<nodes, key, info, tag, handled, forgotten, upgraded>>

(* Mutant of End: the session signs off from the node it signed on to.      *)
EndOfHost(s) ==
  /\ pc[s] \in {"reading", "failed"}
  /\ objects' = IF HostOf[s] \in Known /\ objects[nodes[HostOf[s]]].active > 0
                  THEN [objects EXCEPT ![nodes[HostOf[s]]].active = @ - 1]
                  ELSE objects
  /\ pc' = [pc EXCEPT ![s] = "closed"]
  /\ UNCHANGED <<nodes, key, info, tag, history>>

(* The connection ends: on_session_end(key).                                *)
End(s) ==
  /\ pc[s] \in {"reading", "failed"}
  /\ objects' = IF key[s] \in Known /\ objects[nodes[key[s]]].active > 0
                  THEN [objects EXCEPT ![nodes[key[s]]].active = @ - 1]
                  ELSE objects
  /\ pc' = [pc EXCEPT ![s] = "closed"]
  /\ UNCHANGED <<nodes, key, info, tag, history>>

(* Mutant of Prunable: the open sessions of a node do not matter.           *)
PrunableIfOld == Known

(* What prune_inactive may drop: the nodes that count no open session, if   *)
(* they are old.  Any of them may be: set_source_id renews no last_seen, so *)
(* a session may just have joined an old one; node_max_age is configured    *)
(* apart from idle_timeout; and time.time() jumps when the clock is set.    *)
Prunable == {k \in Known : objects[nodes[k]].active = 0}

Prune ==
  \E old \in SUBSET Prunable :
    /\ old # {}
    /\ nodes' = Without(nodes, old)
    /\ forgotten' = forgotten + Total(old, Messages)
    /\ UNCHANGED <<objects, session, handled, lines, upgraded>>

Step == \/ \E s \in Sessions :
             \/ Start(s) \/ (\E t \in Tags \cup {None} : Read(s, t))
             \/ JoinNamed(s) \/ Rename(s) \/ MakeNamed(s) \/ Raise(s)
             \/ Touch(s) \/ Skip(s) \/ End(s)
        \/ Prune

Next == \/ Step /\ mixed' = mixed \cup Mixed'
        \/ (\A s \in Sessions : pc[s] = "closed") /\ UNCHANGED vars

Spec == Init /\ [][Next]_vars

-----------------------------------------------------------------------------
(* A node is filed under its own key, and two keys never share one object:  *)
(* an upgrade moves a node, it does not copy it (ingest.py:132-148).        *)
Filed == /\ \A k \in Known : objects[nodes[k]].key = k
         /\ \A k, l \in Known : nodes[k] = nodes[l] => k = l

(* "Preserves counters" (ingest.py:134): every valid line that found a node *)
(* is still counted by a node, however often nodes were renamed, or went    *)
(* with one that was pruned.                                                *)
CountsSurviveUpgrades == lines = Total(Known, Messages) + forgotten

(* The open sessions of a host, and how many its node counts.               *)
From(h)    == {s \in Open : HostOf[s] = h}
Counted(h) == IF h \in Known THEN objects[nodes[h]].active ELSE 0

(* Until a tag block comes from a host, the count of its node is exact.     *)
ExactUntilNamed ==
  \A h \in Hosts \ upgraded : Counted(h) = Cardinality(From(h))

(* The open sessions that began with object o.                              *)
Users(o) == {s \in Open : info[s] = o}

(* As long as exactly the open sessions that began with a node go by its    *)
(* key, its count is exact, whatever it is renamed to and whatever the      *)
(* other sessions do.                                                       *)
ExactWhileUnmixed ==
  \A k \in Known :
    nodes[k] \notin mixed =>
      objects[nodes[k]].active = Cardinality(Users(nodes[k]))

(* "Currently-connected nodes are always kept" (ingest.py:191): the node an *)
(* open session goes by is neither pruned nor renamed away from under it,   *)
(* so that no upgrade raises a KeyError, until it is mixed with others.     *)
NodeStays ==
  [][\A s \in Open :
       /\ key[s] \in Known /\ s \in Open'
       /\ nodes[key[s]] \notin mixed'
       => key'[s] \in Known']_vars
=============================================================================
