--------------------------- MODULE ForwarderManager ---------------------------
(***************************************************************************)
(* ForwarderManager of forwarder.py with the threads that call it: the     *)
(* endpoint-sync loop of __main__.py, which reads the endpoints from the   *)
(* database and calls sync; the output thread, which calls dispatch; and   *)
(* the main thread, which calls stop_all on its way out.  The web UI edits *)
(* the database at any time.                                               *)
(*                                                                         *)
(* A worker is here only alive or not, told to stop or not: TcpWorker,     *)
(* UdpWorker and HttpWorker have the rest.  sync keeps the lock from       *)
(* SyncLock to SyncDone, over its joins too.                               *)
(***************************************************************************)
EXTENDS Integers, Sequences, FiniteSets

CONSTANTS
  Ids,         \* ids of endpoints
  Versions,    \* configurations an endpoint may have
  Off,         \* the endpoint is disabled or not there
  MaxEdits,    \* bound: edits of the database
  MaxCrashes   \* bound: workers that crash

ASSUME VersionsAssumption == Off \notin Versions
ASSUME ManagerBounds == /\ MaxEdits \in Nat /\ MaxCrashes \in Nat

VARIABLES
  db,       \* the endpoints table: id -> version or Off
  edits,    \* edits so far
  spawned,  \* every worker ever started, as [id, ver, told, alive, edited]:
            \*   edited is history, whether its endpoint has been edited since
            \*   the table was read for it
  workers,  \* _workers: id -> index into spawned, 0 for none
  lock,     \* who holds _lock: "free" or "sync"
  syncPc,   \* "idle", "locking", "stopping", "joining", "starting"
  wanted,   \* sync's endpoints, as read from the database; all Off outside
            \*   of a sync
  visit,    \* sync's ids still to look at
  joining,  \* the id whose worker sync is joining, if any
  outPc,    \* "idle", "locking", "putting"
  targets,  \* dispatch's snapshot of the workers
  stop,     \* _STOP
  crashes,  \* crashes so far
  joinRaises \* external: Thread.join raises once the thread has ended, as it
             \*   does where the interpreter's Thread calls the _stop method
             \*   that the worker's _stop event hides

syncVars == <<syncPc, wanted, visit, joining>>
outVars  == <<outPc, targets>>
envVars  == <<crashes, joinRaises>>
vars     == <<db, edits, spawned, workers, lock, syncVars, outVars, stop, envVars>>

Nothing == [i \in Ids |-> Off]

Alive(w)  == spawned[w].alive
Active(w) == spawned[w].alive /\ ~spawned[w].told

(* Mutant of Matches: an endpoint is compared by identity, not by value.    *)
MatchesNever(i) == FALSE

(* Mutant of Matches: only whether the endpoint is wanted at all.           *)
MatchesIfWanted(i) == wanted[i] # Off

(* The endpoint is wanted, and as it is (_endpoint_match).                  *)
Matches(i) == wanted[i] = spawned[workers[i]].ver

-----------------------------------------------------------------------------
Init ==
  /\ db \in [Ids -> Versions \cup {Off}] /\ edits = 0
  /\ spawned = <<>> /\ workers = [i \in Ids |-> 0]
  /\ lock = "free" /\ syncPc = "idle" /\ wanted = Nothing /\ visit = {}
  /\ joining = {}
  /\ outPc = "idle" /\ targets = {}
  /\ stop = FALSE /\ crashes = 0 /\ joinRaises \in BOOLEAN

EditDb ==
  /\ edits < MaxEdits
  /\ \E i \in Ids, v \in Versions \cup {Off} :
       /\ db[i] # v
       /\ db' = [db EXCEPT ![i] = v]
       /\ spawned' = [w \in 1..Len(spawned) |->
            [spawned[w] EXCEPT !.edited = @ \/ spawned[w].id = i]]
  /\ edits' = edits + 1
  /\ UNCHANGED <<workers, lock, syncVars, outVars, stop, envVars>>

(* _endpoint_sync_loop: the table is read before sync takes the lock.       *)
SyncRead ==
  /\ syncPc = "idle" /\ ~stop
  /\ wanted' = db /\ syncPc' = "locking"
  /\ UNCHANGED <<db, edits, spawned, workers, lock, visit, joining, outVars,
                 stop, envVars>>

SyncLock ==
  /\ syncPc = "locking" /\ lock = "free"
  /\ lock' = "sync" /\ syncPc' = "stopping"
  /\ visit' = {i \in Ids : workers[i] # 0}
  /\ UNCHANGED <<db, edits, spawned, workers, wanted, joining, outVars, stop,
                 envVars>>

SyncKeep ==
  /\ syncPc = "stopping"
  /\ \E i \in visit :
       /\ Matches(i)
       /\ visit' = visit \ {i}
  /\ UNCHANGED <<db, edits, spawned, workers, lock, syncPc, wanted, joining,
                 outVars, stop, envVars>>

(* Mutant of SyncStop: the worker is not told.                              *)
SyncForgets ==
  /\ syncPc = "stopping"
  /\ \E i \in visit : ~Matches(i) /\ joining' = {i}
  /\ syncPc' = "joining"
  /\ UNCHANGED <<db, edits, spawned, workers, lock, wanted, visit, outVars,
                 stop, envVars>>

(* w.stop()                                                                 *)
SyncStop ==
  /\ syncPc = "stopping"
  /\ \E i \in visit :
       /\ ~Matches(i)
       /\ spawned' = [spawned EXCEPT ![workers[i]].told = TRUE]
       /\ joining' = {i}
  /\ syncPc' = "joining"
  /\ UNCHANGED <<db, edits, workers, lock, wanted, visit, outVars, stop,
                 envVars>>

(* w.join(timeout=3) comes back, because the thread has ended or because it *)
(* has not ended in time, and the worker leaves the table.                  *)
SyncJoined ==
  /\ \E i \in joining :
       /\ Alive(workers[i]) \/ ~joinRaises
       /\ workers' = [workers EXCEPT ![i] = 0]
  /\ visit' = visit \ joining
  /\ joining' = {} /\ syncPc' = "stopping"
  /\ UNCHANGED <<db, edits, spawned, lock, wanted, outVars, stop, envVars>>

(* w.join raises: sync is left, with its lock, and the loop logs it.        *)
SyncRaises ==
  /\ \E i \in joining : joinRaises /\ ~Alive(workers[i])
  /\ lock' = "free" /\ syncPc' = "idle"
  /\ wanted' = Nothing /\ visit' = {} /\ joining' = {}
  /\ UNCHANGED <<db, edits, spawned, workers, outVars, stop, envVars>>

SyncStopped ==
  /\ syncPc = "stopping" /\ visit = {}
  /\ syncPc' = "starting"
  /\ UNCHANGED <<db, edits, spawned, workers, lock, wanted, visit, joining,
                 outVars, stop, envVars>>

SyncStart ==
  /\ syncPc = "starting"
  /\ \E i \in Ids :
       /\ wanted[i] # Off /\ workers[i] = 0
       /\ spawned' = Append(spawned, [id |-> i, ver |-> wanted[i],
                                      told |-> FALSE, alive |-> TRUE,
                                      edited |-> wanted[i] # db[i]])
       /\ workers' = [workers EXCEPT ![i] = Len(spawned')]
  /\ UNCHANGED <<db, edits, lock, syncVars, outVars, stop, envVars>>

(* Mutant of SyncDone: the lock is not given back.                          *)
SyncDoneLocked ==
  /\ syncPc = "starting"
  /\ \A i \in Ids : wanted[i] # Off => workers[i] # 0
  /\ syncPc' = "idle" /\ wanted' = Nothing
  /\ UNCHANGED <<db, edits, spawned, workers, lock, visit, joining, outVars, stop,
                 envVars>>

SyncDone ==
  /\ syncPc = "starting"
  /\ \A i \in Ids : wanted[i] # Off => workers[i] # 0
  /\ lock' = "free" /\ syncPc' = "idle" /\ wanted' = Nothing
  /\ UNCHANGED <<db, edits, spawned, workers, visit, joining, outVars, stop, envVars>>

Sync == SyncRead \/ SyncLock \/ SyncKeep \/ SyncStop \/ SyncJoined \/ SyncRaises
          \/ SyncStopped \/ SyncStart \/ SyncDone

-----------------------------------------------------------------------------
(* dispatch: the workers are listed under the lock and fed outside it.      *)
DispatchCall ==
  /\ outPc = "idle"
  /\ outPc' = "locking"
  /\ UNCHANGED <<db, edits, spawned, workers, lock, syncVars, targets, stop,
                 envVars>>

DispatchSnapshot ==
  /\ outPc = "locking" /\ lock = "free"
  /\ targets' = {workers[i] : i \in Ids} \ {0}
  /\ outPc' = "putting"
  /\ UNCHANGED <<db, edits, spawned, workers, lock, syncVars, stop, envVars>>

DispatchPut ==
  /\ outPc = "putting"
  /\ \E w \in targets : targets' = targets \ {w}
  /\ UNCHANGED <<db, edits, spawned, workers, lock, syncVars, outPc, stop,
                 envVars>>

DispatchReturn ==
  /\ outPc = "putting" /\ targets = {}
  /\ outPc' = "idle"
  /\ UNCHANGED <<db, edits, spawned, workers, lock, syncVars, targets, stop,
                 envVars>>

Dispatch == DispatchCall \/ DispatchSnapshot \/ DispatchPut \/ DispatchReturn

-----------------------------------------------------------------------------
(* main's way out: _STOP first, stop_all later.                             *)
SetStop == /\ ~stop
           /\ stop' = TRUE
           /\ UNCHANGED <<db, edits, spawned, workers, lock, syncVars,
                          outVars, envVars>>

StopAll ==
  /\ stop /\ lock = "free"
  /\ \E i \in Ids : workers[i] # 0
  /\ spawned' = [w \in 1..Len(spawned) |->
                   IF \E i \in Ids : workers[i] = w
                     THEN [spawned[w] EXCEPT !.told = TRUE] ELSE spawned[w]]
  /\ workers' = [i \in Ids |-> 0]
  /\ UNCHANGED <<db, edits, lock, syncVars, outVars, stop, envVars>>

(* A worker that was told to stop ends in its own time.                     *)
WorkerEnds ==
  /\ \E w \in 1..Len(spawned) :
       /\ Alive(w) /\ spawned[w].told
       /\ spawned' = [spawned EXCEPT ![w].alive = FALSE]
  /\ UNCHANGED <<db, edits, workers, lock, syncVars, outVars, stop, envVars>>

(* run() logs an exception its loop did not expect, and the thread is over. *)
WorkerCrashes ==
  /\ crashes < MaxCrashes
  /\ \E w \in 1..Len(spawned) :
       /\ Alive(w)
       /\ spawned' = [spawned EXCEPT ![w].alive = FALSE]
  /\ crashes' = crashes + 1
  /\ UNCHANGED <<db, edits, workers, lock, syncVars, outVars, stop,
                 joinRaises>>

Next == EditDb \/ Sync \/ Dispatch \/ SetStop \/ StopAll \/ WorkerEnds \/ WorkerCrashes

Spec == Init /\ [][Next]_vars

(* The sync and the output thread keep running.  sync gives its lock back   *)
(* and sleeps for two seconds, dispatch holds it for a moment: whoever      *)
(* waits for it gets it in the end.                                         *)
FairSpec == /\ Spec
            /\ WF_vars(Sync) /\ SF_vars(SyncLock)
            /\ WF_vars(Dispatch) /\ SF_vars(DispatchSnapshot)

-----------------------------------------------------------------------------
(* The table and the threads agree: a worker that nobody has told to stop   *)
(* is the one the table has for its endpoint, so that no endpoint is ever   *)
(* fed by two and none runs on where sync and stop_all cannot reach it      *)
(* (forwarder.py:252-273, 311-315).                                         *)
ActiveIsMapped ==
  /\ \A w \in 1..Len(spawned) : Active(w) => workers[spawned[w].id] = w
  /\ \A i \in Ids : workers[i] # 0 => spawned[workers[i]].id = i

(* Editing one endpoint never interrupts another: a worker is told to stop  *)
(* only after an edit of its own endpoint, or when the server stops         *)
(* (forwarder.py:258-265).                                                  *)
OnlyEditedAreStopped ==
  \A w \in 1..Len(spawned) : spawned[w].told => spawned[w].edited \/ stop

(* The output thread is never kept from dispatching for good.               *)
DispatchProceeds == outPc = "locking" ~> outPc = "putting"

(* Ended, though nobody had told it to.                                     *)
Crashed(w) == ~Alive(w) /\ ~spawned[w].told

Aligned ==
  \A i \in Ids :
    IF db[i] = Off THEN workers[i] = 0
                   ELSE workers[i] # 0 /\ spawned[workers[i]].ver = db[i]
                          /\ (Active(workers[i]) \/ Crashed(workers[i]))

(* However edits fall between the reading of the table and the sync, once   *)
(* nobody edits it any more the workers become those of the table and stay  *)
(* so, unless the server is stopping or join raises.  A worker that has     *)
(* crashed stays in its place as long as its endpoint stays as it is, and   *)
(* is replaced once sync finds it edited (forwarder.py:92, 252-273,         *)
(* __main__.py:75-82).                                                      *)
Converges == <>[](Aligned \/ stop \/ joinRaises)

(* __main__.py:76, forwarder.py:253: sync aligns the running workers with   *)
(* the table, so that edits take effect fast.                               *)
EditsTakeEffect == <>[](Aligned \/ stop)
=============================================================================
