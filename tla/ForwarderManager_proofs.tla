------------------------ MODULE ForwarderManager_proofs ------------------------
(***************************************************************************)
(* Proofs about ForwarderManager for any endpoints, any configurations and *)
(* any number of edits and crashes.                                        *)
(***************************************************************************)
EXTENDS ForwarderManager, SequenceTheorems, TLAPS

Configs == Versions \cup {Off}

Workers == [id : Ids, ver : Configs, told : BOOLEAN, alive : BOOLEAN,
            edited : BOOLEAN]

(* Every variable that says something about the workers has its type.       *)
TypeOK ==
  /\ db \in [Ids -> Configs] /\ wanted \in [Ids -> Configs]
  /\ spawned \in Seq(Workers)
  /\ workers \in [Ids -> 0..Len(spawned)]
  /\ syncPc \in {"idle", "locking", "stopping", "joining", "starting"}
  /\ stop \in BOOLEAN

(* The stopping half of sync visits endpoints that have workers, and joins  *)
(* one of them, whose worker has been told, while it has the lock.          *)
Joining ==
  /\ visit \subseteq Ids /\ joining \subseteq Ids
  /\ \A i \in visit : workers[i] # 0
  /\ \A i \in joining : workers[i] # 0 /\ spawned[workers[i]].told
  /\ syncPc \notin {"stopping", "joining"} => visit = {}
  /\ syncPc # "joining" => joining = {}
  /\ syncPc \in {"stopping", "joining", "starting"} => lock = "sync"

(* A worker whose endpoint has not been edited since the table was read for *)
(* it has the configuration that is in the table, and the sync under way,   *)
(* which may have read the table before, has read the same.                 *)
Unedited ==
  \A w \in 1..Len(spawned) :
    ~spawned[w].edited =>
      /\ spawned[w].ver = db[spawned[w].id]
      /\ syncPc # "idle" => wanted[spawned[w].id] = db[spawned[w].id]

IInv == /\ TypeOK /\ Joining /\ Unedited
        /\ ActiveIsMapped /\ OnlyEditedAreStopped

-----------------------------------------------------------------------------
(* A function on 1..n is a sequence of length n.                            *)
LEMMA FunctionIsSeq ==
  ASSUME NEW S, NEW n \in Nat, NEW f \in [1..n -> S]
  PROVE  f \in Seq(S) /\ Len(f) = n
<1>1. f \in Seq(S)
  BY SeqDef
<1>2. DOMAIN f = 1..Len(f) /\ Len(f) \in Nat
  BY <1>1, LenProperties
<1>3. DOMAIN f = 1..n
  OBVIOUS
<1>4. 1..n = 1..Len(f)
  BY <1>2, <1>3
<1>5. n = Len(f)
  <2>1. CASE n < Len(f)
    <3>1. Len(f) \in 1..Len(f) /\ Len(f) \notin 1..n
      BY <1>2, <2>1
    <3> QED BY <3>1, <1>4
  <2>2. CASE Len(f) < n
    <3>1. n \in 1..n /\ n \notin 1..Len(f)
      BY <1>2, <2>2
    <3> QED BY <3>1, <1>4
  <2> QED BY <1>2, <2>1, <2>2
<1> QED BY <1>1, <1>5

(* Workers are what their sequence says they are.                           *)
LEMMA SpawnedFacts ==
  ASSUME TypeOK
  PROVE  /\ Len(spawned) \in Nat
         /\ \A w \in 1..Len(spawned) : spawned[w] \in Workers
         /\ \A i \in Ids : workers[i] # 0 => workers[i] \in 1..Len(spawned)
<1>1. Len(spawned) \in Nat
  BY LenProperties DEF TypeOK
<1>2. \A w \in 1..Len(spawned) : spawned[w] \in Workers
  BY ElementOfSeq DEF TypeOK
<1>3. \A i \in Ids : workers[i] # 0 => workers[i] \in 1..Len(spawned)
  BY <1>1 DEF TypeOK
<1> QED BY <1>1, <1>2, <1>3

LEMMA InitIInv == Init => IInv
<1> SUFFICES ASSUME Init PROVE IInv
  OBVIOUS
<1>1. spawned = <<>> /\ Len(spawned) = 0 /\ spawned \in Seq(Workers)
  BY EmptySeq DEF Init
<1>2. TypeOK
  <2>1. db \in [Ids -> Configs] /\ wanted \in [Ids -> Configs]
    BY DEF Init, Configs, Nothing
  <2>2. workers \in [Ids -> 0..Len(spawned)]
    BY <1>1 DEF Init
  <2> QED BY <1>1, <2>1, <2>2 DEF Init, TypeOK
<1>3. Joining
  BY DEF Init, Joining
<1>4. \A w : w \notin 1..Len(spawned)
  BY <1>1
<1>5. Unedited /\ OnlyEditedAreStopped
  BY <1>4 DEF Unedited, OnlyEditedAreStopped
<1>6. ActiveIsMapped
  BY <1>4 DEF ActiveIsMapped, Init
<1> QED BY <1>2, <1>3, <1>5, <1>6 DEF IInv

-----------------------------------------------------------------------------
(* The actions that change no worker and no entry of the table.             *)
LEMMA QuietStep ==
  ASSUME IInv, UNCHANGED <<db, spawned, workers>>,
         UNCHANGED stop \/ SetStop,
         TypeOK', Joining', Unedited'
  PROVE  IInv'
<1>1. stop => stop'
  BY DEF SetStop
<1>2. ActiveIsMapped'
  BY DEF IInv, ActiveIsMapped, Active
<1>3. OnlyEditedAreStopped'
  BY <1>1 DEF IInv, OnlyEditedAreStopped
<1> QED BY <1>2, <1>3 DEF IInv

(* The threads other than the sync, and an idle sync, leave it alone.       *)
LEMMA SyncAlone ==
  ASSUME IInv, UNCHANGED <<db, spawned, workers, lock, syncVars>>,
         UNCHANGED stop \/ SetStop
  PROVE  IInv'
<1>1. TypeOK'
  BY DEF IInv, TypeOK, syncVars, SetStop
<1>2. Joining'
  BY DEF IInv, Joining, syncVars
<1>3. Unedited'
  BY DEF IInv, Unedited, syncVars
<1> QED BY <1>1, <1>2, <1>3, QuietStep

LEMMA SyncReadStep == IInv /\ SyncRead => IInv'
<1> SUFFICES ASSUME IInv, SyncRead PROVE IInv'
  OBVIOUS
<1>1. TypeOK'
  BY DEF IInv, TypeOK, SyncRead
<1>2. Joining'
  BY DEF IInv, Joining, SyncRead
<1>3. Unedited'
  BY DEF IInv, Unedited, SyncRead
<1> QED BY <1>1, <1>2, <1>3, QuietStep DEF SyncRead

LEMMA SyncLockStep == IInv /\ SyncLock => IInv'
<1> SUFFICES ASSUME IInv, SyncLock PROVE IInv'
  OBVIOUS
<1>1. TypeOK'
  BY DEF IInv, TypeOK, SyncLock
<1>2. Joining'
  BY DEF IInv, Joining, SyncLock
<1>3. Unedited'
  BY DEF IInv, Unedited, SyncLock
<1> QED BY <1>1, <1>2, <1>3, QuietStep DEF SyncLock

LEMMA SyncKeepStep == IInv /\ SyncKeep => IInv'
<1> SUFFICES ASSUME IInv, SyncKeep PROVE IInv'
  OBVIOUS
<1>1. TypeOK'
  BY DEF IInv, TypeOK, SyncKeep
<1>2. Joining'
  BY DEF IInv, Joining, SyncKeep
<1>3. Unedited'
  BY DEF IInv, Unedited, SyncKeep
<1> QED BY <1>1, <1>2, <1>3, QuietStep DEF SyncKeep

LEMMA SyncRaisesStep == IInv /\ SyncRaises => IInv'
<1> SUFFICES ASSUME IInv, SyncRaises PROVE IInv'
  OBVIOUS
<1>1. TypeOK'
  BY DEF IInv, TypeOK, SyncRaises, Nothing, Configs
<1>2. Joining'
  BY DEF IInv, Joining, SyncRaises
<1>3. Unedited'
  BY DEF IInv, Unedited, SyncRaises
<1> QED BY <1>1, <1>2, <1>3, QuietStep DEF SyncRaises

LEMMA SyncStoppedStep == IInv /\ SyncStopped => IInv'
<1> SUFFICES ASSUME IInv, SyncStopped PROVE IInv'
  OBVIOUS
<1>1. TypeOK'
  BY DEF IInv, TypeOK, SyncStopped
<1>2. Joining'
  BY DEF IInv, Joining, SyncStopped
<1>3. Unedited'
  BY DEF IInv, Unedited, SyncStopped
<1> QED BY <1>1, <1>2, <1>3, QuietStep DEF SyncStopped

LEMMA SyncDoneStep == IInv /\ SyncDone => IInv'
<1> SUFFICES ASSUME IInv, SyncDone PROVE IInv'
  OBVIOUS
<1>1. TypeOK'
  BY DEF IInv, TypeOK, SyncDone, Nothing, Configs
<1>2. Joining'
  BY DEF IInv, Joining, SyncDone
<1>3. Unedited'
  BY DEF IInv, Unedited, SyncDone
<1> QED BY <1>1, <1>2, <1>3, QuietStep DEF SyncDone

-----------------------------------------------------------------------------
(* The actions that change workers one by one and start none.               *)
LEMMA WorkersStep ==
  ASSUME IInv, NEW f \in [1..Len(spawned) -> Workers], spawned' = f,
         \A w \in 1..Len(spawned) :
           /\ f[w].id = spawned[w].id /\ f[w].ver = spawned[w].ver
           /\ spawned[w].told => f[w].told
           /\ f[w].alive => spawned[w].alive
           /\ spawned[w].edited => f[w].edited
  PROVE  /\ spawned' \in Seq(Workers) /\ Len(spawned') = Len(spawned)
         /\ workers' = workers => ActiveIsMapped'
<1>1. spawned' \in Seq(Workers) /\ Len(spawned') = Len(spawned)
  BY SpawnedFacts, FunctionIsSeq DEF IInv
<1>2. ASSUME workers' = workers PROVE ActiveIsMapped'
  <2>1. ASSUME NEW w \in 1..Len(spawned), Active(w)'
        PROVE  workers'[f[w].id] = w
    <3>1. f[w] \in Workers /\ spawned[w] \in Workers
      BY SpawnedFacts DEF IInv
    <3>2. Active(w)
      BY <2>1, <3>1 DEF Active, Workers
    <3> QED BY <1>2, <3>2 DEF IInv, ActiveIsMapped
  <2>2. ASSUME NEW i \in Ids, workers'[i] # 0
        PROVE  f[workers'[i]].id = i
    BY <1>2, <2>2, SpawnedFacts DEF IInv, ActiveIsMapped
  <2> QED BY <1>1, <2>1, <2>2 DEF ActiveIsMapped
<1> QED BY <1>1, <1>2

LEMMA EditDbStep == IInv /\ EditDb => IInv'
<1> SUFFICES ASSUME IInv, EditDb PROVE IInv'
  OBVIOUS
<1> PICK i \in Ids, v \in Configs :
      /\ db' = [db EXCEPT ![i] = v]
      /\ spawned' = [w \in 1..Len(spawned) |->
           [spawned[w] EXCEPT !.edited = @ \/ spawned[w].id = i]]
  BY DEF EditDb, Configs
<1> DEFINE f == [w \in 1..Len(spawned) |->
                   [spawned[w] EXCEPT !.edited = @ \/ spawned[w].id = i]]
<1>1. ASSUME NEW w \in 1..Len(spawned)
      PROVE  /\ f[w] \in Workers
             /\ f[w].id = spawned[w].id /\ f[w].ver = spawned[w].ver
             /\ f[w].told = spawned[w].told /\ f[w].alive = spawned[w].alive
             /\ f[w].edited = (spawned[w].edited \/ spawned[w].id = i)
  <2>1. spawned[w] \in Workers
    BY SpawnedFacts DEF IInv
  <2>2. f[w] = [spawned[w] EXCEPT !.edited = @ \/ spawned[w].id = i]
    OBVIOUS
  <2> HIDE DEF f
  <2> QED BY <2>1, <2>2 DEF Workers
<1>2. f \in [1..Len(spawned) -> Workers] /\ spawned' = f
  BY <1>1
<1> HIDE DEF f
<1>3. /\ spawned' \in Seq(Workers) /\ Len(spawned') = Len(spawned)
      /\ workers' = workers => ActiveIsMapped'
  BY <1>1, <1>2, WorkersStep
<1>4. TypeOK'
  <2>1. db' \in [Ids -> Configs]
    BY DEF IInv, TypeOK
  <2> QED BY <1>3, <2>1 DEF IInv, TypeOK, EditDb, syncVars
<1>5. Joining'
  <2>1. \A j \in joining : workers[j] # 0 => f[workers[j]].told = spawned[workers[j]].told
    BY <1>1, SpawnedFacts DEF IInv, Joining
  <2> QED BY <1>2, <2>1 DEF IInv, Joining, EditDb, syncVars
<1>6. Unedited'
  <2>1. ASSUME NEW w \in 1..Len(spawned), ~f[w].edited
        PROVE  /\ ~spawned[w].edited /\ f[w].ver = spawned[w].ver
               /\ f[w].id = spawned[w].id
               /\ db'[spawned[w].id] = db[spawned[w].id]
    <3>1. spawned[w] \in Workers
      BY SpawnedFacts DEF IInv
    <3>2. spawned[w].id \in Ids /\ spawned[w].id # i
      BY <1>1, <2>1, <3>1 DEF Workers
    <3> QED BY <1>1, <2>1, <3>2 DEF IInv, TypeOK
  <2>2. ASSUME NEW w \in 1..Len(spawned'), ~spawned'[w].edited
        PROVE  /\ spawned'[w].ver = db'[spawned'[w].id]
               /\ syncPc # "idle" => wanted[spawned'[w].id] = db'[spawned'[w].id]
    <3>1. w \in 1..Len(spawned) /\ ~f[w].edited /\ spawned'[w] = f[w]
      BY <1>2, <1>3, <2>2
    <3>2. /\ spawned[w].ver = db[spawned[w].id]
          /\ syncPc # "idle" => wanted[spawned[w].id] = db[spawned[w].id]
      BY <2>1, <3>1 DEF IInv, Unedited
    <3> QED BY <2>1, <3>1, <3>2
  <2> QED BY <2>2 DEF Unedited, EditDb, syncVars
<1>7. OnlyEditedAreStopped'
  <2> SUFFICES ASSUME NEW w \in 1..Len(spawned), f[w].told
               PROVE  f[w].edited \/ stop'
    BY <1>2, <1>3 DEF OnlyEditedAreStopped
  <2>1. spawned[w].told
    BY <1>1
  <2>2. spawned[w].edited \/ stop
    BY <2>1 DEF IInv, OnlyEditedAreStopped
  <2>3. stop' = stop
    BY DEF EditDb
  <2> QED BY <1>1, <2>2, <2>3
<1> QED BY <1>3, <1>4, <1>5, <1>6, <1>7 DEF IInv, EditDb

(* The worker that is told has a configuration that is not the wanted one,  *)
(* so that its endpoint has been edited.                                    *)
LEMMA SyncStopStep == IInv /\ SyncStop => IInv'
<1> SUFFICES ASSUME IInv, SyncStop PROVE IInv'
  OBVIOUS
<1> PICK i \in visit :
      /\ ~Matches(i)
      /\ spawned' = [spawned EXCEPT ![workers[i]].told = TRUE]
      /\ joining' = {i}
  BY DEF SyncStop
<1>1. /\ i \in Ids /\ workers[i] \in 1..Len(spawned) /\ workers[i] # 0
      /\ spawned[workers[i]].id = i
  BY SpawnedFacts DEF IInv, Joining, ActiveIsMapped
<1> DEFINE f == [spawned EXCEPT ![workers[i]].told = TRUE]
<1>2. \A w \in 1..Len(spawned) : spawned[w] \in Workers
  BY SpawnedFacts DEF IInv
<1>3. spawned \in [1..Len(spawned) -> Workers]
  BY LenProperties DEF IInv, TypeOK
<1>4. ASSUME NEW w \in 1..Len(spawned)
      PROVE  /\ f[w] \in Workers
             /\ f[w].id = spawned[w].id /\ f[w].ver = spawned[w].ver
             /\ f[w].alive = spawned[w].alive
             /\ f[w].edited = spawned[w].edited
             /\ w = workers[i] => f[w].told
             /\ w # workers[i] => f[w].told = spawned[w].told
  BY <1>1, <1>2, <1>3 DEF Workers
<1>5. f \in [1..Len(spawned) -> Workers] /\ spawned' = f
  BY <1>1, <1>2, <1>3, <1>4
<1>6. \A w \in 1..Len(spawned) : spawned[w].told => f[w].told
  BY <1>4
<1> HIDE DEF f
<1>7. /\ spawned' \in Seq(Workers) /\ Len(spawned') = Len(spawned)
      /\ ActiveIsMapped'
  BY <1>4, <1>5, <1>6, WorkersStep DEF SyncStop
<1>8. TypeOK'
  BY <1>7 DEF IInv, TypeOK, SyncStop
<1>9. Joining'
  BY <1>1, <1>4, <1>5 DEF IInv, Joining, SyncStop
<1>10. Unedited'
  BY <1>4, <1>5, <1>7 DEF IInv, Unedited, SyncStop
<1>11. spawned[workers[i]].edited
  BY <1>1 DEF IInv, Unedited, Matches, SyncStop
<1>12. OnlyEditedAreStopped'
  BY <1>4, <1>5, <1>7, <1>11 DEF IInv, OnlyEditedAreStopped, SyncStop
<1> QED BY <1>7, <1>8, <1>9, <1>10, <1>12 DEF IInv

(* The worker that leaves the table has been told.                          *)
LEMMA SyncJoinedStep == IInv /\ SyncJoined => IInv'
<1> SUFFICES ASSUME IInv, SyncJoined PROVE IInv'
  OBVIOUS
<1> PICK i \in joining : workers' = [workers EXCEPT ![i] = 0]
  BY DEF SyncJoined
<1>1. i \in Ids /\ workers[i] # 0 /\ spawned[workers[i]].told
  BY DEF IInv, Joining
<1>2. /\ \A j \in Ids : workers'[j] = IF j = i THEN 0 ELSE workers[j]
      /\ workers' \in [Ids -> 0..Len(spawned)]
  BY <1>1, SpawnedFacts DEF IInv, TypeOK
<1>3. TypeOK'
  BY <1>2 DEF IInv, TypeOK, SyncJoined
<1>4. Joining'
  <2>1. lock = "sync" /\ visit \ joining \subseteq Ids
    BY DEF IInv, Joining
  <2>2. \A j \in visit \ joining : workers'[j] # 0
    BY <1>2 DEF IInv, Joining
  <2> QED BY <2>1, <2>2 DEF Joining, SyncJoined
<1>5. Unedited'
  <2>1. syncPc # "idle"
    BY DEF IInv, Joining
  <2> QED BY <2>1 DEF IInv, Unedited, SyncJoined
<1>6. ActiveIsMapped'
  <2>1. ASSUME NEW w \in 1..Len(spawned), Active(w)
        PROVE  workers'[spawned[w].id] = w
    <3>1. workers[spawned[w].id] = w /\ spawned[w].id \in Ids
      BY <2>1, SpawnedFacts DEF IInv, ActiveIsMapped, Workers
    <3>2. spawned[w].id # i
      BY <1>1, <2>1, <3>1 DEF Active
    <3> QED BY <1>2, <3>1, <3>2
  <2>2. \A j \in Ids : workers'[j] # 0 => spawned[workers'[j]].id = j
    BY <1>2 DEF IInv, ActiveIsMapped
  <2> QED BY <2>1, <2>2 DEF ActiveIsMapped, SyncJoined, Active
<1>7. OnlyEditedAreStopped'
  BY DEF IInv, OnlyEditedAreStopped, SyncJoined
<1> QED BY <1>3, <1>4, <1>5, <1>6, <1>7 DEF IInv

(* The endpoint that gets a worker had none, so none of its workers is      *)
(* active.                                                                  *)
LEMMA SyncStartStep == IInv /\ SyncStart => IInv'
<1> SUFFICES ASSUME IInv, SyncStart PROVE IInv'
  OBVIOUS
<1> PICK i \in Ids :
      /\ wanted[i] # Off /\ workers[i] = 0
      /\ spawned' = Append(spawned, [id |-> i, ver |-> wanted[i],
                                     told |-> FALSE, alive |-> TRUE,
                                     edited |-> wanted[i] # db[i]])
      /\ workers' = [workers EXCEPT ![i] = Len(spawned')]
  BY DEF SyncStart
<1> DEFINE new == [id |-> i, ver |-> wanted[i], told |-> FALSE, alive |-> TRUE,
                   edited |-> wanted[i] # db[i]]
           n == Len(spawned)
<1>1. new \in Workers
  BY DEF IInv, TypeOK, Workers
<1>2. /\ new.id = i /\ new.ver = wanted[i] /\ ~new.told
      /\ ~new.edited => wanted[i] = db[i]
  OBVIOUS
<1>3. n \in Nat /\ \A w \in 1..n : spawned[w] \in Workers
  BY SpawnedFacts DEF IInv
<1>4. spawned' = Append(spawned, new)
  OBVIOUS
<1> HIDE DEF new
<1>5. /\ spawned' \in Seq(Workers) /\ Len(spawned') = n + 1
      /\ \A w \in 1..n : spawned'[w] = spawned[w]
      /\ spawned'[n + 1] = new
  BY <1>1, <1>4, AppendProperties DEF IInv, TypeOK
<1>6. /\ workers'[i] = n + 1
      /\ \A j \in Ids \ {i} : workers'[j] = workers[j]
      /\ workers' \in [Ids -> 0..Len(spawned')]
  BY <1>3, <1>5 DEF IInv, TypeOK
<1>7. \A w \in 1..Len(spawned') : w \in 1..n \/ w = n + 1
  BY <1>3, <1>5
<1> HIDE DEF n
<1>8. TypeOK'
  BY <1>5, <1>6 DEF IInv, TypeOK, SyncStart, syncVars
<1>9. Joining'
  <2>1. visit = {} /\ joining = {}
    BY DEF IInv, Joining, SyncStart
  <2> QED BY <2>1 DEF IInv, Joining, SyncStart, syncVars
<1>10. Unedited'
  <2>1. ASSUME NEW w \in 1..n, ~spawned[w].edited
        PROVE  /\ spawned[w].ver = db[spawned[w].id]
               /\ wanted[spawned[w].id] = db[spawned[w].id]
    BY <2>1 DEF IInv, Unedited, SyncStart, n
  <2> QED BY <1>2, <1>5, <1>7, <2>1 DEF Unedited, SyncStart, syncVars
<1>11. ActiveIsMapped'
  <2>1. ASSUME NEW w \in 1..n, Active(w)
        PROVE  workers'[spawned[w].id] = w
    <3>1. workers[spawned[w].id] = w /\ spawned[w].id \in Ids /\ w # 0
      BY <1>3, <2>1 DEF IInv, ActiveIsMapped, Workers, n
    <3>2. spawned[w].id # i
      BY <3>1
    <3> QED BY <1>6, <3>1, <3>2
  <2>2. ASSUME NEW w \in 1..Len(spawned'), Active(w)'
        PROVE  workers'[spawned'[w].id] = w
    <3>1. CASE w \in 1..n
      BY <1>5, <2>1, <2>2, <3>1 DEF Active
    <3>2. CASE w = n + 1
      BY <1>2, <1>5, <1>6, <3>2
    <3> QED BY <1>7, <3>1, <3>2
  <2>3. ASSUME NEW j \in Ids, workers'[j] # 0
        PROVE  spawned'[workers'[j]].id = j
    <3>1. CASE j = i
      BY <1>2, <1>5, <1>6, <3>1
    <3>2. CASE j # i
      <4>1. workers[j] # 0 /\ workers'[j] = workers[j]
        BY <1>6, <2>3, <3>2
      <4>2. workers[j] \in 1..n
        BY <4>1, SpawnedFacts DEF IInv, n
      <4>3. spawned'[workers'[j]] = spawned[workers[j]]
        BY <1>5, <4>1, <4>2
      <4>4. spawned[workers[j]].id = j
        BY <4>1 DEF IInv, ActiveIsMapped
      <4> QED BY <4>3, <4>4
    <3> QED BY <3>1, <3>2
  <2> QED BY <2>2, <2>3 DEF ActiveIsMapped
<1>12. OnlyEditedAreStopped'
  BY <1>2, <1>5, <1>7 DEF IInv, OnlyEditedAreStopped, SyncStart, n
<1> QED BY <1>8, <1>9, <1>10, <1>11, <1>12 DEF IInv

-----------------------------------------------------------------------------
(* Whoever is active is in the table, so that stop_all tells everyone.      *)
LEMMA StopAllStep == IInv /\ StopAll => IInv'
<1> SUFFICES ASSUME IInv, StopAll PROVE IInv'
  OBVIOUS
<1> DEFINE Mapped(w) == \E i \in Ids : workers[i] = w
           f == [w \in 1..Len(spawned) |->
                   IF Mapped(w) THEN [spawned[w] EXCEPT !.told = TRUE]
                                ELSE spawned[w]]
<1>1. spawned' = f /\ workers' = [i \in Ids |-> 0]
  BY DEF StopAll
<1>2. ASSUME NEW w \in 1..Len(spawned)
      PROVE  /\ f[w] \in Workers
             /\ f[w].id = spawned[w].id /\ f[w].ver = spawned[w].ver
             /\ f[w].alive = spawned[w].alive
             /\ f[w].edited = spawned[w].edited
             /\ Mapped(w) => f[w].told
             /\ spawned[w].told => f[w].told
  <2>1. spawned[w] \in Workers
    BY SpawnedFacts DEF IInv
  <2>2. CASE Mapped(w)
    <3>1. f[w] = [spawned[w] EXCEPT !.told = TRUE]
      BY <2>2
    <3> HIDE DEF f, Mapped
    <3> QED BY <2>1, <3>1 DEF Workers
  <2>3. CASE ~Mapped(w)
    <3>1. f[w] = spawned[w]
      BY <2>3
    <3> HIDE DEF f, Mapped
    <3> QED BY <2>1, <2>3, <3>1
  <2> QED BY <2>2, <2>3
<1>3. f \in [1..Len(spawned) -> Workers]
  BY <1>2
<1> HIDE DEF f
<1>4. spawned' \in Seq(Workers) /\ Len(spawned') = Len(spawned)
  BY <1>1, <1>2, <1>3, WorkersStep
<1>5. TypeOK'
  <2>1. workers' \in [Ids -> 0..Len(spawned')]
    BY <1>1, <1>4, SpawnedFacts DEF IInv
  <2> QED BY <1>4, <2>1 DEF IInv, TypeOK, StopAll, syncVars
<1>6. Joining'
  <2>1. visit = {} /\ joining = {}
    BY DEF IInv, Joining, TypeOK, StopAll
  <2> QED BY <2>1 DEF IInv, Joining, StopAll, syncVars
<1>7. Unedited'
  BY <1>1, <1>2, <1>4 DEF IInv, Unedited, StopAll, syncVars
<1>8. ActiveIsMapped'
  <2>1. ASSUME NEW w \in 1..Len(spawned) PROVE ~Active(w)'
    <3>1. spawned[w] \in Workers
      BY SpawnedFacts DEF IInv
    <3>2. Active(w) => Mapped(w)
      BY <3>1 DEF IInv, ActiveIsMapped, Workers
    <3> QED BY <1>1, <1>2, <3>2 DEF Active
  <2> QED BY <1>1, <1>4, <2>1 DEF ActiveIsMapped
<1>9. OnlyEditedAreStopped'
  BY DEF OnlyEditedAreStopped, StopAll
<1> QED BY <1>5, <1>6, <1>7, <1>8, <1>9 DEF IInv

(* A worker that is over changes nothing but that it is alive.              *)
LEMMA WorkerStep == IInv /\ (WorkerEnds \/ WorkerCrashes) => IInv'
<1> SUFFICES ASSUME IInv, WorkerEnds \/ WorkerCrashes PROVE IInv'
  OBVIOUS
<1> PICK e \in 1..Len(spawned) : spawned' = [spawned EXCEPT ![e].alive = FALSE]
  BY DEF WorkerEnds, WorkerCrashes
<1>1. UNCHANGED <<db, workers, lock, syncPc, wanted, visit, joining, stop>>
  BY DEF WorkerEnds, WorkerCrashes, syncVars
<1> DEFINE f == [spawned EXCEPT ![e].alive = FALSE]
<1>2. \A w \in 1..Len(spawned) : spawned[w] \in Workers
  BY SpawnedFacts DEF IInv
<1>3. spawned \in [1..Len(spawned) -> Workers]
  BY LenProperties DEF IInv, TypeOK
<1>4. ASSUME NEW w \in 1..Len(spawned)
      PROVE  /\ f[w] \in Workers
             /\ f[w].id = spawned[w].id /\ f[w].ver = spawned[w].ver
             /\ f[w].told = spawned[w].told
             /\ f[w].edited = spawned[w].edited
             /\ f[w].alive => spawned[w].alive
  BY <1>2, <1>3 DEF Workers
<1>5. f \in [1..Len(spawned) -> Workers] /\ spawned' = f
  BY <1>2, <1>3, <1>4
<1> HIDE DEF f
<1>6. /\ spawned' \in Seq(Workers) /\ Len(spawned') = Len(spawned)
      /\ ActiveIsMapped'
  BY <1>1, <1>4, <1>5, WorkersStep
<1>7. TypeOK'
  BY <1>1, <1>6 DEF IInv, TypeOK
<1>8. Joining'
  <2>1. \A j \in joining : f[workers[j]].told
    BY <1>4, SpawnedFacts DEF IInv, Joining
  <2> QED BY <1>1, <1>5, <2>1 DEF IInv, Joining
<1>9. Unedited'
  BY <1>1, <1>4, <1>5, <1>6 DEF IInv, Unedited
<1>10. OnlyEditedAreStopped'
  BY <1>1, <1>4, <1>5, <1>6 DEF IInv, OnlyEditedAreStopped
<1> QED BY <1>6, <1>7, <1>8, <1>9, <1>10 DEF IInv

-----------------------------------------------------------------------------
LEMMA NextIInv == IInv /\ [Next]_vars => IInv'
<1> SUFFICES ASSUME IInv, [Next]_vars PROVE IInv'
  OBVIOUS
<1>1. CASE Dispatch
  BY <1>1, SyncAlone DEF Dispatch, DispatchCall, DispatchSnapshot, DispatchPut,
     DispatchReturn
<1>2. CASE SetStop
  BY <1>2, SyncAlone DEF SetStop
<1>3. CASE UNCHANGED vars
  BY <1>3, SyncAlone DEF vars
<1>4. CASE Sync
  BY <1>4, SyncReadStep, SyncLockStep, SyncKeepStep, SyncStopStep,
     SyncJoinedStep, SyncRaisesStep, SyncStoppedStep, SyncStartStep,
     SyncDoneStep DEF Sync
<1> QED BY <1>1, <1>2, <1>3, <1>4, EditDbStep, StopAllStep, WorkerStep DEF Next

LEMMA Invariance == Spec => []IInv
<1> QED BY InitIInv, NextIInv, PTL DEF Spec

(* Every variable of the manager keeps its type, and the table never names  *)
(* a worker that was not started.                                           *)
THEOREM TypeCorrect == Spec => []TypeOK
<1>1. IInv => TypeOK
  BY DEF IInv
<1> QED BY <1>1, Invariance, PTL

(* However edits of the table, crashes, dispatches and the way out fall     *)
(* between the steps of sync: a worker nobody has told to stop is the one   *)
(* the table has for its endpoint (forwarder.py:252-273, 311-315).          *)
THEOREM ActiveWorkersAreMapped == Spec => []ActiveIsMapped
<1>1. IInv => ActiveIsMapped
  BY DEF IInv
<1> QED BY <1>1, Invariance, PTL

(* Editing one endpoint never interrupts another: whoever was told to stop  *)
(* was edited since the table was read for it, or the server stops          *)
(* (forwarder.py:258-265).                                                  *)
THEOREM OthersRunOn == Spec => []OnlyEditedAreStopped
<1>1. IInv => OnlyEditedAreStopped
  BY DEF IInv
<1> QED BY <1>1, Invariance, PTL

=============================================================================
