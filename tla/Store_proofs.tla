----------------------------- MODULE Store_proofs -----------------------------
(***************************************************************************)
(* Proofs about Store for all intervals, pages, clocks and numbers of      *)
(* commits, failures and crashes.                                          *)
(***************************************************************************)
EXTENDS Store, FiniteSetTheorems, TLAPS

(* One interval between checkpoints and one between rounds.                 *)
Span == CkptInterval + Wake

(* While a checkpoint runs, it copies all there is; the last one follows    *)
(* _STOP.                                                                   *)
Locked ==
  /\ lock # "free" => base = Len(commits) /\ synced = Len(commits)
  /\ lock = "close" => stop

(* The commits that some page of the file lacks.                            *)
Missing(i, p) == i \in DOMAIN commits /\ p \in Pages /\ i > file[p]

(* None of them is old, ...                                                 *)
Young == \A i, p : Missing(i, p) => commits[i] + Bound > now

(* ... none is much older than the last try, ...                            *)
AfterLast == \A i, p : Missing(i, p) => commits[i] + Bound >= lastCkpt + Span

(* ... not even when the connection is closed, and time stands still.       *)
Closed ==
  closed => stop /\ \A i, p : Missing(i, p) => commits[i] + Bound >= now + Span

(* The last try is not long ago, once there was one.                        *)
Schedule ==
  /\ lastCkpt = Never \/ lastCkpt \in 0..now
  /\ maintPc = "waiting" =>
       lastCkpt # Never /\ now =< wakeAt /\ wakeAt < lastCkpt + Span
  /\ maintPc = "vacuum" => lastCkpt # Never /\ now < lastCkpt + CkptInterval
  /\ maintPc = "checkpoint" => lastCkpt = Never \/ now < lastCkpt + Span

(* What has been old when the archive was begun is in the file.             *)
OldInFile == \A p \in Pages : old =< file[p]

InTime == Young /\ AfterLast /\ Closed /\ Schedule

IInv == TypeOK /\ Locked /\ OldInFile /\ ArchiveHasOld
        /\ (CkptInterval > 0 => InTime)

-----------------------------------------------------------------------------
LEMMA Products ==
  ASSUME NEW f \in Nat, NEW d \in Nat
  PROVE  /\ (f + 1) * d \in Nat /\ (f + 1) * d >= d
         /\ (f + 1 + 1) * d = (f + 1) * d + d
<1>1. f * d \in Nat
  OBVIOUS
<1>2. (f + 1) * d = f * d + d /\ (f + 1 + 1) * d = f * d + d + d
  OBVIOUS
<1> QED BY <1>1, <1>2

(* Rounds are at least a unit of time apart.                                *)
LEMMA WakeType == Wake \in Nat \ {0}
<1> DEFINE on == {t \in {CkptInterval, VacuumInterval, PruneInterval} : t > 0}
<1> USE StoreAssumption
<1>1. CASE on = {}
  BY <1>1 DEF Wake
<1>2. CASE on # {}
  <2>1. \E m \in on : \A t \in on : m =< t
    BY <1>2
  <2>2. Min(on) \in on
    BY <2>1 DEF Min
  <2>3. Min(on) \in Nat \ {0}
    BY <2>2
  <2>4. \E m \in {MinWake, Min(on)} : \A t \in {MinWake, Min(on)} : t =< m
    BY <2>3
  <2>5. Max({MinWake, Min(on)}) \in {MinWake, Min(on)}
    BY <2>4, <2>3 DEF Max
  <2>6. Wake = Max({MinWake, Min(on)})
    BY <1>2 DEF Wake
  <2> QED BY <2>3, <2>5, <2>6
<1> QED BY <1>1, <1>2

(* How the bound grows with the failures.                                   *)
LEMMA BoundGrows ==
  ASSUME TypeOK, TypeOK'
  PROVE  /\ Span \in Nat \ {0} /\ Never \in Int
         /\ Bound \in Nat /\ Bound >= Span /\ Bound' \in Nat
         /\ failures' = failures => Bound' = Bound
         /\ failures' = failures + 1 => Bound' = Bound + Span
<1>1. Span \in Nat \ {0} /\ Never \in Int
  BY WakeType, StoreAssumption DEF Span, Never
<1>2. failures \in Nat /\ failures' \in Nat
  BY StoreAssumption DEF TypeOK
<1>3. Bound = (failures + 1) * Span /\ Bound' = (failures' + 1) * Span
  BY DEF Bound, Span
<1> QED BY <1>1, <1>2, <1>3, Products

LEMMA InitIInv == Init => IInv
<1> SUFFICES ASSUME Init PROVE IInv
  OBVIOUS
<1> USE StoreAssumption DEF Init
<1>1. TypeOK
  <2>1. commits \in Seq(Nat) /\ synced \in 0..Len(commits) /\ base \in 0..synced
    OBVIOUS
  <2>2. file \in [Pages -> 0..synced]
    OBVIOUS
  <2>3. archive \in Seq(Nat) /\ Len(archive) =< NumPages /\ old \in Nat
    OBVIOUS
  <2>4. lastCkpt \in Int /\ lastVac \in Int
    BY DEF Never
  <2>5. failures \in 0..MaxFailures /\ crashes \in 0..MaxCrashes
    OBVIOUS
  <2> QED BY <2>1, <2>2, <2>3, <2>4, <2>5 DEF TypeOK
<1>2. Locked /\ OldInFile /\ ArchiveHasOld
  BY DEF Locked, OldInFile, ArchiveHasOld
<1>3. InTime
  BY DEF InTime, Young, AfterLast, Closed, Schedule, Missing
<1> QED BY <1>1, <1>2, <1>3 DEF IInv

-----------------------------------------------------------------------------
(* A commit is the last of the commits, and has the time of the clock.      *)
LEMMA CommitAppends ==
  ASSUME TypeOK, Commit
  PROVE  /\ commits' \in Seq(Nat) /\ Len(commits') = Len(commits) + 1
         /\ DOMAIN commits = 1..Len(commits)
         /\ DOMAIN commits' = 1..(Len(commits) + 1)
         /\ commits'[Len(commits) + 1] = now
         /\ \A i \in 1..Len(commits) : commits'[i] = commits[i]
         /\ synced' \in synced..Len(commits') /\ base' \in 0..synced'
         /\ lock' \in {"free", "commit"}
         /\ lock' = "commit" => base' = Len(commits') /\ synced' = Len(commits')
<1> USE DEF TypeOK
<1>1. /\ commits' \in Seq(Nat) /\ Len(commits') = Len(commits) + 1
      /\ commits'[Len(commits) + 1] = now
      /\ \A i \in 1..Len(commits) : commits'[i] = commits[i]
  BY DEF Commit
<1>2. Len(commits) \in Nat /\ DOMAIN commits = 1..Len(commits)
      /\ DOMAIN commits' = 1..(Len(commits) + 1)
  BY <1>1
<1>3. CASE UNCHANGED <<synced, base, lock>>
  BY <1>1, <1>2, <1>3 DEF Commit
<1>4. CASE Begin("commit", Len(commits'))
  BY <1>1, <1>2, <1>4 DEF Commit, Begin
<1> QED BY <1>1, <1>2, <1>3, <1>4 DEF Commit

(* A crash keeps the first commits, those that are synced among them.       *)
LEMMA CrashKeeps ==
  ASSUME TypeOK, Crash
  PROVE  /\ commits' \in Seq(Nat) /\ Len(commits') \in synced..Len(commits)
         /\ DOMAIN commits = 1..Len(commits)
         /\ DOMAIN commits' = 1..Len(commits')
         /\ \A i \in DOMAIN commits' : commits'[i] = commits[i]
<1>1. PICK n \in synced..Len(commits) : commits' = SubSeq(commits, 1, n)
  BY DEF Crash
<1>2. commits \in Seq(Nat) /\ Len(commits) \in Nat /\ synced \in Nat
  BY DEF TypeOK
<1>3. n \in 0..Len(commits)
  BY <1>1, <1>2
<1>4. commits' \in Seq(Nat) /\ Len(commits') = n
      /\ \A i \in 1..n : commits'[i] = commits[i]
  BY <1>1, <1>2, <1>3
<1> QED BY <1>1, <1>2, <1>3, <1>4

LEMMA StepTypeOK ==
  ASSUME TypeOK, [Next]_vars
  PROVE  TypeOK'
<1> USE StoreAssumption DEF TypeOK, dbVars, maintVars, archiveVars, faults
<1>1. CASE UNCHANGED vars
  BY <1>1 DEF vars
<1>2. CASE CopyPage
  <2>1. PICK p \in Pages : file' = [file EXCEPT ![p] = base]
    BY <1>2 DEF CopyPage
  <2> QED BY <1>2, <2>1 DEF CopyPage
<1>3. CASE Edit
  <2>1. /\ commits' \in Seq(Nat) /\ synced' \in 0..Len(commits')
        /\ synced =< synced' /\ base' \in 0..synced' /\ lock' \in {"free", "commit"}
    BY <1>3, CommitAppends DEF Edit
  <2>2. file' \in [Pages -> 0..synced']
    BY <1>3, <2>1 DEF Edit
  <2> QED BY <1>3, <2>1, <2>2 DEF Edit
<1>4. CASE CommitDone
  BY <1>4 DEF CommitDone, CheckpointEnds, Fails
<1>5. CASE WakeUp \/ SkipCheckpoint
  BY <1>5 DEF WakeUp, SkipCheckpoint
<1>6. CASE Checkpoint \/ Close
  <2>1. /\ synced' = Len(commits') /\ base' = Len(commits') /\ synced =< synced'
        /\ lock' \in {"maintenance", "close"} /\ Len(commits') \in Nat
    BY <1>6 DEF Checkpoint, Close, Begin
  <2>2. file' \in [Pages -> 0..synced']
    BY <1>6, <2>1 DEF Checkpoint, Close
  <2>3. CASE Checkpoint
    BY <2>1, <2>2, <2>3 DEF Checkpoint
  <2>4. CASE Close
    BY <2>1, <2>2, <2>4 DEF Close
  <2> QED BY <1>6, <2>3, <2>4
<1>7. CASE CheckpointOver
  BY <1>7 DEF CheckpointOver, CheckpointEnds, Fails
<1>8. CASE CheckpointRaises
  BY <1>8 DEF CheckpointRaises, Fails
<1>9. CASE Vacuum
  <2>1. wakeAt' \in Nat
    BY <1>9, WakeType DEF Vacuum
  <2>2. CASE Commit
    <3>1. /\ commits' \in Seq(Nat) /\ synced' \in 0..Len(commits')
          /\ synced =< synced' /\ base' \in 0..synced'
          /\ lock' \in {"free", "commit"}
      BY <2>2, CommitAppends
    <3>2. file' \in [Pages -> 0..synced']
      BY <1>9, <3>1 DEF Vacuum
    <3> QED BY <1>9, <2>1, <3>1, <3>2 DEF Vacuum
  <2>3. CASE UNCHANGED <<commits, synced, base, lock>>
    BY <1>9, <2>1, <2>3 DEF Vacuum
  <2> QED BY <1>9, <2>2, <2>3 DEF Vacuum
<1>10. CASE BeginArchive
  <2>1. old' \in Nat
    <3>1. IsFiniteSet(DOMAIN commits)
      BY FS_Interval
    <3>2. IsFiniteSet({i \in DOMAIN commits : IsOld(i)})
      BY <3>1, FS_Subset
    <3> QED BY <1>10, <3>2, FS_CardinalityType DEF BeginArchive
  <2>2. archive' \in Seq(Nat) /\ Len(archive') = 1
    <3>1. file[1] \in Nat
      BY DEF Pages
    <3> QED BY <1>10, <3>1 DEF BeginArchive
  <2>3. UNCHANGED <<now, stop, closed, commits, synced, file, base, lock,
                    maintPc, wakeAt, lastCkpt, lastVac, failures, crashes>>
    BY <1>10 DEF BeginArchive
  <2> QED BY <2>1, <2>2, <2>3
<1>11. CASE ArchivePage
  <2>1. file[Len(archive) + 1] \in Nat
    BY <1>11 DEF ArchivePage, Pages
  <2>2. archive' \in Seq(Nat) /\ Len(archive') =< NumPages
    BY <1>11, <2>1 DEF ArchivePage
  <2>3. UNCHANGED <<now, stop, closed, commits, synced, file, base, lock,
                    maintPc, wakeAt, lastCkpt, lastVac, old, failures, crashes>>
    BY <1>11 DEF ArchivePage
  <2> QED BY <2>2, <2>3
<1>12. CASE EndArchive
  <2>1. archive' \in Seq(Nat) /\ Len(archive') = 0 /\ old' = 0
    BY <1>12 DEF EndArchive
  <2>2. UNCHANGED <<now, stop, closed, commits, synced, file, base, lock,
                    maintPc, wakeAt, lastCkpt, lastVac, failures, crashes>>
    BY <1>12 DEF EndArchive
  <2> QED BY <2>1, <2>2
<1>13. CASE Signal \/ CloseDone
  <2>1. CASE Signal
    BY <2>1 DEF Signal
  <2>2. CASE CloseDone
    BY <2>2 DEF CloseDone, CheckpointEnds, Fails
  <2> QED BY <1>13, <2>1, <2>2
<1>14. CASE Crash
  <2>1. commits' \in Seq(Nat) /\ Len(commits') \in Nat
        /\ synced' \in 0..Len(commits') /\ synced' = synced /\ base' = 0
    BY <1>14, CrashKeeps DEF Crash
  <2>2. archive' \in Seq(Nat) /\ Len(archive') = 0
    BY <1>14 DEF Crash
  <2>3. lastCkpt' \in Int /\ lastVac' \in Int
    BY <1>14 DEF Crash, Never
  <2>4. /\ stop' = FALSE /\ closed' = FALSE /\ lock' = "free"
        /\ maintPc' = "checkpoint" /\ wakeAt' = 0 /\ old' = 0
        /\ crashes' \in 0..MaxCrashes /\ UNCHANGED <<now, file, failures>>
    BY <1>14 DEF Crash
  <2>5. file' \in [Pages -> 0..synced'] /\ base' \in 0..synced'
    BY <2>1, <2>4
  <2>6. archive' \in Seq(Nat) /\ Len(archive') =< NumPages
    BY <2>2
  <2>7. /\ now' \in Nat /\ stop' \in BOOLEAN /\ closed' \in BOOLEAN
        /\ lock' \in {"free", "maintenance", "commit", "close"}
        /\ maintPc' \in {"waiting", "checkpoint", "vacuum"} /\ wakeAt' \in Nat
        /\ old' \in Nat /\ failures' \in 0..MaxFailures
    BY <2>4
  <2> QED BY <2>1, <2>3, <2>4, <2>5, <2>6, <2>7
<1>15. CASE Tick
  BY <1>15 DEF Tick
<1>16. CASE Quiet
  BY <1>16 DEF Quiet, vars
<1> QED BY <1>1, <1>2, <1>3, <1>4, <1>5, <1>6, <1>7, <1>8, <1>9, <1>10, <1>11,
          <1>12, <1>13, <1>14, <1>15, <1>16 DEF Next

-----------------------------------------------------------------------------
(* Nobody commits while a checkpoint runs.                                  *)
LEMMA StepLocked ==
  ASSUME TypeOK, Locked, [Next]_vars
  PROVE  Locked'
<1> USE DEF Locked, dbVars, maintVars, archiveVars, faults
<1>1. CASE Edit \/ Vacuum
  <2>1. stop' = stop
    BY <1>1 DEF Edit, Vacuum
  <2>2. CASE Commit
    <3>1. /\ lock' \in {"free", "commit"}
          /\ lock' = "commit" => base' = Len(commits') /\ synced' = Len(commits')
      BY <2>2, CommitAppends
    <3> QED BY <3>1
  <2>3. CASE UNCHANGED <<commits, synced, base, lock>>
    BY <2>1, <2>3
  <2> QED BY <1>1, <2>2, <2>3 DEF Edit, Vacuum
<1>2. CASE Checkpoint \/ Close
  BY <1>2 DEF Checkpoint, Close, Begin
<1>3. CASE CommitDone \/ CheckpointOver \/ CloseDone \/ Crash
  BY <1>3 DEF CommitDone, CheckpointOver, CloseDone, CheckpointEnds, Crash
<1>4. CASE \/ UNCHANGED vars \/ CopyPage \/ WakeUp \/ SkipCheckpoint
           \/ CheckpointRaises \/ BeginArchive \/ ArchivePage \/ EndArchive
           \/ Signal \/ Tick \/ Quiet
  BY <1>4 DEF vars, CopyPage, WakeUp, SkipCheckpoint, CheckpointRaises,
              BeginArchive, ArchivePage, EndArchive, Signal, Tick, Quiet
<1> QED BY <1>1, <1>2, <1>3, <1>4 DEF Next

(* A page of the file is never older than it was.                           *)
LEMMA FileAdvances ==
  ASSUME TypeOK, Locked, [Next]_vars
  PROVE  \A p \in Pages : file[p] =< file'[p]
<1> USE DEF TypeOK
<1>1. CASE CopyPage
  <2>1. PICK q \in Pages : file' = [file EXCEPT ![q] = base]
    BY <1>1 DEF CopyPage
  <2>2. file[q] =< base
    BY <1>1, <2>1 DEF CopyPage, Locked
  <2> QED BY <2>1, <2>2
<1>2. CASE file' = file
  BY <1>2
<1>3. CASE ~CopyPage
  <2>1. file' = file
    BY <1>3 DEF Next, vars, dbVars, Edit, CommitDone, WakeUp, Checkpoint,
                CheckpointOver, SkipCheckpoint, CheckpointRaises, Vacuum,
                BeginArchive, ArchivePage, EndArchive, Signal, Close,
                CloseDone, Crash, Tick, Quiet
  <2> QED BY <1>2, <2>1
<1> QED BY <1>1, <1>3

(* The old commits are in every page of the file.                           *)
LEMMA OldCounted ==
  ASSUME TypeOK, CkptInterval > 0 => Young
  PROVE  LET n == Cardinality({i \in DOMAIN commits : IsOld(i)})
         IN  n \in Nat /\ \A p \in Pages : n =< file[p]
<1> DEFINE Olds == {i \in DOMAIN commits : IsOld(i)}
<1>1. IsFiniteSet(Olds) /\ Cardinality(Olds) \in Nat
  <2>1. DOMAIN commits = 1..Len(commits) /\ Len(commits) \in Nat
    BY DEF TypeOK
  <2>2. IsFiniteSet(DOMAIN commits)
    BY <2>1, FS_Interval
  <2> QED BY <2>2, FS_Subset, FS_CardinalityType
<1>2. ASSUME NEW p \in Pages
      PROVE  Cardinality(Olds) =< file[p]
  <2>1. file[p] \in Nat
    BY DEF TypeOK
  <2>2. Olds \subseteq 1..file[p]
    <3>1. SUFFICES ASSUME NEW i \in Olds, i > file[p] PROVE FALSE
      <4>1. DOMAIN commits \subseteq Nat \ {0}
        BY DEF TypeOK
      <4> QED BY <2>1, <4>1
    <3>2. CkptInterval > 0 /\ now - commits[i] >= Bound /\ i \in DOMAIN commits
      BY DEF IsOld
    <3>3. commits[i] + Bound > now
      BY <3>1, <3>2 DEF Young, Missing
    <3>4. commits[i] \in Nat /\ now \in Nat
      BY <3>2 DEF TypeOK
    <3>5. Bound \in Nat
      <4>1. failures \in Nat /\ Span \in Nat
        BY StoreAssumption, WakeType DEF TypeOK, Span
      <4> QED BY <4>1, Products DEF Bound, Span
    <3> QED BY <3>2, <3>3, <3>4, <3>5
  <2>3. IsFiniteSet(1..file[p]) /\ Cardinality(1..file[p]) = file[p]
    BY <2>1, FS_Interval, SMTT(30)
  <2> QED BY <2>2, <2>3, FS_Subset
<1> QED BY <1>1, <1>2

(* An archive, begun or continued, has what was old.                        *)
LEMMA StepArchive ==
  ASSUME TypeOK, TypeOK', Locked, OldInFile, ArchiveHasOld,
         CkptInterval > 0 => Young, [Next]_vars
  PROVE  OldInFile' /\ ArchiveHasOld'
<1> USE DEF OldInFile, ArchiveHasOld
<1>1. \A p \in Pages : /\ file[p] \in Nat /\ file'[p] \in Nat
                       /\ file[p] =< file'[p]
  <2>1. \A p \in Pages : file[p] =< file'[p]
    BY FileAdvances
  <2>2. file \in [Pages -> 0..synced] /\ 0..synced \subseteq Nat
    BY DEF TypeOK
  <2>3. file' \in [Pages -> 0..synced'] /\ 0..synced' \subseteq Nat
    BY DEF TypeOK
  <2> QED BY <2>1, <2>2, <2>3
<1>2. CASE BeginArchive
  <2>1. \A p \in Pages : old' =< file[p]
    BY <1>2, OldCounted DEF BeginArchive
  <2>2. file' = file /\ archive' = <<file[1]>> /\ 1 \in Pages
    BY <1>2, StoreAssumption DEF BeginArchive, dbVars, Pages
  <2> QED BY <2>1, <2>2
<1>3. CASE ArchivePage
  <2>1. /\ Len(archive) + 1 \in Pages /\ old' = old /\ file' = file
        /\ archive' = Append(archive, file[Len(archive) + 1])
    BY <1>3, StoreAssumption DEF ArchivePage, dbVars, Pages
  <2>2. archive \in Seq(Nat) /\ Len(archive) \in Nat
        /\ DOMAIN archive = 1..Len(archive) /\ file[Len(archive) + 1] \in Nat
    <3>1. archive \in Seq(Nat)
      BY DEF TypeOK
    <3> QED BY <2>1, <1>1, <3>1
  <2>3. /\ DOMAIN archive' = 1..(Len(archive) + 1)
        /\ archive'[Len(archive) + 1] = file[Len(archive) + 1]
        /\ \A p \in 1..Len(archive) : archive'[p] = archive[p]
    BY <2>1, <2>2
  <2>4. old \in Nat
    BY DEF TypeOK
  <2> HIDE DEF OldInFile, ArchiveHasOld
  <2>5. OldInFile'
    BY <2>1 DEF OldInFile
  <2>6. file[Len(archive) + 1] >= old
    BY <2>1, <2>2, <2>4 DEF OldInFile
  <2>7. \A p \in 1..Len(archive) : archive[p] >= old
    BY <2>2 DEF ArchiveHasOld
  <2>8. \A p \in 1..(Len(archive) + 1) : p \in 1..Len(archive) \/ p = Len(archive) + 1
    BY <2>2
  <2>9. \A p \in DOMAIN archive' : archive'[p] >= old
    BY <2>3, <2>6, <2>7, <2>8
  <2> QED BY <2>1, <2>5, <2>9 DEF ArchiveHasOld
<1>4. CASE EndArchive \/ Crash
  <2>1. archive' = <<>> /\ old' = 0
    BY <1>4 DEF EndArchive, Crash
  <2> QED BY <1>1, <2>1
<1>5. CASE ~(BeginArchive \/ ArchivePage \/ EndArchive \/ Crash)
  <2>1. archive' = archive /\ old' = old
    BY <1>5 DEF Next, vars, archiveVars, CopyPage, Edit, CommitDone, WakeUp,
                Checkpoint, CheckpointOver, SkipCheckpoint, CheckpointRaises,
                Vacuum, Signal, Close, CloseDone, Tick, Quiet
  <2>2. old \in Nat
    BY DEF TypeOK
  <2> QED BY <1>1, <2>1, <2>2
<1> QED BY <1>2, <1>3, <1>4, <1>5

-----------------------------------------------------------------------------
(* What the file lacks after a step that neither adds commits nor forgets   *)
(* pages, it has lacked before.                                             *)
LEMMA StillMissing ==
  ASSUME TypeOK, TypeOK', commits' = commits,
         \A p \in Pages : file[p] =< file'[p],
         NEW i, NEW p, Missing(i, p)'
  PROVE  /\ Missing(i, p) /\ commits'[i] = commits[i]
         /\ commits[i] \in Nat /\ i \in Nat
<1>1. p \in Pages /\ i \in DOMAIN commits /\ i > file'[p] /\ file[p] =< file'[p]
  BY DEF Missing
<1>2. i \in Nat /\ commits[i] \in Nat
  <2>1. commits \in Seq(Nat)
    BY DEF TypeOK
  <2>2. i \in 1..Len(commits) /\ Len(commits) \in Nat
    BY <1>1, <2>1
  <2> QED BY <2>1, <2>2
<1>3. file[p] \in Nat /\ file'[p] \in Nat
  <2>1. file[p] \in 0..synced /\ synced \in Nat
    BY <1>1 DEF TypeOK
  <2>2. file'[p] \in 0..synced' /\ synced' \in Nat
    BY <1>1 DEF TypeOK
  <2> QED BY <2>1, <2>2
<1> QED BY <1>1, <1>2, <1>3 DEF Missing

(* A step that moves neither the clock nor the commits nor the last try.    *)
LEMMA Keeps ==
  ASSUME TypeOK, TypeOK', Young, AfterLast, Closed,
         UNCHANGED <<commits, now, lastCkpt, closed>>, stop => stop',
         failures' = failures \/ failures' = failures + 1,
         \A p \in Pages : file[p] =< file'[p]
  PROVE  Young' /\ AfterLast' /\ Closed'
<1>1. /\ Span \in Nat /\ Bound \in Nat /\ Bound' \in Nat /\ Bound' >= Bound
      /\ now \in Nat /\ lastCkpt \in Int
  <2>1. Bound' = Bound \/ Bound' = Bound + Span
    BY BoundGrows
  <2>2. Span \in Nat /\ Bound \in Nat /\ Bound' \in Nat
    BY BoundGrows
  <2>3. now \in Nat /\ lastCkpt \in Int
    BY DEF TypeOK
  <2> QED BY <2>1, <2>2, <2>3
<1>2. ASSUME NEW i, NEW p, Missing(i, p)'
      PROVE  /\ commits'[i] + Bound' > now
             /\ commits'[i] + Bound' >= lastCkpt + Span
             /\ closed => commits'[i] + Bound' >= now + Span
  <2>1. /\ Missing(i, p) /\ commits'[i] = commits[i] /\ commits[i] \in Nat
    BY <1>2, StillMissing
  <2>2. /\ commits[i] + Bound > now
        /\ commits[i] + Bound >= lastCkpt + Span
        /\ closed => commits[i] + Bound >= now + Span
    BY <2>1 DEF Young, AfterLast, Closed
  <2> QED BY <1>1, <2>1, <2>2
<1>3. Young'
  BY <1>2 DEF Young
<1>4. AfterLast'
  <2>1. Span' = Span
    BY DEF Span, Wake
  <2> QED BY <1>2, <2>1 DEF AfterLast
<1>5. Closed'
  <2>1. Span' = Span
    BY DEF Span, Wake
  <2> QED BY <1>2, <2>1 DEF Closed
<1> QED BY <1>3, <1>4, <1>5

(* A try that works leaves nothing out.                                     *)
LEMMA Succeeds ==
  ASSUME TypeOK, Locked, lock # "free", Copied, UNCHANGED <<commits, file>>,
         closed' => stop'
  PROVE  Young' /\ AfterLast' /\ Closed'
<1>1. ASSUME NEW i, NEW p, Missing(i, p)'
      PROVE  FALSE
  <2>1. p \in Pages /\ i \in DOMAIN commits /\ i > file[p] /\ file[p] = Len(commits)
    BY <1>1 DEF Missing, Copied, Locked
  <2>2. commits \in Seq(Nat)
    BY DEF TypeOK
  <2>3. i \in 1..Len(commits) /\ Len(commits) \in Nat
    BY <2>1, <2>2
  <2> QED BY <2>1, <2>3
<1> QED BY <1>1 DEF Young, AfterLast, Closed

(* A try that fails, or one that a closed connection refuses.               *)
LEMMA Tried ==
  ASSUME TypeOK, TypeOK', Young, Closed, UNCHANGED <<commits, now>>,
         lastCkpt' = now \/ (lastCkpt' = lastCkpt /\ AfterLast),
         \A p \in Pages : file[p] =< file'[p],
         \/ failures' = failures + 1 /\ (closed' => stop')
         \/ failures' = failures /\ closed /\ closed' = closed /\ stop' = stop
  PROVE  Young' /\ AfterLast' /\ Closed'
<1>1. /\ Span \in Nat \ {0} /\ Bound \in Nat /\ Bound' \in Nat
      /\ now \in Nat /\ lastCkpt \in Int
  BY BoundGrows DEF TypeOK
<1>2. ASSUME NEW i, NEW p, Missing(i, p)'
      PROVE  /\ commits'[i] \in Nat /\ commits'[i] + Bound' >= now + Span
             /\ lastCkpt' = lastCkpt => commits'[i] + Bound' >= lastCkpt' + Span
             /\ closed' => stop'
  <2>1. Missing(i, p) /\ commits'[i] = commits[i] /\ commits[i] \in Nat
    BY <1>2, StillMissing
  <2>2. CASE failures' = failures + 1 /\ (closed' => stop')
    <3>1. commits[i] + Bound > now /\ Bound' = Bound + Span
      BY <2>1, <2>2, BoundGrows DEF Young
    <3>2. lastCkpt' = lastCkpt => lastCkpt' = now \/ commits[i] + Bound >= lastCkpt + Span
      BY <2>1 DEF AfterLast
    <3> QED BY <1>1, <2>1, <2>2, <3>1, <3>2
  <2>3. CASE failures' = failures /\ closed /\ closed' = closed /\ stop' = stop
    <3>1. stop /\ commits[i] + Bound >= now + Span /\ Bound' = Bound
      BY <2>1, <2>3, BoundGrows DEF Closed
    <3>2. lastCkpt' = lastCkpt => lastCkpt' = now \/ commits[i] + Bound >= lastCkpt + Span
      BY <2>1 DEF AfterLast
    <3> QED BY <1>1, <2>1, <2>3, <3>1, <3>2
  <2> QED BY <2>2, <2>3
<1>3. Span' = Span
  BY DEF Span, Wake
<1>4. Young'
  BY <1>1, <1>2 DEF Young
<1>5. AfterLast'
  BY <1>1, <1>2, <1>3 DEF AfterLast
<1>6. Closed'
  <2>1. closed' => stop'
    BY DEF Closed
  <2> QED BY <1>2, <1>3, <2>1 DEF Closed
<1> QED BY <1>4, <1>5, <1>6

(* A new commit is young.                                                   *)
LEMMA Appends ==
  ASSUME TypeOK, TypeOK', CkptInterval > 0, Young, AfterLast, Schedule, Commit,
         ~closed', UNCHANGED <<now, lastCkpt, file, failures>>
  PROVE  Young' /\ AfterLast' /\ Closed'
<1>1. /\ Span \in Nat \ {0} /\ Bound \in Nat /\ Bound' = Bound /\ Bound >= Span
      /\ now \in Nat /\ lastCkpt \in Int /\ Span' = Span
  BY BoundGrows DEF TypeOK, Span, Wake
<1>2. lastCkpt =< now
  BY <1>1, StoreAssumption DEF Schedule, Never
<1>3. ASSUME NEW i, NEW p, Missing(i, p)'
      PROVE  /\ commits'[i] + Bound > now
             /\ commits'[i] + Bound >= lastCkpt + Span
  <2>1. i \in DOMAIN commits' /\ p \in Pages /\ i > file[p]
    BY <1>3 DEF Missing
  <2>2. CASE i \in DOMAIN commits
    <3>1. Missing(i, p) /\ commits'[i] = commits[i]
      BY <2>1, <2>2, CommitAppends DEF Missing
    <3> QED BY <3>1 DEF Young, AfterLast
  <2>3. CASE i \notin DOMAIN commits
    <3>1. Len(commits) \in Nat
      BY DEF TypeOK
    <3>2. i = Len(commits) + 1
      BY <2>1, <2>3, <3>1, CommitAppends
    <3>3. commits'[i] = now
      BY <3>2, CommitAppends
    <3> QED BY <1>1, <1>2, <3>3
  <2> QED BY <2>2, <2>3
<1>4. Young'
  BY <1>1, <1>3 DEF Young
<1>5. AfterLast'
  BY <1>1, <1>3 DEF AfterLast
<1>6. Closed'
  BY DEF Closed
<1> QED BY <1>4, <1>5, <1>6

(* A crash leaves a file that lacks no more than it did.                    *)
LEMMA Restarts ==
  ASSUME TypeOK, TypeOK', Young, Crash
  PROVE  Young' /\ AfterLast' /\ Closed'
<1>1. /\ Span \in Nat /\ Bound \in Nat /\ Bound' = Bound /\ Bound >= Span
      /\ Span' = Span /\ now' = now /\ file' = file /\ ~closed'
      /\ lastCkpt' = Never /\ Never \in Int /\ Never =< 0
  BY BoundGrows, StoreAssumption DEF Crash, Span, Wake, Never
<1>2. ASSUME NEW i, NEW p, Missing(i, p)'
      PROVE  /\ commits'[i] + Bound > now
             /\ commits'[i] + Bound >= Never + Span
  <2>1. i \in DOMAIN commits' /\ p \in Pages /\ i > file[p]
    BY <1>1, <1>2 DEF Missing
  <2>2. synced \in Nat /\ Len(commits) \in Nat
    BY DEF TypeOK
  <2>3. i \in DOMAIN commits
    BY <2>1, <2>2, CrashKeeps
  <2>4. commits'[i] = commits[i] /\ commits[i] \in Nat
    <3>1. commits' \in Seq(Nat) /\ commits'[i] = commits[i]
      BY <2>1, CrashKeeps
    <3>2. commits'[i] \in Nat
      BY <2>1, <3>1
    <3> QED BY <3>1, <3>2
  <2>5. commits[i] + Bound > now
    BY <2>1, <2>3 DEF Young, Missing
  <2> QED BY <1>1, <2>4, <2>5
<1>3. Young'
  BY <1>1, <1>2 DEF Young
<1>4. AfterLast'
  BY <1>1, <1>2 DEF AfterLast
<1>5. Closed'
  BY <1>1 DEF Closed
<1> QED BY <1>3, <1>4, <1>5

(* Before a commit that waits for the next round gets old, the round comes. *)
LEMMA Ticks ==
  ASSUME TypeOK, TypeOK', CkptInterval > 0, AfterLast, Closed, Schedule, Tick
  PROVE  Young' /\ AfterLast' /\ Closed'
<1>1. /\ Span \in Nat /\ Bound \in Nat /\ Bound' = Bound /\ Span' = Span
      /\ now' = now + 1 /\ now \in Nat /\ lastCkpt' = lastCkpt
      /\ lastCkpt \in Int /\ wakeAt \in Nat /\ commits' = commits /\ file' = file
  BY BoundGrows DEF TypeOK, Tick, dbVars, maintVars, faults, Span, Wake
<1>2. now < wakeAt /\ wakeAt < lastCkpt + Span
  BY DEF Tick, Schedule
<1>3. \A p \in Pages : file[p] =< file'[p]
  <2>1. ASSUME NEW p \in Pages PROVE file[p] =< file[p]
    <3>1. file[p] \in 0..synced /\ synced \in Nat
      BY DEF TypeOK
    <3> QED BY <3>1
  <2> QED BY <1>1, <2>1
<1>4. ASSUME NEW i, NEW p, Missing(i, p)'
      PROVE  /\ commits[i] \in Nat
             /\ commits[i] + Bound >= lastCkpt + Span
  BY <1>1, <1>3, <1>4, StillMissing DEF AfterLast
<1>5. Young'
  BY <1>1, <1>2, <1>4 DEF Young
<1>6. AfterLast'
  BY <1>1, <1>4 DEF AfterLast
<1>7. Closed'
  BY DEF Tick, Closed
<1> QED BY <1>5, <1>6, <1>7

(* What the file lacks is young and after the last try, step by step.       *)
LEMMA StepYoung ==
  ASSUME TypeOK, TypeOK', Locked, CkptInterval > 0, InTime, [Next]_vars
  PROVE  Young' /\ AfterLast' /\ Closed'
<1> USE DEF InTime
<1>1. \A p \in Pages : file[p] =< file'[p]
  BY FileAdvances
<1>2. failures \in Nat /\ (closed => stop)
  BY StoreAssumption DEF TypeOK, Closed
<1>3. CASE /\ UNCHANGED <<commits, now, lastCkpt, closed, failures>>
           /\ stop => stop'
  BY <1>1, <1>3, Keeps
<1>4. CASE \/ UNCHANGED vars \/ CopyPage \/ WakeUp \/ Checkpoint
           \/ SkipCheckpoint \/ BeginArchive \/ ArchivePage \/ EndArchive
           \/ Signal \/ Close \/ Quiet
  <2>1. UNCHANGED <<commits, now, lastCkpt, closed, failures>>
    BY <1>4 DEF vars, dbVars, maintVars, faults, CopyPage, WakeUp, Checkpoint,
                SkipCheckpoint, BeginArchive, ArchivePage, EndArchive, Signal,
                Close, Quiet
  <2>2. stop => stop'
    BY <1>4 DEF vars, CopyPage, WakeUp, Checkpoint, SkipCheckpoint,
                BeginArchive, ArchivePage, EndArchive, Signal, Close, Quiet
  <2> QED BY <1>3, <2>1, <2>2
<1>5. CASE Edit
  BY <1>5, Appends DEF Edit, maintVars, faults
<1>6. CASE Vacuum
  <2>1. UNCHANGED <<now, stop, closed, file, lastCkpt, failures>>
    BY <1>6 DEF Vacuum, faults
  <2>2. CASE Commit /\ ~closed
    BY <2>1, <2>2, Appends
  <2>3. CASE UNCHANGED commits
    BY <1>3, <2>1, <2>3
  <2> QED BY <1>6, <2>2, <2>3 DEF Vacuum
<1>7. CASE CommitDone \/ CheckpointOver \/ CloseDone
  <2>1. /\ lock # "free" /\ UNCHANGED <<commits, file, now, stop>>
        /\ (Copied \/ failures' = failures + 1)
    BY <1>7 DEF CommitDone, CheckpointOver, CloseDone, CheckpointEnds, Fails, dbVars
  <2>2. lastCkpt' = now \/ lastCkpt' = lastCkpt
    BY <1>7 DEF CommitDone, CheckpointOver, CloseDone, maintVars
  <2>3. closed' => stop'
    BY <1>2, <1>7, <2>1 DEF CommitDone, CheckpointOver, CloseDone, Locked
  <2>4. CASE Copied
    BY <2>1, <2>3, <2>4, Succeeds
  <2>5. CASE failures' = failures + 1
    BY <1>1, <2>1, <2>2, <2>3, <2>5, Tried
  <2> QED BY <2>1, <2>4, <2>5
<1>8. CASE CheckpointRaises
  <2>1. UNCHANGED <<commits, now, closed, stop>> /\ lastCkpt' = now
        /\ ((closed /\ failures' = failures) \/ failures' = failures + 1)
    BY <1>8 DEF CheckpointRaises, Fails, dbVars
  <2> QED BY <1>1, <1>2, <2>1, Tried
<1>9. CASE Crash
  BY <1>9, Restarts
<1>10. CASE Tick
  BY <1>10, Ticks
<1> QED BY <1>4, <1>5, <1>6, <1>7, <1>8, <1>9, <1>10 DEF Next

(* The rounds keep to their time.                                           *)
LEMMA StepSchedule ==
  ASSUME TypeOK, TypeOK', CkptInterval > 0, Schedule, [Next]_vars
  PROVE  Schedule'
<1>1. /\ now \in Nat /\ lastCkpt \in Int /\ wakeAt \in Nat
      /\ maintPc \in {"waiting", "checkpoint", "vacuum"}
  BY DEF TypeOK
<1>2. /\ Wake \in Nat \ {0} /\ Wake' = Wake /\ Span = CkptInterval + Wake
      /\ Span' = Span /\ Never' = Never /\ Never \in Int
      /\ CkptInterval \in Nat /\ Never =< 0 - CkptInterval
  BY WakeType, StoreAssumption DEF Span, Wake, Never
<1>3. CASE UNCHANGED <<now, maintPc, wakeAt, lastCkpt>>
  BY <1>2, <1>3 DEF Schedule
<1>4. CASE \/ UNCHANGED vars \/ CopyPage \/ Edit \/ CommitDone \/ Checkpoint
           \/ BeginArchive \/ ArchivePage \/ EndArchive
           \/ Signal \/ Close \/ CloseDone \/ Quiet
  <2>1. UNCHANGED <<now, maintPc, wakeAt, lastCkpt>>
    BY <1>4 DEF vars, maintVars, CopyPage, Edit, CommitDone, Checkpoint,
                BeginArchive, ArchivePage, EndArchive, Signal, Close, CloseDone,
                Quiet
  <2> QED BY <1>3, <2>1
<1>5. CASE WakeUp
  BY <1>1, <1>2, <1>5 DEF WakeUp, Schedule
<1>6. CASE SkipCheckpoint
  <2>1. /\ maintPc' = "vacuum" /\ now - lastCkpt < CkptInterval
        /\ UNCHANGED <<now, lastCkpt>>
    BY <1>1, <1>2, <1>6 DEF SkipCheckpoint, Due
  <2> QED BY <1>1, <1>2, <2>1 DEF Schedule
<1>7. CASE CheckpointOver \/ CheckpointRaises
  <2>1. maintPc' = "vacuum" /\ lastCkpt' = now /\ now' = now
    BY <1>7 DEF CheckpointOver, CheckpointRaises
  <2> QED BY <1>1, <1>2, <2>1 DEF Schedule
<1>8. CASE Vacuum
  <2>1. /\ maintPc = "vacuum" /\ maintPc' = "waiting" /\ wakeAt' = now + Wake
        /\ UNCHANGED <<now, lastCkpt>>
    BY <1>8 DEF Vacuum
  <2> QED BY <1>1, <1>2, <2>1 DEF Schedule
<1>9. CASE Crash
  BY <1>2, <1>9 DEF Crash, Schedule
<1>10. CASE Tick
  <2>1. /\ maintPc = "waiting" /\ now < wakeAt /\ now' = now + 1
        /\ UNCHANGED <<maintPc, wakeAt, lastCkpt>>
    BY <1>10 DEF Tick, maintVars
  <2> QED BY <1>1, <1>2, <2>1 DEF Schedule
<1> QED BY <1>4, <1>5, <1>6, <1>7, <1>8, <1>9, <1>10 DEF Next

LEMMA NextIInv == IInv /\ [Next]_vars => IInv'
<1> SUFFICES ASSUME IInv, [Next]_vars PROVE IInv'
  OBVIOUS
<1>1. TypeOK /\ Locked /\ OldInFile /\ ArchiveHasOld
      /\ (CkptInterval > 0 => InTime)
  BY DEF IInv
<1>2. TypeOK'
  BY <1>1, StepTypeOK
<1>3. Locked'
  BY <1>1, StepLocked
<1>4. OldInFile' /\ ArchiveHasOld'
  BY <1>1, <1>2, StepArchive DEF InTime
<1>5. CkptInterval > 0 => InTime'
  <2>1. ASSUME CkptInterval > 0 PROVE InTime'
    BY <1>1, <1>2, <2>1, StepYoung, StepSchedule DEF InTime
  <2> QED BY <2>1
<1> QED BY <1>2, <1>3, <1>4, <1>5 DEF IInv

(* The commits a step takes from the database were not old.                 *)
LEMMA StepLoses ==
  ASSUME IInv, [Next]_vars
  PROVE  \A i \in DOMAIN commits : i > Len(commits') => ~IsOld(i)
<1>1. TypeOK /\ (CkptInterval > 0 => Young)
  BY DEF IInv, InTime
<1>2. SUFFICES ASSUME NEW i \in DOMAIN commits, i > Len(commits'), IsOld(i)
               PROVE  FALSE
  OBVIOUS
<1>3. /\ i \in 1..Len(commits) /\ Len(commits) \in Nat /\ synced \in Nat
      /\ commits[i] \in Nat /\ now \in Nat
  <2>1. commits \in Seq(Nat) /\ synced \in 0..Len(commits) /\ now \in Nat
    BY <1>1 DEF TypeOK
  <2> QED BY <2>1
<1>4. CASE Crash
  <2>1. Len(commits') \in synced..Len(commits)
    BY <1>1, <1>4, CrashKeeps
  <2>2. 1 \in Pages /\ file[1] \in 0..synced
    BY <1>1, StoreAssumption DEF TypeOK, Pages
  <2>3. Missing(i, 1)
    BY <1>2, <1>3, <2>1, <2>2 DEF Missing
  <2>4. CkptInterval > 0 /\ now - commits[i] >= Bound
    BY <1>2 DEF IsOld
  <2>5. commits[i] + Bound > now
    BY <1>1, <2>3, <2>4 DEF Young
  <2>6. Bound \in Nat
    BY <1>1, StepTypeOK, BoundGrows
  <2> QED BY <1>3, <2>4, <2>5, <2>6
<1>5. CASE Edit \/ Vacuum
  <2>1. CASE Commit
    BY <1>1, <1>2, <1>3, <2>1, CommitAppends
  <2>2. CASE commits' = commits
    BY <1>2, <1>3, <2>2
  <2> QED BY <1>5, <2>1, <2>2 DEF Edit, Vacuum
<1>6. CASE ~(Crash \/ Edit \/ Vacuum)
  <2>1. commits' = commits
    BY <1>6 DEF Next, vars, dbVars, CopyPage, CommitDone, WakeUp, Checkpoint,
                CheckpointOver, SkipCheckpoint, CheckpointRaises, BeginArchive,
                ArchivePage, EndArchive, Signal, Close, CloseDone, Tick, Quiet
  <2> QED BY <1>2, <1>3, <2>1
<1> QED BY <1>4, <1>5, <1>6

-----------------------------------------------------------------------------
LEMMA InvariantHolds == Spec => []IInv
<1> QED BY InitIInv, NextIInv, PTL DEF Spec

(* The database, the log and the file are of their types, and no page of    *)
(* the file is ahead of what is synced (db.py:206-211).                     *)
THEOREM TypeCorrect == Spec => []TypeOK
<1>1. IInv => TypeOK
  BY DEF IInv
<1> QED BY InvariantHolds, <1>1, PTL

(* Whatever the intervals, an archive has each commit that was old when it  *)
(* was begun (api.py:190-198).                                              *)
THEOREM ArchivesHaveOld == Spec => []ArchiveHasOld
<1>1. IInv => ArchiveHasOld
  BY DEF IInv
<1> QED BY InvariantHolds, <1>1, PTL

(* Whatever the intervals, a loss of power takes no old commit, as long as  *)
(* the maintenance thread makes its rounds (__main__.py:108-118).           *)
THEOREM OldCommitsSurvive == Spec => LosesOnlyRecent
<1>1. IInv /\ [Next]_vars
        => [\A i \in DOMAIN commits : i > Len(commits') => ~IsOld(i)]_vars
  BY StepLoses
<1> QED BY InvariantHolds, <1>1, PTL DEF Spec, LosesOnlyRecent
===============================================================================
