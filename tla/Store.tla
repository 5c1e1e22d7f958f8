-------------------------------- MODULE Store --------------------------------
(***************************************************************************)
(* The SQLite file with its write-ahead log (db.py), the maintenance       *)
(* thread that checkpoints and vacuums it (_maintenance_loop), the archive *)
(* a request makes of the file (_make_backup_bytes) and what kills and     *)
(* power failures leave behind.                                            *)
(*                                                                         *)
(* SQLite is external, and used with journal_mode=WAL, synchronous=NORMAL: *)
(* a commit goes to the log, which is synced when a checkpoint begins; a   *)
(* checkpoint copies to the file, page by page; what has not been synced   *)
(* may be lost with the power, the latest commits first.  A commit is its  *)
(* time; it changes every page, as a row and its unique indexes do.  A     *)
(* round of maintenance, and an end with its restart, last less than a     *)
(* unit of time.                                                           *)
(***************************************************************************)
EXTENDS Integers, Sequences, FiniteSetsExt

CONSTANTS
  NumPages,
  CkptInterval, VacuumInterval, PruneInterval,   \* 0: never
  MinWake,       \* no round sooner than this after the last
  IdleWake,      \* between rounds when there is nothing to do
  AutoCkpt,      \* so many commits in the log make SQLite checkpoint by itself
  MaxTime, MaxCommits, MaxFailures, MaxCrashes     \* bounds

ASSUME StoreAssumption ==
  /\ NumPages \in Nat \ {0} /\ MinWake \in Nat \ {0} /\ IdleWake \in Nat \ {0}
  /\ CkptInterval \in Nat /\ VacuumInterval \in Nat /\ PruneInterval \in Nat
  /\ AutoCkpt \in Nat \ {0}
  /\ MaxFailures \in Nat /\ MaxCrashes \in Nat

VARIABLES
  now,
  stop,       \* _STOP
  closed,     \* is the connection closed?
  commits,    \* the times of the commits the database has
  synced,     \* how many of them a loss of power cannot take
  file,       \* for each page of the file, how many commits it reflects
  base,       \* how many commits the running checkpoint copies
  lock,       \* _lock and its holder: "free", "maintenance", "commit", "close"
  maintPc,    \* "waiting", "checkpoint", "vacuum"
  wakeAt,     \* when the wait is over
  lastCkpt, lastVac,
  archive,    \* the pages copied so far to the archive in the making
  old,        \* history: how many commits were old when it was begun
  failures, crashes

dbVars      == <<commits, synced, file, base>>
maintVars   == <<maintPc, wakeAt, lastCkpt, lastVac>>
archiveVars == <<archive, old>>
faults      == <<failures, crashes>>
vars == <<now, stop, closed, dbVars, lock, maintVars, archiveVars, faults>>

Pages == 1..NumPages

(* last_ckpt and last_vac before the first round: 0.0, which is long ago.   *)
Never == 0 - CkptInterval - VacuumInterval

Wake ==
  LET on == {t \in {CkptInterval, VacuumInterval, PruneInterval} : t > 0}
  IN  IF on = {} THEN IdleWake ELSE Max({MinWake, Min(on)})

Init ==
  /\ now = 0 /\ stop = FALSE /\ closed = FALSE
  /\ commits = <<>> /\ synced = 0 /\ file = [p \in Pages |-> 0] /\ base = 0
  /\ lock = "free"
  /\ maintPc = "checkpoint" /\ wakeAt = 0 /\ lastCkpt = Never /\ lastVac = Never
  /\ archive = <<>> /\ old = 0
  /\ failures = 0 /\ crashes = 0

-----------------------------------------------------------------------------
(* A checkpoint under the lock: sync the log, copy the pages.               *)
Begin(who, n) ==
  lock = "free" /\ lock' = who /\ base' = n /\ synced' = n

Copied == \A p \in Pages : file[p] = base

(* An I/O error.                                                            *)
Fails == failures < MaxFailures /\ failures' = failures + 1

(* Mutant of CheckpointEnds: in another mode it may stop half-way.          *)
CheckpointEndsPassive == lock' = "free" /\ UNCHANGED failures

CheckpointEnds == lock' = "free" /\ ((Copied /\ UNCHANGED failures) \/ Fails)

CopyPage ==
  /\ lock # "free"
  /\ \E p \in Pages : file[p] # base /\ file' = [file EXCEPT ![p] = base]
  /\ UNCHANGED <<now, stop, closed, commits, synced, base, lock, maintVars,
                 archiveVars, faults>>

(* A commit, with the checkpoint that SQLite adds when the log is long.     *)
Commit ==
  /\ lock = "free"
  /\ commits' = Append(commits, now)
  /\ IF Len(commits') - Min({file[p] : p \in Pages}) < AutoCkpt
       THEN UNCHANGED <<synced, base, lock>>
       ELSE Begin("commit", Len(commits'))

(* A request changes an endpoint, a login, a password or a value.           *)
Edit ==
  /\ ~closed /\ Len(commits) < MaxCommits
  /\ Commit
  /\ UNCHANGED <<now, stop, closed, file, maintVars, archiveVars, faults>>

CommitDone ==
  /\ lock = "commit" /\ CheckpointEnds
  /\ UNCHANGED <<now, stop, closed, dbVars, maintVars, archiveVars, crashes>>

-----------------------------------------------------------------------------
(* The maintenance thread.                                                  *)
WakeUp ==
  /\ maintPc = "waiting" /\ now >= wakeAt /\ ~stop
  /\ maintPc' = "checkpoint"
  /\ UNCHANGED <<now, stop, closed, dbVars, lock, wakeAt, lastCkpt, lastVac,
                 archiveVars, faults>>

Due(interval, last) == interval > 0 /\ now - last >= interval

Checkpoint ==
  /\ maintPc = "checkpoint" /\ ~closed /\ Due(CkptInterval, lastCkpt)
  /\ Begin("maintenance", Len(commits))
  /\ UNCHANGED <<now, stop, closed, commits, file, maintVars, archiveVars, faults>>

(* The time is noted, whether it has worked or not.                         *)
CheckpointOver ==
  /\ lock = "maintenance" /\ CheckpointEnds
  /\ maintPc' = "vacuum" /\ lastCkpt' = now
  /\ UNCHANGED <<now, stop, closed, dbVars, wakeAt, lastVac, archiveVars, crashes>>

(* Mutant of SkipCheckpoint: a time is noted without a checkpoint.          *)
SkipCheckpointNoted ==
  /\ maintPc = "checkpoint" /\ ~Due(CkptInterval, lastCkpt)
  /\ maintPc' = "vacuum" /\ lastCkpt' = now
  /\ UNCHANGED <<now, stop, closed, dbVars, lock, wakeAt, lastVac, archiveVars, faults>>

SkipCheckpoint ==
  /\ maintPc = "checkpoint" /\ ~Due(CkptInterval, lastCkpt)
  /\ maintPc' = "vacuum"
  /\ UNCHANGED <<now, stop, closed, dbVars, lock, wakeAt, lastCkpt, lastVac,
                 archiveVars, faults>>

(* The log cannot be synced, or the connection is closed.                   *)
CheckpointRaises ==
  /\ maintPc = "checkpoint" /\ lock = "free" /\ Due(CkptInterval, lastCkpt)
  /\ (closed /\ UNCHANGED failures) \/ Fails
  /\ maintPc' = "vacuum" /\ lastCkpt' = now
  /\ UNCHANGED <<now, stop, closed, dbVars, lock, wakeAt, lastVac, archiveVars, crashes>>

(* VACUUM commits every page anew, or fails; prune_inactive, which is Prune *)
(* of NodeRegistry, and the wait follow.                                    *)
Vacuum ==
  /\ maintPc = "vacuum"
  /\ IF Due(VacuumInterval, lastVac)
       THEN /\ lock = "free" /\ lastVac' = now
            /\ \/ ~closed /\ Commit
               \/ UNCHANGED <<commits, synced, base, lock>>
       ELSE UNCHANGED <<lastVac, commits, synced, base, lock>>
  /\ maintPc' = "waiting" /\ wakeAt' = now + Wake
  /\ UNCHANGED <<now, stop, closed, file, lastCkpt, archiveVars, faults>>

-----------------------------------------------------------------------------
(* Within so much time a commit is copied, when failures checkpoints fail.  *)
Bound == (failures + 1) * (CkptInterval + Wake)

IsOld(i) == CkptInterval > 0 /\ now - commits[i] >= Bound

(* A request archives the file, without the log and without the lock.       *)
BeginArchive ==
  /\ archive = <<>> /\ archive' = <<file[1]>>
  /\ old' = Cardinality({i \in DOMAIN commits : IsOld(i)})
  /\ UNCHANGED <<now, stop, closed, dbVars, lock, maintVars, faults>>

ArchivePage ==
  /\ Len(archive) \in 1..(NumPages - 1)
  /\ archive' = Append(archive, file[Len(archive) + 1])
  /\ UNCHANGED <<now, stop, closed, dbVars, lock, maintVars, old, faults>>

EndArchive ==
  /\ Len(archive) = NumPages
  /\ archive' = <<>> /\ old' = 0
  /\ UNCHANGED <<now, stop, closed, dbVars, lock, maintVars, faults>>

-----------------------------------------------------------------------------
(* SIGTERM, or systemctl reload, which sends SIGHUP: the maintenance thread *)
(* makes no further round, the server goes on.                              *)
Signal ==
  /\ ~stop /\ stop' = TRUE
  /\ UNCHANGED <<now, closed, dbVars, lock, maintVars, archiveVars, faults>>

(* main's finally: _STOP, and close with a last checkpoint, which may fail. *)
Close ==
  /\ ~closed /\ Begin("close", Len(commits)) /\ stop' = TRUE
  /\ UNCHANGED <<now, closed, commits, file, maintVars, archiveVars, faults>>

CloseDone ==
  /\ lock = "close" /\ CheckpointEnds
  /\ closed' = TRUE
  /\ UNCHANGED <<now, stop, dbVars, maintVars, archiveVars, crashes>>

(* The process ends, or is killed, or loses its power and with it some of   *)
(* the commits that are not synced; systemd starts it again.                *)
Crash ==
  /\ crashes < MaxCrashes /\ crashes' = crashes + 1
  /\ \E n \in synced..Len(commits) : commits' = SubSeq(commits, 1, n)
  /\ stop' = FALSE /\ closed' = FALSE /\ lock' = "free" /\ base' = 0
  /\ maintPc' = "checkpoint" /\ wakeAt' = 0
  /\ lastCkpt' = Never /\ lastVac' = Never
  /\ archive' = <<>> /\ old' = 0
  /\ UNCHANGED <<now, synced, file, failures>>

(* The time after a signal is not followed: nobody bounds it.               *)
Tick ==
  /\ now < MaxTime /\ maintPc = "waiting" /\ now < wakeAt /\ ~stop
  /\ now' = now + 1
  /\ UNCHANGED <<stop, closed, dbVars, lock, maintVars, archiveVars, faults>>

(* Bound: the time is up, or it stands still until a restart.               *)
Quiet == (now = MaxTime \/ stop) /\ UNCHANGED vars

Next ==
  \/ CopyPage \/ Edit \/ CommitDone
  \/ WakeUp \/ Checkpoint \/ CheckpointOver \/ SkipCheckpoint
  \/ CheckpointRaises \/ Vacuum
  \/ BeginArchive \/ ArchivePage \/ EndArchive
  \/ Signal \/ Close \/ CloseDone \/ Crash \/ Tick \/ Quiet

Spec == Init /\ [][Next]_vars

-----------------------------------------------------------------------------
TypeOK ==
  /\ now \in Nat /\ stop \in BOOLEAN /\ closed \in BOOLEAN
  /\ commits \in Seq(Nat) /\ synced \in 0..Len(commits)
  /\ file \in [Pages -> 0..synced] /\ base \in 0..synced
  /\ lock \in {"free", "maintenance", "commit", "close"}
  /\ maintPc \in {"waiting", "checkpoint", "vacuum"} /\ wakeAt \in Nat
  /\ lastCkpt \in Int /\ lastVac \in Int
  /\ archive \in Seq(Nat) /\ Len(archive) <= NumPages /\ old \in Nat
  /\ failures \in 0..MaxFailures /\ crashes \in 0..MaxCrashes

(* A loss of power takes no commit that is older than one interval between  *)
(* checkpoints and one between rounds, once more for each failure, as long  *)
(* as the maintenance thread makes its rounds (__main__.py:108-118).        *)
LosesOnlyRecent ==
  [][\A i \in DOMAIN commits : i > Len(commits') => ~IsOld(i)]_vars

(* An archive has every commit that was as old as that when it was begun,   *)
(* although it lacks the log, copies a file that may be written meanwhile,  *)
(* and may follow a checkpoint that was cut short (api.py:190-198).         *)
ArchiveHasOld == \A p \in DOMAIN archive : archive[p] >= old
=============================================================================
