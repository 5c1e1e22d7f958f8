------------------------------- MODULE Backups -------------------------------
(***************************************************************************)
(* web/api.py: the archives that requests for a backup leave on the disk,  *)
(* and their pruning to the newest Keep.  Requests overlap; each names its *)
(* archive by the second, writes it, lists the directory and removes what  *)
(* is too much.  What an archive holds is in Store.                        *)
(*                                                                         *)
(* Time is counted in seconds and may step back (the machine has no clock  *)
(* of its own).  Two writes within a second differ in their order.         *)
(***************************************************************************)
EXTENDS Integers, Sequences, FiniteSets, Functions

CONSTANTS
  Savers,     \* requests with save=1 in progress
  Keep,       \* backups.retention, more than 0: pruning is on
  MaxWrites,  \* bound: no archive is opened after so many writes
  MaxTicks,   \* bound: the clock
  MaxFileFaults \* bound: kills, failed writes and removals, steps of the clock

VARIABLES
  clock,
  files,     \* archives: [name, id, mtime, nth]; nth breaks ties of mtime
  saves,     \* requests: what is left to do
  writes,    \* history: [name, id] of the archives opened or finished so far
  finished,  \* history: the archives that were written to their end
  unpruned,  \* history: archives whose request ended without pruning
  muddled,   \* history: has the clock stepped, or two requests used one name?
  fileFaults

history == <<writes, finished, unpruned, muddled>>
Idle    == [step |-> "idle"]

Init ==
  /\ clock = 0 /\ files = {} /\ writes = <<>>
  /\ saves = [s \in Savers |-> Idle]
  /\ finished = {} /\ unpruned = 0 /\ muddled = FALSE /\ fileFaults = 0

Now(s, save) == saves' = [saves EXCEPT ![s] = save]

Fault == fileFaults < MaxFileFaults /\ fileFaults' = fileFaults + 1

Named(name) == {f \in files : f.name = name}

Write(name, id) ==
  /\ writes' = Append(writes, [name |-> name, id |-> id])
  /\ files' = (files \ Named(name)) \union
       {[name |-> name, id |-> id, mtime |-> clock, nth |-> Len(writes')]}

(* The archive is made and named.                                           *)
Begin(s) ==
  /\ saves[s] = Idle
  /\ Now(s, [step |-> "opening", name |-> clock])
  /\ UNCHANGED <<clock, files, history, fileFaults>>

(* write_bytes empties a file of that name if there is one ...              *)
OpenFile(s) ==
  LET id == Len(writes) + 1
  IN  /\ saves[s].step = "opening" /\ id <= MaxWrites
      /\ Write(saves[s].name, id)
      /\ muddled' = (muddled \/ saves[s].name \in {w.name : w \in Range(writes)})
      /\ Now(s, [step |-> "writing", name |-> saves[s].name, id |-> id])
      /\ UNCHANGED <<clock, finished, unpruned, fileFaults>>

(* ... and writes the data.                                                 *)
FinishFile(s) ==
  /\ saves[s].step = "writing"
  /\ {f.id : f \in Named(saves[s].name)} = {saves[s].id}
  /\ Write(saves[s].name, saves[s].id)
  /\ finished' = finished \union {saves[s].id}
  /\ Now(s, [step |-> "listing"])
  /\ UNCHANGED <<clock, unpruned, muddled, fileFaults>>

(* The file has been removed, or opened by another, and is not its own.     *)
FinishInVain(s) ==
  /\ saves[s].step = "writing"
  /\ {f.id : f \in Named(saves[s].name)} # {saves[s].id}
  /\ Now(s, [step |-> "listing"])
  /\ UNCHANGED <<clock, files, history, fileFaults>>

(* The disk is full, or the like: the exception ends the save.              *)
WriteFails(s) ==
  /\ saves[s].step = "writing" /\ Fault
  /\ unpruned' = unpruned + 1
  /\ Now(s, Idle)
  /\ UNCHANGED <<clock, files, writes, finished, muddled>>

ListFiles(s) ==
  /\ saves[s].step = "listing"
  /\ Now(s, [step |-> "sorting", names |-> {f.name : f \in files}])
  /\ UNCHANGED <<clock, files, history, fileFaults>>

(* Mutant of Newer: the oldest come first.                                  *)
NewerReversed(f, g) ==
  f.mtime < g.mtime \/ (f.mtime = g.mtime /\ f.nth < g.nth)

Newer(f, g) == f.mtime > g.mtime \/ (f.mtime = g.mtime /\ f.nth > g.nth)

(* Mutant of TooMany: one more is kept.                                     *)
TooManyLess1(listed) ==
  {f \in listed : Cardinality({g \in listed : Newer(g, f)}) > Keep}

(* files[keep:] of the list sorted by mtime, the newest first.              *)
TooMany(listed) ==
  {f \in listed : Cardinality({g \in listed : Newer(g, f)}) >= Keep}

Listed(s) == {f \in files : f.name \in saves[s].names}

SortFiles(s) ==
  /\ saves[s].step = "sorting"
  /\ Cardinality(Listed(s)) = Cardinality(saves[s].names)
  /\ Now(s, [step  |-> "removing",
             names |-> {f.name : f \in TooMany(Listed(s))}])
  /\ UNCHANGED <<clock, files, history, fileFaults>>

(* stat finds that another request has removed a file.                      *)
SortRaises(s) ==
  /\ saves[s].step = "sorting"
  /\ Cardinality(Listed(s)) < Cardinality(saves[s].names)
  /\ unpruned' = unpruned + 1
  /\ Now(s, Idle)
  /\ UNCHANGED <<clock, files, writes, finished, muddled, fileFaults>>

(* unlink, whose errors are passed over: one left undone counts as a fault. *)
Remove(s, name) ==
  /\ saves[s].step = "removing" /\ name \in saves[s].names
  /\ Now(s, [saves[s] EXCEPT !.names = @ \ {name}])
  /\ \/ files' = files \ Named(name) /\ UNCHANGED <<unpruned, fileFaults>>
     \/ UNCHANGED files /\ Fault /\ unpruned' = unpruned + 1
  /\ UNCHANGED <<clock, writes, finished, muddled>>

Respond(s) ==
  /\ saves[s].step = "removing" /\ saves[s].names = {}
  /\ Now(s, Idle)
  /\ UNCHANGED <<clock, files, history, fileFaults>>

(* The server is killed, with every request in progress.                    *)
Busy == {s \in Savers : saves[s].step \notin {"idle", "opening"}}

KillSavers ==
  /\ \/ Busy = {} /\ UNCHANGED fileFaults
     \/ Busy # {} /\ Fault
  /\ saves' = [s \in Savers |-> Idle]
  /\ unpruned' = unpruned + Cardinality(Busy)
  /\ UNCHANGED <<clock, files, writes, finished, muddled>>

Tick ==
  /\ clock < MaxTicks /\ clock' = clock + 1
  /\ UNCHANGED <<files, saves, history, fileFaults>>

StepBack ==
  /\ clock > 0 /\ Fault
  /\ clock' = clock - 1 /\ muddled' = TRUE
  /\ UNCHANGED <<files, saves, writes, finished, unpruned>>

Next ==
  \/ \E s \in Savers :
       \/ Begin(s) \/ OpenFile(s) \/ FinishFile(s) \/ FinishInVain(s)
       \/ WriteFails(s) \/ ListFiles(s) \/ SortFiles(s) \/ SortRaises(s) \/ Respond(s)
       \/ \E name \in 0..MaxTicks : Remove(s, name)
  \/ KillSavers \/ Tick \/ StepBack

-----------------------------------------------------------------------------
(* No more than Keep archives are on the disk, besides those of requests    *)
(* that have not come to their pruning or have ended without it, however    *)
(* the requests overlap (api.py:207-226).                                   *)
AtMostKeep == Cardinality(files) <= Keep + Cardinality(Busy) + unpruned

(* A finished archive stays until Keep others have been opened or finished  *)
(* since it was opened, whatever requests list and prune meanwhile, if      *)
(* names and times tell archives apart (api.py:207-226, 241-251).           *)
Since(id) == {writes[i].id : i \in id + 1 .. Len(writes)} \ {id}

NewestSurvive ==
  muddled \/ \A id \in finished :
    \/ \E f \in files : f.id = id
    \/ Cardinality(Since(id)) >= Keep
=============================================================================
