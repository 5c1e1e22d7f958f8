------------------------------ MODULE DiskCheck ------------------------------
(***************************************************************************)
(* diskcheck.py: the thread that samples the free space, and the snapshot  *)
(* that the web application shows: the cached one or, while there is none, *)
(* one taken in the thread of the request.                                 *)
(*                                                                         *)
(* Free space is a small number; 0 is a full disk, and also what an amount *)
(* that could not be read is taken for.  The other vitals are left out.    *)
(***************************************************************************)
EXTENDS Integers

CONSTANTS
  LowWater, WarnWater,
  MaxFree,      \* bound: the free space
  MaxMisses     \* bound: snapshots that raise or cannot read the free space

VARIABLES
  stop,     \* _stop
  diskPc,   \* "starting", "priming", "waiting", "storing", "assessing"
  free,     \* the free space on the data filesystem
  state,    \* _state
  sample,   \* the free space as the thread has read it
  last,     \* _last_snapshot: {} or one snapshot
  page,     \* requests that take a snapshot: {} or what one has read so far
  misses

Init ==
  /\ diskPc = "starting" /\ free \in 0..MaxFree /\ state = "ok"
  /\ sample = 0 /\ last = {} /\ page = {} /\ misses = 0

(* Reading the free space, the first part of snapshot.                      *)
Reading(f) ==
  \/ f = free /\ UNCHANGED misses
  \/ f = 0 /\ misses < MaxMisses /\ misses' = misses + 1

Sample ==
  /\ \/ diskPc = "starting" /\ diskPc' = "priming"
     \/ diskPc = "waiting" /\ ~stop /\ diskPc' = "storing"
  /\ \E f \in 0..MaxFree : Reading(f) /\ sample' = f
  /\ UNCHANGED <<stop, free, state, last, page>>

(* snapshot raises: run is started again, or the round is skipped.          *)
SampleRaises ==
  /\ diskPc \in {"starting", "waiting"} /\ misses < MaxMisses
  /\ misses' = misses + 1
  /\ UNCHANGED <<stop, diskPc, free, state, sample, last, page>>

(* The rest of snapshot, which tells the state of the round before: only    *)
(* this thread changes it.                                                  *)
StoreSample ==
  /\ diskPc \in {"priming", "storing"}
  /\ last' = {[free |-> sample, state |-> state]}
  /\ diskPc' = IF diskPc = "priming" THEN "waiting" ELSE "assessing"
  /\ UNCHANGED <<stop, free, state, sample, page, misses>>

(* Mutant of Assess: the state never gets better.                           *)
AssessLatched ==
  /\ diskPc = "assessing"
  /\ state' = IF sample # 0 /\ sample < LowWater THEN "low"
              ELSE IF sample # 0 /\ sample < WarnWater /\ state = "ok" THEN "warn"
              ELSE state
  /\ diskPc' = "waiting"
  /\ UNCHANGED <<stop, free, sample, last, page, misses>>

Assess ==
  /\ diskPc = "assessing"
  /\ state' = IF sample # 0 /\ sample < LowWater THEN "low"
              ELSE IF sample # 0 /\ sample < WarnWater THEN "warn"
              ELSE "ok"
  /\ diskPc' = "waiting"
  /\ UNCHANGED <<stop, free, sample, last, page, misses>>

Thread == Sample \/ SampleRaises \/ StoreSample \/ Assess

(* A request finds no snapshot and takes one of its own: it reads the free  *)
(* space, then the state, and stores both.                                  *)
PageReads ==
  /\ last = {} /\ page = {}
  /\ \E f \in 0..MaxFree :
       Reading(f) /\ page' = {[free |-> f, state |-> "unread"]}
  /\ UNCHANGED <<stop, diskPc, free, state, sample, last>>

PageReadsState ==
  /\ \E p \in page : p.state = "unread" /\ page' = {[p EXCEPT !.state = state]}
  /\ UNCHANGED <<stop, diskPc, free, state, sample, last, misses>>

PageStores ==
  /\ \E p \in page : p.state # "unread" /\ last' = {p}
  /\ page' = {}
  /\ UNCHANGED <<stop, diskPc, free, state, sample, misses>>

Outside ==
  /\ free' \in 0..MaxFree \ {free}
  /\ UNCHANGED <<stop, diskPc, state, sample, last, page, misses>>

Page == PageReadsState \/ PageStores

Next == Thread \/ PageReads \/ Page \/ Outside

-----------------------------------------------------------------------------
Level(f) ==
  IF f < LowWater THEN "low" ELSE IF f < WarnWater THEN "warn" ELSE "ok"

(* What the dashboard shows catches up with the disk, whatever snapshots    *)
(* failed or were taken by requests meanwhile (diskcheck.py:185-216,        *)
(* api.py:290), as long as the disk is not full to the last byte.           *)
ShownCatchesUp ==
  \A f \in 1..MaxFree :
    <>[](free = f /\ ~stop) => <>[](last = {[free |-> f, state |-> Level(f)]})
=============================================================================
