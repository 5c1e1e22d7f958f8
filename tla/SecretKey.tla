------------------------------ MODULE SecretKey ------------------------------
(***************************************************************************)
(* config.py: the key that the web application signs its session cookies   *)
(* with.  The first start draws it and writes it to a file by way of a     *)
(* temporary one, later starts read it from there.  No key is configured.  *)
(*                                                                         *)
(* The process may be killed, and the power may be lost, at any step.  The *)
(* directory is not synced, so a rename may be lost for a while.  systemd  *)
(* starts the server again when it has ended.                              *)
(***************************************************************************)
EXTENDS Integers

CONSTANTS
  MaxKeys,    \* bound: keys drawn; a key is the number of its draw
  MaxFaults   \* bound: failures of fsync or of a later step of the write

VARIABLES
  keyPc,      \* "down", "writing", "serving"
  writable,   \* may the server use the directory (it runs as root, or not)?
  file,       \* what the path holds: None, Part of a key, or a key
  settled,    \* what it surely still holds after a loss of power
  synced,     \* are the file's data on the disk?
  drawn,      \* keys drawn so far
  using,      \* web.secret_key of the running server, or of the last one
  lost,       \* history: what power took since then: "nothing",
              \*   "unsettled", "unsynced"
  keyFaults

None == 0
Part == -1

onDisk  == <<file, settled, synced>>
faults == <<lost, keyFaults>>

Init ==
  /\ keyPc = "down" /\ writable \in BOOLEAN
  /\ file = None /\ settled = None /\ synced = TRUE
  /\ drawn = 0 /\ using = None /\ lost = "nothing" /\ keyFaults = 0

Serve(key) == keyPc' = "serving" /\ using' = key /\ lost' = "nothing"

(* A file that is there is read, whatever it holds.                         *)
ReadKey ==
  /\ keyPc = "down" /\ writable /\ file # None
  /\ Serve(file)
  /\ UNCHANGED <<writable, onDisk, drawn, keyFaults>>

(* PermissionError: a key that is kept nowhere.                             *)
EphemeralKey ==
  /\ keyPc = "down" /\ ~writable /\ drawn < MaxKeys
  /\ drawn' = drawn + 1
  /\ Serve(drawn')
  /\ UNCHANGED <<writable, onDisk, keyFaults>>

(* Mutant of WriteKey: the file itself is written, no temporary one.        *)
WriteKeyInPlace ==
  /\ keyPc = "down" /\ writable /\ file = None /\ drawn < MaxKeys
  /\ drawn' = drawn + 1
  /\ keyPc' = "writing" /\ file' = Part
  /\ UNCHANGED <<writable, settled, synced, using, faults>>

(* The temporary file is written and synced; a failed fsync is passed over. *)
WriteKey ==
  /\ keyPc = "down" /\ writable /\ file = None /\ drawn < MaxKeys
  /\ drawn' = drawn + 1
  /\ keyPc' = "writing"
  /\ \/ synced' = TRUE /\ UNCHANGED keyFaults
     \/ keyFaults < MaxFaults /\ synced' = FALSE /\ keyFaults' = keyFaults + 1
  /\ UNCHANGED <<writable, file, settled, using, lost>>

(* The write or the rename raises: the temporary file is removed and the    *)
(* start fails.                                                             *)
WriteFails ==
  /\ keyPc = "writing" /\ keyFaults < MaxFaults
  /\ keyPc' = "down" /\ synced' = TRUE /\ keyFaults' = keyFaults + 1
  /\ UNCHANGED <<writable, file, settled, drawn, using, lost>>

Replace ==
  /\ keyPc = "writing"
  /\ file' = drawn
  /\ Serve(drawn)
  /\ UNCHANGED <<writable, settled, synced, drawn, keyFaults>>

(* The kernel writes everything back by and by.                             *)
Settle ==
  /\ file # settled
  /\ settled' = file /\ synced' = TRUE
  /\ UNCHANGED <<keyPc, writable, file, drawn, using, faults>>

Kill ==
  /\ keyPc' = "down"
  /\ synced' = (synced \/ keyPc = "writing")
  /\ UNCHANGED <<writable, file, settled, drawn, using, faults>>

(* An unsettled rename is kept or not; a name without its data may be.      *)
PowerLoss ==
  /\ file # settled
  /\ keyPc' = "down" /\ synced' = TRUE
  /\ file' \in {settled, file} \union IF synced THEN {} ELSE {Part}
  /\ settled' = file'
  /\ lost' = IF synced THEN "unsettled" ELSE "unsynced"
  /\ UNCHANGED <<writable, drawn, using, keyFaults>>

Next == \/ ReadKey \/ EphemeralKey \/ WriteKey \/ WriteFails \/ Replace
        \/ Settle \/ Kill \/ PowerLoss

-----------------------------------------------------------------------------
Starts == keyPc # "serving" /\ keyPc' = "serving"

(* A start uses the key of the one before, so sessions survive it; another  *)
(* key only if power was lost before the file had settled, and a part of    *)
(* one only if the fsync had failed as well (config.py:76-121).             *)
KeptBy ==
  Starts /\ writable /\ using # None =>
    \/ using' = using
    \/ using' # Part /\ lost # "nothing"
    \/ using' = Part /\ lost = "unsynced"
=============================================================================
