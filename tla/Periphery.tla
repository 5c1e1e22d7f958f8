------------------------------ MODULE Periphery ------------------------------
(***************************************************************************)
(* The parts of the server beside the path of the sentences: the two       *)
(* self-check threads under their supervisors until main's finally stops   *)
(* both, the secret key, the user's account, the saved archives, the event *)
(* bus and the commands that edit the endpoints.  They share nothing but   *)
(* what the parts' own comments name, so a behaviour follows one of them,  *)
(* and the others stand still.  A supervisor calls run again when the stop *)
(* flag has ended it, and run returns at once: such rounds change nothing. *)
(***************************************************************************)
EXTENDS Integers, Sequences

CONSTANTS
  Parts,      \* the parts that behaviours follow
  FailThreshold, LowWater, WarnWater, MaxFree, MaxMisses,
  MaxKeys, MaxFaults,
  Browsers, Long, Default, MaxCommits,
  Savers, Keep, MaxWrites, MaxTicks, MaxFileFaults,
  Publishers, Readers,
  Names, MaxRows, MaxRequests, MaxPending, MaxEras

ASSUME PartsAssumption ==
  Parts \subseteq {"net", "disk", "key", "account", "backups", "feed", "aisctl"}

ASSUME NetAssumption == FailThreshold \in Nat \ {0}

ASSUME DiskAssumption ==
  LowWater \in Nat /\ WarnWater \in Nat /\ MaxFree \in Nat /\ MaxMisses \in Nat

ASSUME RetentionAssumption == Keep \in Nat \ {0}

(* The password of the first user is too short to be set, and is one.       *)
ASSUME PasswordsAssumption == Default \notin Long /\ Default # "none"

VARIABLES
  followed,   \* the part whose steps are taken
  stop,       \* _stop of netcheck or diskcheck
  host, auto, netPc, fails, iface, profile, probes,
  diskPc, free, state, sample, last, page, misses,
  keyPc, writable, file, settled, synced, drawn, using, lost, keyFaults,
  up, rows, signedIn, asks,
  clock, files, saves, writes, finished, unpruned, muddled, fileFaults,
  feedPc, subscribed,
  era, cookie, endpoints, lastId, made, shown, sent, waits, pending, answer,
  told, did

netVars     == <<host, auto, netPc, fails, iface, profile, probes>>
diskVars    == <<diskPc, free, state, sample, last, page, misses>>
keyVars     == <<keyPc, writable, file, settled, synced, drawn, using, lost,
                 keyFaults>>
accountVars == <<up, rows, signedIn, asks>>
backupVars  == <<clock, files, saves, writes, finished, unpruned, muddled,
                 fileFaults>>
feedVars    == <<feedPc, subscribed>>
aisctlVars  == <<era, cookie, endpoints, lastId, made, shown, sent, waits,
                 pending, answer, told, did>>
vars        == <<followed, stop, netVars, diskVars, keyVars, accountVars,
                 backupVars, feedVars, aisctlVars>>

Net     == INSTANCE NetCheck
Disk    == INSTANCE DiskCheck
Key     == INSTANCE SecretKey
Account == INSTANCE Accounts
Backup  == INSTANCE Backups
Bus     == INSTANCE Feed
Ctl     == INSTANCE Aisctl

(* What a part may start with counts only when it is followed.              *)
Init ==
  /\ followed \in Parts /\ stop = FALSE
  /\ Net!Init /\ Disk!Init /\ Key!Init /\ Account!Init /\ Backup!Init
  /\ Bus!Init /\ Ctl!Init
  /\ followed = "net" \/ (host /\ auto)
  /\ followed = "disk" \/ free = 0
  /\ followed = "key" \/ writable

InNet(A) ==
  /\ followed = "net" /\ A
  /\ UNCHANGED <<followed, diskVars, keyVars, accountVars, backupVars,
                 feedVars, aisctlVars>>

InDisk(A) ==
  /\ followed = "disk" /\ A
  /\ UNCHANGED <<followed, netVars, keyVars, accountVars, backupVars,
                 feedVars, aisctlVars>>

InKey(A) ==
  /\ followed = "key" /\ A
  /\ UNCHANGED <<followed, stop, netVars, diskVars, accountVars, backupVars,
                 feedVars, aisctlVars>>

InAccount(A) ==
  /\ followed = "account" /\ A
  /\ UNCHANGED <<followed, stop, netVars, diskVars, keyVars, backupVars,
                 feedVars, aisctlVars>>

InBackup(A) ==
  /\ followed = "backups" /\ A
  /\ UNCHANGED <<followed, stop, netVars, diskVars, keyVars, accountVars,
                 feedVars, aisctlVars>>

InFeed(A) ==
  /\ followed = "feed" /\ A
  /\ UNCHANGED <<followed, stop, netVars, diskVars, keyVars, accountVars,
                 backupVars, aisctlVars>>

InAisctl(A) ==
  /\ followed = "aisctl" /\ A
  /\ UNCHANGED <<followed, stop, netVars, diskVars, keyVars, accountVars,
                 backupVars, feedVars>>

(* netcheck.stop and diskcheck.stop.                                        *)
Stop ==
  /\ followed \in {"net", "disk"} /\ ~stop /\ stop' = TRUE
  /\ UNCHANGED <<followed, netVars, diskVars, keyVars, accountVars, backupVars,
                 feedVars, aisctlVars>>

Next ==
  \/ InNet(Net!Next) \/ InDisk(Disk!Next) \/ Stop
  \/ InKey(Key!Next) \/ InAccount(Account!Next) \/ InBackup(Backup!Next)
  \/ InFeed(Bus!Next) \/ InAisctl(Ctl!Next)

Spec == Init /\ [][Next]_vars

(* The threads and a request run on; a connect that is tried again and      *)
(* again works some time; the lock is not denied to one for ever, and who   *)
(* has it goes on.  Nothing is assumed of a callback.                       *)
FairSpec ==
  /\ Spec
  /\ WF_vars(InNet(Net!Thread)) /\ SF_vars(InNet(Net!Connect("up")))
  /\ WF_vars(InDisk(Disk!Thread)) /\ WF_vars(InDisk(Disk!Page))
  /\ \A t \in Publishers \union Readers :
       SF_vars(InFeed(Bus!Acquire(t))) /\ WF_vars(InFeed(Bus!Leave(t)))

-----------------------------------------------------------------------------
(* netcheck.py:128-146, see NetCheck.                                       *)
BouncedOnlyWhenDead == Net!BouncedOnlyWhenDead

(* With a host to probe and a network to join, the interface does not stay  *)
(* wedged or down: "the box can heal itself" (netcheck.py:24).              *)
Heals ==
  followed = "net" /\ host /\ auto /\ profile /\ iface # "up"
    ~> iface = "up" \/ stop \/ ~profile

(* diskcheck.py:185-216 and api.py:290, see DiskCheck.                      *)
ShownCatchesUp == followed = "disk" => Disk!ShownCatchesUp

(* A bounce that leaves the interface down is tried again: "worst case      *)
(* we'll try again on the next interval" (netcheck.py:103).                 *)
TriedAgain ==
  followed = "net" /\ netPc = "connecting" /\ iface = "down" /\ profile
    ~> iface = "up" \/ netPc = "disconnecting" \/ stop \/ ~profile

(* config.py:76-121, see SecretKey.                                         *)
KeyKept == [][followed = "key" => Key!KeptBy]_vars

(* db.py:144-207, see Accounts.                                             *)
DefaultOnlyWhileForced == Account!DefaultOnlyWhileForced

(* db.py:179-207, see Accounts.                                             *)
ChangeAuthorised == [][followed = "account" => Account!ChangedBy]_vars

(* api.py:207-226, see Backups.                                             *)
AtMostKeep == Backup!AtMostKeep

(* api.py:207-226 and 241-251, see Backups.                                 *)
NewestSurvive == Backup!NewestSurvive

(* events.py:23-36, see Feed.                                               *)
OthersGoOn == Bus!OthersGoOn

(* db.py:39 and 251-283, see Aisctl.                                        *)
HitsWhatItMeant == [][followed = "aisctl" => Ctl!HitBy]_vars

(* cli.py:70-101 and db.py:279-283, see Aisctl.                             *)
ToldIsDone == Ctl!ToldIsDone
=============================================================================
