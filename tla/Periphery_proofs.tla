---------------------------- MODULE Periphery_proofs ----------------------------
(***************************************************************************)
(* Proofs about the parts of Periphery for any values of its constants.    *)
(* Each part has an inductive invariant of its own, kept by the steps of   *)
(* the part; the steps of the others leave its variables alone.            *)
(***************************************************************************)
EXTENDS Periphery, FiniteSetTheorems, SequenceTheorems, TLAPS

-----------------------------------------------------------------------------
(* A step is one of a part, or leaves the part as it is.                    *)
LEMMA NetOrNot == [Next]_vars => Net!Next \/ UNCHANGED netVars
BY DEF Next, vars, InNet, InDisk, InKey, InAccount, InBackup, InFeed, InAisctl,
       Stop

LEMMA KeyOrNot == [Next]_vars => Key!Next \/ UNCHANGED keyVars
BY DEF Next, vars, InNet, InDisk, InKey, InAccount, InBackup, InFeed, InAisctl,
       Stop

LEMMA AccountOrNot == [Next]_vars => Account!Next \/ UNCHANGED accountVars
BY DEF Next, vars, InNet, InDisk, InKey, InAccount, InBackup, InFeed, InAisctl,
       Stop

LEMMA BackupOrNot == [Next]_vars => Backup!Next \/ UNCHANGED backupVars
BY DEF Next, vars, InNet, InDisk, InKey, InAccount, InBackup, InFeed, InAisctl,
       Stop

LEMMA AisctlOrNot == [Next]_vars => Ctl!Next \/ UNCHANGED aisctlVars
BY DEF Next, vars, InNet, InDisk, InKey, InAccount, InBackup, InFeed, InAisctl,
       Stop

-----------------------------------------------------------------------------
(* NetCheck: the last results since a bounce are as many failures as the    *)
(* counter says, and a bounce begins when they are fail_threshold.          *)
NetInv ==
  /\ probes \in Seq(BOOLEAN) /\ Len(probes) =< FailThreshold
  /\ fails \in 0..Len(probes)
  /\ \A i \in 1..Len(probes) : i > Len(probes) - fails => probes[i] = FALSE
  /\ netPc \in {"waiting", "probing", "disconnecting", "connecting"}
  /\ IF netPc \in {"disconnecting", "connecting"} THEN fails = FailThreshold
                                                  ELSE fails < FailThreshold

(* The oldest result makes room for a new one.                              *)
LEMMA RecordFacts ==
  ASSUME NetInv, NEW r \in BOOLEAN, Net!Record(r)
  PROVE  LET n == Len(probes')
         IN  /\ probes' \in Seq(BOOLEAN)
             /\ n = IF Len(probes) = FailThreshold THEN FailThreshold
                                                   ELSE Len(probes) + 1
             /\ probes'[n] = r
             /\ \A i \in 1..n - 1 : probes'[i] = probes[i + Len(probes) + 1 - n]
<1> DEFINE all == Append(probes, r)
           m   == Len(probes)
<1>1. /\ probes \in Seq(BOOLEAN) /\ m \in Nat /\ m =< FailThreshold
      /\ FailThreshold \in Nat \ {0}
  BY NetAssumption, LenProperties DEF NetInv
<1>2. /\ all \in Seq(BOOLEAN) /\ Len(all) = m + 1 /\ all # <<>>
      /\ \A i \in 1..m : all[i] = probes[i]
      /\ all[m + 1] = r
  BY <1>1, AppendProperties
<1>3. probes' = IF Len(all) > FailThreshold THEN Tail(all) ELSE all
  BY DEF Net!Record
<1>4. /\ Tail(all) \in Seq(BOOLEAN) /\ Len(Tail(all)) = Len(all) - 1
      /\ \A i \in 1..Len(Tail(all)) : Tail(all)[i] = all[i + 1]
  BY <1>2, HeadTailProperties
<1> HIDE DEF all, m
<1>5. CASE m = FailThreshold
  <2>1. probes' = Tail(all) /\ Len(probes') = m
    BY <1>1, <1>2, <1>3, <1>4, <1>5
  <2>2. \A i \in 1..m : probes'[i] = all[i + 1]
    BY <1>4, <2>1
  <2>3. probes'[m] = r /\ \A i \in 1..m - 1 : probes'[i] = probes[i + 1]
    BY <1>1, <1>2, <1>5, <2>2
  <2> QED BY <1>1, <1>4, <1>5, <2>1, <2>3 DEF m
<1>6. CASE m # FailThreshold
  <2>1. probes' = all /\ Len(probes') = m + 1
    BY <1>1, <1>2, <1>3, <1>6
  <2> QED BY <1>1, <1>2, <1>6, <2>1 DEF m
<1> QED BY <1>5, <1>6

LEMMA NetInit == Init => NetInv
BY NetAssumption, EmptySeq DEF Init, Net!Init, NetInv

LEMMA NetNext == NetInv /\ [Next]_vars => NetInv'
<1> SUFFICES ASSUME NetInv, [Next]_vars PROVE NetInv'
  OBVIOUS
<1>1. Len(probes) \in Nat /\ FailThreshold \in Nat \ {0}
  BY NetAssumption, LenProperties DEF NetInv
<1>2. CASE UNCHANGED netVars
  BY <1>2 DEF NetInv, netVars
<1>3. CASE Net!Wake
  BY <1>3 DEF NetInv, Net!Wake
<1>4. CASE Net!ProbeOk
  <2>1. /\ probes' \in Seq(BOOLEAN)
        /\ Len(probes') = IF Len(probes) = FailThreshold THEN FailThreshold
                                                        ELSE Len(probes) + 1
    BY <1>4, RecordFacts DEF Net!ProbeOk
  <2>2. Len(probes') \in Nat /\ Len(probes') =< FailThreshold
    BY <1>1, <2>1 DEF NetInv
  <2>3. fails' = 0 /\ netPc' = "waiting"
    BY <1>4 DEF Net!ProbeOk
  <2>4. \A i \in 1..Len(probes') : ~(i > Len(probes') - fails')
    BY <2>2, <2>3
  <2>5. fails' \in 0..Len(probes') /\ fails' < FailThreshold
    BY <1>1, <2>2, <2>3
  <2> QED BY <2>1, <2>2, <2>3, <2>4, <2>5 DEF NetInv
<1>5. CASE Net!ProbeFails
  <2> DEFINE n == Len(probes')
  <2>1. /\ probes' \in Seq(BOOLEAN)
        /\ n = IF Len(probes) = FailThreshold THEN FailThreshold
                                              ELSE Len(probes) + 1
        /\ probes'[n] = FALSE
        /\ \A i \in 1..n - 1 : probes'[i] = probes[i + Len(probes) + 1 - n]
    BY <1>5, RecordFacts DEF Net!ProbeFails
  <2>2. fails < FailThreshold /\ fails \in 0..Len(probes)
    BY <1>5 DEF NetInv, Net!ProbeFails
  <2> HIDE DEF n
  <2>3. n \in Nat /\ n =< FailThreshold /\ fails + 1 \in 0..n
    BY <1>1, <2>1, <2>2 DEF NetInv
  <2>4. ASSUME NEW i \in 1..n, i > n - (fails + 1) PROVE probes'[i] = FALSE
    <3>1. CASE i = n
      BY <2>1, <3>1
    <3>2. CASE i # n
      <4>0. n - 1 =< Len(probes) /\ n =< Len(probes) + 1
        BY <1>1, <2>1 DEF NetInv
      <4>1. i \in 1..n - 1 /\ i + Len(probes) + 1 - n \in 1..Len(probes)
        BY <1>1, <2>3, <2>4, <3>2, <4>0
      <4>2. i + Len(probes) + 1 - n > Len(probes) - fails
        BY <1>1, <2>2, <2>3, <2>4
      <4> QED BY <2>1, <4>1, <4>2 DEF NetInv
    <3> QED BY <3>1, <3>2
  <2>5. CASE fails + 1 < FailThreshold
    <3>1. fails' = fails + 1 /\ netPc' = "waiting"
      BY <1>5, <2>5 DEF Net!ProbeFails
    <3> QED BY <2>1, <2>3, <2>4, <2>5, <3>1 DEF NetInv, n
  <2>6. CASE ~(fails + 1 < FailThreshold)
    <3>1. \/ fails' = fails + 1 /\ netPc' = "disconnecting"
          \/ fails' = 0 /\ netPc' = "waiting"
      BY <1>5, <2>6 DEF Net!ProbeFails
    <3>2. fails + 1 = FailThreshold
      BY <1>1, <2>2, <2>6
    <3>4. CASE fails' = fails + 1 /\ netPc' = "disconnecting"
      BY <2>1, <2>3, <2>4, <3>2, <3>4 DEF NetInv, n
    <3>5. CASE fails' = 0 /\ netPc' = "waiting"
      <4>1. \A i \in 1..n : ~(i > n - fails')
        BY <2>3, <3>5
      <4> QED BY <1>1, <2>1, <2>3, <3>5, <4>1 DEF NetInv, n
    <3> QED BY <3>1, <3>4, <3>5
  <2> QED BY <2>5, <2>6
<1>6. CASE Net!Disconnect
  BY <1>6 DEF NetInv, Net!Disconnect
<1>7. ASSUME NEW new, Net!Connect(new) PROVE NetInv'
  BY <1>1, <1>7, EmptySeq DEF NetInv, Net!Connect
<1>8. CASE Net!JoinNetwork \/ Net!ForgetNetwork \/ Net!Outside
  BY <1>8 DEF NetInv, Net!JoinNetwork, Net!ForgetNetwork, Net!Outside
<1> QED BY <1>2, <1>3, <1>4, <1>5, <1>6, <1>7, <1>8, NetOrNot
        DEF Net!Next, Net!Thread

(* For any fail_threshold, the interface is taken down only after that many *)
(* failures in a row, with no other bounce among them, whatever joins and   *)
(* forgets the network meanwhile (netcheck.py:128-146).                     *)
THEOREM OnlyDeadIsBounced == Spec => []BouncedOnlyWhenDead
<1>1. NetInv => BouncedOnlyWhenDead
  <2> SUFFICES ASSUME NetInv, netPc \in {"disconnecting", "connecting"}
               PROVE  probes = [i \in 1..FailThreshold |-> FALSE]
    BY DEF BouncedOnlyWhenDead, Net!BouncedOnlyWhenDead
  <2>1. fails = FailThreshold /\ Len(probes) = FailThreshold
    BY NetAssumption, LenProperties DEF NetInv
  <2>2. probes \in [1..FailThreshold -> BOOLEAN]
    BY <2>1, LenProperties DEF NetInv
  <2>3. \A i \in 1..FailThreshold : probes[i] = FALSE
    BY <2>1, NetAssumption DEF NetInv
  <2> QED BY <2>2, <2>3
<1> QED BY <1>1, NetInit, NetNext, PTL DEF Spec

-----------------------------------------------------------------------------
(* SecretKey, where the directory may be used: a file that power has not    *)
(* touched since the last start holds the key of that start.  What a loss   *)
(* of power leaves is settled, so no second one touches it, and it is a     *)
(* part of a key only if that was in use already or the data were not       *)
(* synced.                                                                  *)
KeyInv ==
  writable =>
    /\ drawn \in Nat
    /\ settled \in {Key!None, file}
    /\ lost # "nothing" => file = settled
    /\ keyPc = "serving" => lost = "nothing"
    /\ keyPc = "writing" => file = Key!None /\ drawn > 0
    /\ using # Key!None =>
         \/ lost = "nothing" /\ file = using
         \/ lost # "nothing" /\ (file = Key!Part => file = using \/ lost = "unsynced")

LEMMA KeyInit == Init => KeyInv
BY DEF Init, Key!Init, KeyInv

LEMMA KeyNext == KeyInv /\ [Next]_vars => KeyInv'
<1> SUFFICES ASSUME KeyInv, [Next]_vars, writable' PROVE KeyInv'
  BY DEF KeyInv
<1> USE DEF Key!None, Key!Part
<1>1. CASE UNCHANGED keyVars
  BY <1>1 DEF KeyInv, keyVars
<1>2. CASE Key!ReadKey
  BY <1>2 DEF KeyInv, Key!ReadKey, Key!Serve, Key!onDisk
<1>3. CASE Key!EphemeralKey
  BY <1>3 DEF Key!EphemeralKey
<1>4. CASE Key!WriteKey
  BY <1>4 DEF KeyInv, Key!WriteKey
<1>5. CASE Key!WriteFails
  BY <1>5 DEF KeyInv, Key!WriteFails
<1>6. CASE Key!Replace
  BY <1>6 DEF KeyInv, Key!Replace, Key!Serve
<1>7. CASE Key!Settle
  BY <1>7 DEF KeyInv, Key!Settle, Key!faults
<1>8. CASE Key!Kill
  BY <1>8 DEF KeyInv, Key!Kill, Key!faults
<1>9. CASE Key!PowerLoss
  <2>1. /\ lost = "nothing" /\ (using # Key!None => file = using)
        /\ settled = Key!None /\ file # Key!None
    BY <1>9 DEF KeyInv, Key!PowerLoss
  <2>2. lost' # "nothing" /\ file' = settled' /\ keyPc' = "down"
    BY <1>9 DEF Key!PowerLoss
  <2>3. CASE synced
    BY <1>9, <2>1, <2>2, <2>3 DEF KeyInv, Key!PowerLoss
  <2>4. CASE ~synced
    BY <1>9, <2>1, <2>2, <2>4 DEF KeyInv, Key!PowerLoss
  <2> QED BY <2>3, <2>4
<1> QED BY <1>1, <1>2, <1>3, <1>4, <1>5, <1>6, <1>7, <1>8, <1>9, KeyOrNot
        DEF Key!Next

(* With any number of starts, kills and losses of power, a start uses the   *)
(* key of the one before, another only after power was lost with the file   *)
(* unsettled, and a part of one only if its data were not synced either     *)
(* (config.py:76-121).                                                      *)
THEOREM SessionsSurvive == Spec => KeyKept
<1>1. KeyInv /\ [Next]_vars => Key!KeptBy \/ UNCHANGED vars
  <2> SUFFICES ASSUME KeyInv, [Next]_vars, Key!Starts, writable, using # Key!None
               PROVE  \/ using' = using
                      \/ using' # Key!Part /\ lost # "nothing"
                      \/ using' = Key!Part /\ lost = "unsynced"
    BY DEF Key!KeptBy
  <2>1. Key!Next
    BY KeyOrNot DEF Key!Starts, keyVars
  <2>2. CASE Key!ReadKey
    BY <2>2 DEF KeyInv, Key!ReadKey, Key!Serve
  <2>3. CASE Key!Replace
    BY <2>3 DEF KeyInv, Key!Replace, Key!Serve, Key!None, Key!Part
  <2> QED BY <2>1, <2>2, <2>3
          DEF Key!Starts, Key!Next, Key!EphemeralKey, Key!WriteKey,
              Key!WriteFails, Key!Settle, Key!Kill, Key!PowerLoss
<1>2. KeyInv /\ [Next]_vars => [followed = "key" => Key!KeptBy]_vars
  BY <1>1
<1> QED BY <1>2, KeyInit, KeyNext, PTL DEF Spec, KeyKept

-----------------------------------------------------------------------------
(* Accounts: no state of the row has the default password unforced, and a   *)
(* request that is about to set a password typed the one that it read, from *)
(* the row as it is or from one that has been replaced since it was made.   *)
Passwords == Long \union {Default, "none"}
UserRows  == [pw : Passwords, forced : BOOLEAN]
Logins    == [step : {"reading", "checking"}, for : {"login"},
              typed : Passwords, seen : UserRows]
Changes   == [step : {"reading", "checking", "setting"}, for : {"change"},
              typed : Passwords, new : Passwords, at : Nat, seen : UserRows]

Sincere(ask) ==
  /\ ask.at =< Len(rows)
  /\ ask.step # "reading" => Len(rows) > ask.at \/ ask.seen = rows[Len(rows)]
  /\ ask.step = "setting" => ask.typed = ask.seen.pw /\ ask.new \in Long

AccountInv ==
  /\ rows \in Seq(UserRows) /\ rows # <<>>
  /\ \A n \in 1..Len(rows) : rows[n].pw = Default => rows[n].forced
  /\ asks \in [Browsers -> {Account!Idle} \union Logins \union Changes]
  /\ \A b \in Browsers : asks[b] \in Changes => Sincere(asks[b])

LEMMA AccountInit == Init => AccountInv
<1> SUFFICES ASSUME Init PROVE AccountInv
  OBVIOUS
<1>1. /\ rows = <<Account!NoRow>> /\ Account!NoRow \in UserRows
      /\ asks = [b \in Browsers |-> Account!Idle]
  BY DEF Init, Account!Init, Account!NoRow, UserRows, Passwords
<1>2. Account!Idle \notin Changes
  BY DEF Account!Idle, Changes
<1>3. /\ rows \in Seq(UserRows) /\ Len(rows) = 1
      /\ rows[1] = Account!NoRow /\ rows # <<>>
  BY <1>1
<1>4. \A n \in 1..Len(rows) : rows[n].pw # Default
  BY <1>3, PasswordsAssumption DEF Account!NoRow
<1> QED BY <1>1, <1>2, <1>3, <1>4 DEF AccountInv

(* A row is added, and the one in force has been one of those before.       *)
LEMMA RowFacts ==
  ASSUME AccountInv
  PROVE  /\ Len(rows) \in Nat \ {0} /\ rows[Len(rows)] \in UserRows
         /\ Account!Row = rows[Len(rows)]
<1>1. Len(rows) \in Nat \ {0} /\ rows[Len(rows)] \in UserRows
  BY EmptySeq, LenProperties, ElementOfSeq DEF AccountInv
<1> QED BY <1>1 DEF Account!Row, Account!Last

LEMMA PutFacts ==
  ASSUME AccountInv, NEW row \in UserRows, row.pw = Default => row.forced,
         Account!Put(row)
  PROVE  /\ rows' \in Seq(UserRows) /\ Len(rows') = Len(rows) + 1
         /\ rows' # <<>>
         /\ \A n \in 1..Len(rows') : rows'[n].pw = Default => rows'[n].forced
<1>1. rows \in Seq(UserRows) /\ Len(rows) \in Nat
  BY RowFacts DEF AccountInv
<1>2. rows' = Append(rows, row)
  BY DEF Account!Put
<1>3. /\ rows' \in Seq(UserRows) /\ Len(rows') = Len(rows) + 1 /\ rows' # <<>>
      /\ \A n \in 1..Len(rows) : rows'[n] = rows[n]
      /\ rows'[Len(rows) + 1] = row
  BY <1>1, <1>2, AppendProperties
<1>4. ASSUME NEW n \in 1..Len(rows'), rows'[n].pw = Default
      PROVE  rows'[n].forced
  <2>1. CASE n = Len(rows) + 1
    BY <1>3, <1>4, <2>1
  <2>2. CASE n # Len(rows) + 1
    <3>1. n \in 1..Len(rows)
      BY <1>1, <1>3, <1>4, <2>2
    <3> QED BY <1>3, <1>4, <3>1 DEF AccountInv
  <2> QED BY <2>1, <2>2
<1> QED BY <1>3, <1>4

LEMMA AccountNext == AccountInv /\ [Next]_vars => AccountInv'
<1> SUFFICES ASSUME AccountInv, [Next]_vars PROVE AccountInv'
  OBVIOUS
<1> DEFINE Asks == {Account!Idle} \union Logins \union Changes
<1> USE RowFacts
<1>1. ASSUME UNCHANGED rows, NEW b \in Browsers, NEW ask \in Asks,
             Account!Now(b, ask), ask \in Changes => Sincere(ask)
      PROVE  AccountInv'
  <2>1. asks' = [asks EXCEPT ![b] = ask]
    BY <1>1 DEF Account!Now
  <2>2. \A c \in Browsers : asks'[c] = asks[c] \/ asks'[c] = ask
    BY <2>1 DEF AccountInv
  <2>3. asks' \in [Browsers -> Asks]
    BY <2>1 DEF AccountInv
  <2> QED BY <1>1, <2>2, <2>3 DEF AccountInv, Sincere
<1>2. Account!Idle \in Asks /\ Account!Idle \notin Changes
  BY DEF Account!Idle, Changes
<1>3. ASSUME Len(rows') = Len(rows) + 1, NEW b \in Browsers,
             asks[b] \in Changes, asks'[b] = asks[b]
      PROVE  Sincere(asks[b])'
  <2> DEFINE ask == asks[b]
  <2>1. ask \in Changes /\ Sincere(ask) /\ ask' = ask
    BY <1>3 DEF AccountInv
  <2> HIDE DEF ask
  <2>2. ask'.at =< Len(rows') /\ (ask'.step # "reading" => Len(rows') > ask'.at)
    BY <1>3, <2>1 DEF Sincere, Changes
  <2>3. ask'.step = "setting" => ask'.typed = ask'.seen.pw /\ ask'.new \in Long
    BY <2>1 DEF Sincere
  <2> QED BY <2>1, <2>2, <2>3 DEF Sincere, ask
<1>4. CASE UNCHANGED accountVars
  BY <1>4 DEF AccountInv, accountVars, Sincere
<1>5. CASE Account!Start
  <2>1. CASE UNCHANGED rows
    BY <1>5, <2>1 DEF AccountInv, Account!Start, Sincere
  <2>2. CASE Account!Put([pw |-> Default, forced |-> TRUE])
    <3>1. [pw |-> Default, forced |-> TRUE] \in UserRows
      BY DEF UserRows, Passwords
    <3>2. /\ rows' \in Seq(UserRows) /\ Len(rows') = Len(rows) + 1
          /\ rows' # <<>>
          /\ \A n \in 1..Len(rows') : rows'[n].pw = Default => rows'[n].forced
      BY <2>2, <3>1, PutFacts
    <3>3. asks' = asks
      BY <1>5 DEF Account!Start
    <3> QED BY <1>3, <3>2, <3>3 DEF AccountInv
  <2> QED BY <1>5, <2>1, <2>2 DEF Account!Start
<1>6. ASSUME NEW b \in Browsers, NEW typed \in Long \union {Default},
             Account!AskLogin(b, typed)
      PROVE  AccountInv'
  <2> DEFINE ask == [step |-> "reading", for |-> "login", typed |-> typed,
                     seen |-> Account!NoRow]
  <2>1. ask \in Asks /\ ask \notin Changes
    BY DEF Logins, Changes, Passwords, UserRows, Account!NoRow
  <2>2. UNCHANGED rows /\ Account!Now(b, ask)
    BY <1>6 DEF Account!AskLogin
  <2> HIDE DEF ask, Asks
  <2> QED BY <1>1, <2>1, <2>2
<1>7. ASSUME NEW b \in Browsers, NEW typed \in Long \union {Default},
             NEW new \in Long \union {Default}, Account!AskChange(b, typed, new)
      PROVE  AccountInv'
  <2> DEFINE ask == [step |-> "reading", for |-> "change", typed |-> typed,
                     new |-> new, at |-> Len(rows), seen |-> Account!NoRow]
  <2>1. ask \in Changes /\ Sincere(ask)
    BY DEF Changes, Passwords, UserRows, Account!NoRow, Sincere
  <2>2. UNCHANGED rows /\ Account!Now(b, ask)
    BY <1>7 DEF Account!AskChange
  <2>3. ask \in Asks
    BY <2>1
  <2> HIDE DEF ask, Asks
  <2> QED BY <1>1, <2>1, <2>2, <2>3
<1>8. ASSUME NEW b \in Browsers, Account!ReadRow(b) PROVE AccountInv'
  <2> DEFINE old == asks[b]
             ask == [old EXCEPT !.step = "checking", !.seen = Account!Row]
  <2>1. UNCHANGED rows /\ Account!Now(b, ask) /\ old.step = "reading"
    BY <1>8 DEF Account!ReadRow
  <2>2. old \in Asks /\ old # Account!Idle
    BY <2>1 DEF AccountInv, Account!Idle
  <2>3. CASE old \in Logins
    <3>1. ask \in Logins /\ ask \notin Changes
      BY <2>3 DEF Logins, Changes
    <3> HIDE DEF ask
    <3> QED BY <1>1, <2>1, <3>1
  <2>4. CASE old \in Changes
    <3>1. Sincere(old)
      BY <2>4 DEF AccountInv
    <3>2. /\ ask \in Changes /\ ask.at = old.at /\ ask.step = "checking"
          /\ ask.seen = Account!Row
      BY <2>4 DEF Changes
    <3> HIDE DEF ask
    <3>3. Sincere(ask)
      BY <3>1, <3>2 DEF Sincere
    <3> QED BY <1>1, <2>1, <3>2, <3>3
  <2> QED BY <2>2, <2>3, <2>4
<1>9. ASSUME NEW b \in Browsers,
             Account!CheckFails(b) \/ Account!Login(b) \/ Account!SignOut(b)
      PROVE  AccountInv'
  <2>1. CASE UNCHANGED rows /\ Account!Now(b, Account!Idle)
    <3> HIDE DEF Asks
    <3> QED BY <1>1, <1>2, <2>1
  <2>2. CASE UNCHANGED <<rows, asks>>
    BY <2>2 DEF AccountInv, Sincere
  <2> QED BY <1>9, <2>1, <2>2
          DEF Account!CheckFails, Account!Login, Account!SignOut
<1>10. ASSUME NEW b \in Browsers, Account!Check(b) PROVE AccountInv'
  <2> DEFINE old == asks[b]
             ask == [old EXCEPT !.step = "setting"]
  <2>1. /\ UNCHANGED rows /\ Account!Now(b, ask)
        /\ old.step = "checking" /\ old.for = "change"
        /\ old.typed = old.seen.pw /\ old.new \in Long
    BY <1>10 DEF Account!Check, Account!Matches, Account!Acceptable
  <2>2. old \in Changes /\ Sincere(old)
    BY <2>1 DEF AccountInv, Account!Idle, Logins
  <2>3. /\ ask \in Changes /\ ask.at = old.at /\ ask.step = "setting"
        /\ ask.seen = old.seen /\ ask.typed = old.typed /\ ask.new = old.new
    BY <2>2 DEF Changes
  <2> HIDE DEF ask, old
  <2>4. Sincere(ask)
    BY <2>1, <2>2, <2>3 DEF Sincere
  <2> QED BY <1>1, <2>1, <2>3, <2>4
<1>11. ASSUME NEW b \in Browsers, Account!SetPassword(b) PROVE AccountInv'
  <2> DEFINE old == asks[b]
             row == [pw |-> old.new, forced |-> FALSE]
  <2>1. /\ old.step = "setting" /\ Account!Put(row)
        /\ asks' = [asks EXCEPT ![b] = Account!Idle]
    BY <1>11 DEF Account!SetPassword, Account!Now
  <2>2. old \in Changes /\ Sincere(old)
    BY <2>1 DEF AccountInv, Account!Idle, Logins
  <2>3. old.new \in Long
    BY <2>1, <2>2 DEF Sincere
  <2>4. row \in UserRows /\ row.pw # Default
    BY <2>3, PasswordsAssumption DEF UserRows, Passwords
  <2> HIDE DEF row
  <2>5. /\ rows' \in Seq(UserRows) /\ Len(rows') = Len(rows) + 1
        /\ rows' # <<>>
        /\ \A n \in 1..Len(rows') : rows'[n].pw = Default => rows'[n].forced
    BY <2>1, <2>4, PutFacts
  <2>6. /\ asks' \in [Browsers -> Asks]
        /\ \A c \in Browsers : asks'[c] = asks[c] \/ asks'[c] = Account!Idle
    BY <2>1 DEF AccountInv
  <2> QED BY <1>2, <1>3, <2>5, <2>6 DEF AccountInv
<1>12. ASSUME Account!Stopped, rows' \in Seq(UserRows), rows' # <<>>,
              \A n \in 1..Len(rows') : rows'[n].pw = Default => rows'[n].forced
       PROVE  AccountInv'
  BY <1>2, <1>12 DEF AccountInv, Account!Stopped
<1>13. CASE Account!Kill
  BY <1>12, <1>13 DEF AccountInv, Account!Kill
<1>14. CASE Account!PowerLoss
  <2>1. PICK n \in 1..Len(rows) : rows' = SubSeq(rows, 1, n)
    BY <1>14 DEF Account!PowerLoss
  <2>2. \A i \in 1..n : rows[i] \in UserRows
    BY ElementOfSeq DEF AccountInv
  <2>3. /\ rows' \in Seq(UserRows) /\ Len(rows') = n
        /\ \A i \in 1..n : rows'[i] = rows[i]
    BY <2>1, <2>2, SubSeqProperties
  <2>4. rows' # <<>> /\ \A i \in 1..n : i \in 1..Len(rows)
    BY <2>3
  <2> QED BY <1>12, <1>14, <2>3, <2>4 DEF AccountInv, Account!PowerLoss
<1> QED BY <1>4, <1>5, <1>6, <1>7, <1>8, <1>9, <1>10, <1>11, <1>13, <1>14,
           AccountOrNot DEF Account!Next

(* However logins, changes, kills and losses of power interleave, the       *)
(* default password is in force only while it has to be changed             *)
(* (db.py:144-207).                                                         *)
THEOREM DefaultIsForced == Spec => []DefaultOnlyWhileForced
<1>1. AccountInv => DefaultOnlyWhileForced
  BY RowFacts DEF AccountInv, DefaultOnlyWhileForced,
                  Account!DefaultOnlyWhileForced
<1> QED BY <1>1, AccountInit, AccountNext, PTL DEF Spec

(* For any number of browsers, a change replaces the password that its      *)
(* requester typed, or one set since it asked (db.py:179-207).              *)
THEOREM ChangesAreAuthorised == Spec => ChangeAuthorised
<1>1. AccountInv /\ [Next]_vars => Account!ChangedBy
  <2> SUFFICES ASSUME AccountInv, [Next]_vars, NEW b \in Browsers,
                      asks[b].step = "setting", rows' # rows, up'
               PROVE  Account!Row.pw = asks[b].typed \/ Len(rows) > asks[b].at
    BY DEF Account!ChangedBy
  <2>1. asks[b] \in Changes /\ Sincere(asks[b])
    BY DEF AccountInv, Account!Idle, Logins
  <2> QED BY <2>1, RowFacts DEF Sincere
<1>2. AccountInv /\ [Next]_vars => [followed = "account" => Account!ChangedBy]_vars
  BY <1>1
<1> QED BY <1>2, AccountInit, AccountNext, PTL DEF Spec, ChangeAuthorised

-----------------------------------------------------------------------------
(* Aisctl, the ids: with AUTOINCREMENT the id of a row is its number among  *)
(* all rows ever made, in the table, in what the operator has listed or     *)
(* will list, and in the requests on their way.                             *)
Called   == Names \union {""}
Rows     == {row \in [id : Nat, nth : Nat, name : Called, on : BOOLEAN] :
               row.id = row.nth}
Ids      == {row \in [id : Nat, nth : Nat] : row.id = row.nth}
Ops      == {"list", "add", "enable", "disable", "delete"}
Requests == {r \in [no : Nat, op : Ops, name : Called, id : Nat, meant : Nat,
                    cookie : Nat] : r.id = r.meant}

IdsInv ==
  /\ era \in Nat /\ cookie \in Nat /\ sent \in Nat /\ made \in Nat
  /\ lastId = made
  /\ endpoints \subseteq Rows
  /\ shown \subseteq Ids
  /\ pending \subseteq Requests
  /\ answer # Ctl!Nothing => answer.lists \subseteq Ids

LEMMA IdsInit == Init => IdsInv
BY DEF Init, Ctl!Init, IdsInv

LEMMA InsertFacts ==
  ASSUME IdsInv, NEW name \in Called, Ctl!Insert(name)
  PROVE  made' \in Nat /\ lastId' = made' /\ endpoints' \subseteq Rows
<1> DEFINE row == [id |-> lastId + 1, nth |-> made + 1, name |-> name,
                   on |-> TRUE]
<1>1. row \in Rows
  BY DEF IdsInv, Rows
<1>2. endpoints' = endpoints \union {row}
  BY DEF Ctl!Insert, Ctl!NewId
<1>3. made' \in Nat /\ lastId' = made'
  BY DEF IdsInv, Ctl!Insert, Ctl!NewId
<1> HIDE DEF row
<1> QED BY <1>1, <1>2, <1>3 DEF IdsInv

(* What a served request leaves of the lists and the requests.              *)
LEMMA ServedIds ==
  ASSUME IdsInv, NEW r \in pending, NEW said, Ctl!Served(r, said)
  PROVE  /\ era' = era /\ cookie' = cookie /\ sent' = sent /\ shown' = shown
         /\ pending' \subseteq Requests
         /\ answer' # Ctl!Nothing => answer'.lists \subseteq Ids
<1>1. /\ era' = era /\ cookie' = cookie /\ sent' = sent /\ shown' = shown
      /\ pending' \subseteq Requests
  BY DEF Ctl!Served, Ctl!client, IdsInv
<1>2. Ctl!Listing \subseteq Ids
  BY DEF Ctl!Listing, IdsInv, Rows, Ids
<1>3. answer' = answer \/ answer'.lists = Ctl!Listing \/ answer'.lists = shown
  BY DEF Ctl!Served
<1> QED BY <1>1, <1>2, <1>3 DEF IdsInv

LEMMA IdsNext == IdsInv /\ [Next]_vars => IdsInv'
<1> SUFFICES ASSUME IdsInv, [Next]_vars PROVE IdsInv'
  OBVIOUS
<1>1. CASE UNCHANGED aisctlVars
  BY <1>1 DEF IdsInv, aisctlVars
<1>2. CASE Ctl!Login \/ Ctl!Logout \/ Ctl!SessionsEnd
  BY <1>2 DEF IdsInv, Ctl!Login, Ctl!Logout, Ctl!SessionsEnd, Ctl!table,
              Ctl!client
<1>3. CASE Ctl!Command
  <2>1. PICK op \in Ops, name \in Called, row \in Ids : Ctl!Send(op, name, row)
    BY <1>3 DEF Ctl!Command, Ctl!Toggles, Ctl!NoRow, Ops, Called, Ids, IdsInv
  <2> DEFINE r == [no |-> sent + 1, op |-> op, name |-> name, id |-> row.id,
                   meant |-> row.nth, cookie |-> cookie]
  <2>2. r \in Requests
    BY <2>1 DEF IdsInv, Requests, Ids
  <2>3. pending' = pending \union {r}
    BY <2>1 DEF Ctl!Send
  <2> HIDE DEF r
  <2> QED BY <2>1, <2>2, <2>3 DEF IdsInv, Ctl!Send, Ctl!table
<1>4. CASE Ctl!TakeAnswer \/ Ctl!TimeOut
  BY <1>4 DEF IdsInv, Ctl!TakeAnswer, Ctl!TimeOut, Ctl!Ends, Ctl!table
<1>5. CASE Ctl!Kill
  BY <1>5 DEF IdsInv, Ctl!Kill, Ctl!table, Ctl!client
<1>6. ASSUME NEW r \in pending, NEW said, Ctl!Served(r, said),
             made' \in Nat, lastId' = made', endpoints' \subseteq Rows
      PROVE  IdsInv'
  BY <1>6, ServedIds DEF IdsInv
<1>7. ASSUME NEW r \in pending,
             \/ Ctl!Redirect(r) \/ Ctl!List(r) \/ Ctl!AddTaken(r)
             \/ Ctl!NoSuchRow(r) \/ Ctl!Delete(r)
      PROVE  IdsInv'
  <2>1. made' = made /\ lastId' = lastId /\ endpoints' \subseteq endpoints
    BY <1>7 DEF Ctl!Redirect, Ctl!List, Ctl!AddTaken, Ctl!NoSuchRow,
                Ctl!Delete, Ctl!table
  <2>2. \E said : Ctl!Served(r, said)
    BY <1>7 DEF Ctl!Redirect, Ctl!List, Ctl!AddTaken, Ctl!NoSuchRow,
                Ctl!Delete, Ctl!Done
  <2> QED BY <1>6, <2>1, <2>2 DEF IdsInv
<1>8. ASSUME NEW r \in pending, Ctl!Add(r) PROVE IdsInv'
  <2>1. r.name \in Called
    BY DEF IdsInv, Requests
  <2> QED BY <1>6, <1>8, <2>1, InsertFacts DEF Ctl!Add, Ctl!Done
<1>9. ASSUME NEW r \in pending, Ctl!Update(r) PROVE IdsInv'
  <2>1. \A row \in Rows, on \in BOOLEAN : [row EXCEPT !.on = on] \in Rows
    BY DEF Rows
  <2>2. endpoints' \subseteq Rows
    BY <1>9, <2>1 DEF Ctl!Update, Ctl!At, IdsInv
  <2> QED BY <1>6, <1>9, <2>2 DEF IdsInv, Ctl!Update, Ctl!Done
<1>10. ASSUME NEW name \in Names, Ctl!OtherAdds(name) PROVE IdsInv'
  <2>1. made' \in Nat /\ lastId' = made' /\ endpoints' \subseteq Rows
    BY <1>10, InsertFacts DEF Ctl!OtherAdds, Called
  <2> QED BY <1>10, <2>1 DEF IdsInv, Ctl!OtherAdds, Ctl!client
<1>11. ASSUME NEW row \in endpoints, Ctl!OtherDeletes(row) PROVE IdsInv'
  BY <1>11 DEF IdsInv, Ctl!OtherDeletes, Ctl!client
<1> QED BY <1>1, <1>2, <1>3, <1>4, <1>5, <1>7, <1>8, <1>9, <1>10, <1>11,
           AisctlOrNot DEF Ctl!Next

(* For any number of rows, requests and sessions, a request changes only    *)
(* the row that its operator saw under the id (db.py:39, 251-283).          *)
THEOREM RequestsHitTheirRow == Spec => HitsWhatItMeant
<1>1. IdsInv /\ [Next]_vars => Ctl!HitBy
  <2> SUFFICES ASSUME IdsInv, [Next]_vars,
                      NEW r \in pending, r \notin pending', r.op # "add",
                      NEW row \in endpoints, row \notin endpoints'
               PROVE  row.nth = r.meant
    BY DEF Ctl!HitBy
  <2>1. row.id = row.nth /\ r.id = r.meant
    BY DEF IdsInv, Rows, Requests
  <2>2. Ctl!Next
    BY AisctlOrNot DEF aisctlVars
  <2>3. PICK q \in pending : Ctl!Update(q) \/ Ctl!Delete(q)
    BY <2>2 DEF Ctl!Next, Ctl!Login, Ctl!Logout, Ctl!SessionsEnd, Ctl!Command,
         Ctl!Send, Ctl!TakeAnswer, Ctl!TimeOut, Ctl!Ends, Ctl!Kill,
         Ctl!Redirect, Ctl!List, Ctl!Add, Ctl!Insert, Ctl!AddTaken,
         Ctl!NoSuchRow, Ctl!OtherAdds, Ctl!OtherDeletes, Ctl!table
  <2>4. pending' = pending \ {q}
    BY <2>3 DEF Ctl!Update, Ctl!Delete, Ctl!Done, Ctl!Served
  <2>5. q = r /\ row \in Ctl!At(q)
    BY <2>3, <2>4 DEF Ctl!Update, Ctl!Delete
  <2> QED BY <2>1, <2>5 DEF Ctl!At
<1>2. IdsInv /\ [Next]_vars => [followed = "aisctl" => Ctl!HitBy]_vars
  BY <1>1
<1> QED BY <1>2, IdsInit, IdsNext, PTL DEF Spec, HitsWhatItMeant

-----------------------------------------------------------------------------
(* Aisctl, the answers: a request on its way has not been carried out, and  *)
(* is told apart by its number; the answer that the command waits for is    *)
(* that of its own request, which is on its way no longer.                  *)
AnswersInv ==
  /\ sent \in Nat /\ did \subseteq 1..sent
  /\ \A r \in pending : r.no \in 1..sent /\ r.no \notin did
  /\ \A q, r \in pending : q.no = r.no => q = r
  /\ told.no \in 0..sent /\ (waits => told.no < sent)
  /\ answer # Ctl!Nothing =>
       /\ waits
       /\ \A r \in pending : r.no # sent
       /\ answer.said = "ok" => sent \in did
       /\ answer.said \in {"refused", "empty"} => sent \notin did
  /\ ToldIsDone

LEMMA AnswersInit == Init => AnswersInv
BY DEF Init, Ctl!Init, AnswersInv, ToldIsDone, Ctl!ToldIsDone

(* A request is served: it was carried out if the answer is ok, and was not *)
(* if it is anything else.                                                  *)
LEMMA ServedAnswers ==
  ASSUME AnswersInv, NEW r \in pending, NEW said, Ctl!Served(r, said),
         \/ said = "ok" /\ did' = did \union {r.no}
         \/ said # "ok" /\ did' = did
  PROVE  AnswersInv'
<1>1. /\ pending' = pending \ {r} /\ sent' = sent /\ waits' = waits
      /\ told' = told
  BY DEF Ctl!Served, Ctl!client
<1>2. r.no \in 1..sent /\ r.no \notin did /\ sent \in Nat
  BY DEF AnswersInv
<1>3. \A q \in pending' : q.no # r.no
  BY <1>1 DEF AnswersInv
<1>4. /\ did' \subseteq 1..sent
      /\ \A q \in pending' : q.no \in 1..sent /\ q.no \notin did'
  BY <1>1, <1>2, <1>3 DEF AnswersInv
<1>5. ToldIsDone'
  <2>1. told.said = "ok" => told.no \in did'
    BY DEF AnswersInv, ToldIsDone, Ctl!ToldIsDone
  <2>2. ASSUME told.said \in {"refused", "empty"}
        PROVE  told.no \notin did' /\ \A q \in pending' : q.no # told.no
    BY <1>1, <2>2 DEF AnswersInv, ToldIsDone, Ctl!ToldIsDone
  <2> QED BY <1>1, <2>1, <2>2 DEF ToldIsDone, Ctl!ToldIsDone
<1>6. ASSUME answer' # Ctl!Nothing
      PROVE  /\ waits
             /\ \A q \in pending' : q.no # sent
             /\ answer'.said = "ok" => sent \in did'
             /\ answer'.said \in {"refused", "empty"} => sent \notin did'
  <2>1. CASE ~waits \/ r.no # sent
    <3>1. answer' = answer
      BY <2>1 DEF Ctl!Served
    <3> QED BY <1>1, <1>6, <2>1, <3>1 DEF AnswersInv
  <2>2. CASE waits /\ r.no = sent
    <3>1. answer'.said = said
      BY <2>2 DEF Ctl!Served
    <3> QED BY <1>2, <1>3, <2>2, <3>1
  <2> QED BY <2>1, <2>2
<1> QED BY <1>1, <1>4, <1>5, <1>6 DEF AnswersInv

LEMMA AnswersNext == AnswersInv /\ [Next]_vars => AnswersInv'
<1> SUFFICES ASSUME AnswersInv, [Next]_vars PROVE AnswersInv'
  OBVIOUS
<1> USE DEF ToldIsDone, Ctl!ToldIsDone
<1>1. CASE UNCHANGED <<sent, waits, pending, answer, told, did>>
  BY <1>1 DEF AnswersInv
<1>2. CASE Ctl!Command
  <2>1. PICK op, name, row : Ctl!Send(op, name, row)
    BY <1>2 DEF Ctl!Command
  <2>2. /\ sent' = sent + 1 /\ waits' = TRUE /\ answer' = Ctl!Nothing
        /\ told' = told /\ did' = did
    BY <2>1 DEF Ctl!Send, Ctl!table
  <2>3. PICK r : r.no = sent + 1 /\ pending' = pending \union {r}
    BY <2>1 DEF Ctl!Send
  <2>4. sent \in Nat /\ told.no \in 0..sent /\ did \subseteq 1..sent
    BY DEF AnswersInv
  <2>5. told.no < sent + 1 /\ told.no \in 0..sent + 1 /\ sent + 1 \in Nat
    BY <2>4
  <2>6. did \subseteq 1..sent + 1 /\ sent + 1 \notin did
    BY <2>4
  <2>7. \A q \in pending : q.no \in 1..sent + 1 /\ q.no # sent + 1
    BY <2>4 DEF AnswersInv
  <2>8. sent + 1 \in 1..sent + 1 /\ sent + 1 # told.no
    BY <2>4
  <2> QED BY <2>2, <2>3, <2>5, <2>6, <2>7, <2>8 DEF AnswersInv
<1>3. CASE Ctl!TakeAnswer \/ Ctl!TimeOut
  <2>1. /\ UNCHANGED <<sent, pending, did>> /\ waits' = FALSE
        /\ answer' = Ctl!Nothing /\ told'.no = sent
    BY <1>3 DEF Ctl!TakeAnswer, Ctl!TimeOut, Ctl!Ends, Ctl!table
  <2>2. \/ answer # Ctl!Nothing /\ told'.said = answer.said
        \/ told'.said = "error"
    BY <1>3 DEF Ctl!TakeAnswer, Ctl!TimeOut, Ctl!Ends
  <2> QED BY <2>1, <2>2 DEF AnswersInv
<1>4. CASE Ctl!Kill
  BY <1>4 DEF AnswersInv, Ctl!Kill, Ctl!table, Ctl!client
<1>5. ASSUME NEW r \in pending,
             \/ Ctl!Redirect(r) \/ Ctl!AddTaken(r) \/ Ctl!NoSuchRow(r)
      PROVE  AnswersInv'
  <2>1. did' = did /\ \E said : said # "ok" /\ Ctl!Served(r, said)
    BY <1>5 DEF Ctl!Redirect, Ctl!AddTaken, Ctl!NoSuchRow, Ctl!table
  <2> QED BY <2>1, ServedAnswers
<1>6. ASSUME NEW r \in pending,
             \/ Ctl!List(r) \/ Ctl!Add(r) \/ Ctl!Update(r) \/ Ctl!Delete(r)
      PROVE  AnswersInv'
  <2>1. did' = did \union {r.no} /\ Ctl!Served(r, "ok")
    BY <1>6 DEF Ctl!List, Ctl!Add, Ctl!Update, Ctl!Delete, Ctl!Done
  <2> QED BY <2>1, ServedAnswers
<1>7. CASE \/ Ctl!Login \/ Ctl!Logout \/ Ctl!SessionsEnd
           \/ \E name \in Names : Ctl!OtherAdds(name)
           \/ \E row \in endpoints : Ctl!OtherDeletes(row)
  BY <1>1, <1>7 DEF Ctl!Login, Ctl!Logout, Ctl!SessionsEnd, Ctl!OtherAdds,
                    Ctl!OtherDeletes, Ctl!client, Ctl!table
<1>8. CASE UNCHANGED aisctlVars
  BY <1>1, <1>8 DEF aisctlVars
<1> QED BY <1>2, <1>3, <1>4, <1>5, <1>6, <1>7, <1>8, AisctlOrNot DEF Ctl!Next

(* However late the requests are served, and whatever times out, what the   *)
(* operator is told of a command is so (cli.py:70-101, db.py:279-283).      *)
THEOREM AnswersAreTrue == Spec => []ToldIsDone
<1>1. AnswersInv => ToldIsDone
  BY DEF AnswersInv
<1> QED BY <1>1, AnswersInit, AnswersNext, PTL DEF Spec

-----------------------------------------------------------------------------
(* Backups: names, writes and places in the order tell the archives apart.  *)
Archives == [name : Nat, id : Nat, mtime : Nat, nth : Nat]
Saves    == [step : {"idle", "listing"}]
            \union [step : {"opening"}, name : Nat]
            \union [step : {"writing"}, name : Nat, id : Nat]
            \union [step : {"sorting", "removing"}, names : SUBSET Nat]

Prunes(save) == save.step \in {"sorting", "removing"}

ArchivesInv ==
  /\ clock \in Nat /\ unpruned \in Nat /\ muddled \in BOOLEAN
  /\ writes \in Seq([name : Nat, id : Nat])
  /\ saves \in [Savers -> Saves] /\ IsFiniteSet(Backup!Busy)
  /\ IsFiniteSet(files) /\ files \subseteq Archives
  /\ \A f \in files : f.id \in 1..Len(writes) /\ f.nth \in 1..Len(writes)
  /\ \A f, g \in files :
       f.name = g.name \/ f.id = g.id \/ f.nth = g.nth => f = g

(* The instance counts as this module does.                                 *)
LEMMA SameCard == \A S : Backup!Cardinality(S) = Cardinality(S)
BY DEF Backup!Cardinality, Cardinality

LEMMA Lengths == ArchivesInv => Len(writes) \in Nat
BY LenProperties DEF ArchivesInv

LEMMA ArchivesInit == Init => ArchivesInv
<1> SUFFICES ASSUME Init PROVE ArchivesInv
  OBVIOUS
<1>1. Backup!Busy = {}
  BY DEF Init, Backup!Init, Backup!Idle, Backup!Busy
<1>2. saves \in [Savers -> Saves]
  BY DEF Init, Backup!Init, Backup!Idle, Saves
<1> QED BY <1>1, <1>2, FS_EmptySet, EmptySeq
        DEF Init, Backup!Init, ArchivesInv

(* One saver goes on.                                                       *)
LEMMA NowFacts ==
  ASSUME ArchivesInv, NEW p \in Savers, NEW save \in Saves, Backup!Now(p, save)
  PROVE  /\ saves' \in [Savers -> Saves]
         /\ saves'[p] = save
         /\ \A s \in Savers \ {p} : saves'[s] = saves[s]
         /\ Backup!Busy' = IF save.step \in {"idle", "opening"}
                             THEN Backup!Busy \ {p} ELSE Backup!Busy \union {p}
         /\ IsFiniteSet(Backup!Busy')
<1>1. /\ saves' \in [Savers -> Saves] /\ saves'[p] = save
      /\ \A s \in Savers \ {p} : saves'[s] = saves[s]
  BY DEF ArchivesInv, Backup!Now
<1>2. Backup!Busy' = IF save.step \in {"idle", "opening"}
                       THEN Backup!Busy \ {p} ELSE Backup!Busy \union {p}
  BY <1>1 DEF Backup!Busy
<1>3. IsFiniteSet(Backup!Busy')
  BY <1>2, FS_AddElement, FS_RemoveElement DEF ArchivesInv
<1> QED BY <1>1, <1>2, <1>3

(* A write under the name of its own file, or of a new one.                 *)
LEMMA WriteFacts ==
  ASSUME ArchivesInv, NEW name \in Nat, NEW id \in 1..Len(writes) + 1,
         Backup!Write(name, id), \A f \in files : f.id = id => f.name = name
  PROVE  LET new == [name |-> name, id |-> id, mtime |-> clock,
                     nth |-> Len(writes) + 1]
         IN  /\ writes' \in Seq([name : Nat, id : Nat])
             /\ Len(writes') = Len(writes) + 1
             /\ \A i \in 1..Len(writes) : writes'[i] = writes[i]
             /\ writes'[Len(writes) + 1] = [name |-> name, id |-> id]
             /\ files' = (files \ Backup!Named(name)) \union {new}
             /\ IsFiniteSet(files') /\ files' \subseteq Archives
             /\ \A f \in files' : f.id \in 1..Len(writes') /\ f.nth \in 1..Len(writes')
             /\ \A f, g \in files' :
                  f.name = g.name \/ f.id = g.id \/ f.nth = g.nth => f = g
<1> DEFINE n   == Len(writes)
           new == [name |-> name, id |-> id, mtime |-> clock, nth |-> n + 1]
           old == files \ Backup!Named(name)
<1>1. n \in Nat /\ clock \in Nat /\ id \in Nat
  BY Lengths DEF ArchivesInv
<1>2. /\ writes' \in Seq([name : Nat, id : Nat]) /\ Len(writes') = n + 1
      /\ \A i \in 1..n : writes'[i] = writes[i]
      /\ writes'[n + 1] = [name |-> name, id |-> id]
  <2>1. [name |-> name, id |-> id] \in [name : Nat, id : Nat]
    BY <1>1
  <2>2. /\ writes \in Seq([name : Nat, id : Nat])
        /\ writes' = Append(writes, [name |-> name, id |-> id])
    BY DEF ArchivesInv, Backup!Write
  <2> QED BY <2>1, <2>2, AppendProperties
<1>3. files' = old \union {new}
  BY <1>2 DEF Backup!Write
<1>4. new \in Archives /\ new.name = name /\ new.id = id /\ new.nth = n + 1
  BY <1>1 DEF Archives
<1>5. \A f \in old : f \in files /\ f.name # name /\ f.id # id
  BY DEF Backup!Named
<1>6. \A f \in old : f.id \in 1..n /\ f.nth \in 1..n /\ f.nth # n + 1
  BY <1>1, <1>5 DEF ArchivesInv
<1> HIDE DEF new, old, n
<1>7. IsFiniteSet(files')
  <2>1. IsFiniteSet(old)
    BY FS_Difference DEF old, ArchivesInv
  <2> QED BY <1>3, <2>1, FS_AddElement
<1>8. files' \subseteq Archives
  BY <1>3, <1>4, <1>5 DEF ArchivesInv
<1>9. \A f \in files' : f.id \in 1..n + 1 /\ f.nth \in 1..n + 1
  <2>1. id \in 1..n + 1 /\ n + 1 \in 1..n + 1
    BY <1>1 DEF n
  <2>2. \A f \in old : f.id \in 1..n + 1 /\ f.nth \in 1..n + 1
    BY <1>1, <1>6
  <2> QED BY <1>3, <1>4, <2>1, <2>2
<1>10. \A f, g \in files' :
         f.name = g.name \/ f.id = g.id \/ f.nth = g.nth => f = g
  <2>1. \A f, g \in old :
          f.name = g.name \/ f.id = g.id \/ f.nth = g.nth => f = g
    BY <1>5 DEF ArchivesInv
  <2>2. \A f \in old : f.name # new.name /\ f.id # new.id /\ f.nth # new.nth
    BY <1>4, <1>5, <1>6
  <2> QED BY <1>3, <2>1, <2>2
<1> QED BY <1>2, <1>3, <1>7, <1>8, <1>9, <1>10 DEF n, new, old

(* Writing one archive keeps the directory's shape: distinct names and ids.   *)
LEMMA FilesAfterWrite ==
  ASSUME ArchivesInv, NEW name \in Nat, NEW id \in 1..Len(writes) + 1,
         Backup!Write(name, id), \A f \in files : f.id = id => f.name = name
  PROVE  /\ writes' \in Seq([name : Nat, id : Nat])
         /\ IsFiniteSet(files') /\ files' \subseteq Archives
         /\ \A f \in files' : f.id \in 1..Len(writes') /\ f.nth \in 1..Len(writes')
         /\ \A f, g \in files' :
              f.name = g.name \/ f.id = g.id \/ f.nth = g.nth => f = g
BY WriteFacts

LEMMA ArchivesNext == ArchivesInv /\ [Next]_vars => ArchivesInv'
<1> SUFFICES ASSUME ArchivesInv, [Next]_vars PROVE ArchivesInv'
  OBVIOUS
<1>1. CASE UNCHANGED backupVars
  BY <1>1 DEF ArchivesInv, backupVars, Backup!Busy
<1>2. ASSUME NEW p \in Savers, NEW save \in Saves, Backup!Now(p, save),
             UNCHANGED <<clock, writes>>, unpruned' \in Nat, muddled' \in BOOLEAN,
             files' \subseteq files
      PROVE  ArchivesInv'
  <2>1. saves' \in [Savers -> Saves] /\ IsFiniteSet(Backup!Busy')
    BY <1>2, NowFacts
  <2>2. IsFiniteSet(files')
    BY <1>2, FS_Subset DEF ArchivesInv
  <2> QED BY <1>2, <2>1, <2>2 DEF ArchivesInv
<1>3. [step |-> "idle"] \in Saves /\ [step |-> "listing"] \in Saves
  BY DEF Saves
<1>4. ASSUME NEW p \in Savers, Backup!Begin(p) PROVE ArchivesInv'
  <2>1. [step |-> "opening", name |-> clock] \in Saves
    BY DEF Saves, ArchivesInv
  <2> QED BY <1>2, <1>4, <2>1 DEF Backup!Begin, Backup!history, ArchivesInv
<1>5. ASSUME NEW p \in Savers, Backup!OpenFile(p) PROVE ArchivesInv'
  <2> DEFINE name == saves[p].name
             id   == Len(writes) + 1
  <2>1. /\ saves[p].step = "opening" /\ Backup!Write(name, id)
        /\ Backup!Now(p, [step |-> "writing", name |-> name, id |-> id])
        /\ clock' = clock /\ unpruned' = unpruned /\ muddled' \in BOOLEAN
    BY <1>5 DEF Backup!OpenFile, ArchivesInv
  <2>2. name \in Nat /\ id \in 1..Len(writes) + 1 /\ id \in Nat
    BY <2>1, Lengths DEF ArchivesInv, Saves
  <2>3. \A f \in files : f.id # id
    BY Lengths DEF ArchivesInv
  <2>4. [step |-> "writing", name |-> name, id |-> id] \in Saves
    BY <2>2 DEF Saves
  <2> HIDE DEF name, id
  <2>5. saves' \in [Savers -> Saves] /\ IsFiniteSet(Backup!Busy')
    BY <2>1, <2>4, NowFacts
  <2>6. \A f \in files : f.id = id => f.name = name
    BY <2>3
  <2>7. /\ writes' \in Seq([name : Nat, id : Nat])
        /\ IsFiniteSet(files') /\ files' \subseteq Archives
        /\ \A f \in files' : f.id \in 1..Len(writes') /\ f.nth \in 1..Len(writes')
        /\ \A f, g \in files' :
             f.name = g.name \/ f.id = g.id \/ f.nth = g.nth => f = g
    BY <2>1, <2>2, <2>6, FilesAfterWrite
  <2> QED BY <2>1, <2>5, <2>7 DEF ArchivesInv
<1>6. ASSUME NEW p \in Savers, Backup!FinishFile(p) PROVE ArchivesInv'
  <2> DEFINE name == saves[p].name
             id   == saves[p].id
  <2>1. /\ saves[p].step = "writing" /\ Backup!Write(name, id)
        /\ Backup!Now(p, [step |-> "listing"])
        /\ {f.id : f \in Backup!Named(name)} = {id}
        /\ clock' = clock /\ unpruned' = unpruned /\ muddled' = muddled
    BY <1>6 DEF Backup!FinishFile
  <2>2. PICK own \in Backup!Named(name) : own.id = id
    BY <2>1
  <2>3. own \in files /\ own.name = name
    BY DEF Backup!Named
  <2>4. name \in Nat /\ id \in 1..Len(writes) + 1
    BY <2>2, <2>3, Lengths, SMTT(30) DEF ArchivesInv, Archives
  <2>5. \A f \in files : f.id = id => f.name = name
    BY <2>2, <2>3 DEF ArchivesInv
  <2> HIDE DEF name, id
  <2>6. saves' \in [Savers -> Saves] /\ IsFiniteSet(Backup!Busy')
    BY <1>3, <2>1, NowFacts
  <2>7. /\ writes' \in Seq([name : Nat, id : Nat])
        /\ IsFiniteSet(files') /\ files' \subseteq Archives
        /\ \A f \in files' : f.id \in 1..Len(writes') /\ f.nth \in 1..Len(writes')
        /\ \A f, g \in files' :
             f.name = g.name \/ f.id = g.id \/ f.nth = g.nth => f = g
    BY <2>1, <2>4, <2>5, FilesAfterWrite
  <2> QED BY <2>1, <2>6, <2>7 DEF ArchivesInv
<1>7. ASSUME NEW p \in Savers,
             \/ Backup!FinishInVain(p) \/ Backup!WriteFails(p)
             \/ Backup!SortRaises(p) \/ Backup!Respond(p)
      PROVE  ArchivesInv'
  <2>1. /\ UNCHANGED <<clock, writes, files, muddled>>
        /\ unpruned' \in {unpruned, unpruned + 1}
        /\ \E save \in {[step |-> "idle"], [step |-> "listing"]} :
             Backup!Now(p, save)
    BY <1>7 DEF Backup!FinishInVain, Backup!WriteFails, Backup!SortRaises,
                Backup!Respond, Backup!history, Backup!Idle
  <2>2. unpruned' \in Nat /\ muddled' \in BOOLEAN
    BY <2>1 DEF ArchivesInv
  <2> QED BY <1>2, <1>3, <2>1, <2>2
<1>8. ASSUME NEW p \in Savers, Backup!ListFiles(p) \/ Backup!SortFiles(p)
      PROVE  ArchivesInv'
  <2> DEFINE all  == {f.name : f \in files}
             many == {f.name : f \in Backup!TooMany(Backup!Listed(p))}
  <2>1. all \in SUBSET Nat
    BY DEF ArchivesInv, Archives
  <2>2. many \in SUBSET Nat
    BY DEF ArchivesInv, Archives, Backup!TooMany, Backup!Listed
  <2>3. /\ UNCHANGED <<clock, files, writes, unpruned, muddled>>
        /\ \/ Backup!Now(p, [step |-> "sorting", names |-> all])
           \/ Backup!Now(p, [step |-> "removing", names |-> many])
    BY <1>8 DEF Backup!ListFiles, Backup!SortFiles, Backup!history
  <2> HIDE DEF all, many
  <2>4. /\ [step |-> "sorting", names |-> all] \in Saves
        /\ [step |-> "removing", names |-> many] \in Saves
    BY <2>1, <2>2 DEF Saves
  <2>5. unpruned' \in Nat /\ muddled' \in BOOLEAN
    BY <2>3 DEF ArchivesInv
  <2> QED BY <1>2, <2>3, <2>4, <2>5
<1>9. ASSUME NEW p \in Savers, NEW name \in 0..MaxTicks, Backup!Remove(p, name)
      PROVE  ArchivesInv'
  <2>1. [saves[p] EXCEPT !.names = @ \ {name}] \in Saves
    BY <1>9 DEF Backup!Remove, ArchivesInv, Saves
  <2> QED BY <1>2, <1>9, <2>1 DEF Backup!Remove, ArchivesInv
<1>10. CASE Backup!KillSavers
  <2>1. Backup!Busy' = {} /\ saves' \in [Savers -> Saves]
    BY <1>10 DEF Backup!KillSavers, Backup!Busy, Backup!Idle, Saves
  <2>2. unpruned' \in Nat
    BY <1>10, SameCard, FS_CardinalityType DEF Backup!KillSavers, ArchivesInv
  <2> QED BY <1>10, <2>1, <2>2, FS_EmptySet DEF Backup!KillSavers, ArchivesInv
<1>11. CASE Backup!Tick \/ Backup!StepBack
  <2>1. UNCHANGED <<files, saves, writes, unpruned>>
    <3>1. CASE Backup!Tick
      BY <3>1 DEF Backup!Tick, Backup!history
    <3>2. CASE Backup!StepBack
      BY <3>2 DEF Backup!StepBack
    <3> QED BY <1>11, <3>1, <3>2
  <2>2. clock' \in Nat
    <3>1. CASE Backup!Tick
      BY <3>1 DEF Backup!Tick, ArchivesInv
    <3>2. CASE Backup!StepBack
      BY <3>2 DEF Backup!StepBack, ArchivesInv
    <3> QED BY <1>11, <3>1, <3>2
  <2>3. muddled' = muddled \/ muddled' = TRUE
    BY <1>11 DEF Backup!Tick, Backup!StepBack, Backup!history
  <2>4. muddled' \in BOOLEAN
    BY <2>3 DEF ArchivesInv
  <2>5. Backup!Busy' = Backup!Busy
    BY <2>1 DEF Backup!Busy
  <2>6. /\ writes' \in Seq([name : Nat, id : Nat])
        /\ saves' \in [Savers -> Saves] /\ IsFiniteSet(Backup!Busy')
        /\ unpruned' \in Nat
    BY <2>1, <2>5 DEF ArchivesInv
  <2>7. /\ IsFiniteSet(files') /\ files' \subseteq Archives
        /\ \A f \in files' : f.id \in 1..Len(writes') /\ f.nth \in 1..Len(writes')
        /\ \A f, g \in files' :
             f.name = g.name \/ f.id = g.id \/ f.nth = g.nth => f = g
    BY <2>1 DEF ArchivesInv
  <2> QED BY <2>2, <2>4, <2>6, <2>7 DEF ArchivesInv
<1> QED BY <1>1, <1>4, <1>5, <1>6, <1>7, <1>8, <1>9, <1>10, <1>11, BackupOrNot
        DEF Backup!Next

-----------------------------------------------------------------------------
(* Backups, the number of the archives.  Of a request that has listed the   *)
(* directory, the archives that it does not know are those that later ones  *)
(* have opened: as many as later ones are busy or have ended unpruned,      *)
(* unless a later one has pruned all in the meantime.                       *)
Beyond(fs, names) == {f \in fs : f.name \notin names}

Fits(save, fs, room) ==
  /\ save.step = "sorting" => \/ Cardinality(Beyond(fs, save.names)) =< room
                              \/ Cardinality(fs) =< Keep + room
  /\ save.step = "removing" => Cardinality(Beyond(fs, save.names)) =< Keep + room

(* later[s]: the requests that have opened an archive since s listed.       *)
Room(later, s) == Cardinality(later[s] \intersect Backup!Busy) + unpruned

LaterInv(later) ==
  \A s \in Savers : Prunes(saves[s]) =>
    /\ s \notin later[s]
    /\ \A q \in later[s] : Prunes(saves[q]) => later[q] \subseteq later[s]
    /\ Fits(saves[s], files, Room(later, s))

CountInv ==
  /\ ArchivesInv
  /\ AtMostKeep
  /\ \E later \in [Savers -> SUBSET Savers] : LaterInv(later)

(* A request fits as well if files and room have grown alike.               *)
LEMMA StillFits ==
  ASSUME NEW save, NEW fs, NEW gs, NEW room \in Nat, NEW more \in Nat,
         IsFiniteSet(fs), IsFiniteSet(gs), Fits(save, fs, room),
         \A names : Cardinality(Beyond(gs, names)) + room
                      =< Cardinality(Beyond(fs, names)) + more
  PROVE  Fits(save, gs, more)
<1>1. \A names : /\ Cardinality(Beyond(fs, names)) \in Nat
                 /\ Cardinality(Beyond(gs, names)) \in Nat
  BY FS_Subset, FS_CardinalityType DEF Beyond
<1>2. Beyond(fs, {}) = fs /\ Beyond(gs, {}) = gs
  BY DEF Beyond
<1>3. Cardinality(gs) + room =< Cardinality(fs) + more
  BY <1>2
<1>4. Cardinality(fs) \in Nat /\ Cardinality(gs) \in Nat /\ Keep \in Nat
  BY FS_CardinalityType, RetentionAssumption
<1>5. /\ Cardinality(Beyond(fs, save.names)) \in Nat
      /\ Cardinality(Beyond(gs, save.names)) \in Nat
      /\ Cardinality(Beyond(gs, save.names)) + room
           =< Cardinality(Beyond(fs, save.names)) + more
  BY <1>1
<1>6. ASSUME save.step = "sorting"
      PROVE  \/ Cardinality(Beyond(gs, save.names)) =< more
             \/ Cardinality(gs) =< Keep + more
  BY <1>3, <1>4, <1>5, <1>6 DEF Fits
<1>7. ASSUME save.step = "removing"
      PROVE  Cardinality(Beyond(gs, save.names)) =< Keep + more
  BY <1>4, <1>5, <1>7 DEF Fits
<1> QED BY <1>6, <1>7 DEF Fits

LEMMA FitsAnyway ==
  ASSUME NEW save, NEW fs, NEW room \in Nat, IsFiniteSet(fs),
         Cardinality(fs) =< Keep + room
  PROVE  Fits(save, fs, room)
<1>1. /\ IsFiniteSet(Beyond(fs, save.names))
      /\ Cardinality(Beyond(fs, save.names)) =< Cardinality(fs)
  BY FS_Subset DEF Beyond
<1>2. /\ Cardinality(Beyond(fs, save.names)) \in Nat
      /\ Cardinality(fs) \in Nat /\ Keep \in Nat
  BY <1>1, FS_CardinalityType, RetentionAssumption
<1> QED BY <1>1, <1>2 DEF Fits

(* One archive is written: at most one more, and none if it replaces one.   *)
LEMMA Replaced ==
  ASSUME NEW fs, IsFiniteSet(fs), NEW old \in SUBSET fs, NEW new
  PROVE  /\ Cardinality((fs \ old) \union {new}) =< Cardinality(fs) + 1
         /\ old # {} => Cardinality((fs \ old) \union {new}) =< Cardinality(fs)
<1> DEFINE left == fs \ old
<1>1. IsFiniteSet(left) /\ Cardinality(left) =< Cardinality(fs)
  BY FS_Subset
<1>2. Cardinality(left) \in Nat /\ Cardinality(fs) \in Nat
  BY <1>1, FS_CardinalityType
<1>3. Cardinality(left \union {new}) =< Cardinality(left) + 1
  <2>1. Cardinality(left \union {new})
          = IF new \in left THEN Cardinality(left) ELSE Cardinality(left) + 1
    <3> HIDE DEF left
    <3> QED BY <1>1, FS_AddElement
  <2> HIDE DEF left
  <2> QED BY <1>2, <2>1
<1>4. Cardinality(left \union {new}) \in Nat
  <2> HIDE DEF left
  <2>1. IsFiniteSet(left \union {new})
    BY <1>1, FS_AddElement
  <2> QED BY <2>1, FS_CardinalityType
<1>5. ASSUME old # {} PROVE Cardinality(left) < Cardinality(fs)
  <2>1. left # fs
    BY <1>5
  <2>2. Cardinality(fs) # Cardinality(left)
    BY <2>1, FS_Subset
  <2> QED BY <1>1, <1>2, <2>2
<1> HIDE DEF left
<1>6. /\ Cardinality(left \union {new}) =< Cardinality(fs) + 1
      /\ old # {} => Cardinality(left \union {new}) =< Cardinality(fs)
  BY <1>1, <1>2, <1>3, <1>4, <1>5
<1> QED BY <1>6 DEF left

LEMMA BeyondReplaced ==
  ASSUME NEW fs, IsFiniteSet(fs), NEW name, NEW new, new.name = name,
         NEW old, old = {f \in fs : f.name = name},
         NEW gs, gs = (fs \ old) \union {new}, NEW names
  PROVE  /\ Cardinality(Beyond(gs, names)) =< Cardinality(Beyond(fs, names)) + 1
         /\ old # {} =>
              Cardinality(Beyond(gs, names)) =< Cardinality(Beyond(fs, names))
<1>1. IsFiniteSet(Beyond(fs, names)) /\ Cardinality(Beyond(fs, names)) \in Nat
  BY FS_Subset, FS_CardinalityType DEF Beyond
<1>2. CASE name \in names
  <2>1. Beyond(gs, names) \subseteq Beyond(fs, names)
    BY <1>2 DEF Beyond
  <2>2. IsFiniteSet(Beyond(gs, names))
    BY <1>1, <2>1, FS_Subset
  <2>3. /\ Cardinality(Beyond(gs, names)) =< Cardinality(Beyond(fs, names))
        /\ Cardinality(Beyond(gs, names)) \in Nat
    BY <1>1, <2>1, <2>2, FS_Subset, FS_CardinalityType
  <2> QED BY <1>1, <2>3
<1>3. CASE name \notin names
  <2>1. old \subseteq Beyond(fs, names)
    BY <1>3 DEF Beyond
  <2>2. Beyond(gs, names) = (Beyond(fs, names) \ old) \union {new}
    BY <1>3 DEF Beyond
  <2> QED BY <1>1, <2>1, <2>2, Replaced
<1> QED BY <1>2, <1>3

(* Of any archives, at most Keep are not too many: two of these would have  *)
(* as many newer ones as each other, but one of any two is the newer.       *)
LEMMA AtMostKept ==
  ASSUME ArchivesInv, NEW fs \in SUBSET files
  PROVE  Cardinality(fs \ Backup!TooMany(fs)) =< Keep
<1> DEFINE newer(f) == {g \in fs : Backup!Newer(g, f)}
           kept     == fs \ Backup!TooMany(fs)
<1>1. IsFiniteSet(fs) /\ IsFiniteSet(kept) /\ Keep \in Nat \ {0}
  BY FS_Subset, RetentionAssumption DEF ArchivesInv
<1>2. \A f \in kept : newer(f) \subseteq fs /\ Cardinality(newer(f)) < Keep
  <2>1. \A f \in kept : f \in fs /\ ~(Cardinality(newer(f)) >= Keep)
    BY SameCard DEF Backup!TooMany
  <2>2. \A f \in kept : Cardinality(newer(f)) \in Nat
    BY <1>1, FS_Subset, FS_CardinalityType
  <2> HIDE DEF newer, kept
  <2>3. \A f \in kept : Cardinality(newer(f)) < Keep
    BY <1>1, <2>1, <2>2
  <2> QED BY <2>3 DEF newer
<1>3. \A f \in kept : IsFiniteSet(newer(f)) /\ Cardinality(newer(f)) \in 0..Keep - 1
  <2>1. \A f \in kept : IsFiniteSet(newer(f)) /\ Cardinality(newer(f)) \in Nat
    BY <1>1, FS_Subset, FS_CardinalityType
  <2> HIDE DEF newer, kept
  <2> QED BY <1>1, <1>2, <2>1
<1>4. ASSUME NEW f \in kept, NEW g \in kept, Backup!Newer(f, g)
      PROVE  Cardinality(newer(f)) # Cardinality(newer(g))
  <2>1. \A h \in fs : h.mtime \in Nat /\ h.nth \in Nat
    BY DEF ArchivesInv, Archives
  <2>2. newer(f) \subseteq newer(g)
    BY <1>4, <2>1 DEF Backup!Newer
  <2>3. f \in newer(g) /\ f \notin newer(f)
    BY <1>4, <2>1 DEF Backup!Newer
  <2>4. newer(f) # newer(g)
    BY <2>3
  <2> HIDE DEF newer, kept
  <2> QED BY <1>3, <2>2, <2>4, FS_Subset
<1>5. ASSUME NEW f \in kept, NEW g \in kept, f # g
      PROVE  Cardinality(newer(f)) # Cardinality(newer(g))
  <2>1. f.mtime \in Nat /\ f.nth \in Nat /\ g.mtime \in Nat /\ g.nth \in Nat
    BY DEF ArchivesInv, Archives
  <2>2. f.nth # g.nth
    BY <1>5 DEF ArchivesInv
  <2>3. Backup!Newer(f, g) \/ Backup!Newer(g, f)
    BY <2>1, <2>2 DEF Backup!Newer
  <2> HIDE DEF newer, kept
  <2> QED BY <1>4, <2>3
<1> DEFINE count == [f \in kept |-> Cardinality(newer(f))]
<1> HIDE DEF newer, kept
<1>6. /\ count \in [kept -> 0..Keep - 1]
      /\ \A f, g \in kept : f # g => count[f] # count[g]
  BY <1>3, <1>5
<1>7. IsFiniteSet(0..Keep - 1) /\ Cardinality(0..Keep - 1) = Keep
  <2>1. 0 \in Int /\ Keep - 1 \in Int /\ ~(0 > Keep - 1) /\ Keep - 1 - 0 + 1 = Keep
    BY <1>1
  <2> QED BY <2>1, FS_Interval
<1>8. count \in Injection(kept, 0..Keep - 1)
  BY <1>6 DEF Injection, IsInjective
<1>9. Cardinality(kept) =< Keep
  BY <1>7, <1>8, FS_Injection
<1> QED BY <1>9 DEF kept

LEMMA RoomWithout ==
  ASSUME NEW B, IsFiniteSet(B), NEW l, NEW p
  PROVE  /\ Cardinality(l \intersect B) \in Nat
         /\ Cardinality(l \intersect (B \ {p})) \in Nat
         /\ Cardinality(l \intersect B) =< Cardinality(l \intersect (B \ {p})) + 1
         /\ p \notin l =>
              Cardinality(l \intersect (B \ {p})) = Cardinality(l \intersect B)
<1>1. IsFiniteSet(l \intersect B)
  BY FS_Subset
<1>2. l \intersect (B \ {p}) = (l \intersect B) \ {p}
  OBVIOUS
<1>3. /\ IsFiniteSet((l \intersect B) \ {p})
      /\ Cardinality((l \intersect B) \ {p}) =
           IF p \in l \intersect B THEN Cardinality(l \intersect B) - 1
                                   ELSE Cardinality(l \intersect B)
  BY <1>1, FS_RemoveElement
<1>4. /\ Cardinality(l \intersect B) \in Nat
      /\ Cardinality((l \intersect B) \ {p}) \in Nat
  BY <1>1, <1>3, FS_CardinalityType
<1>5. Cardinality(l \intersect (B \ {p})) = Cardinality((l \intersect B) \ {p})
  BY <1>2
<1>6. p \notin l => p \notin l \intersect B
  OBVIOUS
<1> QED BY <1>3, <1>4, <1>5, <1>6

LEMMA RoomWith ==
  ASSUME NEW B, IsFiniteSet(B), NEW l, NEW p, p \notin B
  PROVE  /\ Cardinality(l \intersect B) \in Nat
         /\ Cardinality((l \union {p}) \intersect (B \union {p}))
              = Cardinality(l \intersect B) + 1
<1>1. IsFiniteSet(l \intersect B)
  BY FS_Subset
<1>2. (l \union {p}) \intersect (B \union {p}) = (l \intersect B) \union {p}
  OBVIOUS
<1> QED BY <1>1, <1>2, FS_AddElement, FS_CardinalityType

LEMMA CountInit == Init => CountInv
<1> SUFFICES ASSUME Init PROVE CountInv
  OBVIOUS
<1>1. ArchivesInv
  BY ArchivesInit
<1>2. files = {} /\ unpruned = 0 /\ \A s \in Savers : saves[s].step = "idle"
  BY DEF Init, Backup!Init, Backup!Idle
<1>3. AtMostKeep
  <2>1. /\ Backup!Cardinality(files) = 0
        /\ Backup!Cardinality(Backup!Busy) \in Nat /\ Keep \in Nat
    BY <1>1, <1>2, SameCard, FS_EmptySet, FS_CardinalityType, RetentionAssumption
       DEF ArchivesInv
  <2> QED BY <1>2, <2>1 DEF AtMostKeep, Backup!AtMostKeep
<1>4. LaterInv([s \in Savers |-> {}])
  BY <1>2 DEF LaterInv, Prunes
<1> QED BY <1>1, <1>3, <1>4 DEF CountInv

LEMMA CountNext == CountInv /\ [Next]_vars => CountInv'
<1> SUFFICES ASSUME CountInv, [Next]_vars PROVE CountInv'
  OBVIOUS
<1> DEFINE Busy == Backup!Busy
<1>1. ArchivesInv /\ ArchivesInv'
  BY ArchivesNext DEF CountInv
<1>2. PICK later \in [Savers -> SUBSET Savers] : LaterInv(later)
  BY DEF CountInv
<1>3. /\ IsFiniteSet(files) /\ IsFiniteSet(Busy)
      /\ IsFiniteSet(files') /\ IsFiniteSet(Busy')
      /\ unpruned \in Nat /\ unpruned' \in Nat
  BY <1>1 DEF ArchivesInv
<1>4. /\ Cardinality(files) \in Nat /\ Cardinality(Busy) \in Nat
      /\ Cardinality(files') \in Nat /\ Cardinality(Busy') \in Nat
      /\ Keep \in Nat
  BY <1>3, FS_CardinalityType, RetentionAssumption
<1>5. Cardinality(files) =< Keep + Cardinality(Busy) + unpruned
  BY SameCard DEF CountInv, AtMostKeep, Backup!AtMostKeep
<1>6. \A s \in Savers : Prunes(saves[s]) =>
        /\ s \notin later[s]
        /\ \A q \in later[s] : Prunes(saves[q]) => later[q] \subseteq later[s]
        /\ Fits(saves[s], files, Cardinality(later[s] \intersect Busy) + unpruned)
  BY <1>2 DEF LaterInv, Room
<1>7. ASSUME Cardinality(files') =< Keep + Cardinality(Busy') + unpruned',
             NEW m \in [Savers -> SUBSET Savers],
             \A s \in Savers : Prunes(saves'[s]) =>
               /\ s \notin m[s]
               /\ \A q \in m[s] : Prunes(saves'[q]) => m[q] \subseteq m[s]
               /\ Fits(saves'[s], files',
                       Cardinality(m[s] \intersect Busy') + unpruned')
      PROVE  CountInv'
  <2>1. LaterInv(m)'
    BY <1>7 DEF LaterInv, Room
  <2>2. AtMostKeep'
    BY <1>7, SameCard DEF AtMostKeep, Backup!AtMostKeep
  <2> QED BY <1>1, <2>1, <2>2 DEF CountInv
<1> HIDE DEF Busy
<1>8. \A l : Cardinality(l \intersect Busy) \in Nat /\ Cardinality(l \intersect Busy') \in Nat
  BY <1>3, FS_Subset, FS_CardinalityType
(* One request goes on, and does not begin to sort.                         *)
<1>9. ASSUME NEW p \in Savers, NEW save \in Saves, Backup!Now(p, save),
             Prunes(save) => Prunes(saves[p]),
             Cardinality(files') =< Keep + Cardinality(Busy') + unpruned',
             \A s \in Savers \ {p} : Prunes(saves[s]) =>
               Fits(saves[s], files', Cardinality(later[s] \intersect Busy') + unpruned'),
             Prunes(save) =>
               Fits(save, files', Cardinality(later[p] \intersect Busy') + unpruned')
      PROVE  CountInv'
  <2>1. saves'[p] = save /\ \A s \in Savers \ {p} : saves'[s] = saves[s]
    BY <1>1, <1>9, NowFacts
  <2>2. ASSUME NEW s \in Savers, Prunes(saves'[s])
        PROVE  /\ s \notin later[s]
               /\ \A q \in later[s] : Prunes(saves'[q]) => later[q] \subseteq later[s]
               /\ Fits(saves'[s], files',
                       Cardinality(later[s] \intersect Busy') + unpruned')
    <3>1. Prunes(saves[s])
      BY <1>9, <2>1, <2>2
    <3>2. \A q \in Savers : Prunes(saves'[q]) => Prunes(saves[q])
      BY <1>9, <2>1
    <3> QED BY <1>6, <1>9, <2>1, <2>2, <3>1, <3>2
  <2> QED BY <1>7, <1>9, <2>2
(* Nothing but the request changes.                                         *)
<1>10. ASSUME NEW p \in Savers, NEW save \in Saves, Backup!Now(p, save),
              ~Prunes(save), Busy' = Busy, UNCHANGED <<files, unpruned>>
       PROVE  CountInv'
  BY <1>5, <1>6, <1>9, <1>10
(* One request ends without pruning.                                        *)
<1>11. ASSUME NEW p \in Savers, NEW save \in Saves, Backup!Now(p, save),
              ~Prunes(save), Busy' = Busy \ {p}, files' = files,
              unpruned' = unpruned + 1
       PROVE  CountInv'
  <2>1. Cardinality(Busy) =< Cardinality(Busy') + 1
    <3>1. Busy \intersect Busy = Busy /\ Busy \intersect (Busy \ {p}) = Busy \ {p}
      OBVIOUS
    <3> QED BY <1>3, <1>11, <3>1, RoomWithout
  <2>2. Cardinality(files') =< Keep + Cardinality(Busy') + unpruned'
    BY <1>3, <1>4, <1>5, <1>11, <2>1
  <2>3. ASSUME NEW s \in Savers, Prunes(saves[s])
        PROVE  Fits(saves[s], files',
                    Cardinality(later[s] \intersect Busy') + unpruned')
    <3> DEFINE room == Cardinality(later[s] \intersect Busy) + unpruned
               more == Cardinality(later[s] \intersect Busy') + unpruned'
    <3>0. /\ Cardinality(later[s] \intersect Busy) \in Nat
          /\ Cardinality(later[s] \intersect Busy') \in Nat
      BY <1>8
    <3>1. room \in Nat /\ more \in Nat
      BY <1>3, <3>0
    <3>2. Cardinality(later[s] \intersect Busy)
            =< Cardinality(later[s] \intersect Busy') + 1
      BY <1>3, <1>11, RoomWithout
    <3>3. room =< more
      BY <1>3, <1>11, <3>0, <3>2
    <3>4. Fits(saves[s], files, room)
      BY <1>6, <2>3
    <3> HIDE DEF room, more
    <3>5. \A names : Cardinality(Beyond(files, names)) \in Nat
      BY <1>3, FS_Subset, FS_CardinalityType DEF Beyond
    <3>6. \A names : Cardinality(Beyond(files', names)) + room
                       =< Cardinality(Beyond(files, names)) + more
      BY <1>11, <3>1, <3>3, <3>5
    <3>7. Fits(saves[s], files', more)
      BY <1>3, <3>1, <3>4, <3>6, StillFits
    <3> QED BY <3>7 DEF more
  <2> QED BY <1>9, <1>11, <2>2, <2>3
(* Files and room change, and what fitted still does.                       *)
<1>12. ASSUME NEW save, NEW l, NEW m,
              Fits(save, files, Cardinality(l \intersect Busy) + unpruned),
              \A names : Cardinality(Beyond(files', names))
                             + (Cardinality(l \intersect Busy) + unpruned)
                           =< Cardinality(Beyond(files, names))
                               + (Cardinality(m \intersect Busy') + unpruned')
       PROVE  Fits(save, files', Cardinality(m \intersect Busy') + unpruned')
  <2>1. Cardinality(l \intersect Busy) \in Nat /\ Cardinality(m \intersect Busy') \in Nat
    BY <1>8
  <2>2. /\ Cardinality(l \intersect Busy) + unpruned \in Nat
        /\ Cardinality(m \intersect Busy') + unpruned' \in Nat
    BY <1>3, <2>1
  <2> DEFINE room == Cardinality(l \intersect Busy) + unpruned
             more == Cardinality(m \intersect Busy') + unpruned'
  <2>3. /\ room \in Nat /\ more \in Nat /\ Fits(save, files, room)
        /\ \A names : Cardinality(Beyond(files', names)) + room
                        =< Cardinality(Beyond(files, names)) + more
    BY <1>12, <2>2
  <2> HIDE DEF room, more
  <2>4. Fits(save, files', more)
    BY <1>3, <2>3, StillFits
  <2> QED BY <2>4 DEF more
<1>13. \A names : /\ IsFiniteSet(Beyond(files, names))
                  /\ Cardinality(Beyond(files, names)) \in Nat
                  /\ IsFiniteSet(Beyond(files', names))
                  /\ Cardinality(Beyond(files', names)) \in Nat
  BY <1>3, FS_Subset, FS_CardinalityType DEF Beyond
(* One request goes on, and there are no more files of any kind.            *)
<1>14. ASSUME NEW p \in Savers, NEW save \in Saves, Backup!Now(p, save),
              ~Prunes(save), Busy' = Busy, unpruned' = unpruned,
              Cardinality(files') =< Cardinality(files),
              \A names : Cardinality(Beyond(files', names))
                           =< Cardinality(Beyond(files, names))
       PROVE  CountInv'
  <2>1. Cardinality(files') =< Keep + Cardinality(Busy') + unpruned'
    BY <1>3, <1>4, <1>5, <1>14
  <2>2. ASSUME NEW s \in Savers, Prunes(saves[s])
        PROVE  Fits(saves[s], files',
                    Cardinality(later[s] \intersect Busy') + unpruned')
    <3>1. Cardinality(later[s] \intersect Busy') = Cardinality(later[s] \intersect Busy)
          /\ Cardinality(later[s] \intersect Busy) \in Nat
      BY <1>8, <1>14
    <3>2. \A names : Cardinality(Beyond(files', names))
                         + (Cardinality(later[s] \intersect Busy) + unpruned)
                       =< Cardinality(Beyond(files, names))
                           + (Cardinality(later[s] \intersect Busy') + unpruned')
      BY <1>3, <1>13, <1>14, <3>1
    <3> QED BY <1>6, <1>12, <2>2, <3>2
  <2> QED BY <1>9, <1>14, <2>1, <2>2
<1>15. ASSUME NEW p \in Savers, Backup!Begin(p) PROVE CountInv'
  <2> DEFINE save == [step |-> "opening", name |-> clock]
  <2>1. /\ saves[p].step = "idle" /\ Backup!Now(p, save)
        /\ UNCHANGED <<files, unpruned>>
    BY <1>15 DEF Backup!Begin, Backup!Idle, Backup!history
  <2>2. save \in Saves /\ ~Prunes(save) /\ save.step = "opening"
    BY <1>1 DEF Saves, Prunes, ArchivesInv
  <2> HIDE DEF save
  <2>3. Busy' = Busy \ {p} /\ p \notin Busy
    <3>1. Busy' = Busy \ {p}
      BY <1>1, <2>1, <2>2, NowFacts DEF Busy
    <3> QED BY <2>1, <3>1 DEF Busy, Backup!Busy
  <2>4. Busy' = Busy
    BY <2>3
  <2> QED BY <1>10, <2>1, <2>2, <2>4
<1>16. ASSUME NEW p \in Savers, Backup!FinishInVain(p) PROVE CountInv'
  <2> DEFINE save == [step |-> "listing"]
  <2>1. /\ saves[p].step = "writing" /\ Backup!Now(p, save)
        /\ UNCHANGED <<files, unpruned>>
    BY <1>16 DEF Backup!FinishInVain, Backup!history
  <2>2. save \in Saves /\ ~Prunes(save) /\ save.step = "listing"
    BY DEF Saves, Prunes
  <2> HIDE DEF save
  <2>3. Busy' = Busy \union {p}
    BY <1>1, <2>1, <2>2, NowFacts DEF Busy
  <2>4. p \in Busy
    BY <2>1 DEF Busy, Backup!Busy
  <2>5. Busy' = Busy
    BY <2>3, <2>4
  <2> QED BY <1>10, <2>1, <2>2, <2>5
<1>17. [step |-> "idle"] \in Saves /\ ~Prunes([step |-> "idle"])
  BY DEF Saves, Prunes
<1>18. ASSUME NEW p \in Savers, Backup!WriteFails(p) \/ Backup!SortRaises(p)
       PROVE  CountInv'
  <2>1. /\ Backup!Now(p, [step |-> "idle"]) /\ files' = files
        /\ unpruned' = unpruned + 1
    BY <1>18 DEF Backup!WriteFails, Backup!SortRaises, Backup!Idle
  <2>2. Busy' = Busy \ {p}
    BY <1>1, <1>17, <2>1, NowFacts DEF Busy
  <2> QED BY <1>11, <1>17, <2>1, <2>2
<1>19. ASSUME NEW p \in Savers, Backup!FinishFile(p) PROVE CountInv'
  <2> DEFINE save == [step |-> "listing"]
             name == saves[p].name
             id   == saves[p].id
             new  == [name |-> name, id |-> id, mtime |-> clock,
                      nth |-> Len(writes')]
             old  == {f \in files : f.name = name}
  <2>1. /\ saves[p].step = "writing" /\ Backup!Now(p, save)
        /\ {f.id : f \in old} = {id} /\ unpruned' = unpruned
        /\ files' = (files \ old) \union {new}
    BY <1>19 DEF Backup!FinishFile, Backup!Write, Backup!Named
  <2>2. save \in Saves /\ ~Prunes(save) /\ save.step = "listing"
    BY DEF Saves, Prunes
  <2>3. old # {} /\ old \in SUBSET files /\ new.name = name
    BY <2>1
  <2> HIDE DEF save, new
  <2>4. Busy' = Busy \union {p}
    BY <1>1, <2>1, <2>2, NowFacts DEF Busy
  <2>5. p \in Busy
    BY <2>1 DEF Busy, Backup!Busy
  <2>6. Busy' = Busy
    BY <2>4, <2>5
  <2>7. Cardinality(files') =< Cardinality(files)
    BY <1>3, <2>1, <2>3, Replaced
  <2>8. ASSUME NEW names
        PROVE  Cardinality(Beyond(files', names)) =< Cardinality(Beyond(files, names))
    <3>1. old = {f \in files : f.name = name} /\ files' = (files \ old) \union {new}
      BY <2>1
    <3> HIDE DEF old, name
    <3> QED BY <1>3, <2>3, <3>1, BeyondReplaced
  <2> QED BY <1>14, <2>1, <2>2, <2>6, <2>7, <2>8
<1>20. ASSUME NEW p \in Savers, Backup!OpenFile(p) PROVE CountInv'
  <2> DEFINE name == saves[p].name
             id   == Len(writes) + 1
             save == [step |-> "writing", name |-> name, id |-> id]
             new  == [name |-> name, id |-> id, mtime |-> clock,
                      nth |-> Len(writes')]
             old  == {f \in files : f.name = name}
             m    == [s \in Savers |-> IF s = p THEN later[s]
                                               ELSE later[s] \union {p}]
  <2>1. /\ saves[p].step = "opening" /\ Backup!Now(p, save)
        /\ unpruned' = unpruned /\ files' = (files \ old) \union {new}
    BY <1>20 DEF Backup!OpenFile, Backup!Write, Backup!Named
  <2>2. save \in Saves /\ ~Prunes(save) /\ save.step = "writing"
    <3>1. name \in Nat
      BY <1>1, <2>1 DEF ArchivesInv, Saves
    <3>2. id \in Nat
      BY <1>1, Lengths
    <3> QED BY <3>1, <3>2 DEF Saves, Prunes
  <2>3. old \in SUBSET files /\ new.name = name
    BY <2>1
  <2> HIDE DEF save, new
  <2>4. /\ Busy' = Busy \union {p} /\ saves'[p] = save
        /\ \A s \in Savers \ {p} : saves'[s] = saves[s]
    BY <1>1, <2>1, <2>2, NowFacts DEF Busy
  <2>5. p \notin Busy
    BY <2>1 DEF Busy, Backup!Busy
  <2>6. Cardinality(Busy') = Cardinality(Busy) + 1
    BY <1>3, <2>4, <2>5, FS_AddElement
  <2>7. Cardinality(files') =< Cardinality(files) + 1
    BY <1>3, <2>1, <2>3, Replaced
  <2>8. Cardinality(files') =< Keep + Cardinality(Busy') + unpruned'
    BY <1>3, <1>4, <1>5, <2>1, <2>6, <2>7
  <2>9. ASSUME NEW names
        PROVE  Cardinality(Beyond(files', names))
                 =< Cardinality(Beyond(files, names)) + 1
    BY <1>3, <2>1, <2>3, BeyondReplaced
  <2>10. m \in [Savers -> SUBSET Savers]
    OBVIOUS
  <2>11. ASSUME NEW s \in Savers, Prunes(saves'[s])
         PROVE  /\ s \notin m[s]
                /\ \A q \in m[s] : Prunes(saves'[q]) => m[q] \subseteq m[s]
                /\ Fits(saves'[s], files',
                        Cardinality(m[s] \intersect Busy') + unpruned')
    <3>1. s # p /\ saves'[s] = saves[s] /\ Prunes(saves[s])
      BY <2>2, <2>4, <2>11
    <3>2. m[s] = later[s] \union {p} /\ s \notin m[s]
      BY <1>6, <3>1
    <3>3. ASSUME NEW q \in m[s], Prunes(saves'[q]) PROVE m[q] \subseteq m[s]
      <4>1. q # p
        BY <2>2, <2>4, <3>3
      <4>2. q \in later[s] /\ q \in Savers
        BY <3>2, <4>1
      <4>3. Prunes(saves[q])
        BY <2>4, <3>3, <4>1, <4>2
      <4>4. later[q] \subseteq later[s]
        BY <1>6, <3>1, <4>2, <4>3
      <4> QED BY <3>2, <4>1, <4>2, <4>4
    <3>4. /\ Cardinality(later[s] \intersect Busy) \in Nat
          /\ Cardinality(m[s] \intersect Busy')
               = Cardinality(later[s] \intersect Busy) + 1
      <4> HIDE DEF m
      <4> QED BY <1>3, <2>4, <2>5, <3>2, RoomWith
    <3> HIDE DEF m
    <3>5. \A names : Cardinality(Beyond(files', names))
                         + (Cardinality(later[s] \intersect Busy) + unpruned)
                       =< Cardinality(Beyond(files, names))
                           + (Cardinality(m[s] \intersect Busy') + unpruned')
      BY <1>3, <1>13, <2>1, <2>9, <3>4
    <3>6. Fits(saves[s], files', Cardinality(m[s] \intersect Busy') + unpruned')
      BY <1>6, <1>12, <3>1, <3>5
    <3> QED BY <3>1, <3>2, <3>3, <3>6
  <2> HIDE DEF m
  <2> QED BY <1>7, <2>8, <2>10, <2>11
<1>21. ASSUME NEW p \in Savers, Backup!ListFiles(p) PROVE CountInv'
  <2> DEFINE all  == {f.name : f \in files}
             save == [step |-> "sorting", names |-> all]
             m    == [later EXCEPT ![p] = {}]
  <2>1. /\ saves[p].step = "listing" /\ Backup!Now(p, save)
        /\ UNCHANGED <<files, unpruned>>
    BY <1>21 DEF Backup!ListFiles, Backup!history
  <2>2. save \in Saves
    <3>1. all \in SUBSET Nat
      BY <1>1, SMTT(30) DEF ArchivesInv, Archives
    <3> HIDE DEF all
    <3> QED BY <3>1 DEF Saves
  <2>3. save.step = "sorting" /\ save.names = all
    OBVIOUS
  <2>4. Beyond(files, all) = {}
    BY DEF Beyond
  <2> HIDE DEF save, all
  <2>5. /\ Busy' = Busy \union {p} /\ saves'[p] = save
        /\ \A s \in Savers \ {p} : saves'[s] = saves[s]
    BY <1>1, <2>1, <2>2, <2>3, NowFacts DEF Busy
  <2>6. p \in Busy
    BY <2>1 DEF Busy, Backup!Busy
  <2>7. Busy' = Busy
    BY <2>5, <2>6
  <2>8. Cardinality(files') =< Keep + Cardinality(Busy') + unpruned'
    BY <1>5, <2>1, <2>7
  <2>9. /\ m \in [Savers -> SUBSET Savers] /\ m[p] = {}
        /\ \A s \in Savers \ {p} : m[s] = later[s]
    OBVIOUS
  <2> HIDE DEF m
  <2>10. Fits(save, files', Cardinality(m[p] \intersect Busy') + unpruned')
    <3>1. Cardinality(Beyond(files', save.names)) = 0
      BY <2>1, <2>3, <2>4, FS_EmptySet
    <3>2. Cardinality(m[p] \intersect Busy') \in Nat
      BY <1>8
    <3>3. 0 =< Cardinality(m[p] \intersect Busy') + unpruned'
      BY <1>3, <3>2
    <3> QED BY <2>3, <3>1, <3>3 DEF Fits
  <2>11. ASSUME NEW s \in Savers, Prunes(saves'[s])
         PROVE  /\ s \notin m[s]
                /\ \A q \in m[s] : Prunes(saves'[q]) => m[q] \subseteq m[s]
                /\ Fits(saves'[s], files',
                        Cardinality(m[s] \intersect Busy') + unpruned')
    <3>1. CASE s = p
      BY <2>5, <2>9, <2>10, <3>1
    <3>2. CASE s # p
      <4>1. Prunes(saves[s]) /\ saves'[s] = saves[s] /\ m[s] = later[s]
        BY <2>5, <2>9, <2>11, <3>2
      <4>2. ASSUME NEW q \in m[s], Prunes(saves'[q]) PROVE m[q] \subseteq m[s]
        <5>1. CASE q = p
          BY <2>9, <5>1
        <5>2. CASE q # p
          <6>1. q \in Savers /\ q \in later[s]
            BY <4>1
          <6>2. Prunes(saves[q]) /\ m[q] = later[q]
            BY <2>5, <2>9, <4>2, <5>2, <6>1
          <6> QED BY <1>6, <4>1, <6>1, <6>2
        <5> QED BY <5>1, <5>2
      <4>3. Fits(saves'[s], files', Cardinality(m[s] \intersect Busy') + unpruned')
        BY <1>6, <2>1, <2>7, <4>1
      <4> QED BY <1>6, <4>1, <4>2, <4>3
    <3> QED BY <3>1, <3>2
  <2> QED BY <1>7, <2>8, <2>9, <2>11
<1>22. ASSUME NEW p \in Savers, Backup!SortFiles(p) PROVE CountInv'
  <2> DEFINE listed == Backup!Listed(p)
             many   == Backup!TooMany(listed)
             names  == {f.name : f \in many}
             save   == [step |-> "removing", names |-> names]
             room   == Cardinality(later[p] \intersect Busy) + unpruned
  <2>1. /\ saves[p].step = "sorting" /\ Backup!Now(p, save)
        /\ UNCHANGED <<files, unpruned>>
    BY <1>22 DEF Backup!SortFiles, Backup!history
  <2>2. listed = files \ Beyond(files, saves[p].names)
    BY DEF Backup!Listed, Beyond
  <2>3. many \subseteq listed
    BY DEF Backup!TooMany
  <2>4. Beyond(files, names)
          \subseteq Beyond(files, saves[p].names) \union (listed \ many)
    BY <2>2 DEF Beyond
  <2>5. Cardinality(listed \ many) =< Keep
    BY <1>1, <2>2, AtMostKept
  <2>6. save \in Saves
    <3>1. many \subseteq files
      BY <2>2, <2>3
    <3>2. names \in SUBSET Nat
      <4> HIDE DEF many
      <4> QED BY <1>1, <3>1, SMTT(30) DEF ArchivesInv, Archives
    <3> HIDE DEF names
    <3> QED BY <3>2 DEF Saves
  <2>7. save.step = "removing" /\ save.names = names
    OBVIOUS
  <2> HIDE DEF save, names, many, listed
  <2>8. Busy' = Busy \union {p}
    BY <1>1, <2>1, <2>6, <2>7, NowFacts DEF Busy
  <2>9. p \in Busy
    BY <2>1 DEF Busy, Backup!Busy
  <2>10. Busy' = Busy
    BY <2>8, <2>9
  <2>11. room \in Nat /\ Fits(saves[p], files, room)
    <3>1. Cardinality(later[p] \intersect Busy) \in Nat
      BY <1>8
    <3>2. room \in Nat
      BY <1>3, <3>1
    <3>3. Fits(saves[p], files, room)
      BY <1>6, <2>1 DEF Prunes
    <3> QED BY <3>2, <3>3
  <2>12. /\ room = Cardinality(later[p] \intersect Busy') + unpruned'
         /\ Prunes(saves[p])
    BY <2>1, <2>10 DEF Prunes
  <2> HIDE DEF room
  <2>13. Fits(save, files', room)
    <3>1. CASE Cardinality(files) =< Keep + room
      BY <1>3, <2>1, <2>11, <3>1, FitsAnyway
    <3>2. CASE Cardinality(Beyond(files, saves[p].names)) =< room
      <4> DEFINE A == Beyond(files, saves[p].names)
                 B == listed \ many
      <4>1. /\ IsFiniteSet(A) /\ IsFiniteSet(B)
        BY <1>3, <2>2, FS_Subset DEF Beyond
      <4>2. /\ IsFiniteSet(A \union B)
            /\ Cardinality(A \union B)
                 = Cardinality(A) + Cardinality(B) - Cardinality(A \intersect B)
        BY <4>1, FS_Union
      <4>3. /\ Cardinality(A) \in Nat /\ Cardinality(B) \in Nat
            /\ Cardinality(A \intersect B) \in Nat
            /\ Cardinality(A \union B) \in Nat
        BY <4>1, <4>2, FS_Subset, FS_CardinalityType
      <4>4. Cardinality(Beyond(files, names)) =< Cardinality(A \union B)
        BY <2>4, <4>2, FS_Subset
      <4>5. Cardinality(Beyond(files, names)) \in Nat
        BY <1>13
      <4>6. Cardinality(A) =< room /\ Cardinality(B) =< Keep
        BY <2>5, <3>2
      <4> HIDE DEF A, B
      <4>7. Cardinality(Beyond(files, names)) =< Keep + room
        BY <1>4, <2>11, <4>2, <4>3, <4>4, <4>5, <4>6
      <4> QED BY <2>1, <2>7, <4>7 DEF Fits
    <3> QED BY <2>1, <2>11, <3>1, <3>2 DEF Fits
  <2>14. \A s \in Savers \ {p} : Prunes(saves[s]) =>
           Fits(saves[s], files', Cardinality(later[s] \intersect Busy') + unpruned')
    BY <1>6, <2>1, <2>10
  <2>15. Cardinality(files') =< Keep + Cardinality(Busy') + unpruned'
    BY <1>5, <2>1, <2>10
  <2> QED BY <1>9, <2>1, <2>6, <2>12, <2>13, <2>14, <2>15
<1>23. ASSUME NEW p \in Savers, Backup!Respond(p) PROVE CountInv'
  <2>1. /\ saves[p].step = "removing" /\ saves[p].names = {}
        /\ Backup!Now(p, [step |-> "idle"]) /\ UNCHANGED <<files, unpruned>>
    BY <1>23 DEF Backup!Respond, Backup!Idle, Backup!history
  <2>2. Busy' = Busy \ {p}
    BY <1>1, <1>17, <2>1, NowFacts DEF Busy
  <2>3. /\ p \notin later[p]
        /\ Fits(saves[p], files, Cardinality(later[p] \intersect Busy) + unpruned)
    BY <1>6, <2>1 DEF Prunes
  <2>4. Beyond(files, saves[p].names) = files
    BY <2>1 DEF Beyond
  <2>5. Cardinality(files) =< Keep + (Cardinality(later[p] \intersect Busy) + unpruned)
    BY <2>1, <2>3, <2>4 DEF Fits
  <2>6. ASSUME NEW l \in SUBSET Savers, later[p] \subseteq l
        PROVE  Cardinality(files') =< Keep + (Cardinality(l \intersect Busy') + unpruned')
    <3>1. later[p] \intersect Busy \subseteq l \intersect Busy'
      BY <2>2, <2>3, <2>6
    <3>2. IsFiniteSet(l \intersect Busy')
      BY <1>3, FS_Subset
    <3>3. Cardinality(later[p] \intersect Busy) =< Cardinality(l \intersect Busy')
      BY <3>1, <3>2, FS_Subset
    <3>4. /\ Cardinality(later[p] \intersect Busy) \in Nat
          /\ Cardinality(l \intersect Busy') \in Nat
      BY <1>8
    <3> QED BY <1>3, <1>4, <2>1, <2>5, <3>3, <3>4
  <2>7. Cardinality(files') =< Keep + Cardinality(Busy') + unpruned'
    <3>1. Busy' \in SUBSET Savers /\ Savers \intersect Busy' = Busy'
      BY DEF Busy, Backup!Busy
    <3>2. later[p] \subseteq Savers
      OBVIOUS
    <3>3. Cardinality(files') =< Keep + (Cardinality(Busy') + unpruned')
      BY <2>6, <3>1, <3>2
    <3> QED BY <1>3, <1>4, <3>3
  <2>8. ASSUME NEW s \in Savers \ {p}, Prunes(saves[s])
        PROVE  Fits(saves[s], files',
                    Cardinality(later[s] \intersect Busy') + unpruned')
    <3>1. CASE p \in later[s]
      <4>1. later[p] \subseteq later[s] /\ later[s] \in SUBSET Savers
        BY <1>6, <2>1, <2>8, <3>1 DEF Prunes
      <4>2. Cardinality(later[s] \intersect Busy') \in Nat
        BY <1>8
      <4>3. Cardinality(later[s] \intersect Busy') + unpruned' \in Nat
        BY <1>3, <4>2
      <4> QED BY <1>3, <2>6, <4>1, <4>3, FitsAnyway
    <3>2. CASE p \notin later[s]
      <4>1. later[s] \intersect Busy' = later[s] \intersect Busy
        BY <2>2, <3>2
      <4> QED BY <1>6, <2>1, <2>8, <4>1
    <3> QED BY <3>1, <3>2
  <2> QED BY <1>9, <1>17, <2>1, <2>7, <2>8
<1>24. ASSUME NEW p \in Savers, NEW name, Backup!Remove(p, name) PROVE CountInv'
  <2> DEFINE save  == [saves[p] EXCEPT !.names = @ \ {name}]
             named == {f \in files : f.name = name}
  <2>1. /\ saves[p].step = "removing" /\ Backup!Now(p, save)
        /\ \/ files' = files \ named /\ unpruned' = unpruned
           \/ files' = files /\ unpruned' = unpruned + 1
    BY <1>24 DEF Backup!Remove, Backup!Named
  <2>2. /\ save \in Saves /\ save.step = "removing"
        /\ save.names = saves[p].names \ {name}
    <3>1. saves[p] \in Saves
      BY <1>1 DEF ArchivesInv
    <3>2. saves[p] = [step |-> "removing", names |-> saves[p].names]
          /\ saves[p].names \in SUBSET Nat
      BY <2>1, <3>1 DEF Saves
    <3> QED BY <3>2 DEF Saves
  <2>3. Prunes(save) /\ Prunes(saves[p])
    BY <2>1, <2>2 DEF Prunes
  <2> HIDE DEF save
  <2>4. Busy' = Busy \union {p}
    BY <1>1, <2>1, <2>2, NowFacts DEF Busy
  <2>5. p \in Busy
    BY <2>1 DEF Busy, Backup!Busy
  <2>6. Busy' = Busy
    BY <2>4, <2>5
  <2>7. files' \subseteq files /\ unpruned' >= unpruned
    BY <1>3, <2>1
  <2>8. /\ Cardinality(files') =< Cardinality(files)
        /\ \A names : Cardinality(Beyond(files', names))
                        =< Cardinality(Beyond(files, names))
    <3>1. \A names : Beyond(files', names) \subseteq Beyond(files, names)
      BY <2>7 DEF Beyond
    <3> QED BY <1>3, <1>13, <2>7, <3>1, FS_Subset
  <2>9. Cardinality(files') =< Keep + Cardinality(Busy') + unpruned'
    BY <1>3, <1>4, <1>5, <2>6, <2>7, <2>8
  <2>10. ASSUME NEW s \in Savers, Prunes(saves[s])
         PROVE  Fits(saves[s], files',
                     Cardinality(later[s] \intersect Busy') + unpruned')
    <3>1. Cardinality(later[s] \intersect Busy') = Cardinality(later[s] \intersect Busy)
          /\ Cardinality(later[s] \intersect Busy) \in Nat
      BY <1>8, <2>6
    <3>2. \A names : Cardinality(Beyond(files', names))
                         + (Cardinality(later[s] \intersect Busy) + unpruned)
                       =< Cardinality(Beyond(files, names))
                           + (Cardinality(later[s] \intersect Busy') + unpruned')
      BY <1>3, <1>13, <2>7, <2>8, <3>1
    <3> QED BY <1>6, <1>12, <2>10, <3>2
  <2>11. Fits(save, files', Cardinality(later[p] \intersect Busy') + unpruned')
    <3> DEFINE known == Beyond(files, saves[p].names)
               left  == Beyond(files', save.names)
    <3>1. Cardinality(left) =< Cardinality(known) + (unpruned' - unpruned)
      <4>1. CASE files' = files \ named /\ unpruned' = unpruned
        <5>1. left \subseteq known
          BY <2>2, <4>1 DEF Beyond
        <5>2. IsFiniteSet(known) /\ Cardinality(known) \in Nat /\ Cardinality(left) \in Nat
          BY <1>13
        <5>3. Cardinality(left) =< Cardinality(known)
          BY <5>1, <5>2, FS_Subset
        <5> HIDE DEF left, known
        <5> QED BY <1>3, <4>1, <5>2, <5>3
      <4>2. CASE files' = files /\ unpruned' = unpruned + 1
        <5>1. \E f : named \subseteq {f}
          BY <1>1 DEF ArchivesInv
        <5>2. PICK f : named \subseteq {f}
          BY <5>1
        <5>3. left \subseteq known \union {f}
          BY <2>2, <4>2, <5>2 DEF Beyond
        <5>4. IsFiniteSet(known) /\ Cardinality(known) \in Nat /\ Cardinality(left) \in Nat
          BY <1>13
        <5> HIDE DEF left, known
        <5>5. /\ IsFiniteSet(known \union {f})
              /\ Cardinality(known \union {f}) \in
                   {Cardinality(known), Cardinality(known) + 1}
          BY <5>4, FS_AddElement
        <5>6. Cardinality(left) =< Cardinality(known \union {f})
          BY <5>3, <5>5, FS_Subset
        <5> QED BY <1>3, <4>2, <5>4, <5>5, <5>6
      <4> QED BY <2>1, <4>1, <4>2
    <3>2. /\ Cardinality(known)
              =< Keep + (Cardinality(later[p] \intersect Busy) + unpruned)
          /\ Cardinality(known) \in Nat /\ Cardinality(left) \in Nat
          /\ Cardinality(later[p] \intersect Busy) \in Nat
      BY <1>6, <1>8, <1>13, <2>1, <2>3 DEF Fits
    <3>3. Cardinality(left)
            =< Keep + (Cardinality(later[p] \intersect Busy) + unpruned')
      <4> HIDE DEF left, known
      <4> QED BY <1>3, <1>4, <3>1, <3>2
    <3> QED BY <2>2, <2>6, <3>3 DEF Fits
  <2> QED BY <1>9, <2>1, <2>2, <2>3, <2>9, <2>10, <2>11
<1>25. CASE Backup!KillSavers
  <2>1. /\ saves' = [s \in Savers |-> [step |-> "idle"]] /\ files' = files
        /\ unpruned' = unpruned + Cardinality(Busy)
    BY <1>25, SameCard DEF Backup!KillSavers, Backup!Idle, Busy
  <2>2. Busy' = {}
    BY <2>1 DEF Busy, Backup!Busy
  <2>3. Cardinality(Busy') = 0
    BY <2>2, FS_EmptySet
  <2>4. Cardinality(files') =< Keep + Cardinality(Busy') + unpruned'
    BY <1>3, <1>4, <1>5, <2>1, <2>3
  <2>5. \A s \in Savers : ~Prunes(saves'[s])
    BY <2>1 DEF Prunes
  <2> QED BY <1>7, <2>4, <2>5
<1>26. CASE UNCHANGED <<files, saves, unpruned>>
  <2>1. Busy' = Busy
    BY <1>26 DEF Busy, Backup!Busy
  <2>2. Cardinality(files') =< Keep + Cardinality(Busy') + unpruned'
    BY <1>5, <1>26, <2>1
  <2> QED BY <1>6, <1>7, <1>26, <2>1, <2>2
<1>27. CASE Backup!Tick \/ Backup!StepBack \/ UNCHANGED backupVars
  <2>1. CASE Backup!Tick
    BY <1>26, <2>1 DEF Backup!Tick, Backup!history
  <2>2. CASE Backup!StepBack
    BY <1>26, <2>2 DEF Backup!StepBack
  <2>3. CASE UNCHANGED backupVars
    BY <1>26, <2>3 DEF backupVars
  <2> QED BY <1>27, <2>1, <2>2, <2>3
<1> QED BY <1>15, <1>16, <1>18, <1>19, <1>20, <1>21, <1>22, <1>23, <1>24, <1>25,
           <1>27, BackupOrNot DEF Backup!Next

(* For any retention, however many requests overlap, in any order of their  *)
(* steps, only archives of requests that have still to prune or ended       *)
(* without it exceed it (api.py:207-226).                                   *)
THEOREM RetentionHolds == Spec => []AtMostKeep
<1>1. CountInv => AtMostKeep
  BY DEF CountInv
<1> QED BY <1>1, CountInit, CountNext, PTL DEF Spec

-----------------------------------------------------------------------------
(* Backups, the age of the archives.  While names and times tell archives   *)
(* apart, the order of their times is that of their last writes, a name on  *)
(* a list stands for the same archive as long as there is one, and what is  *)
(* about to be removed has been followed by Keep others.                    *)
Others(ws, id) == {ws[i].id : i \in id + 1 .. Len(ws)} \ {id}

Outlived(id) == Keep =< Cardinality(Others(writes, id))

Used(name) == \E i \in 1..Len(writes) : writes[i].name = name

InOrder ==
  /\ \A f \in files : f.mtime =< clock
  /\ \A f, g \in files : f.nth < g.nth => f.mtime =< g.mtime
  /\ \A s \in Savers : Prunes(saves[s]) => \A n \in saves[s].names : Used(n)
  /\ \A s \in Savers : saves[s].step = "removing" =>
       \A f \in files : f.name \in saves[s].names => Outlived(f.id)
  /\ \A id \in finished : (\E f \in files : f.id = id) \/ Outlived(id)

Logged ==
  /\ \A i \in 1..Len(writes) : writes[i].id \in 1..Len(writes)
  /\ \A f \in files : writes[f.nth].id = f.id /\ f.id =< f.nth /\ Used(f.name)

SurviveInv ==
  /\ ArchivesInv /\ Logged /\ finished \subseteq Nat
  /\ muddled = FALSE => InOrder

LEMMA SurviveInit == Init => SurviveInv
<1> SUFFICES ASSUME Init PROVE SurviveInv
  OBVIOUS
<1>1. files = {} /\ writes = <<>> /\ finished = {}
  BY DEF Init, Backup!Init
<1>2. \A s \in Savers : saves[s].step = "idle"
  BY DEF Init, Backup!Init, Backup!Idle
<1>3. Len(writes) = 0
  BY <1>1
<1>4. Logged
  BY <1>1, <1>3 DEF Logged
<1>5. InOrder
  BY <1>1, <1>2 DEF InOrder, Prunes
<1> QED BY <1>1, <1>4, <1>5, ArchivesInit DEF SurviveInv

(* What has been opened or finished since is not forgotten.                 *)
LEMMA OthersGrow ==
  ASSUME NEW ws, NEW vs, Len(ws) \in Nat, Len(vs) = Len(ws) + 1,
         \A i \in 1..Len(ws) : vs[i] = ws[i],
         \A i \in 1..Len(vs) : vs[i].id \in 1..Len(vs), NEW id \in Nat
  PROVE  Cardinality(Others(ws, id)) =< Cardinality(Others(vs, id))
<1>1. Others(ws, id) \subseteq Others(vs, id)
  <2> SUFFICES ASSUME NEW i \in id + 1 .. Len(ws), ws[i].id # id
               PROVE  ws[i].id \in Others(vs, id)
    BY DEF Others
  <2>1. i \in 1..Len(ws) /\ i \in id + 1 .. Len(vs)
    OBVIOUS
  <2>2. vs[i] = ws[i]
    BY <2>1
  <2> QED BY <2>1, <2>2 DEF Others
<1>2. Others(vs, id) \subseteq 1..Len(vs)
  <2>1. \A i \in id + 1 .. Len(vs) : i \in 1..Len(vs)
    OBVIOUS
  <2> QED BY <2>1 DEF Others
<1>3. IsFiniteSet(Others(vs, id))
  <2>0. 1 \in Int /\ Len(vs) \in Int
    OBVIOUS
  <2>1. IsFiniteSet(1..Len(vs))
    BY <2>0, FS_Interval
  <2> QED BY <1>2, <2>1, FS_Subset
<1> QED BY <1>1, <1>3, FS_Subset

LEMMA OthersFinite ==
  ASSUME ArchivesInv, Logged, NEW id \in Nat
  PROVE  IsFiniteSet(Others(writes, id))
<1>1. Len(writes) \in Nat
  BY Lengths
<1>2. \A i \in id + 1 .. Len(writes) : i \in 1..Len(writes)
  BY <1>1
<1>3. Others(writes, id) \subseteq 1..Len(writes)
  BY <1>2 DEF Others, Logged
<1>4. IsFiniteSet(1..Len(writes))
  BY <1>1, FS_Interval
<1> QED BY <1>3, <1>4, FS_Subset

(* In order, the archives that are newer have been written since.           *)
LEMMA TooManyAreOutlived ==
  ASSUME ArchivesInv, Logged, InOrder,
         NEW fs \in SUBSET files, NEW f \in Backup!TooMany(fs)
  PROVE  Outlived(f.id)
<1> DEFINE newer == {g \in fs : Backup!Newer(g, f)}
           since == Others(writes, f.id)
<1>1. f \in fs /\ Keep =< Cardinality(newer)
  <2>1. f \in fs /\ Cardinality(newer) >= Keep
    BY SameCard DEF Backup!TooMany
  <2>2. IsFiniteSet(newer)
    BY FS_Subset DEF ArchivesInv
  <2>3. Cardinality(newer) \in Nat /\ Keep \in Nat
    BY <2>2, FS_CardinalityType, RetentionAssumption
  <2> HIDE DEF newer
  <2> QED BY <2>1, <2>3
<1>2. \A g \in files : /\ g.mtime \in Nat /\ g.nth \in 1..Len(writes) /\ g.id \in Nat
                       /\ writes[g.nth].id = g.id /\ g.id =< g.nth
  BY DEF ArchivesInv, Archives, Logged
<1>3. ASSUME NEW g \in newer PROVE g.id \in since
  <2>1. g \in files /\ f \in files /\ Backup!Newer(g, f)
    BY <1>1
  <2>2. f.nth # g.nth
    <3>1. f # g
      BY <1>2, <2>1, Lengths DEF Backup!Newer
    <3> QED BY <2>1, <3>1 DEF ArchivesInv
  <2>3. f.nth < g.nth
    <3>1. ASSUME g.nth < f.nth PROVE FALSE
      <4>1. g.mtime =< f.mtime
        BY <2>1, <3>1 DEF InOrder
      <4> QED BY <1>2, <2>1, <3>1, <4>1, Lengths DEF Backup!Newer
    <3> QED BY <1>2, <2>1, <2>2, <3>1, Lengths
  <2>4. g.id # f.id
    BY <2>1, <2>2 DEF ArchivesInv
  <2>5. g.nth \in f.id + 1 .. Len(writes)
    BY <1>2, <2>1, <2>3, Lengths
  <2> QED BY <1>2, <2>1, <2>4, <2>5 DEF Others
<1>4. \A g, h \in newer : g.id = h.id => g = h
  BY DEF ArchivesInv
<1>5. IsFiniteSet(since)
  BY <1>1, <1>2, OthersFinite
<1> DEFINE ids == [g \in newer |-> g.id]
<1> HIDE DEF newer, since
<1>6. ids \in Injection(newer, since)
  BY <1>3, <1>4 DEF Injection, IsInjective
<1>7. Cardinality(newer) =< Cardinality(since) /\ IsFiniteSet(newer)
  BY <1>5, <1>6, FS_Injection
<1>8. /\ Cardinality(newer) \in Nat /\ Cardinality(since) \in Nat /\ Keep \in Nat
  BY <1>5, <1>7, FS_CardinalityType, RetentionAssumption
<1>9. Keep =< Cardinality(since)
  BY <1>1, <1>7, <1>8
<1> QED BY <1>9 DEF Outlived, since

(* A write keeps the log, and the order if the name is its own or is new.   *)
LEMMA LogFacts ==
  ASSUME ArchivesInv, Logged, NEW name \in Nat, NEW id \in 1..Len(writes) + 1,
         Backup!Write(name, id), \A f \in files : f.id = id => f.name = name,
         clock' = clock
  PROVE  /\ Logged'
         /\ \A i \in Nat : Outlived(i) => Keep =< Cardinality(Others(writes', i))
         /\ \A n : Used(n) => \E i \in 1..Len(writes') : writes'[i].name = n
         /\ InOrder => /\ \A f \in files' : f.mtime =< clock'
                       /\ \A f, g \in files' : f.nth < g.nth => f.mtime =< g.mtime
<1> DEFINE n   == Len(writes)
           new == [name |-> name, id |-> id, mtime |-> clock, nth |-> n + 1]
           old == files \ Backup!Named(name)
<1>1. n \in Nat /\ clock \in Nat /\ id \in 1..n + 1
  BY Lengths DEF ArchivesInv
<1>2. /\ Len(writes') = n + 1 /\ \A i \in 1..n : writes'[i] = writes[i]
      /\ writes'[n + 1] = [name |-> name, id |-> id]
      /\ files' = old \union {new}
  BY WriteFacts
<1>3. /\ new.name = name /\ new.id = id /\ new.nth = n + 1 /\ new.mtime = clock
      /\ old \subseteq files
      /\ writes'[n + 1].id = id /\ writes'[n + 1].name = name
  BY <1>2
<1>4. \A f \in old : /\ f.nth \in 1..n /\ f.id \in 1..n /\ f.mtime \in Nat
                     /\ writes[f.nth].id = f.id /\ f.id =< f.nth /\ Used(f.name)
  BY <1>3 DEF ArchivesInv, Archives, Logged
<1> HIDE DEF new, old
<1>5. \A i \in 1..n + 1 : i \in 1..n \/ i = n + 1
  BY <1>1
<1>6. \A i \in 1..n : i \in 1..n + 1
  BY <1>1
<1>7. n + 1 \in 1..n + 1
  BY <1>1
<1>8. \A m : Used(m) => \E i \in 1..Len(writes') : writes'[i].name = m
  BY <1>2, <1>6 DEF Used
<1>9. \A i \in 1..n + 1 : writes'[i].id \in 1..n + 1
  BY <1>1, <1>2, <1>3, <1>5, <1>6 DEF Logged
<1>10. Logged'
  <2>1. ASSUME NEW f \in files'
        PROVE  /\ writes'[f.nth].id = f.id /\ f.id =< f.nth
               /\ \E i \in 1..Len(writes') : writes'[i].name = f.name
    <3>1. CASE f \in old
      BY <1>2, <1>4, <1>8, <3>1
    <3>2. CASE f = new
      BY <1>1, <1>2, <1>3, <1>7, <3>2
    <3> QED BY <1>2, <3>1, <3>2
  <2> QED BY <1>2, <1>9, <2>1 DEF Logged, Used
<1>11. ASSUME NEW i \in Nat, Outlived(i)
       PROVE  Keep =< Cardinality(Others(writes', i))
  <2>1. Cardinality(Others(writes, i)) =< Cardinality(Others(writes', i))
    BY <1>1, <1>2, <1>9, OthersGrow
  <2>2. Cardinality(Others(writes, i)) \in Nat
    BY OthersFinite, FS_CardinalityType
  <2>3. Cardinality(Others(writes', i)) \in Nat
    <3>1. Others(writes', i) \subseteq 1..n + 1
      <4>1. \A j \in i + 1 .. n + 1 : j \in 1..n + 1
        BY <1>1
      <4> QED BY <1>2, <1>9, <4>1 DEF Others
    <3>2. IsFiniteSet(1..n + 1)
      BY <1>1, FS_Interval
    <3> QED BY <3>1, <3>2, FS_Subset, FS_CardinalityType
  <2> QED BY <1>11, <2>1, <2>2, <2>3, RetentionAssumption DEF Outlived
<1>12. ASSUME InOrder
       PROVE  /\ \A f \in files' : f.mtime =< clock'
              /\ \A f, g \in files' : f.nth < g.nth => f.mtime =< g.mtime
  <2>1. \A f \in files' : f.mtime =< clock' /\ (f = new \/ f \in old)
    BY <1>1, <1>2, <1>3, <1>12 DEF InOrder
  <2>2. ASSUME NEW f \in files', NEW g \in files', f.nth < g.nth
        PROVE  f.mtime =< g.mtime
    <3>1. CASE g = new
      BY <1>3, <2>1, <3>1
    <3>2. CASE g \in old /\ f = new
      BY <1>1, <1>3, <1>4, <2>2, <3>2
    <3>3. CASE g \in old /\ f \in old
      BY <1>3, <1>12, <2>2, <3>3 DEF InOrder
    <3> QED BY <2>1, <3>1, <3>2, <3>3
  <2> QED BY <2>1, <2>2
<1> QED BY <1>8, <1>10, <1>11, <1>12

LEMMA SurviveNext == SurviveInv /\ [Next]_vars => SurviveInv'
<1> SUFFICES ASSUME SurviveInv, [Next]_vars PROVE SurviveInv'
  OBVIOUS
<1>1. ArchivesInv /\ ArchivesInv' /\ Logged /\ finished \subseteq Nat
  BY ArchivesNext DEF SurviveInv
<1>2. muddled = FALSE => InOrder
  BY DEF SurviveInv
<1>3. Len(writes) \in Nat /\ \A f \in files : f.id \in Nat
  BY <1>1, Lengths DEF ArchivesInv, Archives
(* Without a write, archives are only removed, and only outlived ones.      *)
<1>4. ASSUME UNCHANGED <<writes, finished>>, files' \subseteq files,
             muddled' = FALSE => muddled = FALSE /\ clock' >= clock,
             InOrder => \A f \in files \ files' : Outlived(f.id),
             \A s \in Savers : Prunes(saves'[s]) /\ InOrder =>
               \A m \in saves'[s].names : Used(m),
             \A s \in Savers : saves'[s].step = "removing" /\ InOrder =>
               \A f \in files : f.name \in saves'[s].names => Outlived(f.id)
      PROVE  SurviveInv'
  <2>1. Logged'
    BY <1>1, <1>4 DEF Logged, Used
  <2>2. ASSUME muddled' = FALSE PROVE InOrder'
    <3>1. InOrder /\ clock' >= clock
      BY <1>2, <1>4, <2>2
    <3>2. \A f \in files' : f.mtime =< clock'
      <4>1. clock \in Nat /\ clock' \in Nat /\ \A f \in files : f.mtime \in Nat
        BY <1>1 DEF ArchivesInv, Archives
      <4> QED BY <1>4, <3>1, <4>1 DEF InOrder
    <3>3. \A f, g \in files' : f.nth < g.nth => f.mtime =< g.mtime
      BY <1>4, <3>1 DEF InOrder
    <3>4. \A id \in finished : (\E f \in files' : f.id = id) \/ Outlived(id)
      BY <1>4, <3>1 DEF InOrder
    <3>5. \A s \in Savers : Prunes(saves'[s]) => \A m \in saves'[s].names : Used(m)
      BY <1>4, <3>1
    <3>6. \A s \in Savers : saves'[s].step = "removing" =>
            \A f \in files' : f.name \in saves'[s].names => Outlived(f.id)
      BY <1>4, <3>1
    <3> QED BY <1>4, <3>2, <3>3, <3>4, <3>5, <3>6 DEF InOrder, Outlived, Used
  <2> QED BY <1>1, <1>4, <2>1, <2>2 DEF SurviveInv
(* One request goes on.                                                     *)
<1>5. ASSUME UNCHANGED <<writes, finished, muddled, clock>>, files' \subseteq files,
             InOrder => \A f \in files \ files' : Outlived(f.id),
             NEW p \in Savers, NEW save \in Saves, Backup!Now(p, save),
             Prunes(save) /\ InOrder => \A m \in save.names : Used(m),
             save.step = "removing" /\ InOrder =>
               \A f \in files : f.name \in save.names => Outlived(f.id)
      PROVE  SurviveInv'
  <2>1. saves'[p] = save /\ \A s \in Savers \ {p} : saves'[s] = saves[s]
    BY <1>1, <1>5, NowFacts
  <2>2. \A s \in Savers : Prunes(saves'[s]) /\ InOrder =>
          \A m \in saves'[s].names : Used(m)
    BY <1>5, <2>1 DEF InOrder
  <2>3. \A s \in Savers : saves'[s].step = "removing" /\ InOrder =>
          \A f \in files : f.name \in saves'[s].names => Outlived(f.id)
    BY <1>5, <2>1 DEF InOrder
  <2>4. clock' >= clock /\ (muddled' = FALSE => muddled = FALSE)
    BY <1>1, <1>5 DEF ArchivesInv
  <2> QED BY <1>4, <1>5, <2>2, <2>3, <2>4
<1>6. ASSUME NEW p \in Savers, NEW save \in Saves, Backup!Now(p, save),
             ~Prunes(save), UNCHANGED <<writes, finished, muddled, clock, files>>
      PROVE  SurviveInv'
  BY <1>5, <1>6 DEF Prunes
(* One request writes, under a name of its own or one not used before.      *)
<1>7. ASSUME NEW p \in Savers, NEW save \in Saves, Backup!Now(p, save),
             ~Prunes(save), clock' = clock,
             NEW name \in Nat, NEW id \in 1..Len(writes) + 1,
             Backup!Write(name, id), \A f \in files : f.id = id => f.name = name,
             muddled' = FALSE =>
               /\ muddled = FALSE
               /\ ~Used(name) \/ \E f \in files : f.id = id,
             finished' \subseteq finished \union {id}
      PROVE  SurviveInv'
  <2>1. /\ Logged'
        /\ \A i \in Nat : Outlived(i) => Keep =< Cardinality(Others(writes', i))
        /\ \A n : Used(n) => \E i \in 1..Len(writes') : writes'[i].name = n
        /\ InOrder => /\ \A f \in files' : f.mtime =< clock'
                      /\ \A f, g \in files' : f.nth < g.nth => f.mtime =< g.mtime
    BY <1>1, <1>7, LogFacts
  <2>2. saves'[p] = save /\ \A s \in Savers \ {p} : saves'[s] = saves[s]
    BY <1>1, <1>7, NowFacts
  <2>3. PICK new : /\ new.name = name /\ new.id = id
                   /\ files' = (files \ Backup!Named(name)) \union {new}
    BY <1>1, <1>7, WriteFacts
  <2>4. ASSUME muddled' = FALSE PROVE InOrder'
    <3>1. InOrder /\ (~Used(name) \/ \E f \in files : f.id = id)
      BY <1>2, <1>7, <2>4
    <3>2. \A f \in files : f.name = name => f.id = id
      <4>1. CASE ~Used(name)
        BY <1>1, <4>1 DEF Logged
      <4>2. CASE \E f \in files : f.id = id
        BY <1>1, <1>7, <4>2 DEF ArchivesInv
      <4> QED BY <3>1, <4>1, <4>2
    <3>3. \A s \in Savers : Prunes(saves'[s]) =>
            s # p /\ saves'[s] = saves[s] /\ Prunes(saves[s])
      BY <1>7, <2>2
    <3>4. \A s \in Savers : Prunes(saves'[s]) =>
            \A n \in saves'[s].names : \E i \in 1..Len(writes') : writes'[i].name = n
      BY <2>1, <3>1, <3>3 DEF InOrder
    <3>5. ASSUME NEW s \in Savers, saves'[s].step = "removing",
                 NEW f \in files', f.name \in saves'[s].names
          PROVE  Keep =< Cardinality(Others(writes', f.id))
      <4>1. saves[s].step = "removing" /\ f.name \in saves[s].names /\ Prunes(saves[s])
        BY <3>3, <3>5 DEF Prunes
      <4>2. PICK g \in files : g.id = f.id /\ g.name = f.name
        <5>1. CASE f \in files
          BY <5>1
        <5>2. CASE f = new
          <6>1. Used(name)
            BY <2>3, <3>1, <4>1, <5>2 DEF InOrder
          <6>2. PICK h \in files : h.id = id
            BY <3>1, <6>1
          <6> QED BY <1>7, <2>3, <5>2, <6>2
        <5> QED BY <2>3, <5>1, <5>2
      <4>3. Outlived(f.id) /\ f.id \in Nat
        BY <1>3, <3>1, <4>1, <4>2 DEF InOrder
      <4> QED BY <2>1, <4>3
    <3>6. ASSUME NEW i \in finished'
          PROVE  \/ \E f \in files' : f.id = i
                 \/ Keep =< Cardinality(Others(writes', i))
      <4>1. CASE i = id
        BY <2>3, <4>1
      <4>2. CASE i # id
        <5>1. (\E f \in files : f.id = i) \/ Outlived(i)
          BY <1>7, <3>1, <3>6, <4>2 DEF InOrder
        <5>2. ASSUME NEW f \in files, f.id = i PROVE f \in files'
          BY <2>3, <3>2, <4>2, <5>2 DEF Backup!Named
        <5>3. i \in Nat
          BY <1>1, <1>7, <3>6, <4>2
        <5> QED BY <2>1, <5>1, <5>2, <5>3
      <4> QED BY <4>1, <4>2
    <3> QED BY <2>1, <3>1, <3>4, <3>5, <3>6 DEF InOrder, Outlived, Used
  <2>5. finished' \subseteq Nat
    BY <1>1, <1>3, <1>7
  <2> QED BY <1>1, <2>1, <2>4, <2>5 DEF SurviveInv
<1>8. ASSUME NEW p \in Savers, Backup!Begin(p) PROVE SurviveInv'
  <2>1. [step |-> "opening", name |-> clock] \in Saves
    BY <1>1 DEF Saves, ArchivesInv
  <2>2. ~Prunes([step |-> "opening", name |-> clock])
    BY DEF Prunes
  <2> QED BY <1>6, <1>8, <2>1, <2>2 DEF Backup!Begin, Backup!history
<1>9. \A save \in {[step |-> "idle"], [step |-> "listing"]} :
        save \in Saves /\ ~Prunes(save)
  BY DEF Saves, Prunes
<1>10. ASSUME NEW p \in Savers,
              \/ Backup!FinishInVain(p) \/ Backup!WriteFails(p)
              \/ Backup!SortRaises(p) \/ Backup!Respond(p)
       PROVE  SurviveInv'
  <2>1. /\ UNCHANGED <<writes, finished, muddled, clock, files>>
        /\ \E save \in {[step |-> "idle"], [step |-> "listing"]} :
             Backup!Now(p, save)
    BY <1>10 DEF Backup!FinishInVain, Backup!WriteFails, Backup!SortRaises,
                 Backup!Respond, Backup!history, Backup!Idle
  <2> QED BY <1>6, <1>9, <2>1
<1>11. ASSUME NEW p \in Savers, Backup!OpenFile(p) PROVE SurviveInv'
  <2> DEFINE name == saves[p].name
             id   == Len(writes) + 1
             save == [step |-> "writing", name |-> name, id |-> id]
  <2>1. /\ saves[p].step = "opening" /\ Backup!Write(name, id)
        /\ Backup!Now(p, save) /\ clock' = clock /\ finished' = finished
        /\ muddled' = (muddled \/ name \in {w.name : w \in Backup!Range(writes)})
    BY <1>11 DEF Backup!OpenFile
  <2>2. name \in Nat
    BY <1>1, <2>1 DEF ArchivesInv, Saves
  <2>3. id \in Nat /\ id \in 1..Len(writes) + 1
    BY <1>3
  <2>4. \A f \in files : f.id # id
    BY <1>1, <1>3 DEF ArchivesInv
  <2>5. save \in Saves /\ ~Prunes(save)
    BY <2>2, <2>3 DEF Saves, Prunes
  <2>6. Used(name) => name \in {w.name : w \in Backup!Range(writes)}
    <3>1. \A i \in 1..Len(writes) : writes[i] \in Backup!Range(writes)
      BY <1>1, LenProperties DEF Backup!Range, ArchivesInv
    <3> QED BY <3>1 DEF Used
  <2>7. muddled' = FALSE => muddled = FALSE /\ ~Used(name)
    <3>1. muddled \in BOOLEAN
      BY <1>1 DEF ArchivesInv
    <3> QED BY <2>1, <2>6, <3>1
  <2> HIDE DEF name, id, save
  <2> QED BY <1>7, <2>1, <2>2, <2>3, <2>4, <2>5, <2>7
<1>12. ASSUME NEW p \in Savers, Backup!FinishFile(p) PROVE SurviveInv'
  <2> DEFINE name == saves[p].name
             id   == saves[p].id
             save == [step |-> "listing"]
  <2>1. /\ saves[p].step = "writing" /\ Backup!Write(name, id)
        /\ Backup!Now(p, save)
        /\ {f.id : f \in Backup!Named(name)} = {id}
        /\ clock' = clock /\ muddled' = muddled
        /\ finished' = finished \union {id}
    BY <1>12 DEF Backup!FinishFile
  <2>2. PICK own \in Backup!Named(name) : own.id = id
    BY <2>1
  <2>3. own \in files /\ own.name = name
    BY DEF Backup!Named
  <2>4. name \in Nat /\ id \in 1..Len(writes) + 1
    BY <1>1, <1>3, <2>2, <2>3, SMTT(30) DEF ArchivesInv, Archives
  <2>5. \A f \in files : f.id = id => f.name = name
    BY <1>1, <2>2, <2>3 DEF ArchivesInv
  <2>6. save \in Saves /\ ~Prunes(save)
    BY <1>9
  <2>7. \E f \in files : f.id = id
    BY <2>2, <2>3
  <2> HIDE DEF name, id, save
  <2> QED BY <1>7, <2>1, <2>4, <2>5, <2>6, <2>7
<1>13. ASSUME NEW p \in Savers, Backup!ListFiles(p) PROVE SurviveInv'
  <2> DEFINE all  == {f.name : f \in files}
             save == [step |-> "sorting", names |-> all]
  <2>1. /\ Backup!Now(p, save)
        /\ UNCHANGED <<writes, finished, muddled, clock, files>>
    BY <1>13 DEF Backup!ListFiles, Backup!history
  <2>2. all \in SUBSET Nat /\ \A m \in all : Used(m)
    <3>1. all \in SUBSET Nat
      BY <1>1, SMTT(30) DEF ArchivesInv, Archives
    <3>2. \A m \in all : Used(m)
      BY <1>1, SMTT(30) DEF ArchivesInv, Archives, Logged
    <3> QED BY <3>1, <3>2
  <2> HIDE DEF all
  <2>3. /\ save \in Saves /\ save.step = "sorting" /\ save.names = all
    BY <2>2 DEF Saves
  <2> HIDE DEF save
  <2> QED BY <1>5, <2>1, <2>2, <2>3
<1>14. ASSUME NEW p \in Savers, Backup!SortFiles(p) PROVE SurviveInv'
  <2> DEFINE listed == Backup!Listed(p)
             many   == Backup!TooMany(listed)
             names  == {f.name : f \in many}
             save   == [step |-> "removing", names |-> names]
  <2>1. /\ Backup!Now(p, save)
        /\ UNCHANGED <<writes, finished, muddled, clock, files>>
    BY <1>14 DEF Backup!SortFiles, Backup!history
  <2>2. listed \in SUBSET files /\ many \subseteq listed
    BY DEF Backup!Listed, Backup!TooMany
  <2>3. InOrder => \A f \in many : Outlived(f.id)
    BY <1>1, <2>2, TooManyAreOutlived
  <2> HIDE DEF many, listed
  <2>4. names \in SUBSET Nat /\ \A m \in names : Used(m)
    BY <1>1, <2>2, SMTT(30) DEF ArchivesInv, Archives, Logged
  <2>5. \A f \in files : f.name \in names => f \in many
    BY <1>1, <2>2 DEF ArchivesInv
  <2> HIDE DEF names
  <2>6. /\ save \in Saves /\ save.step = "removing" /\ save.names = names
    BY <2>4 DEF Saves
  <2> HIDE DEF save
  <2> QED BY <1>5, <2>1, <2>3, <2>4, <2>5, <2>6
<1>15. ASSUME NEW p \in Savers, NEW name, Backup!Remove(p, name)
       PROVE  SurviveInv'
  <2> DEFINE save == [saves[p] EXCEPT !.names = @ \ {name}]
  <2>1. /\ saves[p].step = "removing" /\ name \in saves[p].names
        /\ Backup!Now(p, save)
        /\ UNCHANGED <<writes, finished, muddled, clock>>
        /\ files' = files \ Backup!Named(name) \/ files' = files
    BY <1>15 DEF Backup!Remove
  <2>2. /\ save \in Saves /\ save.step = "removing"
        /\ save.names = saves[p].names \ {name}
    BY <1>1, <2>1 DEF ArchivesInv, Saves
  <2> HIDE DEF save
  <2>3. files' \subseteq files /\ \A f \in files \ files' : f.name = name
    BY <2>1 DEF Backup!Named
  <2>4. InOrder => /\ \A m \in saves[p].names : Used(m)
                   /\ \A f \in files : f.name \in saves[p].names => Outlived(f.id)
    BY <2>1 DEF InOrder, Prunes
  <2> QED BY <1>5, <2>1, <2>2, <2>3, <2>4
<1>16. CASE Backup!KillSavers
  <2>1. /\ UNCHANGED <<writes, finished, muddled, clock, files>>
        /\ \A s \in Savers : saves'[s].step = "idle"
    BY <1>16 DEF Backup!KillSavers, Backup!Idle
  <2>2. clock' >= clock
    BY <1>1, <2>1 DEF ArchivesInv
  <2> QED BY <1>4, <2>1, <2>2 DEF Prunes
<1>17. CASE Backup!Tick \/ UNCHANGED backupVars
  <2>1. UNCHANGED <<writes, finished, muddled, files, saves>>
    BY <1>17 DEF Backup!Tick, Backup!history, backupVars
  <2>2. clock' >= clock
    BY <1>1, <1>17 DEF Backup!Tick, backupVars, ArchivesInv
  <2> QED BY <1>4, <2>1, <2>2 DEF InOrder
<1>18. CASE Backup!StepBack
  <2>1. UNCHANGED <<writes, finished, files>> /\ muddled' = TRUE
    BY <1>18 DEF Backup!StepBack
  <2> QED BY <1>1, <2>1 DEF SurviveInv, Logged, Used
<1> QED BY <1>8, <1>10, <1>11, <1>12, <1>13, <1>14, <1>15, <1>16, <1>17, <1>18,
           BackupOrNot DEF Backup!Next

(* For any retention and any number of requests, a finished archive is      *)
(* removed only when that many others have been opened or finished since    *)
(* (api.py:207-226, 241-251).                                               *)
THEOREM NewestArchivesSurvive == Spec => []NewestSurvive
<1>1. SurviveInv => NewestSurvive
  <2> SUFFICES ASSUME SurviveInv, muddled = FALSE, NEW id \in finished,
                      ~\E f \in files : f.id = id
               PROVE  Backup!Cardinality(Backup!Since(id)) >= Keep
    BY DEF NewestSurvive, Backup!NewestSurvive, SurviveInv, ArchivesInv
  <2>1. Outlived(id) /\ ArchivesInv /\ Logged /\ id \in Nat
    BY DEF SurviveInv, InOrder
  <2>2. Backup!Since(id) = Others(writes, id)
    BY DEF Backup!Since, Others
  <2>3. Cardinality(Others(writes, id)) \in Nat /\ Keep \in Nat
    BY <2>1, OthersFinite, FS_CardinalityType, RetentionAssumption
  <2>4. Cardinality(Others(writes, id)) >= Keep
    BY <2>1, <2>3 DEF Outlived
  <2> QED BY <2>2, <2>4, SameCard
<1> QED BY <1>1, SurviveInit, SurviveNext, PTL DEF Spec

=============================================================================
