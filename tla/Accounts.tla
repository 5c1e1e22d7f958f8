------------------------------- MODULE Accounts -------------------------------
(***************************************************************************)
(* The one user of the server: the row in db.py, the pages of web/auth.py  *)
(* and api.py that sign in and change the password, and the first user     *)
(* that a start creates.  A request checks a password against the row it   *)
(* has read, without the lock, and writes the row later.                   *)
(*                                                                         *)
(* Cookies outlive the process (SecretKey).  A loss of power takes the     *)
(* row back to an earlier state (PRAGMA synchronous=NORMAL, see Store).    *)
(* last_login and the messages of the pages are left out.                  *)
(***************************************************************************)
EXTENDS Integers, Sequences, SequencesExt

CONSTANTS
  Browsers,    \* who asks: each has one request in progress at most
  Long,        \* passwords of eight characters or more
  Default,     \* DEFAULT_PASSWORD, which is shorter
  MaxCommits   \* bound: states of the row

VARIABLES
  up,         \* is the server running?
  rows,       \* the states of the user's row so far; the last one counts
  signedIn,   \* browsers with a valid session cookie
  asks        \* requests in progress, by browser

Row  == Last(rows)
NoRow == [pw |-> "none", forced |-> FALSE]
Idle == [step |-> "idle"]

Init ==
  /\ up = FALSE /\ rows = <<NoRow>>
  /\ signedIn = {} /\ asks = [b \in Browsers |-> Idle]

Put(row) ==
  /\ Len(rows) < MaxCommits
  /\ rows' = Append(rows, row)

(* main opens the database and creates the first user if there is none.     *)
Start ==
  /\ ~up /\ up' = TRUE
  /\ IF Row = NoRow THEN Put([pw |-> Default, forced |-> TRUE])
                    ELSE UNCHANGED rows
  /\ UNCHANGED <<signedIn, asks>>

Now(b, ask) == asks' = [asks EXCEPT ![b] = ask]

(* POST /login: who is signed in already is sent to the dashboard.          *)
AskLogin(b, typed) ==
  /\ up /\ asks[b] = Idle /\ b \notin signedIn
  /\ Now(b, [step |-> "reading", for |-> "login", typed |-> typed,
               seen |-> NoRow])
  /\ UNCHANGED <<up, rows, signedIn>>

(* POST /change-password, of the page or of the API.                        *)
AskChange(b, typed, new) ==
  /\ up /\ asks[b] = Idle /\ b \in signedIn
  /\ Now(b, [step |-> "reading", for |-> "change", typed |-> typed,
               new |-> new, at |-> Len(rows), seen |-> NoRow])
  /\ UNCHANGED <<up, rows, signedIn>>

(* verify_password reads the row under the lock ...                         *)
ReadRow(b) ==
  /\ asks[b].step = "reading"
  /\ Now(b, [asks[b] EXCEPT !.step = "checking", !.seen = Row])
  /\ UNCHANGED <<up, rows, signedIn>>

(* Mutant of Matches: a forced change does without the old password.        *)
MatchesOrForced(ask) == ask.typed = ask.seen.pw \/ ask.seen.forced

(* ... and lets bcrypt compare without it.                                  *)
Matches(ask) == ask.typed = ask.seen.pw

(* Mutant of Acceptable: any new password will do.                          *)
AcceptableAny(new) == new \in Long \union {Default}

Acceptable(new) == new \in Long

CheckFails(b) ==
  /\ asks[b].step = "checking"
  /\ \/ ~Matches(asks[b])
     \/ asks[b].for = "change" /\ ~Acceptable(asks[b].new)
  /\ Now(b, Idle)
  /\ UNCHANGED <<up, rows, signedIn>>

Login(b) ==
  /\ asks[b].step = "checking" /\ asks[b].for = "login" /\ Matches(asks[b])
  /\ signedIn' = signedIn \union {b}
  /\ Now(b, Idle)
  /\ UNCHANGED <<up, rows>>

Check(b) ==
  /\ asks[b].step = "checking" /\ asks[b].for = "change"
  /\ Matches(asks[b]) /\ Acceptable(asks[b].new)
  /\ Now(b, [asks[b] EXCEPT !.step = "setting"])
  /\ UNCHANGED <<up, rows, signedIn>>

(* set_password, one UPDATE: the password and must_change_password.         *)
SetPassword(b) ==
  /\ asks[b].step = "setting"
  /\ Put([pw |-> asks[b].new, forced |-> FALSE])
  /\ Now(b, Idle)
  /\ UNCHANGED <<up, signedIn>>

(* GET /logout, or the session is over.                                     *)
SignOut(b) ==
  /\ asks[b] = Idle
  /\ signedIn' = signedIn \ {b}
  /\ UNCHANGED <<up, rows, asks>>

Stopped == up' = FALSE /\ asks' = [b \in Browsers |-> Idle]

Kill == Stopped /\ UNCHANGED <<rows, signedIn>>

PowerLoss ==
  /\ Stopped
  /\ \E n \in 1..Len(rows) : rows' = SubSeq(rows, 1, n)
  /\ UNCHANGED signedIn

Next ==
  \/ Start \/ Kill \/ PowerLoss
  \/ \E b \in Browsers :
       \/ \E typed \in Long \union {Default} :
            \/ AskLogin(b, typed)
            \/ \E new \in Long \union {Default} : AskChange(b, typed, new)
       \/ ReadRow(b) \/ CheckFails(b) \/ Login(b) \/ Check(b)
       \/ SetPassword(b) \/ SignOut(b)

-----------------------------------------------------------------------------
(* The password that everybody knows is in force only while its user has    *)
(* to change it, after any restart and any loss of power (db.py:144-207).   *)
DefaultOnlyWhileForced == Row.pw = Default => Row.forced

(* A change replaces the password its requester typed as the current one,   *)
(* or one that another request has set in the meantime (db.py:179-207).     *)
ChangedBy ==
  \A b \in Browsers :
    asks[b].step = "setting" /\ rows' # rows /\ asks'[b] = Idle /\ up' =>
      Row.pw = asks[b].typed \/ Len(rows) > asks[b].at
=============================================================================
