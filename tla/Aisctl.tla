-------------------------------- MODULE Aisctl --------------------------------
(***************************************************************************)
(* The endpoints table as an operator edits it: the commands of cli.py,    *)
(* the handlers of web/api.py and the statements of db.py behind them.     *)
(*                                                                         *)
(* A command whose request takes too long ends with an error, and the      *)
(* request may be served later.  Who is not signed in is redirected to the *)
(* login page, which post takes for an empty answer and the others cannot  *)
(* read.  Others edit the table from the pages.  An id goes by what the    *)
(* operator has listed.  Fields other than name and enabled are left out;  *)
(* the server is killed but the power is not lost.                         *)
(***************************************************************************)
EXTENDS Integers, FiniteSets, FiniteSetsExt

CONSTANTS
  Names,
  MaxRows,       \* bound: rows ever made
  MaxRequests,   \* bound: commands
  MaxPending,    \* bound: requests not served yet
  MaxEras        \* bound: times that all sessions end

VARIABLES
  era,       \* the sessions signed in since it began are valid
  cookie,    \* the session file: 0, or the era of the login
  endpoints, \* [id, nth, name, on]
  lastId,    \* AUTOINCREMENT: the largest id ever used
  made,      \* history: rows made so far; the nth of a row tells it apart
  shown,     \* [id, nth] of the rows as the operator last listed them
  sent,      \* commands so far; the last one is the present one
  waits,     \* does the present command wait for its answer?
  pending,   \* requests not served yet
  answer,    \* the response to the present command, or nothing
  told,      \* [no, said]: the last command that ended, and what it printed
  did        \* history: the requests that were carried out

client == <<cookie, shown, sent, waits, told>>
table  == <<endpoints, lastId, made, did>>

Nothing == [said |-> "none"]
NoRow   == [id |-> 0, nth |-> 0]

Init ==
  /\ era = 1 /\ cookie = 0
  /\ endpoints = {} /\ lastId = 0 /\ made = 0 /\ did = {} /\ shown = {}
  /\ sent = 0 /\ waits = FALSE /\ pending = {} /\ answer = Nothing
  /\ told = [no |-> 0, said |-> "none"]

Login ==
  /\ ~waits /\ cookie' = era
  /\ UNCHANGED <<era, shown, sent, waits, told, pending, answer, table>>

Logout ==
  /\ ~waits /\ cookie # 0 /\ cookie' = 0
  /\ UNCHANGED <<era, shown, sent, waits, told, pending, answer, table>>

(* A lifetime is over, or the server started with another key.              *)
SessionsEnd ==
  /\ era < MaxEras /\ era' = era + 1
  /\ UNCHANGED <<client, pending, answer, table>>

(* _get, _post, _patch or _delete: name counts for "add", row for the rest. *)
Send(op, name, row) ==
  /\ ~waits /\ sent < MaxRequests /\ Cardinality(pending) < MaxPending
  /\ sent' = sent + 1 /\ waits' = TRUE /\ answer' = Nothing
  /\ pending' = pending \union
       {[no |-> sent', op |-> op, name |-> name, id |-> row.id,
         meant |-> row.nth, cookie |-> cookie]}
  /\ UNCHANGED <<era, cookie, shown, told, table>>

(* endpoints_enable and endpoints_disable.                                  *)
Toggles == {"enable", "disable"}

Command ==
  \/ Send("list", "", NoRow)
  \/ \E name \in Names : Send("add", name, NoRow)
  \/ \E row \in shown, op \in Toggles \union {"delete"} :
       Send(op, "", row)

Listing == {[id |-> row.id, nth |-> row.nth] : row \in endpoints}

(* Only a list shows anything else than before.                             *)
Served(r, said) ==
  /\ pending' = pending \ {r}
  /\ answer' = IF ~waits \/ r.no # sent THEN answer
               ELSE [said  |-> said,
                     lists |-> IF r.op = "list" /\ said = "ok" THEN Listing ELSE shown]
  /\ UNCHANGED <<era, client>>

Done(r) == did' = did \union {r.no} /\ Served(r, "ok")

SignedIn(r) == r.cookie = era

(* login_required: a redirect to the login page.                            *)
Redirect(r) ==
  /\ ~SignedIn(r)
  /\ Served(r, IF r.op = "add" THEN "empty" ELSE "error")
  /\ UNCHANGED table

List(r) ==
  /\ SignedIn(r) /\ r.op = "list"
  /\ Done(r) /\ UNCHANGED <<endpoints, lastId, made>>

(* Mutant of NewId: no AUTOINCREMENT, one more than the largest in use.     *)
NewIdOfMax == 1 + Max({0} \union {row.id : row \in endpoints})

NewId == lastId + 1

Taken(name) == \E row \in endpoints : row.name = name

Insert(name) ==
  /\ made < MaxRows /\ made' = made + 1 /\ lastId' = NewId
  /\ endpoints' = endpoints \union
       {[id |-> NewId, nth |-> made', name |-> name, on |-> TRUE]}

Add(r) ==
  /\ SignedIn(r) /\ r.op = "add" /\ ~Taken(r.name)
  /\ Insert(r.name) /\ Done(r)

(* The name is not unique: status 400.                                      *)
AddTaken(r) ==
  /\ SignedIn(r) /\ r.op = "add" /\ Taken(r.name)
  /\ Served(r, "error") /\ UNCHANGED table

At(r) == {row \in endpoints : row.id = r.id}

Update(r) ==
  /\ SignedIn(r) /\ r.op \in Toggles /\ At(r) # {}
  /\ endpoints' = (endpoints \ At(r)) \union
       {[row EXCEPT !.on = (r.op = "enable")] : row \in At(r)}
  /\ Done(r) /\ UNCHANGED <<lastId, made>>

Delete(r) ==
  /\ SignedIn(r) /\ r.op = "delete" /\ At(r) # {}
  /\ endpoints' = endpoints \ At(r)
  /\ Done(r) /\ UNCHANGED <<lastId, made>>

(* Mutant of NoSuchRow: the number of rows the statement hit is not asked.  *)
NoSuchRowUnseen(r) ==
  /\ SignedIn(r) /\ r.op \in Toggles \union {"delete"} /\ At(r) = {}
  /\ Served(r, "ok") /\ UNCHANGED table

NoSuchRow(r) ==
  /\ SignedIn(r) /\ r.op \in Toggles \union {"delete"} /\ At(r) = {}
  /\ Served(r, "refused") /\ UNCHANGED table

Ends(said) ==
  /\ waits /\ waits' = FALSE /\ told' = [no |-> sent, said |-> said]
  /\ answer' = Nothing
  /\ UNCHANGED <<era, cookie, sent, pending, table>>

TakeAnswer ==
  /\ answer # Nothing
  /\ shown' = answer.lists
  /\ Ends(answer.said)

(* requests gives up, or finds the connection closed.                       *)
TimeOut == waits /\ answer = Nothing /\ Ends("error") /\ UNCHANGED shown

Kill ==
  /\ pending' = {} /\ answer' = Nothing
  /\ UNCHANGED <<era, client, table>>

(* The pages' own requests.                                                 *)
OtherAdds(name) ==
  /\ ~Taken(name) /\ Insert(name)
  /\ UNCHANGED <<era, client, pending, answer, did>>

OtherDeletes(row) ==
  /\ endpoints' = endpoints \ {row}
  /\ UNCHANGED <<era, client, pending, answer, lastId, made, did>>

Next ==
  \/ Login \/ Logout \/ SessionsEnd \/ Command \/ TakeAnswer \/ TimeOut \/ Kill
  \/ \E r \in pending :
       \/ Redirect(r) \/ List(r) \/ Add(r) \/ AddTaken(r)
       \/ Update(r) \/ Delete(r) \/ NoSuchRow(r)
  \/ \E name \in Names : OtherAdds(name)
  \/ \E row \in endpoints : OtherDeletes(row)

-----------------------------------------------------------------------------
(* Whatever row a late or repeated request changes or removes, it is the    *)
(* one its operator saw under that id, never a newer one (db.py:39,         *)
(* 251-283, api.py:88-113).                                                 *)
HitBy ==
  \A r \in pending : r \notin pending' /\ r.op # "add" =>
    \A row \in endpoints \ endpoints' : row.nth = r.meant

(* "ok" is printed only of a command that was carried out, and a refusal or *)
(* nothing only of one that was not and will not be; an error may be either *)
(* (cli.py:70-101, db.py:279-283).                                          *)
ToldIsDone ==
  /\ told.said = "ok" => told.no \in did
  /\ told.said \in {"refused", "empty"} =>
       told.no \notin did /\ \A r \in pending : r.no # told.no
=============================================================================
