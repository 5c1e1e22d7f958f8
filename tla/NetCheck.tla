------------------------------- MODULE NetCheck -------------------------------
(***************************************************************************)
(* netcheck.py: the thread that probes the gateway and bounces the Wi-Fi   *)
(* interface through nmcli after fail_threshold failures in a row, and the *)
(* requests that join or forget a network through it (wifi.py, api.py).    *)
(*                                                                         *)
(* A probe may fail on a sound network (nothing need listen on the port).  *)
(* There is no second interface: with wlan0 disconnected there is no       *)
(* default route.  Times and counts kept for display are left out.         *)
(***************************************************************************)
EXTENDS Integers, Sequences

CONSTANT FailThreshold

VARIABLES
  stop,    \* _stop
  host,    \* is a host configured?
  auto,    \* auto_recover, with nmcli installed
  netPc,   \* "waiting", "probing", "disconnecting", "connecting"
  fails,   \* _fails
  iface,   \* wlan0: "up", "wedged" (a route, but no traffic), "down"
  profile, \* is a network saved that it can connect to?
  probes   \* history: the last FailThreshold results since the last bounce

settings == <<stop, host, auto>>
network  == <<iface, profile>>

Init ==
  /\ netPc = "waiting" /\ fails = 0 /\ probes = <<>>
  /\ host \in BOOLEAN /\ auto \in BOOLEAN
  /\ iface = "up" /\ profile = TRUE

(* Mutant of Target: only the gateway is asked.                             *)
TargetIsGateway == iface # "down"

Target == host \/ iface # "down"

(* The interval is over; without a target the round is skipped.             *)
Wake ==
  /\ netPc = "waiting" /\ ~stop /\ Target
  /\ netPc' = "probing"
  /\ UNCHANGED <<settings, network, fails, probes>>

Record(r) ==
  LET all == Append(probes, r)
  IN  probes' = IF Len(all) > FailThreshold THEN Tail(all) ELSE all

(* Mutant of ProbeOk: earlier failures are not forgotten.                   *)
ProbeOkKeepsFails ==
  /\ netPc = "probing" /\ iface = "up"
  /\ Record(TRUE)
  /\ netPc' = "waiting"
  /\ UNCHANGED <<settings, network, fails>>

ProbeOk ==
  /\ netPc = "probing" /\ iface = "up"
  /\ Record(TRUE)
  /\ netPc' = "waiting" /\ fails' = 0
  /\ UNCHANGED <<settings, network>>

(* At the threshold the counter starts again, after the bounce if any.      *)
ProbeFails ==
  /\ netPc = "probing"
  /\ Record(FALSE)
  /\ IF fails + 1 < FailThreshold
       THEN fails' = fails + 1 /\ netPc' = "waiting"
       ELSE \/ auto /\ fails' = fails + 1 /\ netPc' = "disconnecting"
            \/ ~auto /\ fails' = 0 /\ netPc' = "waiting"
  /\ UNCHANGED <<settings, network>>

(* nmcli device disconnect, which may fail or time out: no one looks.       *)
Disconnect ==
  /\ netPc = "disconnecting"
  /\ netPc' = "connecting" /\ iface' \in {iface, "down"}
  /\ UNCHANGED <<settings, fails, profile, probes>>

(* nmcli device connect, which may fail or time out as well.                *)
Connect(new) ==
  /\ netPc = "connecting"
  /\ netPc' = "waiting" /\ fails' = 0 /\ probes' = <<>>
  /\ iface' = new /\ (new = "up" => profile \/ iface = "up")
  /\ UNCHANGED <<settings, profile>>

Thread == \/ Wake \/ ProbeOk \/ ProbeFails \/ Disconnect
          \/ \E new \in {iface, "up"} : Connect(new)

(* nmcli device wifi connect: one that fails may leave the interface down.  *)
JoinNetwork ==
  /\ \/ iface' = "up" /\ profile' = TRUE
     \/ iface' \in {iface, "down"} /\ UNCHANGED profile
  /\ UNCHANGED <<settings, netPc, fails, probes>>

(* nmcli connection delete, perhaps between the two calls of a bounce.      *)
ForgetNetwork ==
  /\ profile /\ profile' = FALSE /\ iface' = "down"
  /\ UNCHANGED <<settings, netPc, fails, probes>>

(* The firmware wedges; it or a person at the keyboard may mend it.         *)
Outside ==
  /\ \/ iface = "up" /\ iface' = "wedged"
     \/ iface # "up" /\ profile /\ iface' = "up"
  /\ UNCHANGED <<settings, netPc, fails, profile, probes>>

Next == Thread \/ JoinNetwork \/ ForgetNetwork \/ Outside

-----------------------------------------------------------------------------
(* The interface is taken down only after fail_threshold failures with no   *)
(* success and no other bounce among them (netcheck.py:128-146).            *)
BouncedOnlyWhenDead ==
  netPc \in {"disconnecting", "connecting"} =>
    probes = [i \in 1..FailThreshold |-> FALSE]
=============================================================================
