----------------------------- MODULE StatusTable -----------------------------
(***************************************************************************)
(* What the rest of haraltr may rely on of the status table                *)
(* (DaemonStatus in daemon/src/state.rs): who writes it and when it is     *)
(* cleared, with everything that makes the daemon do so left out.  Daemon  *)
(* implements this specification; PamLogin is built on it.                 *)
(*                                                                         *)
(* The monitors of one iteration run, publish any phase at any time, and   *)
(* are aborted.  An aborted monitor may publish once more, however late.   *)
(***************************************************************************)
EXTENDS ProxState

CONSTANTS
  Macs,      \* trusted devices
  Users,     \* uids
  Configs    \* the device lists a configuration may hold: owner of each mac

ASSUME TableAssumption == Configs \subseteq UNION {[D -> Users] : D \in SUBSET Macs}

VARIABLES
  live,      \* live_config: owner of each configured device
  status,    \* daemon_status.devices: the phase shown of each device
  running,   \* devices that have a monitor
  leaving,   \* devices with an aborted monitor that may still publish
  stage      \* what the main loop is up to

vars == <<live, status, running, leaving, stage>>

Stages == {"between", "waiting", "fresh", "steady", "stopped"}

------------------------------------------------------------------------------
Nothing == [d \in {} |-> "None"]

\* user_devices
Devices(list, u) == {d \in DOMAIN list : list[d] = u}

Init ==
  /\ live \in Configs
  /\ status = Nothing
  /\ running = {} /\ leaving = {}
  /\ stage = "between"

\* The active user has none of the configured devices.
Rest ==
  /\ stage = "between" /\ stage' = "waiting"
  /\ UNCHANGED <<live, status, running, leaving>>

\* The devices one user has in some configuration, the live one of a moment
\* ago, get their monitors ...
Begin ==
  /\ stage = "between" /\ stage' = "fresh"
  /\ \E list \in Configs, u \in Users : running' = Devices(list, u)
  /\ running' # {}
  /\ UNCHANGED <<live, status, leaving>>

\* ... and then the table is cleared.
Clear ==
  /\ stage = "fresh" /\ stage' = "steady"
  /\ status' = Nothing
  /\ UNCHANGED <<live, running, leaving>>

\* update_device
Showing(d, name) == [e \in DOMAIN status \union {d} |-> IF e = d THEN name ELSE status[e]]

Publish(d) ==
  /\ d \in running
  /\ \E name \in PhaseName : status' = Showing(d, name)
  /\ UNCHANGED <<live, running, leaving, stage>>

PublishLate(d) ==
  /\ d \in leaving
  /\ \E name \in PhaseName : status' = Showing(d, name)
  /\ leaving' \in {leaving, leaving \ {d}}
  /\ UNCHANGED <<live, running, stage>>

\* The iteration ends: on an edit, on a message after a switch of users, when
\* all monitors have exited, or on SIGHUP, which loads a configuration too.
Abort ==
  /\ stage \in {"waiting", "steady"} /\ stage' = "between"
  /\ live' = live \/ live' \in Configs
  /\ running' = {}
  /\ \E late \in SUBSET running : leaving' = leaving \union late
  /\ UNCHANGED status

\* A web handler commits a configuration.
Edit ==
  /\ stage # "stopped"
  /\ live' \in Configs
  /\ UNCHANGED <<status, running, leaving, stage>>

\* The process ends.
Stop ==
  /\ stage \in {"waiting", "steady"} /\ stage' = "stopped"
  /\ status' = Nothing
  /\ running' = {} /\ leaving' = {}
  /\ UNCHANGED live

Next ==
  \/ Rest \/ Begin \/ Clear \/ Abort \/ Edit \/ Stop
  \/ \E d \in Macs : Publish(d) \/ PublishLate(d)

Spec == Init /\ [][Next]_vars

------------------------------------------------------------------------------
TypeOK ==
  /\ live \in Configs
  /\ status \in [DOMAIN status -> PhaseName] /\ DOMAIN status \subseteq Macs
  /\ running \subseteq Macs /\ leaving \subseteq Macs
  /\ stage \in Stages
  /\ running = {} <=> stage \in {"between", "waiting", "stopped"}
==============================================================================
