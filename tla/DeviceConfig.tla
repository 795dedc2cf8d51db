---------------------------- MODULE DeviceConfig ----------------------------
(***************************************************************************)
(* What is in the configuration: its sections, its device entries and how  *)
(* a device's settings follow from both (daemon/src/config.rs), the MAC    *)
(* addresses that name devices (mac.rs), and the requests that read and    *)
(* change them (web/api.rs, web/bt_devices.rs).                            *)
(*                                                                         *)
(* ConfigStore follows one copy of the configuration through locks and     *)
(* files and takes its content to be anything.  This module is about the   *)
(* content, and takes a save to be one step.                               *)
(*                                                                         *)
(* An operator whose comment begins with "Slip:" is not the code (see      *)
(* ProxState).                                                             *)
(***************************************************************************)
EXTENDS Naturals, Sequences, FiniteSets

CONSTANTS
  Macs, NoMac,    \* devices, and what a text that is no MAC stands for
  Forms,          \* ways to write one: upper or lower case, colons or dashes
  Canonical,      \* the one Display writes and BlueZ reports
  Users, NoUid,   \* NO_ACTIVE_UID
  Values,         \* values of a setting
  Start,          \* configurations the daemon may load
  Overrides,      \* settings a request may give to a device
  Patches,        \* <<section, name, value>> a PUT may contain
  Lists,          \* device lists a PUT may contain
  Requests,       \* requests, each handled once
  Budget          \* bound of session switches and reloads

ASSUME FormsAssumption ==
  NoMac \notin Macs /\ NoUid \notin Users /\ Canonical \in Forms /\ Budget \in Nat

------------------------------------------------------------------------------
(* Settings.                                                               *)

\* Validation keeps the first at 1 or more, the second above 0, and the rest
\* as they are.
Counted == {"poll_interval_ms", "disconnect_poll_interval_ms", "lock_count", "unlock_count",
            "duration_secs", "mouse_interval_ms", "enter_interval_ms", "port"}
Positive == {"kalman_q", "kalman_r"}

InRange(name, v) == name \in Counted \union Positive => v > 0

Polling == {"poll_interval_ms", "disconnect_poll_interval_ms"}
Judging == {"rpl_threshold", "lock_count", "unlock_count", "kalman_q", "kalman_r",
            "kalman_initial", "disconnect_action"}

\* The sections of config.toml and the names in each.
Names == [br_edr |-> Polling \union Judging,
          le |-> Polling \union Judging \union {"fallback_tx_power"},
          wake |-> {"duration_secs", "mouse_interval_ms", "enter_interval_ms"},
          web |-> {"port"},
          top |-> {"adapter_index"}]

\* What spawn_device_task is given: BluetoothConfig and ProximityConfig.
Resolved == Polling \union Judging \union {"adapter_index", "fallback_tx_power"}

------------------------------------------------------------------------------
(* Devices.                                                                *)

Spelling == [mac: Macs \union {NoMac}, form: Forms]

\* Mac::from_str: case and separators are all that is lost.
Parse(text) == text.mac

\* Mac's Display
Show(mac) == [mac |-> mac, form |-> Canonical]

Kind == {"br_edr", "le_public", "le_random"}

\* A DeviceEntry; over holds the overrides that are not None.
Entry == [uid: Users, target_mac: Spelling, kind: Kind, over: Overrides]

\* A configuration: every section with its names, and a list of entries.
IsConfig(c) ==
  /\ c = [settings |-> [s \in DOMAIN Names |-> c.settings[s]], devices |-> c.devices]
  /\ \A s \in DOMAIN Names : c.settings[s] \in [Names[s] -> Values]
  /\ c.devices \in Seq(Entry)

\* What a file or a request holds has been deserialized: it has the form of a
\* configuration, or of a part of one.
ASSUME InputsAssumption ==
  /\ \A c \in Start : IsConfig(c)
  /\ \A l \in Lists : l \in Seq(Entry)
  /\ \A x \in Patches : x[1] \in DOMAIN Names /\ x[2] \in Names[x[1]] /\ x[3] \in Values

\* Slip: two spellings of a MAC are two devices.
NoDuplicateText(devices) ==
  \A i, j \in DOMAIN devices : i # j => devices[i].target_mac # devices[j].target_mac

\* validate_config_schema
NoDuplicate(devices) ==
  \A i, j \in DOMAIN devices : i # j => Parse(devices[i].target_mac) # Parse(devices[j].target_mac)

\* Slip: the overrides of a device are not looked into.
EntryValidShallow(e) == Parse(e.target_mac) # NoMac

EntryValid(e) ==
  /\ Parse(e.target_mac) # NoMac
  /\ \A n \in DOMAIN e.over : InRange(n, e.over[n])

\* Config::validate
Valid(c) ==
  /\ \A s \in DOMAIN Names : \A n \in Names[s] : InRange(n, c.settings[s][n])
  /\ \A i \in DOMAIN c.devices : EntryValid(c.devices[i])
  /\ NoDuplicate(c.devices)

\* The default a device falls back on: that of its kind, but a classic one
\* has no transmit power to fall back on.
DefaultOf(c, kind, name) ==
  CASE name = "adapter_index" -> c.settings.top[name]
    [] name = "fallback_tx_power" /\ kind = "br_edr" -> 0
    [] OTHER -> c.settings[IF kind = "br_edr" THEN "br_edr" ELSE "le"][name]

\* bluetooth_for_device and proximity_for_device
SettingsFor(c, e) ==
  [name \in Resolved |->
     IF name \in DOMAIN e.over THEN e.over[name] ELSE DefaultOf(c, e.kind, name)]

------------------------------------------------------------------------------
VARIABLES
  live,     \* AppState.config
  seat,     \* active_uid
  budget,
  req       \* each request: where it is, the entry it is about to add, the
            \* configuration it is about to save, and for a list of devices the
            \* user it is for, those at the seat since it began, the list, and
            \* the entries it read

vars == <<live, seat, budget, req>>

Idle == [pc |-> "idle"]

Init ==
  /\ live \in {c \in Start : Valid(c)}
  /\ seat \in Users \union {NoUid}
  /\ budget = Budget
  /\ req = [r \in Requests |-> Idle]

At(r, step) == req[r].pc = step
Becomes(r, record) == req' = [req EXCEPT ![r] = record]

Saves(r, devices) == Becomes(r, [pc |-> "save", new |-> [live EXCEPT !.devices = devices]])
Refused(r) == Becomes(r, [pc |-> "refused"])

\* Where in the list the device is, however it is written there.
Places(text) == {i \in DOMAIN live.devices : Parse(live.devices[i].target_mac) = Parse(text)}

First(places) == CHOOSE i \in places : \A j \in places : i <= j

------------------------------------------------------------------------------
\* Slip: a request made while nobody has the seat is taken all the same.
AddUnseated(r) ==
  /\ At(r, "idle")
  /\ \E text \in Spelling, kind \in Kind, over \in Overrides :
       LET e == [uid |-> seat, target_mac |-> text, kind |-> kind, over |-> over] IN
         IF EntryValid(e) THEN Becomes(r, [pc |-> "adding", entry |-> e]) ELSE Refused(r)
  /\ UNCHANGED <<live, seat, budget>>

\* add_device_handler: a bad request (400) and one made in no active session
\* (503) go no further.  The entry is for the user at the seat ...
Add(r) ==
  /\ At(r, "idle")
  /\ \E text \in Spelling, kind \in Kind, over \in Overrides :
       LET e == [uid |-> seat, target_mac |-> text, kind |-> kind, over |-> over] IN
         IF EntryValid(e) /\ seat # NoUid THEN Becomes(r, [pc |-> "adding", entry |-> e])
         ELSE Refused(r)
  /\ UNCHANGED <<live, seat, budget>>

\* ... and the configuration is read after that.  A device that is in it goes
\* no further either (409).
AddTo(r) ==
  /\ At(r, "adding")
  /\ IF Places(req[r].entry.target_mac) = {}
     THEN Saves(r, Append(live.devices, req[r].entry)) ELSE Refused(r)
  /\ UNCHANGED <<live, seat, budget>>

\* The places of a set in their order.
InOrder(places) ==
  {p \in [1..Cardinality(places) -> places] : \A j \in DOMAIN p : \A i \in 1..(j - 1) : p[i] < p[j]}

\* remove_device_handler: every other device is retained.
Remove(r) ==
  /\ At(r, "idle")
  /\ \E text \in Spelling :
       IF Parse(text) # NoMac /\ Places(text) # {}
       THEN \E p \in InOrder(DOMAIN live.devices \ Places(text)) :
              Saves(r, [i \in DOMAIN p |-> live.devices[p[i]]])
       ELSE Refused(r)
  /\ UNCHANGED <<live, seat, budget>>

\* update_device_handler: the overrides of the first such entry are replaced,
\* not merged.
Update(r) ==
  /\ At(r, "idle")
  /\ \E text \in Spelling, over \in Overrides :
       IF Parse(text) # NoMac /\ Places(text) # {} /\ \A n \in DOMAIN over : InRange(n, over[n])
       THEN Saves(r, [live.devices EXCEPT ![First(Places(text))].over = over])
       ELSE Refused(r)
  /\ UNCHANGED <<live, seat, budget>>

\* deep_merge of a body with one leaf: a setting is replaced in its section, a
\* list as a whole.
PatchedWith(x) == [live EXCEPT !.settings[x[1]][x[2]] = x[3]]
ListedAs(devices) == [live EXCEPT !.devices = devices]

\* put_config_handler: the result is validated here and again by the save.
Put(r) ==
  /\ At(r, "idle")
  /\ \E new \in {PatchedWith(x) : x \in Patches} \union {ListedAs(l) : l \in Lists} :
       IF Valid(new) THEN Becomes(r, [pc |-> "save", new |-> new]) ELSE Refused(r)
  /\ UNCHANGED <<live, seat, budget>>

\* save_to_file validates whatever it is given; then the copy in memory is
\* replaced.
Save(r) ==
  /\ At(r, "save")
  /\ IF Valid(req[r].new) THEN live' = req[r].new /\ Becomes(r, [pc |-> "done"])
     ELSE UNCHANGED live /\ Refused(r)
  /\ UNCHANGED <<seat, budget>>

------------------------------------------------------------------------------
(* get_devices_handler: the devices BlueZ knows, less those that are       *)
(* configured for somebody else.                                           *)

\* The list is asked for, and comes.  What BlueZ knows is all there is.
AskBluez(r) ==
  /\ At(r, "idle")
  /\ Becomes(r, [pc |-> "listed", uids |-> {seat}])
  /\ UNCHANGED <<live, seat, budget>>

\* active_uid is read first, the configuration after it.
ReadUid(r) ==
  /\ At(r, "listed")
  /\ Becomes(r, [pc |-> "foruid", uids |-> req[r].uids, uid |-> seat])
  /\ UNCHANGED <<live, seat, budget>>

\* Slip: the address BlueZ reports is looked up as it is written.
ForeignText(uid, mac) ==
  \E i \in DOMAIN live.devices :
    live.devices[i].target_mac = Show(mac) /\ live.devices[i].uid # uid

\* BlueZ's address is parsed, and so are those of the entries, of which no two
\* are equal (NoTwins).
Foreign(uid, mac) ==
  \E i \in DOMAIN live.devices :
    Parse(live.devices[i].target_mac) = Parse(Show(mac)) /\ live.devices[i].uid # uid

AnswerList(r) ==
  /\ At(r, "foruid")
  /\ Becomes(r, [pc |-> "shown", uids |-> req[r].uids, devices |-> live.devices,
                 shown |-> {m \in Macs : ~Foreign(req[r].uid, m)}])
  /\ UNCHANGED <<live, seat, budget>>

------------------------------------------------------------------------------
\* Another user, or none, gets the seat.
Switch ==
  /\ budget > 0 /\ budget' = budget - 1
  /\ seat' \in (Users \union {NoUid}) \ {seat}
  /\ req' = [r \in Requests |-> IF req[r].pc \in {"listed", "foruid"}
                                THEN [req[r] EXCEPT !.uids = @ \union {seat'}] ELSE req[r]]
  /\ UNCHANGED live

\* SIGHUP: Config::load validates what it has read.
Reload ==
  /\ budget > 0 /\ budget' = budget - 1
  /\ live' \in {c \in Start : Valid(c)}
  /\ UNCHANGED <<seat, req>>

Next ==
  \/ \E r \in Requests :
       \/ Add(r) \/ AddTo(r) \/ Remove(r) \/ Update(r) \/ Put(r) \/ Save(r)
       \/ AskBluez(r) \/ ReadUid(r) \/ AnswerList(r)
  \/ Switch \/ Reload

Spec == Init /\ [][Next]_vars

------------------------------------------------------------------------------
TypeOK ==
  /\ IsConfig(live)
  /\ seat \in Users \union {NoUid}
  /\ budget \in 0..Budget
  /\ \A r \in Requests :
       /\ At(r, "adding") => req[r].entry \in Entry
       /\ At(r, "save") => IsConfig(req[r].new)
       /\ At(r, "shown") => req[r].shown \subseteq Macs

\* A device is configured once, for one user, in whatever spellings requests
\* and files name it: the main loop, PAM and the list of devices look devices
\* up by MAC and would each find another of two.
NoTwins ==
  \A i, j \in DOMAIN live.devices :
    i # j => Parse(live.devices[i].target_mac) # Parse(live.devices[j].target_mac)

\* What a monitor is given can be used: no interval of zero, on which tokio
\* panics, no count of zero, no filter without noise - wherever the value
\* comes from, and whatever has been saved before.
SaneSettings ==
  \A i \in DOMAIN live.devices :
    \A name \in Resolved \intersect (Counted \union Positive) :
      SettingsFor(live, live.devices[i])[name] > 0

\* A list of devices shows none that is configured for somebody who has not
\* had the seat since the list was asked for.
ListedIsOwn ==
  \A r \in Requests : At(r, "shown") =>
    \A i \in DOMAIN req[r].devices :
      Parse(req[r].devices[i].target_mac) \in req[r].shown => req[r].devices[i].uid \in req[r].uids
==============================================================================
