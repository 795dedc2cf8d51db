------------------------------- MODULE Daemon -------------------------------
(***************************************************************************)
(* The lock path of haraltr: the main loop (daemon/src/main.rs), the       *)
(* device monitors it spawns and the channel they report on (device.rs),   *)
(* the status table they publish to (state.rs), the seat watcher and the   *)
(* session controller (logind/), and the configuration edits that restart  *)
(* it all.  systemd-logind is external: `seat' is the user of the active   *)
(* session of seat0 and `locked' says whose session is locked.             *)
(*                                                                         *)
(* Everything between two awaits of one task is one step; each await, and  *)
(* each separate read of a variable another thread writes, starts a new    *)
(* one.  Env and Budget bound what the environment does to the daemon: a   *)
(* run names the kinds of event that may happen and how many in all.       *)
(* An operator whose comment begins with "Slip:" is not the code (see      *)
(* ProxState).                                                             *)
(***************************************************************************)
EXTENDS ProxState, Sequences, FiniteSets

CONSTANTS
  Macs,         \* trusted devices
  Users,        \* uids
  NoUid,        \* NO_ACTIVE_UID
  Seated,       \* who may hold the active session at startup
  Configs,      \* the device lists a configuration may hold: owner of each mac
  Prox,         \* proximity settings of each device
  Modes,        \* values of daemon.mode at startup
  ChanFactor,   \* messages per device the channel holds, 4 in the code
  Env,          \* the kinds of environment event that may happen
  Budget        \* and how many of them

EnvEvents == { "openFails", "findFails", "lockFails", "unlockFails", "watchDies",
               "switch", "manual", "edit", "put", "reload", "stop" }

ASSUME DaemonAssumption ==
  /\ IsFiniteSet(Macs)
  /\ NoUid \notin Users
  /\ Seated \subseteq Users \union {NoUid}
  /\ Configs \subseteq UNION {[D -> Users] : D \in SUBSET Macs}
  /\ Prox \in [Macs -> Profile]
  /\ Modes \subseteq {"Both", "LockOnly", "PamOnly"}
  /\ ChanFactor \in Nat \ {0}
  /\ Env \subseteq EnvEvents
  /\ Budget \in Nat

VARIABLES
  live,       \* live_config: owner of each configured device
  permit,     \* config_notify holds a permit
  owed,       \* handlers that wrote live_config and have yet to notify
  seat,       \* external: user of the active session on seat0, or NoUid
  locked,     \* external: whose session is locked
  watch,      \* the watcher task: where it is, and what it has just found
  signals,    \* PropertiesChanged signals it has not taken yet
  activeUid,  \* the atomic active_uid
  mode,       \* the main loop's copy of daemon.mode, taken at startup
  pc,         \* where the main loop is
  cfg,        \* its copy of the device list, taken at the top of the loop
  cur,        \* current_uid
  wants,      \* device_wants: its domain is the devices being monitored
  wasNear,    \* was_near
  task,       \* the monitor of each device: where it is, its phase, and the
              \* action it has yet to send
  zombies,    \* aborted monitors that still have a status to publish
  status,     \* daemon_status.devices
  chan,       \* the channel
  budget      \* environment events left

shared == <<live, permit, owed>>
logind == <<seat, locked>>
watcher == <<watch, signals, activeUid>>
loop == <<mode, pc, cfg, cur, wants, wasNear>>
monitors == <<task, zombies, status, chan>>
vars == <<shared, logind, watcher, loop, monitors, budget>>

------------------------------------------------------------------------------
Uids == Users \union {NoUid}

Watcher == [pc: {"off", "subscribing", "idle", "storing", "dead"}, found: Uids]

Message == [mac: Macs, act: {"Lock", "Unlock"}]

Monitor == [pc: {"gone", "start", "poll", "publish", "send", "exited"},
            ph: Phase, act: Action]

NoTask == [pc |-> "gone", ph |-> NewPhase, act |-> "None"]
NewTask == [pc |-> "start", ph |-> NewPhase, act |-> "None"]

Empty == [d \in {} |-> "None"]

\* user_devices
Mine(devices, uid) == {d \in DOMAIN devices : devices[d] = uid}

\* The environment spends one event of kind e.
Spend(e) ==
  /\ e \in Env
  /\ budget > 0
  /\ budget' = budget - 1

Init ==
  /\ live \in Configs /\ permit = FALSE /\ owed = 0
  /\ seat \in Seated /\ locked = [u \in Users |-> FALSE]
  /\ watch = [pc |-> "off", found |-> NoUid] /\ signals = 0 /\ activeUid = NoUid
  /\ mode \in Modes
  /\ pc = "boot" /\ cfg = Empty /\ cur = NoUid /\ wants = Empty /\ wasNear = TRUE
  /\ task = [d \in Macs |-> NoTask] /\ zombies = {} /\ status = Empty /\ chan = <<>>
  /\ budget = Budget

------------------------------------------------------------------------------
(* The main loop.                                                          *)

\* spawn_session_watcher looks once before it spawns the task that listens.
Boot ==
  /\ pc = "boot"
  /\ \/ activeUid' = seat /\ UNCHANGED budget
     \/ activeUid' = NoUid /\ Spend("findFails")
  /\ watch' = [watch EXCEPT !.pc = "subscribing"]
  /\ pc' = "top"
  /\ UNCHANGED <<shared, logind, signals, mode, cfg, cur, wants, wasNear, monitors>>

\* 'daemon: a copy of the configuration ...
ReadConfig ==
  /\ pc = "top"
  /\ cfg' = live
  /\ pc' = "uid"
  /\ UNCHANGED <<shared, logind, watcher, mode, cur, wants, wasNear, monitors, budget>>

\* ... and then the active uid.  With none of its devices configured, wait.
Wait ==
  /\ pc = "uid"
  /\ Mine(cfg, activeUid) = {}
  /\ cur' = activeUid
  /\ pc' = "waiting"
  /\ UNCHANGED <<shared, logind, watcher, mode, cfg, wants, wasNear, monitors, budget>>

\* Slip: a device that has not spoken yet is taken to be away.
SpawnDistrusting ==
  /\ pc = "uid"
  /\ Mine(cfg, activeUid) # {}
  /\ cur' = activeUid
  /\ wants' = [d \in Mine(cfg, activeUid) |-> "Lock"]
  /\ wasNear' = TRUE
  /\ task' = [d \in Macs |-> IF d \in Mine(cfg, activeUid) THEN NewTask ELSE NoTask]
  /\ pc' = "reset"
  /\ UNCHANGED <<shared, logind, watcher, mode, cfg, zombies, status, chan, budget>>

\* Otherwise one monitor per device, on a new channel; a device that has not
\* spoken yet counts as near.
Spawn ==
  /\ pc = "uid"
  /\ Mine(cfg, activeUid) # {}
  /\ cur' = activeUid
  /\ wants' = [d \in Mine(cfg, activeUid) |-> "Unlock"]
  /\ wasNear' = TRUE
  /\ task' = [d \in Macs |-> IF d \in Mine(cfg, activeUid) THEN NewTask ELSE NoTask]
  /\ pc' = "reset"
  /\ UNCHANGED <<shared, logind, watcher, mode, cfg, zombies, status, chan, budget>>

\* reset_daemon_state, when the monitors may already be running.
Reset ==
  /\ pc = "reset"
  /\ status' = Empty
  /\ pc' = "select"
  /\ UNCHANGED <<shared, logind, watcher, mode, cfg, cur, wants, wasNear,
                 task, zombies, chan, budget>>

\* Slip: the next monitors are given the same channel.
RestartSameChannel ==
  /\ task' = [d \in Macs |-> NoTask]
  /\ zombies' = zombies \union
       {<<d, task[d].ph.name>> : d \in {e \in Macs : task[e].pc = "publish"}}
  /\ chan' = chan
  /\ wants' = Empty
  /\ pc' = "top"
  /\ UNCHANGED <<mode, cfg, cur, wasNear, status>>

\* Slip: the iteration ends without aborting its monitors.
RestartNoAbort ==
  /\ task' = task /\ zombies' = zombies
  /\ chan' = <<>>
  /\ wants' = Empty
  /\ pc' = "top"
  /\ UNCHANGED <<mode, cfg, cur, wasNear, status>>

\* abort() every monitor and go back to 'daemon.  A monitor is cancelled at
\* its next await, so one that is about to publish still does.
Restart ==
  /\ task' = [d \in Macs |-> NoTask]
  /\ zombies' = zombies \union
       {<<d, task[d].ph.name>> : d \in {e \in Macs : task[e].pc = "publish"}}
  /\ chan' = <<>>
  /\ wants' = Empty
  /\ pc' = "top"
  /\ UNCHANGED <<mode, cfg, cur, wasNear, status>>

\* A message, but the active user is no longer the one being monitored.
RecvAfterSwitch ==
  /\ pc = "select" /\ chan # <<>>
  /\ activeUid # cur
  /\ Restart
  /\ UNCHANGED <<shared, logind, watcher, budget>>

AnyUnlock(w) == \E d \in DOMAIN w : w[d] = "Unlock"

\* Slip: the message moves was_near but is not kept.
DecideForgetful(w) ==
  /\ wants' = wants
  /\ pc' = CASE mode # "PamOnly" /\ wasNear /\ ~AnyUnlock(w) -> "lock"
             [] mode # "PamOnly" /\ ~wasNear /\ AnyUnlock(w) -> "wake"
             [] OTHER -> "select"

\* With the message entered in device_wants: lock when the last device has
\* left, wake and unlock when the first comes back.  was_near keeps its
\* value here, for without an edge it already equals is_near.
Decide(w) ==
  /\ wants' = w
  /\ pc' = CASE mode # "PamOnly" /\ wasNear /\ ~AnyUnlock(w) -> "lock"
             [] mode # "PamOnly" /\ ~wasNear /\ AnyUnlock(w) -> "wake"
             [] OTHER -> "select"

RecvWant ==
  /\ pc = "select" /\ chan # <<>>
  /\ activeUid = cur
  /\ chan' = Tail(chan)
  /\ Decide([wants EXCEPT ![Head(chan).mac] = Head(chan).act])
  /\ UNCHANGED <<shared, logind, watcher, mode, cfg, cur, wasNear,
                 task, zombies, status, budget>>

\* Every sender is gone and the channel is drained.
RecvClosed ==
  /\ pc = "select" /\ chan = <<>>
  /\ \A d \in DOMAIN wants : task[d].pc = "exited"
  /\ Restart
  /\ UNCHANGED <<shared, logind, watcher, budget>>

\* Slip: a failed lock leaves was_near as it was, to be tried again.
BackToSelectKeeping(isNear) ==
  /\ pc' = "select"
  /\ UNCHANGED wasNear

\* was_near = is_near, whether or not logind did what it was asked.
BackToSelect(isNear) ==
  /\ pc' = "select"
  /\ wasNear' = isNear

\* SessionController::lock: find the active session ...
LockLook ==
  /\ pc = "lock"
  /\ \/ seat = cur /\ pc' = "lockcall" /\ UNCHANGED <<wasNear, budget>>
     \/ seat # cur /\ BackToSelect(FALSE) /\ UNCHANGED budget
     \/ Spend("findFails") /\ BackToSelect(FALSE)
  /\ UNCHANGED <<shared, logind, watcher, mode, cfg, cur, wants, monitors>>

\* ... and call Lock on it.
LockCall ==
  /\ pc = "lockcall"
  /\ \/ locked' = [locked EXCEPT ![cur] = TRUE] /\ UNCHANGED budget
     \/ Spend("lockFails") /\ UNCHANGED locked
  /\ BackToSelect(FALSE)
  /\ UNCHANGED <<shared, seat, watcher, mode, cfg, cur, wants, monitors>>

\* wake_screen runs to its end, however it ends, before the unlock.
Wake ==
  /\ pc = "wake"
  /\ pc' = "unlock"
  /\ UNCHANGED <<shared, logind, watcher, mode, cfg, cur, wants, wasNear, monitors, budget>>

\* SessionController::unlock: find the active session ...
UnlockLook ==
  /\ pc = "unlock"
  /\ \/ seat = cur /\ pc' = "unlockcall" /\ UNCHANGED <<wasNear, budget>>
     \/ seat # cur /\ BackToSelect(TRUE) /\ UNCHANGED budget
     \/ Spend("findFails") /\ BackToSelect(TRUE)
  /\ UNCHANGED <<shared, logind, watcher, mode, cfg, cur, wants, monitors>>

\* Slip: the session active by now is unlocked, not the one that was found.
UnlockCallSeated ==
  /\ pc = "unlockcall"
  /\ locked' = [locked EXCEPT ![seat] = FALSE] /\ UNCHANGED budget
  /\ BackToSelect(TRUE)
  /\ UNCHANGED <<shared, seat, watcher, mode, cfg, cur, wants, monitors>>

\* ... and call Unlock on it.
UnlockCall ==
  /\ pc = "unlockcall"
  /\ \/ locked' = [locked EXCEPT ![cur] = FALSE] /\ UNCHANGED budget
     \/ Spend("unlockFails") /\ UNCHANGED locked
  /\ BackToSelect(TRUE)
  /\ UNCHANGED <<shared, seat, watcher, mode, cfg, cur, wants, monitors>>

\* Slip: only the loop that waits for devices listens.
NotifiedWaiting ==
  /\ pc = "waiting"
  /\ permit /\ permit' = FALSE
  /\ Restart
  /\ UNCHANGED <<live, owed, logind, watcher, budget>>

\* config_notify: an edit made through the web UI.  The permit is consumed.
Notified ==
  /\ pc \in {"select", "waiting"}
  /\ permit /\ permit' = FALSE
  /\ Restart
  /\ UNCHANGED <<live, owed, logind, watcher, budget>>

\* SIGHUP: the file is loaded if it can be, and the monitors restarted.
Hup ==
  /\ pc \in {"select", "waiting"}
  /\ Spend("reload")
  /\ live' \in Configs
  /\ Restart
  /\ UNCHANGED <<permit, owed, logind, watcher>>

\* SIGTERM or SIGINT: the process ends, and everything in it.
Stop ==
  /\ pc \in {"select", "waiting"}
  /\ Spend("stop")
  /\ pc' = "stopped"
  /\ task' = [d \in Macs |-> NoTask] /\ zombies' = {} /\ chan' = <<>>
  /\ wants' = Empty /\ status' = Empty
  /\ permit' = FALSE /\ owed' = 0
  /\ watch' = [watch EXCEPT !.pc = "dead"] /\ signals' = 0
  /\ UNCHANGED <<live, logind, activeUid, mode, cfg, cur, wasNear>>

------------------------------------------------------------------------------
(* The monitor of device d.                                                *)

At(d, step) == task[d].pc = step

\* BtMgmt::new, which may fail and end the task.
Open(d) ==
  /\ At(d, "start")
  /\ \/ task' = [task EXCEPT ![d].pc = "poll"] /\ UNCHANGED budget
     \/ task' = [task EXCEPT ![d].pc = "exited"] /\ Spend("openFails")
  /\ UNCHANGED <<shared, logind, watcher, loop, zombies, status, chan>>

\* One answer of relative_path_loss, and the transition it causes.
PollDevice(d) ==
  /\ At(d, "poll")
  /\ \E r \in Reading :
       task' = [task EXCEPT ![d] = [pc  |-> "publish",
                                    ph  |-> PhaseAfter(Prox[d], task[d].ph, r),
                                    act |-> ActionOf(Prox[d], task[d].ph, r)]]
  /\ UNCHANGED <<shared, logind, watcher, loop, zombies, status, chan, budget>>

\* update_device
Shown(d, name) == [e \in DOMAIN status \union {d} |-> IF e = d THEN name ELSE status[e]]

\* Slip: None is sent too.
PublishThenSend(d) ==
  /\ At(d, "publish")
  /\ status' = Shown(d, task[d].ph.name)
  /\ task' = [task EXCEPT ![d].pc = "send"]
  /\ UNCHANGED <<shared, logind, watcher, loop, zombies, chan, budget>>

\* Slip: the table is updated only when there is something to send.
PublishOnAction(d) ==
  /\ At(d, "publish")
  /\ status' = IF task[d].act # "None" THEN Shown(d, task[d].ph.name) ELSE status
  /\ task' = [task EXCEPT ![d].pc = IF task[d].act # "None" THEN "send" ELSE "poll"]
  /\ UNCHANGED <<shared, logind, watcher, loop, zombies, chan, budget>>

Publish(d) ==
  /\ At(d, "publish")
  /\ status' = Shown(d, task[d].ph.name)
  /\ task' = [task EXCEPT ![d].pc = IF task[d].act # "None" THEN "send" ELSE "poll"]
  /\ UNCHANGED <<shared, logind, watcher, loop, zombies, chan, budget>>

Capacity == ChanFactor * Cardinality(DOMAIN wants)

\* Slip: try_send, which drops the action when the channel is full.
SendOrDrop(d) ==
  /\ At(d, "send")
  /\ chan' = IF Len(chan) < Capacity THEN Append(chan, [mac |-> d, act |-> task[d].act])
             ELSE chan
  /\ task' = [task EXCEPT ![d].pc = "poll", ![d].act = "None"]
  /\ UNCHANGED <<shared, logind, watcher, loop, zombies, status, budget>>

\* send().await: the monitor does not poll again before there is room.
Send(d) ==
  /\ At(d, "send")
  /\ Len(chan) < Capacity
  /\ chan' = Append(chan, [mac |-> d, act |-> task[d].act])
  /\ task' = [task EXCEPT ![d].pc = "poll", ![d].act = "None"]
  /\ UNCHANGED <<shared, logind, watcher, loop, zombies, status, budget>>

\* An aborted monitor publishes what it had read, then reaches its await.
ZombiePublish ==
  /\ \E z \in zombies :
       /\ status' = Shown(z[1], z[2])
       /\ zombies' = zombies \ {z}
  /\ UNCHANGED <<shared, logind, watcher, loop, task, chan, budget>>

------------------------------------------------------------------------------
(* The seat watcher.                                                       *)

Subscribe ==
  /\ watch.pc = "subscribing"
  /\ watch' = [watch EXCEPT !.pc = "idle"]
  /\ UNCHANGED <<shared, logind, signals, activeUid, loop, monitors, budget>>

\* The proxy cannot be made, or the stream of signals ends.
WatchDies ==
  /\ watch.pc \in {"subscribing", "idle"}
  /\ Spend("watchDies")
  /\ watch' = [watch EXCEPT !.pc = "dead"]
  /\ signals' = 0
  /\ UNCHANGED <<shared, logind, activeUid, loop, monitors>>

\* A signal: ask logind afresh ...
WatchLook ==
  /\ watch.pc = "idle" /\ signals > 0
  /\ signals' = signals - 1
  /\ \/ watch' = [pc |-> "storing", found |-> seat] /\ UNCHANGED budget
     \/ watch' = [pc |-> "storing", found |-> NoUid] /\ Spend("findFails")
  /\ UNCHANGED <<shared, logind, activeUid, loop, monitors>>

\* ... and store the answer.
WatchStore ==
  /\ watch.pc = "storing"
  /\ activeUid' = watch.found
  /\ watch' = [watch EXCEPT !.pc = "idle"]
  /\ UNCHANGED <<shared, logind, signals, loop, monitors, budget>>

------------------------------------------------------------------------------
(* The environment.                                                        *)

\* Another session becomes the active one of seat0; a subscriber is told.
Switch ==
  /\ pc # "stopped"
  /\ Spend("switch")
  /\ seat' \in (Users \union {NoUid}) \ {seat}
  /\ signals' = IF watch.pc \in {"idle", "storing"} THEN signals + 1 ELSE signals
  /\ UNCHANGED <<shared, locked, watch, activeUid, loop, monitors>>

\* The user locks the screen, or unlocks it with the password.
Manual ==
  /\ pc # "stopped"
  /\ seat \in Users
  /\ Spend("manual")
  /\ locked' = [locked EXCEPT ![seat] = ~locked[seat]]
  /\ UNCHANGED <<shared, seat, watcher, loop, monitors>>

\* old_devices != new_devices: lists of the same addresses differ if their
\* order or their spelling does.
Differ(D, E) == IF D # E THEN {TRUE} ELSE {FALSE, D # {}}

\* put_config may replace the device list with any other; it compares the
\* addresses alone to decide whether to notify.
WebPut ==
  /\ pc # "stopped"
  /\ Spend("put")
  /\ live' \in Configs
  /\ \E tells \in Differ(DOMAIN live, DOMAIN live') :
       owed' = IF tells THEN owed + 1 ELSE owed
  /\ UNCHANGED <<permit, logind, watcher, loop, monitors>>

\* add_device, remove_device or update_device, which leave the owners of the
\* other devices alone, writes live_config ...
WebEdit ==
  /\ pc # "stopped"
  /\ Spend("edit")
  /\ live' \in Configs
  /\ \A d \in DOMAIN live \intersect DOMAIN live' : live'[d] = live[d]
  /\ owed' = owed + 1
  /\ UNCHANGED <<permit, logind, watcher, loop, monitors>>

\* Slip: notify_waiters, which wakes the loop only if it is waiting now.
WebNotifyWaiters ==
  /\ owed > 0
  /\ owed' = owed - 1
  /\ permit' = (pc \in {"select", "waiting"})
  /\ UNCHANGED <<live, logind, watcher, loop, monitors, budget>>

\* ... and then calls notify_one, which leaves one permit at most.
WebNotify ==
  /\ owed > 0
  /\ owed' = owed - 1
  /\ permit' = TRUE
  /\ UNCHANGED <<live, logind, watcher, loop, monitors, budget>>

------------------------------------------------------------------------------
MainStep ==
  \/ Boot \/ ReadConfig \/ Wait \/ Spawn \/ Reset
  \/ LockLook \/ LockCall \/ Wake \/ UnlockLook \/ UnlockCall

Recv == RecvAfterSwitch \/ RecvWant \/ RecvClosed

MonitorStep(d) == Open(d) \/ PollDevice(d) \/ Publish(d) \/ Send(d)

WatcherStep == Subscribe \/ WatchLook \/ WatchStore

EnvStep == Hup \/ Stop \/ WatchDies \/ Switch \/ Manual \/ WebPut \/ WebEdit

Next ==
  \/ MainStep \/ Recv \/ Notified
  \/ \E d \in Macs : MonitorStep(d)
  \/ ZombiePublish
  \/ WatcherStep
  \/ WebNotify
  \/ EnvStep

Spec == Init /\ [][Next]_vars

\* Every task is scheduled.  tokio::select! tries its branches in a random
\* order, so a branch that is ready again and again is taken at some point:
\* strong fairness.  Senders queue for room in the channel in order, so a
\* send that finds room again and again goes through.
Fairness ==
  /\ WF_vars(MainStep)
  /\ SF_vars(Recv) /\ SF_vars(Notified)
  /\ \A d \in Macs : /\ WF_vars(Open(d) \/ PollDevice(d) \/ Publish(d))
                     /\ SF_vars(Send(d))
  /\ WF_vars(ZombiePublish)
  /\ WF_vars(WatcherStep)
  /\ WF_vars(WebNotify)

FairSpec == Spec /\ Fairness

------------------------------------------------------------------------------
(* What must hold.                                                         *)

Monitoring == pc \in {"reset", "select", "lock", "lockcall", "wake", "unlock", "unlockcall"}

TypeOK ==
  /\ live \in Configs /\ permit \in BOOLEAN /\ owed \in Nat
  /\ seat \in Uids /\ locked \in [Users -> BOOLEAN]
  /\ watch \in Watcher
  /\ signals \in Nat /\ activeUid \in Uids
  /\ mode \in Modes
  /\ pc \in {"boot", "top", "uid", "waiting", "reset", "select", "lock", "lockcall",
             "wake", "unlock", "unlockcall", "stopped"}
  /\ cfg \in Configs \union {Empty} /\ cur \in Uids
  /\ wants \in [DOMAIN wants -> {"Lock", "Unlock"}] /\ wasNear \in BOOLEAN
  /\ task \in [Macs -> Monitor]
  /\ \A d \in Macs : At(d, "send") => task[d].act # "None"
  /\ zombies \subseteq Macs \X PhaseName
  /\ status \in [DOMAIN status -> PhaseName] /\ DOMAIN status \subseteq Macs
  /\ chan \in Seq(Message)
  /\ budget \in 0..Budget

\* What ties one iteration together, through every restart: the devices
\* monitored are those the copied list gives the current user, each of them
\* has a monitor and no other device has, and only they are on the channel.
MonitorsAreOwners ==
  /\ DOMAIN wants = IF Monitoring THEN Mine(cfg, cur) ELSE {}
  /\ Monitoring => DOMAIN wants # {}
  /\ \A d \in Macs : task[d].pc = "gone" <=> d \notin DOMAIN wants
  /\ \A i \in DOMAIN chan : chan[i].mac \in DOMAIN wants

\* The action d has yet to send.
Unsent(d) == At(d, "send") \/ (At(d, "publish") /\ task[d].act # "None")

\* a is the latest action of d on its way to the main loop: the one it has
\* yet to send, else the last one in the channel, else the one already kept.
IsNewest(d, a) ==
  \/ Unsent(d) /\ a = task[d].act
  \/ /\ ~Unsent(d)
     /\ \E i \in DOMAIN chan : /\ chan[i] = [mac |-> d, act |-> a]
                               /\ \A j \in DOMAIN chan : j > i => chan[j].mac # d
  \/ /\ ~Unsent(d)
     /\ \A i \in DOMAIN chan : chan[i].mac # d
     /\ a = wants[d]

\* What a device in phase name may want last.
Fits(d, name, a) ==
  /\ name = "Near" => a = "Unlock"
  /\ name = "Disconnected" /\ Prox[d].disc # "None" => a = Prox[d].disc
  /\ name = "Far" /\ Prox[d].disc = "Lock" => a = "Lock"

\* However far the main loop lags behind, and however full the channel is,
\* the latest action of a monitor always fits the phase it is in: no action
\* is lost, overtaken or left over from an earlier monitor.
NewestWantFitsPhase ==
  \A d \in DOMAIN wants : \A a \in Action :
    IsNewest(d, a) => Fits(d, task[d].ph.name, a)

\* was_near tells, outside PamOnly, whether some device wants Unlock, and
\* the loop is on its way to lock only if none does, to unlock only if one
\* does: what makes edge detection on was_near right.
BeliefMatchesWants ==
  mode # "PamOnly" =>
    /\ pc \in {"reset", "select"} => wasNear = AnyUnlock(wants)
    /\ pc \in {"lock", "lockcall"} => ~AnyUnlock(wants)
    /\ pc \in {"wake", "unlock", "unlockcall"} => AnyUnlock(wants)

\* The daemon locks or unlocks the session of a user only on behalf of all
\* the devices the configuration gives that very user: it locks when none
\* of them wants Unlock, unlocks when one does, and never in PamOnly mode.
ActsForOwner ==
  [][ \A u \in Users :
        locked'[u] # locked[u] /\ pc' # pc =>
          /\ mode # "PamOnly"
          /\ DOMAIN wants # {} /\ DOMAIN wants = Mine(cfg, u)
          /\ locked'[u] = ~AnyUnlock(wants) ]_vars

\* Devices the monitors were not started from, be they more, fewer or
\* others, have a notification on their way, even if they were configured
\* while the loop was locking or waking the screen.  Only a put that gives
\* the same devices to other users can go unnoticed, as long as handlers do
\* not overlap: one step is a whole handler here, ConfigStore has its parts.
EditNotLost ==
  pc \notin {"boot", "top", "stopped"} /\ DOMAIN cfg # DOMAIN live => permit \/ owed > 0

\* The status table changes as StatusTable says: what PamLogin relies on.
Stage ==
  CASE pc \in {"boot", "top", "uid"} -> "between"
    [] pc = "waiting" -> "waiting"
    [] pc = "reset" -> "fresh"
    [] pc = "stopped" -> "stopped"
    [] OTHER -> "steady"

Table == INSTANCE StatusTable WITH
  running <- DOMAIN wants, leaving <- {z[1] : z \in zombies}, stage <- Stage

ImplementsTable == Table!Spec

\* And the session is locked and unlocked as LockPolicy says.
Policy == INSTANCE LockPolicy WITH
  acts <- mode # "PamOnly",
  user <- IF Monitoring THEN cur ELSE NoUid,
  devices <- DOMAIN wants,
  open <- {d \in DOMAIN wants : wants[d] = "Unlock"},
  near <- Monitoring => wasNear

FollowsPolicy == Policy!Spec

\* Nothing is on its way and every monitor is between two polls.
Settled ==
  /\ pc = "select" /\ chan = <<>>
  /\ \A d \in DOMAIN wants : At(d, "poll")

AllAway == \A d \in DOMAIN wants : task[d].ph.name # "Near"

LockOnLoss == \A d \in DOMAIN wants : Prox[d].disc = "Lock"

\* End to end, while logind does what it is asked and the user leaves the
\* lock alone: once things settle with every device away, and all of them
\* set to lock when lost, the session is locked.
AwayIsLocked ==
  Settled /\ mode # "PamOnly" /\ LockOnLoss /\ AllAway => locked[cur]

\* And with a device near the session is not locked; this one needs that
\* the monitors have not been restarted since the session was locked.
NearIsUnlocked ==
  Settled /\ mode # "PamOnly" /\ ~AllAway => ~locked[cur]

\* An edit made through the web UI ends the iteration under way, whatever
\* the devices are saying meanwhile.
EditIsApplied == permit ~> pc = "top"

Away(d) == task[d].pc \in {"poll", "publish", "send"} /\ task[d].ph.name # "Near"

\* If all monitored devices, set to lock when lost, end up away, and the
\* seat stays with their user, the session ends up locked: reloads and edits
\* on the way notwithstanding.
AwayLocks ==
  [](cur = NoUid \/ seat = cur)
  /\ <>[](Monitoring /\ mode # "PamOnly" /\ LockOnLoss /\ \A d \in DOMAIN wants : Away(d))
    => <>[](cur \in Users /\ locked[cur])

\* A status left behind by an aborted monitor does not stay: the monitor of
\* the device shows its own phase sooner or later, or is gone.
StatusHeals ==
  \A d \in Macs :
    At(d, "poll") ~> \/ At(d, "gone")
                     \/ /\ d \in DOMAIN status /\ status[d] = task[d].ph.name
                        /\ zombies = {}

------------------------------------------------------------------------------
(* What the documentation or a log message says and the code does not do.  *)

\* README.md:3: the daemon locks and unlocks by the trusted devices of the
\* user.  So a user who holds the seat for good, with active_uid saying so
\* and a device configured, has it monitored at some point.
SeatedUserIsMonitored ==
  \A u \in Users :
    <>[](seat = u /\ activeUid = u /\ Mine(live, u) # {}) => <>(Monitoring /\ cur = u)

==============================================================================
