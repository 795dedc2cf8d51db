# Verification of haraltr

haraltr locks a Linux session when the Bluetooth devices its user trusts go
away and unlocks it when one comes back. This directory holds TLA+ models of
the daemon, the TLC configurations that check them on small instances, and
proofs of the main invariants for every instance, checked by TLAPS.

Paths below are relative to `daemon/src` unless they say otherwise.

    tlc -config MCDaemonUsers.cfg MCDaemon      model-check one instance
    tlapm DaemonProofs.tla                      check the proofs

## The system

The daemon is one process on a multi-threaded tokio runtime. Its tasks share
`AppState` (`state.rs`) and talk over one channel, one `Notify` and one atomic.

| Component | State | Operations | Talks to |
|---|---|---|---|
| hysteresis, `proximity.rs` | phase and its counter | `transition` | called by the device monitor |
| device monitor, `device.rs` | a `ProxState`, its poll interval | poll, publish, send; aborted by the main loop | status table (mutex), channel (bounded mpsc) |
| path loss, `bt_mgmt.rs` | Kalman filter, management socket | `relative_path_loss` | kernel |
| main loop, `main.rs` | `device_wants`, `was_near`, `current_uid`, a copy of the configuration, task handles | spawn, receive and decide, lock, wake and unlock, restart, stop | all of them |
| session controller, `logind/controller.rs` | D-Bus proxies | `find_active_session`, `lock`, `unlock` | systemd-logind |
| seat watcher, `logind/watcher.rs` | `active_uid` | first lookup, subscribe, one lookup per signal | systemd-logind |
| configuration, `config.rs` | `config.toml`, the copy in memory (RwLock) | `load`, `save_to_file` | web handlers, main loop, `passwd.rs` |
| web handlers, `web/api.rs` | none | put, add, remove, update; status, get | configuration, `config_notify` |
| device settings, `config.rs`, `mac.rs` | none | validation, defaults and overrides, `Mac::from_str` | web handlers, main loop |
| Bluetooth device list, `web/bt_devices.rs` | none | `get_devices_handler` | BlueZ, `active_uid`, configuration |
| web sessions, `web/auth.rs`, `web/mod.rs`, `state.rs` | token table | login, validate, logout | in front of the web handlers |
| IPC and PAM, `ipc.rs`, `pam/src/lib.rs` | none | one query per connection; three attempts | configuration, status table |
| wake-up, `wake_up.rs`, `input.rs` | timers, virtual devices | `wake_screen` | called by the main loop |
| passwd, `passwd.rs` | none, a process of its own | `set_password` | `config.toml` |

What is hard here, and where it bites, is listed under `hazards` in
PROJECT.json. In short: the main loop acts on edges, so one missed or doubled
edge leaves the session in the wrong state for good; it blocks for seconds in
D-Bus calls and in the wake-up while messages, edits and session switches
arrive; `abort()` takes effect later than it is called; the seat may change
hands between a lookup and the call based on it; and the configuration is read,
changed, saved and committed in separate steps by handlers that run in parallel.

What makes each component right:

- hysteresis: a switch exactly after its run of readings, and a sequence of
  actions that adds up to the phase;
- monitors and channel: the newest action on its way fits the phase, whatever
  the delays;
- path loss: the filter smooths, invents nothing, and does not go deaf to a device
  that has gone away;
- main loop: `was_near` agrees with `device_wants` whenever it waits; it acts on
  the user whose devices it listens to, and on no other; it loses no edit;
- status table: shows the monitors of the current iteration, and PAM's answers
  computed from it are about the user's own devices;
- PAM: a steadily near device is never missed, and nothing else opens a session;
- session lookup and watcher: a lookup of several D-Bus calls answers for some
  moment of it, and `active_uid` ends up right after the last switch;
- wake-up: it ends, and the Enters in it keep to their schedule;
- web sessions: who gets through was signed in when they asked, and nobody is
  signed out for nothing;
- device settings: a device is configured once, what its monitor is given can be
  used, and a user is shown no device of another;
- configuration: a whole file at all times, file and memory agree, the password
  hash survives, the loop hears of every new device list, nobody waits for ever.

## Modules

| Module | Models |
|---|---|
| `ProxState` | `proximity.rs`, as operators: one per arm of `handle_rpl`, `PhaseAfter` and `ActionOf` for `transition` |
| `DevicePoll` | one monitor on its own, a poll round per step, with its poll rate |
| `PathLoss` | `bt_mgmt.rs`, as operators: raw loss, TX power fallback, `KalmanFilter` |
| `Monitor` | `DevicePoll` fed by `PathLoss`: the rounds of a monitor with its radio |
| `Daemon` | the lock path: main loop, monitors, channel, status table, watcher, logind, edits, reloads |
| `StatusTable` | what the rest may rely on of the status table: an abstract specification, implemented by `Daemon` |
| `LockPolicy` | what the main loop promises to do to sessions: an abstract specification, implemented by `Daemon` |
| `PamLogin` | a login through PAM and the IPC listener, built on `StatusTable` |
| `DaemonLogin` | `Daemon` and one login together |
| `StoredConfig` | what the configuration is to everything that uses it: an abstract specification, implemented by `ConfigStore` |
| `ConfigStore` | `config.toml`, the copy in memory, and all that read and write them |
| `DeviceConfig` | what is in the configuration: validation, spellings of a MAC, defaults and overrides, the handlers on content, the list of devices |
| `WebSessions` | login, the check in front of the protected routes, logout, expiry |
| `WakeUp` | `wake_screen`: its timer task, intervals and loop |
| `SeatCalls` | the session controller one D-Bus call at a time, used by the watcher and by the main loop, with `WakeUp` in between |
| `MCDevicePoll`, `MCDaemon`, `MCPamLogin`, `MCConfigStore`, `MCDeviceConfig`, `MCWebSessions`, `MCSeatCalls` | values for the constants |
| `DevicePollProofs`, `MonitorProofs`, `DaemonProofs`, `PamLoginProofs`, `WebSessionsProofs`, `ConfigStoreProofs`, `DeviceConfigProofs`, `SeatCallsProofs` | theorems and proofs |

An operator whose comment begins with "Slip:" is not the code. It is a plausible
mistake in the definition after it, kept so that one can see the properties
notice it: PROJECT.json pairs each property of a passing run with the slip that
breaks it.

### DevicePoll

`p` is the device's settings, `ph` the phase with its counter, `want` the last
action sent, `rate` the interval in use; `farRun`, `nearRun` and `dropped` (the connection
was lost since the device was last near) are history. A
round of the `loop` in `spawn_device_task` is one action, `Poll(r)`, because no
other task touches this state. `r` is "far", "near" or "lost": the only thing
`transition` reads of a path loss is the side of `rpl_threshold` it falls on, and
a failed poll is a lost connection. `WantFitsPhase` is about the sequence of actions: the
last one sent is Unlock while the device is near, and Lock while it is not, unless the
connection was dropped and `disconnect_action` is not to lock.

### PathLoss and Monitor

`Monitor` extends `DevicePoll`: a poll either fails (not connected, or a classic
controller that does not know its power) or brings a pair of TX power and RSSI,
whose loss goes through the filter; the estimate decides between "far" and
"near". A step of `Monitor` is a step of `DevicePoll`.

The code computes in f64. The model counts losses in steps of 1/`Unit` dB and
covariances in steps of 1/`Grain`, and rounds each product and quotient to the nearest
step. The gain is a quotient of covariances: with `Grain` 1000 it settles within 0.3 % of
the code's, and the estimate, a rounding per update, stays within half a dB of it.
`MonitorTypeOK` and `AmongLosses` need no more than a rounding that keeps a number between
two representable ones. Two things the code
does are kept as they are: the filter survives a lost connection, with the
estimate it had, and an RSSI that could not be read (127) is taken for a signal.
`least`, `most` and `awayRun` are history; `awayRun` counts the losses in a row of `Away`
or more, up to `Patience + RunCap`. `Noticed` bounds how long a filter takes: `Patience` of
them bring the estimate past the threshold, and the last of them is the first of the
`lock_count` losses after which the device is no longer near, whichever polls fail in between. One unread RSSI
starts the count again, as it does in the code. How quick a filter is depends on its
settings: `QuickEnough` says which ones keep the promise, as a ladder of `Patience` rungs
from below every loss to the threshold, each within reach of one loss from the rung before.
The ladder is made for a covariance that the filter does not fall below (`StaysOpen`), and
neither rounds anything, so a ladder of the model is one of the code. `Patience` is 27 for
the shipped filters, which is also what the filter needs when it is computed in f64.

### Daemon

All that happens between two awaits of one task is one step; an await, or a
second read of something other threads write, starts a new one. So reading the
configuration and reading `active_uid` are two steps (`ReadConfig`, then `Wait`
or `Spawn`), `reset_daemon_state` is a third during which the new monitors may
already run (`Reset`), and `lock` is a lookup and a call (`LockLook`,
`LockCall`). `pc` says where the main loop is:

    boot -> top -> uid -> waiting ----------------> top
                      \-> reset -> select --------> top, or stopped
                                     |-> lock -> lockcall ----------> select
                                     \-> wake -> unlock -> unlockcall -> select

`task[d]` is a monitor: start, poll, publish, send, and exited if its socket
could not be opened. `Restart` stands for the abort of all monitors and the jump
back to `'daemon`. An aborted monitor stops at its next await, so one that was
about to publish still does: it stays in `zombies` until then. `chan` is the
channel, new in each iteration. `permit` is the one permit of `Notify`, and
`owed` counts handlers between their write to `live_config` and `notify_one`.

`seat`, `locked` and the signals are logind, from what the code asks of it:
`ActiveSession` of seat0, `Lock`, `Unlock` and `PropertiesChanged`. `Env` and
`Budget` bound what happens to the daemon from outside: openFails, findFails,
lockFails, unlockFails (a call that fails), watchDies (no subscription, or the
end of the stream), switch, manual (the user locks or unlocks by hand), edit
(add, remove, update), put, reload, stop. A reload may load any configuration the file could hold, the old
one included, which is also what a reload of a bad file leaves behind.

Abstractions: `find_active_session` answers in one step and the wake-up is one step
whose result is ignored, as in the code (`SeatCalls` takes both apart); the time between polls is any time;
an aborted monitor publishes once at most. `WebEdit` is add, remove and update,
which always notify. `WebPut` may give any device to any user. It notifies only if the
list of addresses has changed: the handler compares them as texts and in their order, so
the same devices may count as changed or not (`Differ`). A handler is one step here, and what handlers
that overlap do to the file, the memory and the loop is `ConfigStore`'s subject. So `EditNotLost` is about which
devices are configured, and a PUT that only changes owners or settings does go
unnoticed until something else restarts the monitors.

Three things a reader of the code might not expect, and which the properties
leave room for. With `disconnect_action` "none" a device that is lost and then
heard far away goes from Disconnected to Far without an action, so the session is
not locked: `WantFitsPhase` names the case, and `AwayIsLocked` is for devices that lock when lost. A restart of
the loop assumes Unlock for every device and starts its monitor as near, so a device
that was away, and is back before the new monitor has counted it away, brings no
edge: the session stays locked. And a loop that
waits because the new user has no device has not cleared the table: the status of
the last user's devices stays until an iteration begins, which is why `StatusHeals`
is about devices with a monitor.

### LockPolicy

The lock path as the user of a session sees it. `user` and `devices` are those of the
iteration under way, `open` the devices that want the session open as far as
`device_wants` tells, `near` is `was_near`, and `acts` is FALSE in PamOnly mode. The
channel, the awaits within a call, who restarts the loop and why are left out. What
is left is the edge detection: `Lock` and `Unlock` happen once per edge, before another
word is heard (`InStep`), for the user whose devices they are, and whether or not
logind obeys. Everything else that happens to a lock is `ByHand`: a user who unlocks
with the password while all devices are away is not locked out again before one has
been near. `Daemon!FollowsPolicy` is the refinement.

### StatusTable and PamLogin

A login touches two things the daemon changes under it: the configuration, for the
user's devices, and the status table, for their phases. Checking it against the
whole of `Daemon` is out of TLC's reach, and most of `Daemon` is of no concern to
it. `StatusTable` keeps what is: an iteration begins with the devices of one user
(`Begin`), clears the table after its monitors have started (`Clear`), its
monitors publish any phase at any time, it ends (`Abort`) and leaves behind
monitors that may still publish (`leaving`); `Edit` and `Abort` may replace the
configuration. `Daemon!ImplementsTable` is the refinement: `running` is the domain
of `wants`, `leaving` the devices of `zombies`, `stage` a function of `pc`.

`PamLogin` extends `StatusTable` with the socket and one login. `pam.pc` goes

    idle -> connect -> asked -> looked -> answered -> granted, denied or sleep
               ^                                                      |
               \------------------------------------------------------/

with "unavailable" from connect and "error" from asked and looked. `LookUp` and
`Reply` are the two locked sections of `handle_connection`; any step of the table
may come between and around them (`Beside`). Each attempt has its own connection
and its own task, and the two ends take turns, so one record holds both. Logins
only read, so several of them are no more than one. `steady`, `owned` and `near`
are history: which devices were the user's and near during all of the query, the
user's at some time in it, near at some time in it. The login runs as root, whom
alone the permissions of the socket let in.

`DaemonLogin` puts the login beside `Daemon` itself: a step is one of the daemon, which
the histories take note of (`Observe`), or one of the login or its listener.
`ImplementsLogin` says that this is a behaviour of `PamLogin`; steps of the daemon that
the table does not show are `Beside` steps that change nothing in it.

### ConfigStore

`tmp` and `file` are names, `data` the content of the files they stand for, so a
writer keeps writing to a file whose name has been taken away from it. A request
goes idle, open, write, rename, commit, notify, done; PUT holds a read lock from
idle to rename. Writing over another writer's bytes gives either the second
content or a mixture. `clean` is FALSE once two saves have overlapped, `serial`
once two read-modify-writes have (or one has failed after its rename). They are
history variables: the properties that overlapping handlers really do break are
stated for histories where they did not overlap. `passwd_lost` needs no overlap: a PUT
that begins after `passwd` has ended writes the hash in memory, the old one, over the
new one in the file. Whether a PUT notifies the loop is decided on lists of addresses in their
order (`Differ`, as in `Daemon`). Web requests are handled once each, the daemon crashes at most
once, and one SIGHUP arrives. A daemon that finds a file it cannot parse does not
come up; such a crash is not taken.

`StoredConfig` is the configuration without the handlers, the locks and the steps of a
save: what is `stored`, the copy in `memory`, and the devices the main loop has `heard`.
`Replace` is the rename of a request, the one moment at which `config.toml` changes;
`ChangePassword` is that of `passwd`. `CatchUp` is memory taking over what is stored: the
commit of the request, a reload, or a start. It has to come before the next
`Replace`, and brings the main loop a notification unless the devices are the same.
`Hear` is the loop reading them. `overlapped` is the opposite of `serial`: from then on
anything may happen (`Overlap`), for a notification may then be decided on a list
that is no longer the one in memory. `ConfigStore!ImplementsStored` is the refinement.

### DeviceConfig

`ConfigStore` takes a configuration to be anything; `DeviceConfig` takes a save to
be one step and looks into what is saved. A text that names a device is a record
of the device, or none, and the form it is written in: `Parse` forgets the form,
`Show` writes the canonical one, and the entries keep the form they came in.
`Settings` are the sections of the file with the names that matter to a monitor;
`SettingsFor` is `bluetooth_for_device` and `proximity_for_device`. A handler
reads the live configuration in one step and saves what it made of it in
another, where it is validated again; `add` takes the user at the seat in a step before
(`Add`, then `AddTo`). Any other request, reload or switch may
come between. `retain` in `remove_device_handler` is `InOrder`: the entries that
stay, in their order. `add` and the list of devices read `active_uid`. A PUT carries one
setting or one list: several at once are several merges of the same kind. `uids` is history: the users at the seat since a list was
asked for.

### WebSessions

Each lock of the token table is a step. A request of a client carries the cookie
the client had when it was sent (`token`), and `after` remembers whether the
session was dead by then, in the client's eyes: signed out, a day old, or of
another life of the daemon. The layer in front of the protected routes and the
`AuthUser` extractor of `logout_handler` are two checks with a gap between them.
Time is a clock of ticks, `Day` of them the life of a session; tokens are 32
random bytes, so a new one is one nobody has had. Cookies vanish at any time
(`Forget`), answers are lost or arrive. What the code does is kept: sessions
survive a change of the password and a reload, and the decision whether there is
a web server is made at the start only.

### WakeUp and SeatCalls

`SeatCalls` has two callers of `find_active_session`, the watcher and the main loop.
A lookup lists the sessions of seat0 and asks them one by one; the seat may change
hands, sessions may begin and end, and a call may fail between any two of its
steps. `been` and `same` are history: who was active since the list was asked for.
logind is what the code asks of it, and every change of the seat is signalled to whom
is subscribed. `unheard` marks the one change the watcher cannot hear, between its
first lookup and its subscription, and `broken` a call of its lookups that failed:
`active_uid` is then what the code leaves it at until the next signal.

The main loop waits for the wake-up before it looks the session up. `WakeUp` has
the timer task and the three branches of its `select!`. Tasks may be late; `late`
remembers that one was, and `EntersOnTime` promises the number of Enters without it.
The timer task starts before the virtual devices are made (`WakeStart`) and the
intervals after (`DevicesMade`, at the time `begun`), which takes any time or fails.
With the shipped settings (3 seconds, 3000 ms) the only Enter falls on the end of
the duration if making the devices took no time, where `select!` picks, and past it
otherwise, where it is pressed only if the timer task is late: the property says so.

## Runs

| Run | Instance | Shows |
|---|---|---|
| `device_poll` | counts 4/4 (shipped) with disconnect action none, 2/3 with lock, 1/1 with unlock; the shipped BR/EDR and LE filters, losses to a tenth of a dB and covariances to 1/1000; four answers, among them a TX power and an RSSI that could not be read | the filter invents nothing; a device that goes away is noticed, and no longer near soon after; counters are runs, switches are earned, and the actions sent fit the phase |
| `daemon_devices` | 2 devices of 1 user, channel of 2, no disturbance, both modes | all interleavings of monitors and loop: away is locked, near is unlocked, no deadlock |
| `daemon_users` | 2 users, 2 devices, 2 events of any kind, locking or PAM only | the safety invariants through switches, edits, PUTs, reloads, failures, a stop; `Daemon` implements `StatusTable` and `LockPolicy` |
| `daemon_live` | 1 device, configured or not, 2 of edit, reload, switch | edits are applied, being away locks, stale status heals |
| `seat_calls` | 2 sessions of 2 users, 2 changes of the seat, 1 failing call; a wake-up of 2 ticks with an Enter at its end, and virtual devices that take any time or fail | lookups answer for a moment of theirs, `active_uid` settles, the loop returns from every wake-up and call, Enters on time |
| `web_sessions` | 2 browsers, 2 requests at once, 2 logins, 2 passwords, a day of 2 ticks, 1 reload or restart | who is let in, who is turned away, what is purged |
| `device_config` | 2 devices in 2 spellings, 2 users, 2 requests, 2 reloads or switches; values of 0 in every kind of place | no twins, usable settings, no list shows another's devices |
| `config_store` | 2 requests of 4 kinds, passwd, reload, crash, failing write and chmod | whole file, file equals memory, password kept; `ConfigStore` implements `StoredConfig` |
| `config_answered` | 3 requests, reload | every request and the reload get their locks |
| `pam_login` | 2 devices, 2 users, 3 attempts | the answer is about the user's own devices, and sees a steadily near one |

Runs that end in a counterexample, each with a line of the repository it
disagrees with (`findings` in PROJECT.json): `login_after_boot` (a user who logs in
after the daemon has started is not monitored, for the waiting loop does not look
at `active_uid`) and `passwd_lost` (a PUT that begins after
`passwd` has ended writes the old hash back over the new one, with nothing overlapping).

Bounds. Two devices are the least for "all away" and "one near" to differ, and
for the channel to hold one device's message behind another's; with `ChanFactor`
1 it fills up, which four messages per device would only postpone. Two users are
the least for acting on the wrong one. Two events are the least for one to hit
while the first is being handled; the proofs hold for any budget. A lock count of
2 lets a run be broken half way. Two requests are the least to overlap, a third
in `config_answered` keeps the read lock busy while another waits to write. In
`pam_login` the two configurations differ in the owner of one device, the least for
an answer to be about somebody else's; nothing there bounds the table.
In `device_poll` the losses lie 4 and 70 dB out, on both sides of either
threshold, and 27 losses of 70 dB in a row bring the slower (LE) filter from the lowest
estimate the four answers allow past its threshold. In
`seat_calls` two changes are enough for the seat to leave a session and come back
to it during one lookup, or to change again while the first signal is answered.
In `web_sessions` one request passes its check while the other signs the same
token out, and three ticks let a session end during a request. In `device_config`
two requests overlap between their reading and their save.

Deadlock is checked in `device_poll` and `daemon_devices`. In the others the
system may stop: after SIGTERM, with the login over, or with all requests answered.

## Fairness

`Daemon!Fairness`: each task runs if it can (weak fairness). `tokio::select!`
picks a ready branch at random, so a branch that is ready again and again is
taken some time: strong fairness for the receive branch and for `config_notify`.
Senders wait for a slot in the order they came, so strong fairness for `Send`.
No fairness for anything outside: switches, edits, signals, failures.

`ConfigStore!Fairness`: a request once begun runs on, and so does the main loop.
The standard library's RwLock lets a waiting writer in once the readers have left.

`SeatCalls!Fairness`: each task runs if it can. The branch of `select!` that ends the
wake-up stays ready once it is, and is picked at random among three, so weak
fairness of `Shutdown` is what it gets; making the virtual devices ends, and time passes
while the wake-up is on. None
for changes of the seat, which are bounded by `Changes`: `WatcherSettles` is about what
comes after the last.

`WebSessions` and `DeviceConfig` promise nothing that needs fairness.

## Proofs

Every safety property that a run checks, and every refinement, is proved for every
value of the constants that meets the named assumptions of its module: any number of
devices, users, sessions, browsers and requests, any settings, any channel size, any
set and number of events. Three depend on more than that. `AwayIsLocked` and
`NearIsUnlocked` depend on what the environment does, so their theorems name the
events that may happen; `Noticed` on how quick the filters are, so its theorem
says what makes one quick.

- `DevicePollProofs`: `CountIsRun` is inductive together with `TypeOK`; the rest
  follows from it, one arm of `transition` at a time. `RunCap >= 2` is needed
  because a reconnection makes a run of one near reading count even if
  `unlock_count` is 1.
- `MonitorProofs`: every step is a step of `DevicePoll`, so the theorems above hold
  of a monitor with its radio. `AmongLosses` rests on lemmas about the rounded
  quotient: the gain p/(p + r) lies between 0 and 1, and the nearest integer to a
  number between two integers lies between them too. The same lemmas keep the
  covariance between 1 and r. `FilterStaysOpen`: the filter does not harden. A level c
  of the covariance with c(c + q + r) <= (c + q)r is one that an update, which adds the
  process noise q first, does not go below, and rounding cannot take an integer below an
  integer bound. That a filter without process noise has no such c is what the noise is for.
- `NoticedInTime` starts from there. A gain grows with the covariance, and an estimate goes
  up more the larger the gain and the loss are, so a loss of `Away` or more takes an estimate
  that is at or above a rung to the next rung or above (`RungOrder`), as long as the
  covariance is at least the ladder's (`CovarianceKept`). So the estimate stays at or above
  the rung of its `awayRun` (`ClimbOn`). Past the threshold each loss of a device that is
  away is a far reading, and the run of far readings keeps up with the losses after
  `Patience` (`Lagging`), so `CountIsRun` bounds them. The hypothesis is `QuickEnough` of every
  filter. `MCDevicePoll` has TLC evaluate it for the shipped ones (`ShippedAreQuick`); filters
  with little process noise for their measurement noise do take longer.
- `DaemonProofs`: `TypeOK` first, then `MonitorsAreOwners` (which needs `cfg` to be
  a configuration while monitoring), then on top of both `BeliefMatchesWants`,
  `EditNotLost` and `ActsForOwner`. `NewestWantFitsPhase` needs most: every action
  in the channel, and the one about to be sent, must be ordered by when it was
  decided. Its argument splits on where the newest action of a device is (with
  the monitor, in the channel, kept), and a receive moves it from the second
  place to the third. Last comes the refinement: on top of `MonitorsAreOwners`
  (a monitor that publishes, or is aborted on its way to, is in the domain of
  `wants`), each step of `Daemon` is a step of `StatusTable` or leaves its
  variables alone.
- `CountersInPlace` finds the counters of `DevicePoll` again in the monitors of `Daemon`, which
  poll between all the rest and are restarted with new settings: no monitor stays in a
  phase whose run is complete.
- `LoginBesideDaemon` is the composition: a login beside the running daemon is one that
  `PamLogin` describes. It rests on the refinement of `StatusTable`, for the login changes
  nothing of the daemon's and its histories read nothing but the table and the
  configuration. `DaemonAnswersRight` then takes the promises about the answer over from
  `PamLoginProofs`, under whose constants the daemon's variables are put.
- `LockPolicy` is implemented in the same way as `StatusTable`: a message is `Hear`, a call of logind (or
  the failure to find the session) is `Lock` or `Unlock`, a restart is `End`. It rests on
  `BeliefMatchesWants`, for `LockPolicy` hears no message before it has acted on the
  last edge, and on `EdgeAhead`: the loop is on its way to lock only from near, to
  unlock only from away. `LockPolicy` cannot tell a call of the daemon from a hand
  on the lock; that no other step of the daemon touches one is `ActsForOwner`.
- The end-to-end theorems join `NewestWantFitsPhase` (once all is settled, what the loop
  keeps of a device fits its phase) and `BeliefMatchesWants` (then `wasNear` tells
  whether one is near). For `AwayLocked` it remains that `wasNear` is false only while
  the session is locked (`LeftIsLocked`). That needs calls of lock to go through, a
  seat that stays, and no hand on the lock (`LocksObeyed`); edits, reloads, failing
  unlocks and sockets, a dead watcher and a stop may all happen. For `NearUnlocked`
  it remains that the session is locked only while `wasNear` is false
  (`LockedOnlyAway`). That takes more (`UnlocksObeyed`): a restart forgets that the
  session is locked, so nothing may cause one while a device is away. Locks may
  fail, the watcher may die, and monitors may fail to open: if all do, the
  iteration ends, but then none has said a word (`SilentAtFirst`).
- `PamLoginProofs`: `LoginTypeOK` needs that a login that has not ended has an
  attempt left. The promises about the answer rest on `Tracked`: while the query
  is under way `steady` lies within the user's near devices and `owned` and `near`
  around them, and the devices found lie between `steady` and `owned`. `Reply`
  turns that into the answer. `DaemonAnswersRight` says the same of a login beside `Daemon`.
- `WebSessionsProofs`: what a request may do depends on what its token is worth.
  `TableIsRecord` ties the table to the history of logins and logouts: it holds
  exactly what is not over, each for a day. `Sound` says what is known of a
  request at each stage. `Onward` collects what no step takes back, so that
  requests a step leaves alone stay sound.
- `ConfigStoreProofs`: two facts carry it, one per history variable. While `clean`, the
  save under way has the temporary name to itself (`OneSave`), so what it renames is
  what it wrote. While `serial`, at most one read-modify-write is under way, it
  started from what memory and file agreed on, and after its rename the file holds
  what memory is about to (`OneChange`). `serial` implies `clean`, so the promises
  nest. There is always an unused file to open because every request, and passwd,
  has one open at most: this is where the assumption on `Cardinality(Files)` is
  needed. `PasswordKept`, an action property of the same invariant, is about the hash in memory; `RenameFindsIt`
  says that only an overlap makes a rename fail. `StoreImplementsStored`: the rename is the
  step that replaces what is stored, since what it renames is whole and was made from
  what memory and file agreed on (`OneChange`); opening, writing and failing change nothing
  that shows. `StoredInforms` derives what that comes to for the loop from `StoredConfig`
  alone, `LoopIsToldAlways` is the same in the words of `ConfigStore`.
- `DeviceConfigProofs`: whatever is live or about to be saved has the form of a
  configuration, every setting in its section and every entry whole: each handler
  makes one of one (`InputsAssumption` says that files and requests hold
  deserialized values). What is live is valid, whoever wrote it, and validation
  implies `NoTwins` and `SaneSettings`; for the latter the three places a setting may
  come from are told apart. `ListedIsOwn` follows the two reads: the uid that was
  read is one of those at the seat since.
- `SeatCallsProofs`: `LookupIsRight` needs that, until the seat changes, the active
  session is the only one that was active and is still to be asked (`LookOK`).
  `EntersOnTime` needs the schedule: the next Enter is due one interval after the
  last, the first one interval after the devices were made, and it is overdue only if a task
  was late (`WakeIInv`).

Proved and in no run of their own: `SlowWhileDisconnected`, part of
the inductive invariant of `DevicePoll`; `FilterStaysOpen`, which `Noticed` rests on; `TableIsRecord`, of that of `WebSessions`;
`BeliefMatchesWants`, which is what `FollowsPolicy` comes to while the loop listens;
`LoopIsTold`, which is what `ImplementsStored` comes to for the loop; and `AllInTime`, which
is the part of `CountIsRun` that needs no history, said of the monitors of `Daemon`.

Checked by TLC only: liveness, which is out of the prover's reach (`EditIsApplied`,
`AwayLocks`, `StatusHeals`, `WatcherSettles`, `LoopReturns`, `AllAnswered`). The other way round,
that `Daemon` and a login together behave as `PamLogin` says is in no run, for the two
together have too many states; it is a theorem.

## Not modelled

- Startup before the first lookup: the command line, tracing, and an unreachable
  system bus, which ends the process.
- The creation of `config.toml` when there is none, and where it is looked for.
- The content of an answer: status and get, the names and kinds BlueZ reports, the
  pages of the web UI and its JavaScript. No property above depends on it.
- The binary formats: management commands, the IPC messages, TOML, and which
  texts parse as a MAC. Unit tests cover them.
- Hashing of passwords, the prompt of `passwd`, the random source of tokens.
- What the kernel does with input events, and logging.
- Poisoned locks: no code panics while it holds one, short of running out of memory.

## Plan

Done: the modules and proofs above. Left:

1. The histories of readings in `Daemon`. `CountersInPlace` says that no monitor of it
   stays in a phase whose run is complete; that its switches are earned needs the runs of readings as history variables there.
2. `NearIsUnlocked` with restarts: which sessions a restart while away leaves locked, and
   until when. It needs the restarts while away as history.
3. The composition of `Daemon` with `ConfigStore`: a web handler of `Daemon` taken apart, with
   `StoredConfig` in the place of its `cfg`.
