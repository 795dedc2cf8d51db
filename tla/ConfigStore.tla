----------------------------- MODULE ConfigStore -----------------------------
(***************************************************************************)
(* The configuration: the copy in memory behind its RwLock, config.toml,   *)
(* and everything that reads, changes and stores them.  The web handlers   *)
(* (daemon/src/web/api.rs) run in parallel on the runtime's threads; the   *)
(* SIGHUP branch of the main loop (main.rs) and `haraltr passwd'           *)
(* (passwd.rs), a process of its own, run beside them.                     *)
(*                                                                         *)
(* Saving (config.rs) writes .config.toml.tmp and renames it over          *)
(* config.toml.  Names and files are told apart: `tmp' and `file' say      *)
(* which file each name stands for, `data' what is in it, and a writer     *)
(* keeps the file it opened even after the name has moved on.              *)
(*                                                                         *)
(* An operator whose comment begins with "Slip:" is not the code (see      *)
(* ProxState).                                                             *)
(***************************************************************************)
EXTENDS Naturals, FiniteSets

CONSTANTS
  Macs,        \* devices that may be configured
  Settings,    \* values of everything else in the configuration
  Requests,    \* web requests, each handled once
  Passwd,      \* the passwd process
  Ops,         \* the kinds of request that are made
  Beside,      \* what else happens: "passwd", "reload", "crash",
               \* "writeFails", "chmodFails"
  Files,       \* files on disk
  NoFile

Procs == Requests \union {Passwd}

ASSUME StoreAssumption ==
  /\ Passwd \notin Requests
  /\ Ops \subseteq {"add", "remove", "update", "put"}
  /\ Beside \subseteq {"passwd", "reload", "crash", "writeFails", "chmodFails"}
  /\ NoFile \notin Files
  /\ Settings # {}  \* those of Config::default(), at least
  /\ IsFiniteSet(Files) /\ IsFiniteSet(Requests)
  /\ Cardinality(Files) >= Cardinality(Requests) + 3

\* The devices, the other settings, and the web password.  "none" is the
\* password of Config::default().
Config == [devs: SUBSET Macs, set: Settings, hash: {"none", "old", "new"}]

VARIABLES
  live,     \* AppState.config
  readers,  \* requests that hold its read lock beyond one step
  permit,   \* config_notify
  file,     \* the file named config.toml
  tmp,      \* the file named .config.toml.tmp, or NoFile
  data,     \* the content of each file
  proc,     \* each request, and the passwd process
  hup,      \* the SIGHUP branch: where it is, and what it has loaded
  seen,     \* the devices the main loop last read
  crashed,  \* the daemon has crashed (once at most)
  clean,    \* history: no two saves have overlapped
  serial    \* history: no two read-modify-writes have overlapped, and none
            \* has failed after its rename

vars == <<live, readers, permit, file, tmp, data, proc, hup, seen, crashed, clean, serial>>

------------------------------------------------------------------------------
\* Config::default()
Default == [devs |-> {}, set |-> CHOOSE s \in Settings : TRUE, hash |-> "none"]

\* What a file may hold: a configuration, nothing yet (which parses, as the
\* defaults), or the bytes of two (which need not parse).
Content == [is: {"whole", "empty", "mixed"}, cfg: Config]

Whole(c) == [is |-> "whole", cfg |-> c]
Emptied == [is |-> "empty", cfg |-> Default]
Mixed == [is |-> "mixed", cfg |-> Default]

Fresh == [pc |-> "idle", new |-> Default, tells |-> FALSE, fd |-> NoFile]

Init ==
  /\ live \in {[Default EXCEPT !.devs = D, !.hash = "old"] : D \in SUBSET Macs}
  /\ readers = {} /\ permit = FALSE
  /\ file = (CHOOSE f \in Files : TRUE) /\ tmp = NoFile
  /\ data = [f \in Files |-> IF f = file THEN Whole(live) ELSE Emptied]
  /\ proc = [p \in Procs |-> Fresh]
  /\ hup = [pc |-> "idle", new |-> Default]
  /\ seen = live.devs
  /\ crashed = FALSE /\ clean = TRUE /\ serial = TRUE

At(p, step) == proc[p].pc = step

\* Between its copy of the configuration and its last write of it.
Busy(p) == proc[p].pc \in {"open", "write", "rename", "commit"}

Quiet == (\A p \in Procs : ~Busy(p)) /\ hup.pc # "store"

\* The request is answered, or passwd exits: only how it ended is kept.
Ended(p, how) == [proc EXCEPT ![p] = [Fresh EXCEPT !.pc = how]]

\* p takes its copy, changes it to new, and is about to save it.
Start(p, new, tells) ==
  /\ At(p, "idle")
  /\ proc' = [proc EXCEPT ![p] = [pc |-> "open", new |-> new, tells |-> tells, fd |-> NoFile]]
  /\ serial' = (serial /\ Quiet)

------------------------------------------------------------------------------
(* The handlers.  add, remove and update clone under a read lock that they *)
(* release at once; put keeps it until its save is over.                   *)

AddDevice(r) ==
  /\ "add" \in Ops
  /\ \E m \in Macs \ live.devs :
       Start(r, [live EXCEPT !.devs = live.devs \union {m}], TRUE)
  /\ UNCHANGED <<live, readers, permit, file, tmp, data, hup, seen, crashed, clean>>

RemoveDevice(r) ==
  /\ "remove" \in Ops
  /\ \E m \in live.devs : Start(r, [live EXCEPT !.devs = live.devs \ {m}], TRUE)
  /\ UNCHANGED <<live, readers, permit, file, tmp, data, hup, seen, crashed, clean>>

UpdateDevice(r) ==
  /\ "update" \in Ops
  /\ live.devs # {}
  /\ \E s \in Settings : Start(r, [live EXCEPT !.set = s], TRUE)
  /\ UNCHANGED <<live, readers, permit, file, tmp, data, hup, seen, crashed, clean>>

\* old_devices != new_devices: lists of the same addresses differ if their
\* order or their spelling does.
Differ(D, E) == IF D # E THEN {TRUE} ELSE {FALSE, D # {}}

\* Slip: the hash of the request body, which has none, is kept.
PutConfigHashless(r) ==
  /\ "put" \in Ops
  /\ \E D \in SUBSET Macs, s \in Settings : \E tells \in Differ(live.devs, D) :
       Start(r, [devs |-> D, set |-> s, hash |-> "none"], tells)
  /\ readers' = readers \union {r}
  /\ UNCHANGED <<live, permit, file, tmp, data, hup, seen, crashed, clean>>

\* Slip: the loop is never told.
PutConfigQuiet(r) ==
  /\ "put" \in Ops
  /\ \E D \in SUBSET Macs, s \in Settings :
       Start(r, [live EXCEPT !.devs = D, !.set = s], FALSE)
  /\ readers' = readers \union {r}
  /\ UNCHANGED <<live, permit, file, tmp, data, hup, seen, crashed, clean>>

\* The body may replace anything but the password; the loop is told only if
\* it changes the list of addresses of the configuration it is merged into.
PutConfig(r) ==
  /\ "put" \in Ops
  /\ \E D \in SUBSET Macs, s \in Settings : \E tells \in Differ(live.devs, D) :
       Start(r, [live EXCEPT !.devs = D, !.set = s], tells)
  /\ readers' = readers \union {r}
  /\ UNCHANGED <<live, permit, file, tmp, data, hup, seen, crashed, clean>>

\* set_password starts from the file, not from the daemon's copy.
SetPassword ==
  /\ "passwd" \in Beside
  /\ data[file].is # "mixed"
  /\ Start(Passwd, [data[file].cfg EXCEPT !.hash = "new"], FALSE)
  /\ UNCHANGED <<live, readers, permit, file, tmp, data, hup, seen, crashed, clean>>

------------------------------------------------------------------------------
(* save_to_file                                                            *)

Opened == {proc[q].fd : q \in {p \in Procs : proc[p].pc \in {"write", "rename"}}}

Unused == CHOOSE f \in Files : f \notin Opened \union {file}

\* Slip: config.toml itself is opened for writing.
OpenInPlace(p) ==
  /\ At(p, "open")
  /\ data' = [data EXCEPT ![file] = Emptied]
  /\ tmp' = file
  /\ proc' = [proc EXCEPT ![p].pc = "write", ![p].fd = file]
  /\ clean' = (clean /\ Opened = {})
  /\ UNCHANGED <<live, readers, permit, file, hup, seen, crashed, serial>>

\* fs::write opens the temporary name, created or truncated ...
Open(p) ==
  /\ At(p, "open")
  /\ LET f == IF tmp = NoFile THEN Unused ELSE tmp IN
       /\ data' = [data EXCEPT ![f] = Emptied]
       /\ tmp' = f
       /\ proc' = [proc EXCEPT ![p].pc = "write", ![p].fd = f]
  /\ clean' = (clean /\ Opened = {})
  /\ UNCHANGED <<live, readers, permit, file, hup, seen, crashed, serial>>

\* ... and writes it: over another writer's bytes, if there are any.
Write(p) ==
  /\ At(p, "write")
  /\ \/ data' = [data EXCEPT ![proc[p].fd] = Whole(proc[p].new)]
     \/ data[proc[p].fd].is # "empty" /\ data' = [data EXCEPT ![proc[p].fd] = Mixed]
  /\ proc' = [proc EXCEPT ![p].pc = "rename"]
  /\ UNCHANGED <<live, readers, permit, file, tmp, hup, seen, crashed, clean, serial>>

\* The save is over, and with it put's read lock.
Release(p) == readers' = readers \ {p}

\* Slip: the copy in memory is replaced although the save has failed.
WriteFailsCommits(p) ==
  /\ At(p, "write")
  /\ "writeFails" \in Beside
  /\ proc' = IF p = Passwd THEN Ended(p, "failed") ELSE [proc EXCEPT ![p].pc = "commit"]
  /\ Release(p)
  /\ UNCHANGED <<live, permit, file, tmp, data, hup, seen, crashed, clean, serial>>

\* The disk is full, say: the error is the answer, and what was written stays.
WriteFails(p) ==
  /\ At(p, "write")
  /\ "writeFails" \in Beside
  /\ proc' = Ended(p, "failed")
  /\ Release(p)
  /\ data' = data \/ data' = [data EXCEPT ![proc[p].fd] = Mixed]
  /\ UNCHANGED <<live, permit, file, tmp, hup, seen, crashed, clean, serial>>

\* fs::rename moves whatever the temporary name stands for by now; the file
\* it replaces has no name left, so its content is forgotten.
Moved ==
  /\ tmp # NoFile
  /\ file' = tmp /\ tmp' = NoFile
  /\ data' = [data EXCEPT ![file] = Emptied]

\* Slip: put goes on to its write lock with the read lock in hand.
RenameKeepingLock(p) ==
  /\ At(p, "rename")
  /\ Moved
  /\ proc' = IF p = Passwd THEN Ended(p, "done") ELSE [proc EXCEPT ![p].pc = "commit"]
  /\ UNCHANGED <<live, readers, permit, hup, seen, crashed, clean, serial>>

Rename(p) ==
  /\ At(p, "rename")
  /\ Moved
  /\ proc' = IF p = Passwd THEN Ended(p, "done") ELSE [proc EXCEPT ![p].pc = "commit"]
  /\ Release(p)
  /\ UNCHANGED <<live, permit, hup, seen, crashed, clean, serial>>

\* A release build goes on to set the permissions of config.toml.  If that
\* fails the request fails, with its configuration stored all the same.
ChmodFails(p) ==
  /\ At(p, "rename")
  /\ "chmodFails" \in Beside
  /\ Moved
  /\ proc' = Ended(p, "failed")
  /\ Release(p)
  /\ serial' = FALSE
  /\ UNCHANGED <<live, permit, hup, seen, crashed, clean>>

\* Someone else has renamed it away: not found.
RenameFails(p) ==
  /\ At(p, "rename")
  /\ tmp = NoFile
  /\ proc' = Ended(p, "failed")
  /\ Release(p)
  /\ UNCHANGED <<live, permit, file, tmp, data, hup, seen, crashed, clean, serial>>

\* The handler takes the write lock and replaces the copy in memory ...
Commit(p) ==
  /\ At(p, "commit")
  /\ readers = {}
  /\ live' = proc[p].new
  /\ proc' = IF proc[p].tells THEN [proc EXCEPT ![p].pc = "notify"] ELSE Ended(p, "done")
  /\ UNCHANGED <<readers, permit, file, tmp, data, hup, seen, crashed, clean, serial>>

\* ... and tells the main loop.
Notify(p) ==
  /\ At(p, "notify")
  /\ permit' = TRUE
  /\ proc' = Ended(p, "done")
  /\ UNCHANGED <<live, readers, file, tmp, data, hup, seen, crashed, clean, serial>>

------------------------------------------------------------------------------
(* The main loop.  It takes the permit whenever it gets to it, and one     *)
(* SIGHUP is enough to race with the rest.                                 *)

TakePermit ==
  /\ permit /\ permit' = FALSE
  /\ hup.pc # "store"
  /\ seen' = live.devs
  /\ UNCHANGED <<live, readers, file, tmp, data, proc, hup, crashed, clean, serial>>

\* Config::load ...
HupLoad ==
  /\ "reload" \in Beside
  /\ hup.pc = "idle"
  /\ hup' = IF data[file].is = "mixed" THEN [pc |-> "done", new |-> Default]
            ELSE [pc |-> "store", new |-> data[file].cfg]
  /\ serial' = (serial /\ Quiet)
  /\ UNCHANGED <<live, readers, permit, file, tmp, data, proc, seen, crashed, clean>>

\* ... and the write lock.
HupStore ==
  /\ hup.pc = "store"
  /\ readers = {}
  /\ live' = hup.new
  /\ hup' = [pc |-> "done", new |-> Default]
  /\ seen' = hup.new.devs
  /\ UNCHANGED <<readers, permit, file, tmp, data, proc, crashed, clean, serial>>

\* The daemon dies and systemd starts it again: the requests under way are
\* gone, the files stay.  With a file it cannot parse it does not come up.
Crash ==
  /\ "crash" \in Beside
  /\ ~crashed /\ crashed' = TRUE
  /\ data[file].is # "mixed"
  /\ live' = data[file].cfg /\ seen' = live'.devs
  /\ readers' = {} /\ permit' = FALSE
  /\ proc' = [p \in Procs |-> IF p # Passwd /\ (Busy(p) \/ At(p, "notify"))
                              THEN [Fresh EXCEPT !.pc = "failed"] ELSE proc[p]]
  /\ hup' = [pc |-> "done", new |-> Default]
  /\ UNCHANGED <<file, tmp, data, clean, serial>>

------------------------------------------------------------------------------
Handler(r) == AddDevice(r) \/ RemoveDevice(r) \/ UpdateDevice(r) \/ PutConfig(r)

Saving(p) ==
  \/ Open(p) \/ Write(p) \/ WriteFails(p)
  \/ Rename(p) \/ RenameFails(p) \/ ChmodFails(p)
  \/ Commit(p) \/ Notify(p)

Next ==
  \/ \E r \in Requests : Handler(r)
  \/ SetPassword
  \/ \E p \in Procs : Saving(p)
  \/ TakePermit \/ HupLoad \/ HupStore
  \/ Crash

Spec == Init /\ [][Next]_vars

\* A request that has been taken up runs on, and so does the main loop.
Fairness ==
  /\ \A p \in Procs : WF_vars(Saving(p))
  /\ WF_vars(HupStore) /\ WF_vars(TakePermit)

FairSpec == Spec /\ Fairness

------------------------------------------------------------------------------
(* What must hold.                                                         *)

Steps == {"idle", "open", "write", "rename", "commit", "notify", "done", "failed"}

TypeOK ==
  /\ live \in Config /\ permit \in BOOLEAN
  /\ readers \subseteq {r \in Requests : proc[r].pc \in {"open", "write", "rename"}}
  /\ file \in Files /\ tmp \in Files \union {NoFile}
  /\ data \in [Files -> Content]
  /\ proc \in [Procs -> [pc: Steps, new: Config, tells: BOOLEAN, fd: Files \union {NoFile}]]
  /\ \A p \in Procs : proc[p].pc \in {"write", "rename"} => proc[p].fd \in Files
  /\ hup \in [pc: {"idle", "store", "done"}, new: Config]
  /\ seen \subseteq Macs
  /\ crashed \in BOOLEAN /\ clean \in BOOLEAN /\ serial \in BOOLEAN

\* As long as no two saves have overlapped, config.toml is a whole
\* configuration at every moment: while one save is under way, after it has
\* failed half way, and after a crash at any of its steps.
WholeFile == clean => data[file].is = "whole"

\* As long as no two read-modify-writes have overlapped, and none has failed
\* after its rename, memory and file agree whenever none is under way,
\* through failed saves, reloads and crashes.  The password alone may differ, once passwd has changed it.
StoredIsLive ==
  serial /\ Quiet =>
    /\ data[file].is = "whole"
    /\ data[file].cfg.devs = live.devs /\ data[file].cfg.set = live.set
    /\ data[file].cfg.hash = live.hash \/ At(Passwd, "done")

\* Under the same condition no request changes the hash in the daemon's
\* memory: only a reload or a restart does.
PasswordKept ==
  [][serial /\ live'.hash # live.hash => HupStore \/ Crash]_vars

\* The main loop has been told of a change, or is about to be.
Due == permit \/ \E r \in Requests : At(r, "notify")

\* Under the same condition the main loop is told, or about to be, of every
\* device list it has not read.
LoopIsTold == serial /\ seen # live.devs => Due

\* To whom uses it, the configuration is what StoredConfig says.
Stored == INSTANCE StoredConfig WITH
  Configs <- Config,
  memory <- live, stored <- data[file].cfg,
  heard <- seen, due <- Due,
  overlapped <- ~serial

ImplementsStored == Stored!Spec

\* Nobody waits for ever, however many hold the read lock meanwhile: each
\* request is answered, and a reload under way gets the write lock.
AllAnswered ==
  /\ \A p \in Procs : Busy(p) ~> proc[p].pc \in {"done", "failed"}
  /\ hup.pc = "store" ~> hup.pc = "done"

------------------------------------------------------------------------------
(* What a message says and the code does not do.                            *)

\* passwd.rs:57 "password set successfully.": the file holds it from then on,
\* if no request overlapped with passwd or with another, and none failed
\* after its rename.
PasswordStays ==
  serial /\ Quiet /\ At(Passwd, "done") => data[file].cfg.hash = "new"
==============================================================================
