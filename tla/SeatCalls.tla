------------------------------ MODULE SeatCalls ------------------------------
(***************************************************************************)
(* The session controller call by call (daemon/src/logind/controller.rs,   *)
(* session.rs), and its two users: the watcher, which keeps active_uid     *)
(* (watcher.rs), and the main loop, which locks a session, or wakes the    *)
(* screen and then unlocks one (main.rs).                                  *)
(*                                                                         *)
(* find_active_session lists the sessions and asks those of seat0 in turn  *)
(* whether they are active.  Each question is a D-Bus call, and the seat   *)
(* may change hands between any two of them.  Daemon takes a lookup to be  *)
(* one step; here it is as many as the code makes.                         *)
(*                                                                         *)
(* logind is modelled from what the code asks of it.  Every change of the  *)
(* seat is followed by PropertiesChanged.                                  *)
(***************************************************************************)
EXTENDS WakeUp, FiniteSets

CONSTANTS
  Sessions,    \* sessions of seat0; those of other seats are passed over
  Owner,       \* [Sessions -> Users]
  Users,
  None,        \* no session, no user
  Changes,     \* bound: how often the seat changes
  Failures     \* bound: D-Bus calls that fail

ASSUME SeatAssumption ==
  /\ Owner \in [Sessions -> Users]
  /\ None \notin Sessions \union Users
  /\ IsFiniteSet(Sessions)
  /\ Changes \in Nat /\ Failures \in Nat

VARIABLES
  open,       \* sessions that exist
  active,     \* the one that has the seat
  changes, failures,   \* left
  look,       \* the lookup of each caller
  watch,      \* where the watcher is
  signals,    \* PropertiesChanged not yet read
  activeUid,
  act,        \* what the main loop is doing, and for whom
  unheard,    \* history: the last change of the seat went by unsignalled
  broken      \* history: a call of the watcher's lookups has failed

seatVars == <<open, active, changes, failures, look, watch, signals, activeUid,
              act, unheard, broken>>
vars == <<wakeVars, seatVars>>

Callers == {"watcher", "loop"}

\* The user at the seat.
Seated == IF active = None THEN None ELSE Owner[active]

\* todo: sessions still to be asked; found: the answer.  been and same are
\* history: the sessions that were active since the call to ListSessions, and
\* whether the seat has not changed since.
Lookup == [pc: {"off", "list", "ask", "found", "failed"}, todo: SUBSET Sessions,
           found: Sessions \union {None}, been: SUBSET Sessions, same: BOOLEAN,
           error: BOOLEAN]

Off == [pc |-> "off", todo |-> {}, found |-> None, been |-> {}, same |-> TRUE, error |-> FALSE]

Init ==
  /\ Resting
  /\ open \in SUBSET Sessions
  /\ active \in open \union {None}
  /\ changes = Changes /\ failures = Failures
  /\ look = [c \in Callers |-> IF c = "watcher" THEN [Off EXCEPT !.pc = "list"] ELSE Off]
  /\ watch = "first"
  /\ signals = 0
  /\ activeUid = None
  /\ act = [pc |-> "idle", uid |-> None]
  /\ unheard = FALSE /\ broken = FALSE

------------------------------------------------------------------------------
(* find_active_session.                                                    *)

At(c, step) == look[c].pc = step
Sets(c, l) == look' = [look EXCEPT ![c] = l]

List(c) ==
  /\ At(c, "list")
  /\ Sets(c, [pc |-> "ask", todo |-> open, found |-> None, been |-> {active} \ {None},
              same |-> TRUE, error |-> FALSE])
  /\ UNCHANGED <<wakeVars, open, active, changes, failures, watch, signals, activeUid,
                 act, unheard, broken>>

\* Slip: a session that is not active is asked again.
AskAgain(c) ==
  /\ At(c, "ask")
  /\ \E s \in look[c].todo :
       Sets(c, CASE s \notin open -> [look[c] EXCEPT !.pc = "failed", !.error = TRUE]
                 [] s \in open /\ s = active -> [look[c] EXCEPT !.pc = "found", !.found = s]
                 [] s \in open /\ s # active -> look[c])
  /\ UNCHANGED <<wakeVars, open, active, changes, failures, watch, signals, activeUid,
                 act, unheard, broken>>

\* Slip: the first session of the seat is taken for the active one.
AskFirst(c) ==
  /\ At(c, "ask")
  /\ \E s \in look[c].todo : Sets(c, [look[c] EXCEPT !.pc = "found", !.found = s])
  /\ UNCHANGED <<wakeVars, open, active, changes, failures, watch, signals, activeUid,
                 act, unheard, broken>>

\* The next session is asked.  One that is gone is an error, and ends the
\* lookup whatever the others would have said.
Ask(c) ==
  /\ At(c, "ask")
  /\ \E s \in look[c].todo :
       Sets(c, CASE s \notin open -> [look[c] EXCEPT !.pc = "failed", !.error = TRUE]
                 [] s \in open /\ s = active -> [look[c] EXCEPT !.pc = "found", !.found = s]
                 [] s \in open /\ s # active -> [look[c] EXCEPT !.todo = look[c].todo \ {s}])
  /\ UNCHANGED <<wakeVars, open, active, changes, failures, watch, signals, activeUid,
                 act, unheard, broken>>

\* All have been asked.
NoneActive(c) ==
  /\ At(c, "ask") /\ look[c].todo = {}
  /\ Sets(c, [look[c] EXCEPT !.pc = "failed"])
  /\ UNCHANGED <<wakeVars, open, active, changes, failures, watch, signals, activeUid,
                 act, unheard, broken>>

\* Either call of a lookup may fail.
CallFails(c) ==
  /\ At(c, "list") \/ (At(c, "ask") /\ look[c].todo # {})
  /\ failures > 0 /\ failures' = failures - 1
  /\ Sets(c, [look[c] EXCEPT !.pc = "failed", !.error = TRUE])
  /\ broken' = (broken \/ c = "watcher")
  /\ UNCHANGED <<wakeVars, open, active, changes, watch, signals, activeUid, act, unheard>>

------------------------------------------------------------------------------
(* The watcher.                                                            *)

\* Slip: a lookup that fails changes nothing.
ResultKeeping == IF At("watcher", "found") THEN Owner[look["watcher"].found] ELSE activeUid

\* Slip: the session is stored for its user.
ResultSession == look["watcher"].found

\* What the watcher stores for a lookup that is over.
Result == IF At("watcher", "found") THEN Owner[look["watcher"].found] ELSE None

\* spawn_session_watcher, before the task: a failure leaves NO_ACTIVE_UID.
FirstStore ==
  /\ watch = "first" /\ (At("watcher", "found") \/ At("watcher", "failed"))
  /\ activeUid' = Result
  /\ watch' = "subscribing"
  /\ Sets("watcher", Off)
  /\ UNCHANGED <<wakeVars, open, active, changes, failures, signals, act, unheard, broken>>

\* listen_to_properties_changed
Subscribe ==
  /\ watch = "subscribing"
  /\ watch' = "listening"
  /\ UNCHANGED <<wakeVars, open, active, changes, failures, look, signals, activeUid,
                 act, unheard, broken>>

\* One signal, one lookup.
Hear ==
  /\ watch = "listening" /\ signals > 0
  /\ signals' = signals - 1
  /\ watch' = "looking"
  /\ Sets("watcher", [Off EXCEPT !.pc = "list"])
  /\ UNCHANGED <<wakeVars, open, active, changes, failures, activeUid, act, unheard, broken>>

Store ==
  /\ watch = "looking" /\ (At("watcher", "found") \/ At("watcher", "failed"))
  /\ activeUid' = Result
  /\ watch' = "listening"
  /\ Sets("watcher", Off)
  /\ UNCHANGED <<wakeVars, open, active, changes, failures, signals, act, unheard, broken>>

------------------------------------------------------------------------------
(* The main loop acts on a user it read from active_uid.                   *)

DecideLock ==
  /\ act.pc = "idle" /\ activeUid # None
  /\ act' = [pc |-> "lock", uid |-> activeUid]
  /\ Sets("loop", [Off EXCEPT !.pc = "list"])
  /\ UNCHANGED <<wakeVars, open, active, changes, failures, watch, signals, activeUid,
                 unheard, broken>>

DecideUnlock ==
  /\ act.pc = "idle" /\ activeUid # None
  /\ act' = [pc |-> "wake", uid |-> activeUid]
  /\ WakeStart
  /\ UNCHANGED <<open, active, changes, failures, look, watch, signals, activeUid,
                 unheard, broken>>

\* wake_screen has returned, with or without an error; only now is the seat
\* looked at.
Woken ==
  /\ act.pc = "wake"
  /\ WakeReset
  /\ act' = [act EXCEPT !.pc = "unlock"]
  /\ Sets("loop", [Off EXCEPT !.pc = "list"])
  /\ UNCHANGED <<open, active, changes, failures, watch, signals, activeUid,
                 unheard, broken>>

\* The lookup has failed, or has found a session of another user.
GiveUp ==
  /\ \/ At("loop", "failed")
     \/ At("loop", "found") /\ Owner[look["loop"].found] # act.uid
  /\ act' = [pc |-> "idle", uid |-> None]
  /\ Sets("loop", Off)
  /\ UNCHANGED <<wakeVars, open, active, changes, failures, watch, signals, activeUid,
                 unheard, broken>>

\* Lock or Unlock, on the session that was found, whether it is still there
\* or not: the loop goes on either way, and what the call does to the session
\* is in Daemon.
Call ==
  /\ At("loop", "found") /\ Owner[look["loop"].found] = act.uid
  /\ act' = [pc |-> "idle", uid |-> None]
  /\ Sets("loop", Off)
  /\ UNCHANGED <<wakeVars, open, active, changes, failures, watch, signals, activeUid,
                 unheard, broken>>

------------------------------------------------------------------------------
(* The seat: another session, or none, gets it; sessions begin and end.    *)

Change(newOpen, newActive) ==
  /\ changes > 0 /\ changes' = changes - 1
  /\ open' = newOpen /\ active' = newActive
  /\ look' = [c \in Callers |-> IF look[c].pc # "ask" THEN look[c]
                ELSE [look[c] EXCEPT !.been = @ \union ({newActive} \ {None}), !.same = FALSE]]
  /\ signals' = IF watch \in {"listening", "looking"} THEN signals + 1 ELSE signals
  /\ unheard' = (watch \in {"first", "subscribing"} /\ ~At("watcher", "list"))
  /\ UNCHANGED <<wakeVars, failures, watch, activeUid, act, broken>>

Switch == \E s \in (open \union {None}) \ {active} : Change(open, s)
Begins == \E s \in Sessions \ open : Change(open \union {s}, active)
Ends == \E s \in open : Change(open \ {s}, IF active = s THEN None ELSE active)

------------------------------------------------------------------------------
Looking(c) == List(c) \/ Ask(c) \/ NoneActive(c) \/ CallFails(c)
Watcher == Looking("watcher") \/ FirstStore \/ Subscribe \/ Hear \/ Store
Waking == WakeStep /\ UNCHANGED seatVars
Loop == Looking("loop") \/ Woken \/ GiveUp \/ Call

Next ==
  \/ Watcher
  \/ DecideLock \/ DecideUnlock \/ Loop \/ Waking
  \/ Switch \/ Begins \/ Ends

Spec == Init /\ [][Next]_vars

\* Every task runs if it can.  The channel's branch of select! stays ready
\* once it is, and select! picks at random.
Fairness ==
  /\ WF_vars(Watcher) /\ WF_vars(Loop)
  /\ WF_vars((DevicesFail \/ DevicesMade) /\ UNCHANGED seatVars)
  /\ WF_vars(Fire /\ UNCHANGED seatVars) /\ WF_vars(Shutdown /\ UNCHANGED seatVars)
  /\ WF_vars(TimePasses /\ UNCHANGED seatVars)

FairSpec == Spec /\ Fairness

------------------------------------------------------------------------------
TypeOK ==
  /\ WakeTypeOK
  /\ open \subseteq Sessions /\ active \in open \union {None}
  /\ changes \in 0..Changes /\ failures \in 0..Failures
  /\ look \in [Callers -> Lookup]
  /\ watch \in {"first", "subscribing", "listening", "looking"}
  /\ signals \in 0..Changes
  /\ activeUid \in Users \union {None}
  /\ act \in [pc: {"idle", "lock", "wake", "unlock"}, uid: Users \union {None}]
  /\ unheard \in BOOLEAN /\ broken \in BOOLEAN

\* A lookup answers for some moment of it, however the seat changes under
\* it: what it finds was active at some time since the sessions were listed,
\* and if nothing has changed and no call has failed it fails only when no
\* session has the seat.
LookupIsRight ==
  \A c \in Callers :
    /\ At(c, "found") => look[c].found \in look[c].been
    /\ At(c, "failed") /\ look[c].same /\ ~look[c].error => look[c].been = {}

\* Once the seat no longer changes, active_uid is the user who has it, though
\* lookups miss sessions that move under them and fail on those that end; but
\* not if the last change came between the first lookup and the subscription,
\* nor if a call has failed.
WatcherSettles == <>[](activeUid = Seated) \/ <>[](unheard \/ broken)

\* The main loop comes back to its devices from every lock and every unlock.
LoopReturns == act.pc # "idle" ~> act.pc = "idle"
==============================================================================
