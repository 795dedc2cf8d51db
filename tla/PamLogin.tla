------------------------------ MODULE PamLogin ------------------------------
(***************************************************************************)
(* A login through the PAM module (pam/src/lib.rs) beside the running      *)
(* daemon: the module asks on a Unix socket, the IPC listener (ipc.rs)     *)
(* answers from the configuration and the status table, which change       *)
(* meanwhile as StatusTable lets them.                                     *)
(*                                                                         *)
(* Logins only read what the daemon writes, so one login is enough.  Each  *)
(* attempt has a connection of its own, served by a task of its own; as    *)
(* the two take turns, one record holds both.  The module runs as root,    *)
(* the only user the permissions of the socket let in.                     *)
(***************************************************************************)
EXTENDS StatusTable

CONSTANTS
  NoUser,
  MaxRetries   \* MAX_RETRIES, 3 in the code

ASSUME LoginAssumption == MaxRetries \in Nat \ {0} /\ NoUser \notin Users

VARIABLES
  socket,   \* the listener is bound
  pam,      \* the login: where it is, whom it is for, attempts made, the
            \* devices the listener has found for the user, and its answer
  steady,   \* history: devices of the user shown near ever since the query
  owned,    \* history: devices that were the user's at some time since then
  near      \* history: devices that were shown near at some time since then

login == <<socket, pam, steady, owned, near>>

------------------------------------------------------------------------------
\* ProximityStatus
Verdict == {"Near", "Far", "Disconnected", "Unknown"}

Asking == {"asked", "looked"}
Ended == {"granted", "denied", "error", "unavailable"}

Login == [pc: {"idle", "connect", "answered", "sleep"} \union Asking \union Ended,
          uid: Users \union {NoUser}, tries: 0..MaxRetries, macs: SUBSET Macs, reply: Verdict]

LoginStart ==
  /\ socket = FALSE
  /\ pam = [pc |-> "idle", uid |-> NoUser, tries |-> 0, macs |-> {}, reply |-> "Unknown"]
  /\ steady = {} /\ owned = {} /\ near = {}

LoginInit == Init /\ LoginStart

ShownNear == {d \in DOMAIN status : status[d] = "Near"}

\* What the properties remember of the query under way.
Remember ==
  /\ steady' = steady \intersect Devices(live', pam.uid) \intersect ShownNear'
  /\ owned' = owned \union Devices(live', pam.uid)
  /\ near' = near \union ShownNear'

Forget == steady' = {} /\ owned' = {} /\ near' = {}

\* run_listener, unless daemon.mode is lock_only.  Nothing makes it happen: it
\* may fail.
Bind ==
  /\ ~socket /\ stage # "stopped"
  /\ socket' = TRUE
  /\ UNCHANGED <<vars, pam, steady, owned, near>>

\* authenticate, once the name is resolved.
Authenticate(u) ==
  /\ pam.pc = "idle"
  /\ pam' = [pam EXCEPT !.pc = "connect", !.uid = u]
  /\ UNCHANGED <<vars, socket, steady, owned, near>>

\* query_daemon connects and sends the query.  Without a listener the login
\* is over: this error is not retried.
Connect ==
  /\ pam.pc = "connect"
  /\ IF socket
     THEN /\ pam' = [pam EXCEPT !.pc = "asked"]
          /\ steady' = Devices(live, pam.uid) \intersect ShownNear
          /\ owned' = Devices(live, pam.uid) /\ near' = ShownNear
     ELSE pam' = [pam EXCEPT !.pc = "unavailable"] /\ Forget
  /\ UNCHANGED <<vars, socket>>

\* Slip: the devices are not filtered by their owner.
LookUpAll ==
  /\ pam.pc = "asked" /\ socket
  /\ pam' = [pam EXCEPT !.pc = "looked", !.macs = DOMAIN live]
  /\ UNCHANGED <<vars, socket, steady, owned, near>>

\* handle_connection reads the user's devices from the configuration ...
LookUp ==
  /\ pam.pc = "asked" /\ socket
  /\ pam' = [pam EXCEPT !.pc = "looked", !.macs = Devices(live, pam.uid)]
  /\ UNCHANGED <<vars, socket, steady, owned, near>>

\* is_any_near, is_any_far
IsAny(name, macs) == \E d \in DOMAIN status \intersect macs : status[d] = name

\* Slip: far is looked for first.
AnswerFarFirst(macs) ==
  CASE macs = {} -> "Unknown"
    [] macs # {} /\ IsAny("Far", macs) -> "Far"
    [] macs # {} /\ IsAny("Near", macs) /\ ~IsAny("Far", macs) -> "Near"
    [] OTHER -> "Disconnected"

\* ... then looks at the status table: one near device is enough.
Answer(macs) ==
  CASE macs = {} -> "Unknown"
    [] macs # {} /\ IsAny("Near", macs) -> "Near"
    [] macs # {} /\ IsAny("Far", macs) /\ ~IsAny("Near", macs) -> "Far"
    [] OTHER -> "Disconnected"

Reply ==
  /\ pam.pc = "looked" /\ socket
  /\ pam' = [pam EXCEPT !.pc = "answered", !.reply = Answer(pam.macs)]
  /\ UNCHANGED <<vars, socket, steady, owned, near>>

\* Slip: one attempt too many.
ReadOneMore ==
  /\ pam.pc = "answered"
  /\ pam' = [pam EXCEPT
       !.pc = CASE pam.reply = "Near" -> "granted"
                [] pam.reply # "Near" /\ pam.tries < MaxRetries -> "sleep"
                [] OTHER -> "denied",
       !.tries = pam.tries + 1, !.macs = {}]
  /\ Forget
  /\ UNCHANGED <<vars, socket>>

\* The answer is read; the third one that is not near is the last.
Read ==
  /\ pam.pc = "answered"
  /\ pam' = [pam EXCEPT
       !.pc = CASE pam.reply = "Near" -> "granted"
                [] pam.reply # "Near" /\ pam.tries + 1 < MaxRetries -> "sleep"
                [] OTHER -> "denied",
       !.tries = pam.tries + 1, !.macs = {}]
  /\ Forget
  /\ UNCHANGED <<vars, socket>>

\* READ_TIMEOUT, or a connection closed by a daemon that has stopped.  Like
\* every error it ends the login.
GiveUp ==
  /\ pam.pc \in Asking
  /\ pam' = [pam EXCEPT !.pc = "error"]
  /\ Forget
  /\ UNCHANGED <<vars, socket>>

\* RETRY_DELAY
Retry ==
  /\ pam.pc = "sleep"
  /\ pam' = [pam EXCEPT !.pc = "connect"]
  /\ UNCHANGED <<vars, socket, steady, owned, near>>

\* What a step of the daemon is to the login: the daemon removes the socket
\* when it stops.
Observe ==
  /\ socket' = (socket /\ stage' # "stopped")
  /\ IF pam.pc \in Asking THEN Remember ELSE UNCHANGED <<steady, owned, near>>
  /\ UNCHANGED pam

\* Any step of the daemon, whether it shows in the table or not.
Beside == (Next \/ UNCHANGED vars) /\ Observe

------------------------------------------------------------------------------
LoginStep ==
  \/ \E u \in Users : Authenticate(u)
  \/ Connect \/ LookUp \/ Reply \/ Read \/ GiveUp \/ Retry

LoginNext == Beside \/ Bind \/ LoginStep

LoginSpec == LoginInit /\ [][LoginNext]_<<vars, login>>

------------------------------------------------------------------------------
LoginTypeOK ==
  /\ TypeOK
  /\ socket \in BOOLEAN /\ pam \in Login
  /\ steady \subseteq Macs /\ owned \subseteq Macs /\ near \subseteq Macs
  /\ pam.pc = "granted" => pam.reply = "Near"
  /\ pam.pc = "denied" => pam.tries = MaxRetries /\ pam.reply # "Near"

\* A user with a device that stays configured and is shown near for the
\* whole query is told so, whatever is edited, restarted or published in
\* between.
SteadyIsNear == pam.pc = "answered" /\ steady # {} => pam.reply = "Near"

\* Whoever is told Near has, or had when the query came in, a device of
\* their own that was shown near meanwhile: no other user's device and no
\* earlier sighting counts.
NearIsOwn == pam.pc = "answered" /\ pam.reply = "Near" => owned \intersect near # {}
=============================================================================
