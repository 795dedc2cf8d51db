---------------------------- MODULE WebSessions ----------------------------
(***************************************************************************)
(* Signing in to the web UI: the table of session tokens (state.rs), the   *)
(* login and logout handlers and the check in front of every protected     *)
(* route (daemon/src/web/auth.rs, mod.rs), and the decision at startup     *)
(* whether there is a web UI at all (spawn_web_server in main.rs).         *)
(*                                                                         *)
(* Requests run in parallel.  Each lock of the table is one step, so a     *)
(* request may have passed its check when another one signs the same token *)
(* out.  Tokens are 32 random bytes: two logins never draw the same one.   *)
(*                                                                         *)
(* An operator whose comment begins with "Slip:" is not the code (see      *)
(* ProxState).                                                             *)
(***************************************************************************)
EXTENDS Integers, FiniteSets

CONSTANTS
  Tokens,
  Clients,     \* browsers, each with a cookie jar
  Requests,    \* requests that may be under way at once
  Passwords,
  None,        \* no token, no client, no password
  Day,         \* AUTH_SESSION_DURATION, in ticks of the clock
  MaxTime,     \* bound of the clock
  MaxEvents    \* bound of reloads and restarts

ASSUME SessionsAssumption ==
  /\ None \notin Tokens \union Clients \union Passwords
  /\ Day \in Nat \ {0} /\ MaxTime \in Nat /\ MaxEvents \in Nat

VARIABLES
  now,       \* Instant::now()
  hash,      \* web.password_hash of the live configuration, by its password
  up,        \* the web server was started
  sessions,  \* AppState.web_sessions: token -> expiry
  jar,       \* the session cookie of each client
  req,       \* each request
  events,    \* reloads and restarts left
  born,      \* history: when each token was made
  over       \* history: tokens signed out, or lost in a restart

vars == <<now, hash, up, sessions, jar, req, events, born, over>>

------------------------------------------------------------------------------
Stages == {"idle", "login", "welcome", "check", "recheck", "handler", "refused", "bye"}

\* out: it asks for a logout; after: it was sent when its token was dead.
Request == [pc: Stages, client: Clients \union {None}, token: Tokens \union {None},
            out: BOOLEAN, after: BOOLEAN]

Idle == [pc |-> "idle", client |-> None, token |-> None, out |-> FALSE, after |-> FALSE]

Alive(k) == k \in DOMAIN sessions /\ sessions[k] > now

\* What a client or an operator can know of the end of a session.
Dead(k) == k \in over \/ (k \in DOMAIN born /\ born[k] + Day <= now)

Without(k) == [t \in DOMAIN sessions \ {k} |-> sessions[t]]

At(r, step) == req[r].pc = step
Goes(r, step) == req' = [req EXCEPT ![r].pc = step]
Ends(r) == req' = [req EXCEPT ![r] = Idle]

\* spawn_web_server: enabled in the configuration, a password set, and the
\* file owned by root.
Spawned(h) == \E enabled, rooted \in BOOLEAN : up' = (enabled /\ h # None /\ rooted)

Init ==
  /\ now = 0
  /\ hash \in Passwords \union {None}
  /\ up \in {hash # None, FALSE}
  /\ sessions = [k \in {} |-> 0]
  /\ jar = [c \in Clients |-> None]
  /\ req = [r \in Requests |-> Idle]
  /\ events = MaxEvents
  /\ born = [k \in {} |-> 0]
  /\ over = {}

------------------------------------------------------------------------------
(* A client signs in.                                                      *)

SendLogin(r, c) ==
  /\ up /\ At(r, "idle")
  /\ req' = [req EXCEPT ![r] = [Idle EXCEPT !.pc = "login", !.client = c]]
  /\ UNCHANGED <<now, hash, up, sessions, jar, events, born, over>>

\* Slip: the day is taken off.
CreateBackwards(k) ==
  /\ k \notin DOMAIN born
  /\ sessions' = [t \in DOMAIN sessions \union {k} |->
                    IF t = k THEN now - Day ELSE sessions[t]]

\* Slip: a login leaves no session but its own.
CreateAlone(k) ==
  /\ k \notin DOMAIN born
  /\ sessions' = [t \in {k} |-> now + Day]

\* create_session
Create(k) ==
  /\ k \notin DOMAIN born
  /\ sessions' = [t \in DOMAIN sessions \union {k} |->
                    IF t = k THEN now + Day ELSE sessions[t]]

\* login_handler, with the password that opens the configured hash.  It holds
\* the read lock from the look at the hash to the end, so the hash does not
\* change while the password is checked.
Login(r) ==
  /\ At(r, "login")
  /\ hash # None
  /\ \E k \in Tokens :
       /\ Create(k)
       /\ born' = [t \in DOMAIN born \union {k} |-> IF t = k THEN now ELSE born[t]]
       /\ req' = [req EXCEPT ![r].pc = "welcome", ![r].token = k]
  /\ UNCHANGED <<now, hash, up, jar, events, over>>

\* No hash in the configuration (500), or another password (401).
LoginRefused(r) ==
  /\ At(r, "login")
  /\ \E word \in Passwords : hash # word
  /\ Ends(r)
  /\ UNCHANGED <<now, hash, up, sessions, jar, events, born, over>>

\* The answer arrives, with its cookie, or does not.
Welcome(r) ==
  /\ At(r, "welcome")
  /\ jar' \in {jar, [jar EXCEPT ![req[r].client] = req[r].token]}
  /\ Ends(r)
  /\ UNCHANGED <<now, hash, up, sessions, events, born, over>>

------------------------------------------------------------------------------
(* A client uses a protected route, or signs out.                          *)

Send(r, c) ==
  /\ up /\ At(r, "idle")
  /\ \E out \in BOOLEAN :
       req' = [req EXCEPT ![r] = [pc |-> "check", client |-> c, token |-> jar[c],
                                  out |-> out, after |-> Dead(jar[c])]]
  /\ UNCHANGED <<now, hash, up, sessions, jar, events, born, over>>

\* Slip: an expired session is refused and stays.
ValidateLeaving(r, next) ==
  /\ Goes(r, IF Alive(req[r].token) THEN next ELSE "refused")
  /\ UNCHANGED sessions

\* validate_session, the middle of the AuthUser extractor: an expired session
\* is removed when it is presented.
Validate(r, next) ==
  /\ Goes(r, IF Alive(req[r].token) THEN next ELSE "refused")
  /\ sessions' = IF Alive(req[r].token) THEN sessions ELSE Without(req[r].token)

\* The layer in front of all protected routes.
Check(r) ==
  /\ At(r, "check")
  /\ Validate(r, IF req[r].out THEN "recheck" ELSE "handler")
  /\ UNCHANGED <<now, hash, up, jar, events, born, over>>

\* logout_handler asks for AuthUser once more.
Recheck(r) ==
  /\ At(r, "recheck")
  /\ Validate(r, "handler")
  /\ UNCHANGED <<now, hash, up, jar, events, born, over>>

\* Any other handler: what it does is in ConfigStore and DeviceConfig.
Handle(r) ==
  /\ At(r, "handler") /\ ~req[r].out
  /\ Ends(r)
  /\ UNCHANGED <<now, hash, up, sessions, jar, events, born, over>>

\* Slip: only the cookie is removed.
LogoutCookieOnly(r) ==
  /\ At(r, "handler") /\ req[r].out
  /\ UNCHANGED sessions
  /\ over' = over \union {req[r].token}
  /\ Goes(r, "bye")
  /\ UNCHANGED <<now, hash, up, jar, events, born>>

\* remove_session
Logout(r) ==
  /\ At(r, "handler") /\ req[r].out
  /\ sessions' = Without(req[r].token)
  /\ over' = over \union {req[r].token}
  /\ Goes(r, "bye")
  /\ UNCHANGED <<now, hash, up, jar, events, born>>

\* The cookie of age zero arrives, or does not; so does a refusal.
Answered(r) ==
  /\ \/ At(r, "bye") /\ jar' \in {jar, [jar EXCEPT ![req[r].client] = None]}
     \/ At(r, "refused") /\ UNCHANGED jar
  /\ Ends(r)
  /\ UNCHANGED <<now, hash, up, sessions, events, born, over>>

------------------------------------------------------------------------------
(* Beside the requests.                                                    *)

Tick ==
  /\ now < MaxTime /\ now' = now + 1
  /\ UNCHANGED <<hash, up, sessions, jar, req, events, born, over>>

\* The cookie's max_age has passed, or the user removes it.
Forget(c) ==
  /\ jar[c] # None
  /\ jar' = [jar EXCEPT ![c] = None]
  /\ UNCHANGED <<now, hash, up, sessions, req, events, born, over>>

\* SIGHUP with another password in the file, or none: the sessions stay, and
\* so does the answer to whether there is a web server.
Reload ==
  /\ events > 0 /\ events' = events - 1
  /\ hash' \in Passwords \union {None}
  /\ UNCHANGED <<now, up, sessions, jar, req, born, over>>

\* The daemon is started again: the table is empty, the requests under way are
\* cut off, the cookies stay where they are.
Restart ==
  /\ events > 0 /\ events' = events - 1
  /\ hash' \in Passwords \union {None}
  /\ Spawned(hash')
  /\ sessions' = [k \in {} |-> 0]
  /\ over' = over \union DOMAIN born
  /\ req' = [r \in Requests |-> Idle]
  /\ UNCHANGED <<now, jar, born>>

------------------------------------------------------------------------------
Next ==
  \/ \E r \in Requests :
       \/ \E c \in Clients : SendLogin(r, c) \/ Send(r, c)
       \/ Login(r) \/ LoginRefused(r) \/ Welcome(r)
       \/ Check(r) \/ Recheck(r) \/ Handle(r) \/ Logout(r) \/ Answered(r)
  \/ \E c \in Clients : Forget(c)
  \/ Tick \/ Reload \/ Restart

Spec == Init /\ [][Next]_vars

------------------------------------------------------------------------------
TypeOK ==
  /\ now \in 0..MaxTime
  /\ hash \in Passwords \union {None}
  /\ up \in BOOLEAN
  /\ DOMAIN sessions \subseteq Tokens
  /\ \A k \in DOMAIN sessions : sessions[k] \in Nat
  /\ jar \in [Clients -> Tokens \union {None}]
  /\ req \in [Requests -> Request]
  /\ events \in 0..MaxEvents
  /\ DOMAIN born \subseteq Tokens
  /\ \A k \in DOMAIN born : born[k] \in 0..MaxTime
  /\ over \subseteq DOMAIN born

\* A protected handler runs only for a request that came with a token of a
\* login and that was sent while the session lasted: not after its logout was
\* handled, not a day after it began, and not into another life of the daemon.
HandledIsSignedIn ==
  \A r \in Requests : At(r, "recheck") \/ At(r, "handler") =>
    req[r].token \in DOMAIN born /\ ~req[r].after

\* Nobody is signed out for nothing, whatever others do at the same time:
\* a refused request had no token, or a dead one.
RefusedForCause ==
  \A r \in Requests : At(r, "refused") => req[r].token = None \/ Dead(req[r].token)

\* What is refused is also forgotten: its token is not in the table any more.
\* So an expired session that is still there has not been presented since.
RefusedIsGone ==
  \A r \in Requests : At(r, "refused") => req[r].token \notin DOMAIN sessions

\* The table holds exactly the sessions that are not over: each for a day from
\* its login, those never presented again for good.
TableIsRecord ==
  /\ \A k \in DOMAIN sessions :
       k \in DOMAIN born /\ k \notin over /\ sessions[k] = born[k] + Day
  /\ \A k \in DOMAIN born : k \notin DOMAIN sessions => Dead(k)
==============================================================================
