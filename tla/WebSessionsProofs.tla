-------------------------- MODULE WebSessionsProofs --------------------------
(***************************************************************************)
(* The properties of WebSessions for any number of tokens, browsers and    *)
(* requests and any length of a session.                                   *)
(*                                                                         *)
(* None of them is inductive: what a request may do depends on its token,  *)
(* and what the token is worth on the table.  TableIsRecord ties the table *)
(* to the history of logins and logouts; Sound ties a request to both.     *)
(***************************************************************************)
EXTENDS WebSessions, TLAPS

USE SessionsAssumption

\* What can be said of a request, wherever it is: its token comes from a
\* login, and every decision taken about it still stands.
Sound(x) ==
  /\ x.token = None \/ x.token \in DOMAIN born
  /\ x.after => Dead(x.token)
  /\ x.pc = "login" => ~x.after
  /\ x.pc = "welcome" => x.token # None
  /\ x.pc \in {"recheck", "handler"} =>
       x.token \in DOMAIN born /\ ~x.after
  /\ x.pc = "refused" =>
       (x.token = None \/ Dead(x.token)) /\ x.token \notin DOMAIN sessions

IInv ==
  /\ TypeOK
  /\ TableIsRecord
  /\ \A c \in Clients : jar[c] = None \/ jar[c] \in DOMAIN born
  /\ \A r \in Requests : Sound(req[r])

\* What no step takes back: logins, their ends, and time.  Only a login puts a
\* token into the table, and that token is new.
Onward ==
  /\ DOMAIN born \subseteq DOMAIN born'
  /\ \A k \in DOMAIN born : born'[k] = born[k]
  /\ over \subseteq over'
  /\ now <= now'
  /\ \A k \in DOMAIN born \union {None} : k \in DOMAIN sessions' => k \in DOMAIN sessions

------------------------------------------------------------------------------
(* Lemmas about one step.                                                  *)

\* A dead session stays dead.
LEMMA DeadStays ==
  ASSUME TypeOK, TypeOK', Onward, NEW k, Dead(k)
  PROVE  Dead(k)'
BY DEF TypeOK, Onward, Dead

\* So a request that is left alone stays sound.
LEMMA SoundStays ==
  ASSUME TypeOK, TypeOK', Onward, NEW x, Sound(x)
  PROVE  Sound(x)'
<1>1. Dead(x.token) => Dead(x.token)'
  BY DeadStays
<1> QED BY <1>1 DEF Sound, Onward

\* The same for all the requests that a step on r leaves alone.
LEMMA OthersStaySound ==
  ASSUME IInv, TypeOK', Onward, NEW r \in Requests, NEW x \in Request,
         req' = [req EXCEPT ![r] = x], Sound(x)'
  PROVE  \A q \in Requests : Sound(req[q])'
<1> SUFFICES ASSUME NEW q \in Requests PROVE Sound(req[q])'
  OBVIOUS
<1>1. CASE q = r
  <2>1. req'[q] = x
    BY <1>1 DEF IInv, TypeOK
  <2> QED BY <2>1 DEF Sound
<1>2. CASE q # r
  <2>1. req'[q] = req[q] /\ Sound(req[q])
    BY <1>2 DEF IInv, TypeOK
  <2>2. \A y : Sound(y) => Sound(y)'
    BY SoundStays DEF IInv
  <2> QED BY <2>1, <2>2 DEF Sound
<1> QED BY <1>1, <1>2

\* A step that changes r into x, and the cookies, if at all, to known tokens.
LEMMA RequestStep ==
  ASSUME IInv, TypeOK', TableIsRecord', Onward,
         \A c \in Clients : jar'[c] = None \/ jar'[c] \in DOMAIN born',
         NEW r \in Requests, NEW x \in Request,
         req' = [req EXCEPT ![r] = x], Sound(x)'
  PROVE  IInv'
<1>1. \A q \in Requests : Sound(req[q])'
  BY OthersStaySound
<1> QED BY <1>1 DEF IInv

\* Steps that leave the table, its history and the clock alone.
LEMMA Quiet ==
  ASSUME IInv, UNCHANGED <<now, sessions, born, over>>
  PROVE  /\ Onward /\ TableIsRecord'
         /\ \A c \in Clients : jar[c] = None \/ jar[c] \in DOMAIN born'
         /\ \A x : Sound(x)' <=> Sound(x)
BY DEF IInv, TypeOK, Onward, TableIsRecord, Sound, Dead

LEMMA IdleFacts == Idle \in Request /\ Sound(Idle) /\ Sound(Idle)'
BY DEF Idle, Request, Stages, Sound

\* A request of another kind, or a step further, is sound if what the step
\* asks for holds.
LEMMA RequestFacts ==
  ASSUME IInv, NEW r \in Requests
  PROVE  /\ req[r] \in Request /\ Sound(req[r])
         /\ req[r].client \in Clients \union {None}
         /\ req[r].token \in Tokens \union {None}
         /\ req[r].out \in BOOLEAN /\ req[r].after \in BOOLEAN /\ req[r].pc \in Stages
BY DEF IInv, TypeOK, Request

LEMMA GoesFacts ==
  ASSUME IInv, NEW r \in Requests, NEW step \in Stages, Goes(r, step)
  PROVE  \E x \in Request : /\ req' = [req EXCEPT ![r] = x]
                           /\ x.pc = step /\ x.token = req[r].token
                           /\ x.after = req[r].after
<1> DEFINE x == [req[r] EXCEPT !.pc = step]
<1>1. req[r] \in Request
  BY RequestFacts
<1>2. x \in Request /\ x.pc = step /\ x.token = req[r].token /\ x.after = req[r].after
  BY <1>1 DEF Request
<1>3. req' = [req EXCEPT ![r] = x]
  BY DEF Goes
<1> QED BY <1>2, <1>3

------------------------------------------------------------------------------
(* The steps of requests.                                                  *)

LEMMA EndStep ==
  ASSUME IInv, NEW r \in Requests, Ends(r), UNCHANGED <<now, hash, up, sessions, events, born, over>>,
         jar' \in [Clients -> Tokens \union {None}],
         \A c \in Clients : jar'[c] = None \/ jar'[c] \in DOMAIN born
  PROVE  IInv'
<1>1. TypeOK'
  BY IdleFacts DEF IInv, TypeOK, Ends
<1>2. Onward /\ TableIsRecord'
  BY Quiet
<1> QED BY <1>1, <1>2, IdleFacts, RequestStep DEF Ends

LEMMA SendStep ==
  ASSUME IInv, NEW r \in Requests, NEW c \in Clients, SendLogin(r, c) \/ Send(r, c)
  PROVE  IInv'
<1>0. PICK x \in Request : req' = [req EXCEPT ![r] = x] /\ Sound(x)
  <2>1. CASE SendLogin(r, c)
    <3> DEFINE x == [Idle EXCEPT !.pc = "login", !.client = c]
    <3>1. x \in Request /\ Sound(x)
      BY DEF Idle, Request, Stages, Sound
    <3> QED BY <2>1, <3>1 DEF SendLogin
  <2>2. CASE Send(r, c)
    <3>1. PICK out \in BOOLEAN :
            req' = [req EXCEPT ![r] = [pc |-> "check", client |-> c, token |-> jar[c],
                                       out |-> out, after |-> Dead(jar[c])]]
      BY <2>2 DEF Send
    <3> DEFINE x == [pc |-> "check", client |-> c, token |-> jar[c],
                     out |-> out, after |-> Dead(jar[c])]
    <3>2. Dead(jar[c]) \in BOOLEAN
      BY DEF Dead
    <3>3. x \in Request
      BY <3>2 DEF IInv, TypeOK, Request, Stages
    <3>4. Sound(x)
      BY DEF Sound, IInv
    <3> QED BY <3>1, <3>3, <3>4
  <2> QED BY <2>1, <2>2
<1>1. UNCHANGED <<now, hash, up, sessions, jar, events, born, over>>
  BY DEF SendLogin, Send
<1>2. TypeOK'
  BY <1>0, <1>1 DEF IInv, TypeOK
<1>3. Sound(x)'
  BY <1>0, <1>1, Quiet
<1> QED BY <1>0, <1>1, <1>2, <1>3, Quiet, RequestStep

LEMMA WelcomeStep ==
  ASSUME IInv, NEW r \in Requests, Welcome(r)
  PROVE  IInv'
<1>1. /\ jar' \in [Clients -> Tokens \union {None}]
      /\ \A c \in Clients : jar'[c] = None \/ jar'[c] \in DOMAIN born
  BY RequestFacts DEF Welcome, At, IInv, TypeOK, Sound
<1> QED BY <1>1, EndStep DEF Welcome

LEMMA AnsweredStep ==
  ASSUME IInv, NEW r \in Requests, Answered(r)
  PROVE  IInv'
<1>1. /\ jar' \in [Clients -> Tokens \union {None}]
      /\ \A c \in Clients : jar'[c] = None \/ jar'[c] \in DOMAIN born
  BY RequestFacts DEF Answered, IInv, TypeOK
<1> QED BY <1>1, EndStep DEF Answered

LEMMA EndingStep ==
  ASSUME IInv, NEW r \in Requests, LoginRefused(r) \/ Handle(r)
  PROVE  IInv'
<1>1. Ends(r) /\ UNCHANGED <<now, hash, up, sessions, jar, events, born, over>>
  BY DEF LoginRefused, Handle
<1> QED BY <1>1, EndStep DEF IInv, TypeOK

\* A login enters a token nobody has had.
LEMMA LoginStep ==
  ASSUME IInv, NEW r \in Requests, Login(r)
  PROVE  IInv'
<1>1. PICK k \in Tokens :
        /\ k \notin DOMAIN born
        /\ sessions' = [t \in DOMAIN sessions \union {k} |->
                          IF t = k THEN now + Day ELSE sessions[t]]
        /\ born' = [t \in DOMAIN born \union {k} |->
                      IF t = k THEN now ELSE born[t]]
        /\ req' = [req EXCEPT ![r].pc = "welcome", ![r].token = k]
  BY DEF Login, Create
<1>2. UNCHANGED <<now, hash, up, jar, events, over>> /\ req[r].pc = "login"
  BY DEF Login, At
<1>3. PICK x \in Request : /\ req' = [req EXCEPT ![r] = x]
                           /\ x.pc = "welcome" /\ x.token = k /\ x.after = req[r].after
  <2> DEFINE y == [req[r] EXCEPT !.pc = "welcome", !.token = k]
  <2>1. req[r] \in Request
    BY RequestFacts
  <2>2. y \in Request /\ y.pc = "welcome" /\ y.token = k /\ y.after = req[r].after
    BY <2>1 DEF Request, Stages
  <2>3. req' = [req EXCEPT ![r] = y]
    BY <1>1
  <2> QED BY <2>2, <2>3
<1>4. TypeOK'
  <2>1. \A t \in DOMAIN born' : born'[t] \in 0..MaxTime
    BY <1>1, <1>2 DEF IInv, TypeOK
  <2>2. \A t \in DOMAIN sessions' : sessions'[t] \in Nat
    BY <1>1 DEF IInv, TypeOK
  <2>3. DOMAIN born' = DOMAIN born \union {k} /\ DOMAIN sessions' = DOMAIN sessions \union {k}
    BY <1>1
  <2>4. req' \in [Requests -> Request]
    BY <1>3 DEF IInv, TypeOK
  <2> QED BY <1>2, <2>1, <2>2, <2>3, <2>4 DEF IInv, TypeOK
<1>5. Onward
  BY <1>1, <1>2 DEF IInv, TypeOK, Onward
<1>6. TableIsRecord'
  BY <1>1, <1>2 DEF IInv, TypeOK, TableIsRecord, Dead
<1>7. Sound(x)'
  <2>1. x.token = k /\ x.pc = "welcome" /\ x.after = req[r].after /\ k # None
    BY <1>3
  <2>2. ~req[r].after
    BY <1>2, RequestFacts DEF Sound
  <2> QED BY <1>1, <2>1, <2>2 DEF Sound
<1>8. \A c \in Clients : jar'[c] = None \/ jar'[c] \in DOMAIN born'
  BY <1>1, <1>2 DEF IInv
<1> QED BY <1>3, <1>4, <1>5, <1>6, <1>7, <1>8, RequestStep

\* The check: what is let through is on the table, and not dead; what is
\* turned away is not on the table any more.
LEMMA ValidateStep ==
  ASSUME IInv, NEW r \in Requests, Check(r) \/ Recheck(r)
  PROVE  IInv'
<1>1. PICK step \in {"recheck", "handler"} : Validate(r, step)
  <2>1. CASE Check(r)
    BY <2>1 DEF Check
  <2>2. CASE Recheck(r)
    BY <2>2 DEF Recheck
  <2> QED BY <2>1, <2>2
<1>2. UNCHANGED <<now, hash, up, jar, events, born, over>>
  BY DEF Check, Recheck
<1>0. PICK k \in Tokens \union {None} : k = req[r].token
  BY RequestFacts
<1>3. k \in DOMAIN born \union {None} /\ (req[r].after => Dead(k))
  BY <1>0, RequestFacts DEF Sound
<1>4. k \in DOMAIN sessions =>
        /\ k \in DOMAIN born /\ k \notin over
        /\ sessions[k] = born[k] + Day /\ born[k] \in Nat /\ now \in Nat
  BY DEF IInv, TypeOK, TableIsRecord
<1>5. CASE Alive(k)
  <2>1. PICK x \in Request : /\ req' = [req EXCEPT ![r] = x] /\ x.pc = step /\ x.token = k
                             /\ x.after = req[r].after
    <3>1. step \in Stages /\ Goes(r, step)
      BY <1>0, <1>1, <1>5 DEF Validate, Stages
    <3> QED BY <1>0, <3>1, GoesFacts
  <2>0. sessions' = sessions
    BY <1>0, <1>1, <1>5 DEF Validate
  <2>2. ~Dead(k) /\ k \in DOMAIN born
    BY <1>4, <1>5 DEF Alive, Dead
  <2>3. Sound(x)
    BY <1>3, <2>1, <2>2 DEF Sound
  <2>4. TypeOK'
    BY <1>2, <2>0, <2>1 DEF IInv, TypeOK
  <2>5. Onward /\ TableIsRecord' /\ Sound(x)'
        /\ \A c \in Clients : jar'[c] = None \/ jar'[c] \in DOMAIN born'
    BY <1>2, <2>0, <2>3, Quiet DEF IInv
  <2> QED BY <2>1, <2>4, <2>5, RequestStep
<1>6. CASE ~Alive(k)
  <2>1. PICK x \in Request : /\ req' = [req EXCEPT ![r] = x] /\ x.pc = "refused" /\ x.token = k
                             /\ x.after = req[r].after
    <3>1. "refused" \in Stages /\ Goes(r, "refused")
      BY <1>0, <1>1, <1>6 DEF Validate, Stages
    <3> QED BY <1>0, <3>1, GoesFacts
  <2>0. sessions' = [t \in DOMAIN sessions \ {k} |-> sessions[t]]
    BY <1>0, <1>1, <1>6 DEF Validate, Without
  <2>2. k = None \/ Dead(k)
    BY <1>3, <1>4, <1>6 DEF Alive, Dead, IInv, TableIsRecord, TypeOK
  <2>3. Dead(k)' <=> Dead(k)
    BY <1>2 DEF Dead
  <2>4. TypeOK'
    BY <1>2, <2>0, <2>1 DEF IInv, TypeOK
  <2>5. Onward
    BY <1>2, <2>0 DEF Onward, IInv, TypeOK
  <2>6. TableIsRecord'
    BY <1>2, <2>0, <2>2 DEF IInv, TypeOK, TableIsRecord, Dead
  <2>7. Sound(x)'
    BY <1>2, <1>3, <2>0, <2>1, <2>2, <2>3 DEF Sound
  <2>8. \A c \in Clients : jar'[c] = None \/ jar'[c] \in DOMAIN born'
    BY <1>2 DEF IInv
  <2> QED BY <2>1, <2>4, <2>5, <2>6, <2>7, <2>8, RequestStep
<1> QED BY <1>5, <1>6

LEMMA LogoutStep ==
  ASSUME IInv, NEW r \in Requests, Logout(r)
  PROVE  IInv'
<1>0. PICK k \in Tokens \union {None} : k = req[r].token
  BY RequestFacts
<1>1. /\ k \in DOMAIN born
      /\ sessions' = [t \in DOMAIN sessions \ {k} |-> sessions[t]]
      /\ over' = over \union {k}
      /\ UNCHANGED <<now, hash, up, jar, events, born>>
  BY <1>0, RequestFacts DEF Logout, At, Sound, Without
<1>2. PICK x \in Request : /\ req' = [req EXCEPT ![r] = x] /\ x.pc = "bye" /\ x.token = k
                           /\ x.after = req[r].after /\ (x.after => Dead(k))
  <2>1. "bye" \in Stages /\ Goes(r, "bye") /\ (req[r].after => Dead(k))
    BY <1>0, RequestFacts DEF Logout, Stages, Sound
  <2> QED BY <1>0, <2>1, GoesFacts
<1>3. TypeOK'
  BY <1>1, <1>2 DEF IInv, TypeOK
<1>4. Onward
  BY <1>1 DEF Onward, IInv, TypeOK
<1>5. TableIsRecord'
  BY <1>1 DEF IInv, TypeOK, TableIsRecord, Dead
<1>6. Sound(x)'
  BY <1>1, <1>2 DEF Sound, Dead
<1>7. \A c \in Clients : jar'[c] = None \/ jar'[c] \in DOMAIN born'
  BY <1>1 DEF IInv
<1> QED BY <1>2, <1>3, <1>4, <1>5, <1>6, <1>7, RequestStep

------------------------------------------------------------------------------
(* The steps beside them.                                                  *)

LEMMA BesideStep ==
  ASSUME IInv,
         Tick \/ Reload \/ (\E c \in Clients : Forget(c)) \/ UNCHANGED vars
  PROVE  IInv'
<1>1. /\ UNCHANGED <<up, sessions, req, born, over>>
      /\ now' \in 0..MaxTime /\ now <= now' /\ hash' \in Passwords \union {None}
      /\ events' \in 0..MaxEvents
      /\ jar' \in [Clients -> Tokens \union {None}]
      /\ \A c \in Clients : jar'[c] = jar[c] \/ jar'[c] = None
  BY DEF IInv, TypeOK, Tick, Reload, Forget, vars
<1>2. TypeOK'
  BY <1>1 DEF IInv, TypeOK
<1>3. Onward
  BY <1>1 DEF Onward, IInv, TypeOK
<1>4. TableIsRecord'
  BY <1>1 DEF IInv, TypeOK, TableIsRecord, Dead
<1>5. \A q \in Requests : Sound(req[q])'
  <2>1. \A y : Sound(y) => Sound(y)'
    BY <1>2, <1>3, SoundStays DEF IInv
  <2> QED BY <1>1, <2>1 DEF IInv, Sound
<1> QED BY <1>1, <1>2, <1>3, <1>4, <1>5 DEF IInv

LEMMA RestartStep ==
  ASSUME IInv, Restart
  PROVE  IInv'
<1>1. TypeOK'
  BY IdleFacts DEF Restart, Spawned, IInv, TypeOK
<1>2. TableIsRecord'
  BY DEF Restart, IInv, TypeOK, TableIsRecord, Dead
<1>3. \A q \in Requests : Sound(req[q])'
  BY DEF Restart, Idle, Sound
<1> QED BY <1>1, <1>2, <1>3 DEF Restart, IInv

LEMMA InitIInv == Init => IInv
<1> SUFFICES ASSUME Init PROVE IInv
  OBVIOUS
<1>1. TypeOK
  <2>1. up \in BOOLEAN
    BY Zenon DEF Init
  <2>2. over \subseteq DOMAIN born /\ DOMAIN born \subseteq Tokens /\ DOMAIN sessions \subseteq Tokens
    BY DEF Init
  <2>3. /\ \A k \in DOMAIN sessions : sessions[k] \in Nat
        /\ \A k \in DOMAIN born : born[k] \in 0..MaxTime
    BY DEF Init
  <2>4. /\ now \in 0..MaxTime /\ events \in 0..MaxEvents /\ hash \in Passwords \union {None}
        /\ jar \in [Clients -> Tokens \union {None}] /\ req \in [Requests -> Request]
    BY IdleFacts DEF Init
  <2> QED BY <2>1, <2>2, <2>3, <2>4 DEF TypeOK
<1>2. TableIsRecord
  BY DEF Init, TableIsRecord
<1>3. \A q \in Requests : Sound(req[q])
  BY DEF Init, Idle, Sound
<1> QED BY <1>1, <1>2, <1>3 DEF Init, IInv

LEMMA NextIInv == IInv /\ [Next]_vars => IInv'
<1> SUFFICES ASSUME IInv, [Next]_vars PROVE IInv'
  OBVIOUS
<1> QED BY SendStep, LoginStep, EndingStep, WelcomeStep, ValidateStep, LogoutStep,
        AnsweredStep, BesideStep, RestartStep DEF Next

LEMMA Invariance == Spec => []IInv
BY InitIInv, NextIInv, PTL DEF Spec

------------------------------------------------------------------------------
\* Types of the table of sessions, of the cookies and of the requests.
THEOREM TypeCorrect == Spec => []TypeOK
BY Invariance, PTL DEF IInv

\* The table of sessions is the record of logins less what is over.
THEOREM TableRecords == Spec => []TableIsRecord
BY Invariance, PTL DEF IInv

\* Who gets through to a handler was signed in when they asked.
THEOREM OnlySignedIn == Spec => []HandledIsSignedIn
<1>1. IInv => HandledIsSignedIn
  BY DEF IInv, Sound, HandledIsSignedIn, At
<1> QED BY <1>1, Invariance, PTL

\* Who is turned away had no session, or one that is over.
THEOREM RefusalsAreJust == Spec => []RefusedForCause
<1>1. IInv => RefusedForCause
  BY DEF IInv, Sound, RefusedForCause, At
<1> QED BY <1>1, Invariance, PTL

\* And the session that was presented in vain is off the table.
THEOREM RefusalsForget == Spec => []RefusedIsGone
<1>1. IInv => RefusedIsGone
  BY DEF IInv, Sound, RefusedIsGone, At
<1> QED BY <1>1, Invariance, PTL
==============================================================================
