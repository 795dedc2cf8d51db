---------------------------- MODULE PamLoginProofs ----------------------------
(***************************************************************************)
(* What a login is told, for any number of devices and users, any          *)
(* configurations and any number of attempts.                              *)
(*                                                                         *)
(* LoginTypeOK needs only that a login that has not ended has an attempt   *)
(* left.  The two promises about the answer need what the devices found    *)
(* and the histories have to do with the table while the query is under    *)
(* way (Tracked).                                                          *)
(***************************************************************************)
EXTENDS PamLogin, TLAPS

USE TableAssumption, LoginAssumption

------------------------------------------------------------------------------
(* The table.                                                              *)

LEMMA DevicesFacts ==
  ASSUME NEW list \in Configs, NEW u
  PROVE  Devices(list, u) \subseteq Macs
BY DEF Devices

LEMMA InitTable == Init => TypeOK
BY DEF Init, TypeOK, Nothing, Stages

LEMMA ShowingFacts ==
  ASSUME TypeOK, NEW d \in Macs, NEW name \in PhaseName, status' = Showing(d, name)
  PROVE  status' \in [DOMAIN status' -> PhaseName] /\ DOMAIN status' \subseteq Macs
BY DEF TypeOK, Showing

LEMMA NextTable == TypeOK /\ [Next]_vars => TypeOK'
<1> SUFFICES ASSUME TypeOK, [Next]_vars PROVE TypeOK'
  OBVIOUS
<1>1. CASE Rest
  BY <1>1 DEF Rest, TypeOK, Stages
<1>2. CASE Begin
  BY <1>2, DevicesFacts DEF Begin, TypeOK, Stages
<1>3. CASE Clear
  BY <1>3 DEF Clear, TypeOK, Stages, Nothing
<1>4. CASE Abort
  BY <1>4 DEF Abort, TypeOK, Stages
<1>5. CASE Edit
  BY <1>5 DEF Edit, TypeOK
<1>6. CASE Stop
  BY <1>6 DEF Stop, TypeOK, Stages, Nothing
<1>7. ASSUME NEW d \in Macs, Publish(d) PROVE TypeOK'
  <2>1. status' \in [DOMAIN status' -> PhaseName] /\ DOMAIN status' \subseteq Macs
    BY <1>7, ShowingFacts DEF Publish
  <2> QED BY <1>7, <2>1 DEF Publish, TypeOK
<1>8. ASSUME NEW d \in Macs, PublishLate(d) PROVE TypeOK'
  <2>1. status' \in [DOMAIN status' -> PhaseName] /\ DOMAIN status' \subseteq Macs
    BY <1>8, ShowingFacts DEF PublishLate
  <2> QED BY <1>8, <2>1 DEF PublishLate, TypeOK
<1>9. CASE UNCHANGED vars
  BY <1>9 DEF vars, TypeOK
<1> QED BY <1>1, <1>2, <1>3, <1>4, <1>5, <1>6, <1>7, <1>8, <1>9 DEF Next

\* What the daemon does beside a login is a step of the table or none.
LEMMA LoginLeavesTable == [LoginNext]_<<vars, login>> => [Next]_vars
BY DEF LoginNext, LoginStep, Beside, Bind, Authenticate, Connect, LookUp, Reply, Read,
   GiveUp, Retry

------------------------------------------------------------------------------
(* Types, and the number of attempts.                                      *)

Underway == {"idle", "connect", "answered", "sleep"} \union Asking

Typed ==
  /\ LoginTypeOK
  /\ pam.pc \in Underway => pam.tries < MaxRetries

LEMMA InitTyped == LoginInit => Typed
<1> SUFFICES ASSUME LoginInit PROVE Typed
  OBVIOUS
<1>1. pam = [pc |-> "idle", uid |-> NoUser, tries |-> 0, macs |-> {}, reply |-> "Unknown"]
  BY DEF LoginInit, LoginStart
<1>2. pam \in Login
  BY <1>1 DEF Login, Verdict
<1>3. TypeOK /\ socket = FALSE /\ steady = {} /\ owned = {} /\ near = {}
  BY InitTable DEF LoginInit, LoginStart
<1>4. pam.pc = "idle" /\ pam.tries = 0
  BY <1>1
<1>5. LoginTypeOK
  BY <1>2, <1>3, <1>4 DEF LoginTypeOK
<1>6. 0 < MaxRetries
  OBVIOUS
<1> QED BY <1>4, <1>5, <1>6 DEF Typed

\* The histories hold devices only.
LEMMA HistoryTyped ==
  ASSUME LoginTypeOK, TypeOK', Remember \/ Forget
  PROVE  steady' \subseteq Macs /\ owned' \subseteq Macs /\ near' \subseteq Macs
<1>1. Devices(live', pam.uid) \subseteq Macs /\ ShownNear' \subseteq Macs
  BY DevicesFacts DEF TypeOK, ShownNear
<1> QED BY <1>1 DEF LoginTypeOK, Remember, Forget

LEMMA NextTyped == Typed /\ [LoginNext]_<<vars, login>> => Typed'
<1> SUFFICES ASSUME Typed, [LoginNext]_<<vars, login>> PROVE Typed'
  OBVIOUS
<1>0. /\ TypeOK' /\ pam \in Login
      /\ live \in Configs /\ DOMAIN status \subseteq Macs
  BY NextTable, LoginLeavesTable DEF Typed, LoginTypeOK, TypeOK
<1> USE DEF Typed, LoginTypeOK, Login, Underway, Asking, Ended, Verdict
<1>1. CASE Beside
  BY <1>0, <1>1, HistoryTyped DEF Beside, Observe
<1>2. CASE Bind
  BY <1>0, <1>2 DEF Bind
<1>3. CASE \E u \in Users : Authenticate(u)
  BY <1>0, <1>3 DEF Authenticate
<1>4. CASE Connect
  <2>1. Devices(live, pam.uid) \subseteq Macs /\ ShownNear \subseteq Macs
    BY <1>0, DevicesFacts DEF ShownNear
  <2> QED BY <1>0, <1>4, <2>1 DEF Connect, Forget
<1>5. CASE LookUp
  BY <1>0, <1>5, DevicesFacts DEF LookUp
<1>6. CASE Reply
  <2>1. Answer(pam.macs) \in Verdict
    BY DEF Answer
  <2> QED BY <1>0, <1>6, <2>1 DEF Reply
<1>7. CASE Read
  <2>1. pam.pc = "answered" /\ pam.tries \in Nat /\ pam.tries < MaxRetries
    BY <1>0, <1>7 DEF Read
  <2> DEFINE step == CASE pam.reply = "Near" -> "granted"
                       [] pam.reply # "Near" /\ pam.tries + 1 < MaxRetries -> "sleep"
                       [] OTHER -> "denied"
  <2>2. /\ step \in {"granted", "sleep", "denied"}
        /\ step = "granted" => pam.reply = "Near"
        /\ step = "sleep" => pam.tries + 1 < MaxRetries
        /\ step = "denied" => pam.reply # "Near" /\ pam.tries + 1 = MaxRetries
    BY <2>1
  <2>3. pam' = [pam EXCEPT !.pc = step, !.tries = pam.tries + 1, !.macs = {}]
    BY <1>7 DEF Read
  <2> HIDE DEF step
  <2>4. pam.tries + 1 \in 0..MaxRetries
    BY <2>1
  <2>5. /\ pam' \in Login
        /\ pam'.pc = step /\ pam'.tries = pam.tries + 1 /\ pam'.reply = pam.reply
    BY <1>0, <2>2, <2>3, <2>4
  <2> QED BY <1>0, <1>7, <2>1, <2>2, <2>5 DEF Read, Forget
<1>8. CASE GiveUp
  BY <1>0, <1>8 DEF GiveUp, Forget
<1>9. CASE Retry
  BY <1>0, <1>9 DEF Retry
<1>10. CASE UNCHANGED <<vars, login>>
  BY <1>0, <1>10 DEF login
<1> QED BY <1>1, <1>2, <1>3, <1>4, <1>5, <1>6, <1>7, <1>8, <1>9, <1>10
        DEF LoginNext, LoginStep

LEMMA AlwaysTyped == LoginSpec => []Typed
BY InitTyped, NextTyped, PTL DEF LoginSpec

\* Only a login told Near is granted, and one is denied after MAX_RETRIES
\* answers, never sooner and never later.
THEOREM LoginTypeCorrect == LoginSpec => []LoginTypeOK
<1>1. Typed => LoginTypeOK
  BY DEF Typed
<1> QED BY <1>1, AlwaysTyped, PTL

------------------------------------------------------------------------------
(* The answer.                                                             *)

\* While the query is under way the histories bracket the table, and the
\* devices found bracket nothing less than the steady ones.
Tracked ==
  /\ pam.pc \in Asking =>
       /\ steady \subseteq Devices(live, pam.uid) \intersect ShownNear
       /\ Devices(live, pam.uid) \subseteq owned
       /\ ShownNear \subseteq near
  /\ pam.pc = "looked" => steady \subseteq pam.macs /\ pam.macs \subseteq owned

Answered == Tracked /\ SteadyIsNear /\ NearIsOwn

LEMMA InitAnswered == LoginInit => Answered
BY DEF LoginInit, LoginStart, Answered, Tracked, SteadyIsNear, NearIsOwn, Asking

\* The step from the histories to the answer.
LEMMA ReplyAnswers ==
  ASSUME Typed, Tracked, Reply
  PROVE  SteadyIsNear' /\ NearIsOwn'
<1>1. /\ pam.pc = "looked"
      /\ pam'.pc = "answered" /\ pam'.reply = Answer(pam.macs)
      /\ UNCHANGED <<steady, owned, near>>
  BY DEF Reply, Typed, LoginTypeOK, Login
<1>2. /\ steady \subseteq pam.macs /\ steady \subseteq ShownNear
      /\ pam.macs \subseteq owned /\ ShownNear \subseteq near
  BY <1>1 DEF Tracked, Asking
<1>3. IsAny("Near", pam.macs) <=> pam.macs \intersect ShownNear # {}
  BY DEF IsAny, ShownNear
<1>4. Answer(pam.macs) = "Near" <=> IsAny("Near", pam.macs)
  BY <1>3 DEF Answer
<1> QED BY <1>1, <1>2, <1>3, <1>4 DEF SteadyIsNear, NearIsOwn

LEMMA NextAnswered == Typed /\ Answered /\ [LoginNext]_<<vars, login>> => Answered'
<1> SUFFICES ASSUME Typed, Answered, [LoginNext]_<<vars, login>> PROVE Answered'
  OBVIOUS
<1>0. pam \in Login
  BY DEF Typed, LoginTypeOK
<1> USE DEF Answered
<1>1. CASE Beside
  <2>1. CASE pam.pc \in Asking
    BY <1>1, <2>1 DEF Beside, Observe, Remember, Tracked, SteadyIsNear, NearIsOwn, Asking
  <2>2. CASE pam.pc \notin Asking
    BY <1>1, <2>2 DEF Beside, Observe, Tracked, SteadyIsNear, NearIsOwn, Asking
  <2> QED BY <2>1, <2>2
<1>2. CASE Reply
  <2>1. Tracked'
    BY <1>0, <1>2 DEF Reply, Tracked, Asking, Login
  <2> QED BY <1>2, <2>1, ReplyAnswers
<1>3. CASE Connect
  <2>1. pam'.pc \in {"asked", "unavailable"} /\ pam'.uid = pam.uid
    BY <1>0, <1>3 DEF Connect, Login
  <2>2. pam'.pc = "asked" => /\ steady' = Devices(live, pam.uid) \intersect ShownNear
                             /\ owned' = Devices(live, pam.uid) /\ near' = ShownNear
    BY <1>0, <1>3 DEF Connect, Login
  <2>3. live' = live /\ ShownNear' = ShownNear
    BY <1>3 DEF Connect, vars, ShownNear
  <2> QED BY <2>1, <2>2, <2>3 DEF Tracked, SteadyIsNear, NearIsOwn, Asking
<1>4. CASE LookUp
  <2>1. pam'.pc = "looked" /\ pam'.uid = pam.uid /\ pam'.macs = Devices(live, pam.uid)
    BY <1>0, <1>4 DEF LookUp, Login
  <2>2. live' = live /\ ShownNear' = ShownNear /\ UNCHANGED <<steady, owned, near>>
    BY <1>4 DEF LookUp, vars, ShownNear
  <2>3. pam.pc \in Asking
    BY <1>4 DEF LookUp, Asking
  <2> QED BY <2>1, <2>2, <2>3 DEF Tracked, SteadyIsNear, NearIsOwn
<1>5. CASE \/ \E u \in Users : Authenticate(u)
           \/ Read \/ GiveUp \/ Retry
  <2>1. pam'.pc \notin Asking \union {"answered"}
    BY <1>0, <1>5 DEF Authenticate, Read, GiveUp, Retry, Asking, Login
  <2> QED BY <2>1 DEF Tracked, SteadyIsNear, NearIsOwn, Asking
<1>6. CASE Bind \/ UNCHANGED <<vars, login>>
  <2>1. UNCHANGED <<pam, live, status, steady, owned, near>>
    BY <1>6 DEF Bind, vars, login
  <2> QED BY <2>1 DEF Tracked, SteadyIsNear, NearIsOwn, ShownNear
<1> QED BY <1>1, <1>2, <1>3, <1>4, <1>5, <1>6 DEF LoginNext, LoginStep

LEMMA AlwaysAnswered == LoginSpec => []Answered
BY InitAnswered, NextAnswered, AlwaysTyped, PTL DEF LoginSpec

\* No restart, edit or late status in the middle of a query can take the
\* answer Near from a user whose device is steadily near.
THEOREM SteadyIsTold == LoginSpec => []SteadyIsNear
<1>1. Answered => SteadyIsNear
  BY DEF Answered
<1> QED BY <1>1, AlwaysAnswered, PTL

\* And no other user's device, nor an earlier sighting, can give it.
THEOREM OnlyOwnDevices == LoginSpec => []NearIsOwn
<1>1. Answered => NearIsOwn
  BY DEF Answered
<1> QED BY <1>1, AlwaysAnswered, PTL
==============================================================================
