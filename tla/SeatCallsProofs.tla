--------------------------- MODULE SeatCallsProofs ---------------------------
(***************************************************************************)
(* The safety properties of SeatCalls and WakeUp for any sessions and      *)
(* owners, any length of the intervals and any number of changes of the    *)
(* seat.                                                                   *)
(*                                                                         *)
(* A lookup needs the sessions it has still to ask: as long as the seat    *)
(* has not changed, the active one is among them.  The wake-up needs its   *)
(* schedule: the next Enter is due one interval after the last, counted    *)
(* from when the devices were there, and is overdue only if some task was  *)
(* late.                                                                   *)
(***************************************************************************)
EXTENDS SeatCalls, TLAPS

USE SeatAssumption, WakeAssumption

------------------------------------------------------------------------------
(* Waking the screen.                                                      *)

WakeIInv ==
  /\ WakeTypeOK
  /\ wake = "off" => time = 0 /\ ~fired /\ ~late
  /\ wake \in {"off", "making", "failed"} => begun = 0 /\ enters = 0
  /\ wake = "on" =>
       /\ nextEnter = begun + (enters + 1) * EnterInterval
       /\ ~late => /\ nextEnter >= time
                   /\ time <= Duration \/ time = begun
                   /\ enters > 0 => begun + enters * EnterInterval <= Duration
  /\ fired => time >= Duration
  /\ EntersOnTime

\* Before the first Enter there is no schedule to keep.
LEMMA NoneYet ==
  /\ 0 * EnterInterval = 0
  /\ (0 + 1) * EnterInterval = EnterInterval
OBVIOUS

LEMMA WakeInit == Resting => WakeIInv
<1> SUFFICES ASSUME Resting PROVE WakeIInv
  OBVIOUS
<1>1. EntersOnTime
  BY NoneYet DEF Resting, EntersOnTime
<1>2. fired \in BOOLEAN /\ late \in BOOLEAN /\ ~fired /\ ~late
  BY DEF Resting
<1>3. WakeTypeOK
  BY <1>2 DEF Resting, WakeTypeOK
<1> QED BY <1>1, <1>2, <1>3 DEF Resting, WakeIInv

LEMMA WakeStartStep ==
  ASSUME WakeIInv, WakeStart
  PROVE  WakeIInv'
<1>1. /\ UNCHANGED <<time, begun, fired, nextMouse, nextEnter, enters, late>>
      /\ wake' = "making" /\ begun = 0 /\ enters = 0
  BY DEF WakeStart, WakeIInv
<1>2. EntersOnTime'
  BY <1>1 DEF WakeIInv, EntersOnTime
<1> QED BY <1>1, <1>2 DEF WakeIInv, WakeTypeOK

LEMMA WakeResetStep ==
  ASSUME WakeReset
  PROVE  WakeIInv'
<1>1. EntersOnTime'
  BY NoneYet DEF WakeReset, EntersOnTime
<1>2. fired' \in BOOLEAN /\ late' \in BOOLEAN /\ ~fired' /\ ~late'
  BY DEF WakeReset
<1>3. WakeTypeOK'
  BY <1>2 DEF WakeReset, WakeTypeOK
<1> QED BY <1>1, <1>2, <1>3 DEF WakeReset, WakeIInv

\* The intervals begin when the devices are there: the first Enter is due an
\* interval later.
LEMMA DevicesStep ==
  ASSUME WakeIInv, DevicesFail \/ DevicesMade
  PROVE  WakeIInv'
<1>1. CASE DevicesFail
  BY <1>1 DEF DevicesFail, WakeIInv, WakeTypeOK, EntersOnTime
<1>2. CASE DevicesMade
  <2>1. /\ wake' = "on" /\ begun' = time /\ nextMouse' = time
        /\ nextEnter' = time + EnterInterval
        /\ UNCHANGED <<time, fired, enters, late>>
        /\ enters = 0 /\ time \in Nat
    BY <1>2 DEF DevicesMade, WakeIInv, WakeTypeOK
  <2>2. /\ begun' + enters' * EnterInterval = time'
        /\ nextEnter' = begun' + (enters' + 1) * EnterInterval
    BY <2>1, NoneYet
  <2>3. EntersOnTime'
    BY <2>1, <2>2 DEF EntersOnTime
  <2>4. WakeTypeOK'
    BY <2>1 DEF WakeIInv, WakeTypeOK
  <2> QED BY <2>1, <2>2, <2>3, <2>4 DEF WakeIInv
<1> QED BY <1>1, <1>2

LEMMA PressStep ==
  ASSUME WakeIInv, PressEnter
  PROVE  WakeIInv'
<1>1. PICK e \in Nat, b \in Nat, t \in Nat : e = enters /\ b = begun /\ t = time
  BY DEF WakeIInv, WakeTypeOK
<1>2. PICK g \in Nat : g = (e + 1) * EnterInterval /\ g >= 1
  OBVIOUS
<1>3. (e + 1 + 1) * EnterInterval = g + EnterInterval
  BY <1>2
<1>4. enters' = e + 1 /\ nextEnter' = b + g + EnterInterval /\ b + g <= t
  BY <1>1, <1>2 DEF PressEnter, EnterDue, WakeIInv
<1>5. wake' = "on" /\ UNCHANGED <<time, begun, late, fired, nextMouse>>
  BY DEF PressEnter
<1>6. enters' * EnterInterval = g /\ nextEnter' = begun' + (enters' + 1) * EnterInterval
  BY <1>1, <1>2, <1>3, <1>4, <1>5
<1>7. EntersOnTime'
  BY <1>1, <1>4, <1>5, <1>6 DEF EntersOnTime
<1>8. WakeTypeOK'
  BY <1>1, <1>4, <1>5 DEF WakeIInv, WakeTypeOK
<1>9. ~late => b + g >= t /\ (t <= Duration \/ t = b)
  BY <1>1, <1>2 DEF WakeIInv, PressEnter
<1>10. ~late => b + g <= Duration
  BY <1>2, <1>4, <1>9
<1>11. ~late' => /\ nextEnter' >= time'
                 /\ time' <= Duration \/ time' = begun'
                 /\ begun' + enters' * EnterInterval <= Duration
  BY <1>1, <1>4, <1>5, <1>6, <1>9, <1>10
<1>12. fired' => time' >= Duration
  BY <1>5 DEF WakeIInv
<1> QED BY <1>5, <1>6, <1>7, <1>8, <1>11, <1>12 DEF WakeIInv

LEMMA TimeStep ==
  ASSUME WakeIInv, TimePasses
  PROVE  WakeIInv'
<1>1. PICK d \in BOOLEAN :
        d <=> \/ late
              \/ ~fired /\ time >= Duration
              \/ wake = "on" /\ (MouseDue \/ EnterDue \/ fired)
  OBVIOUS
<1>2. /\ wake \in {"making", "on"} /\ time < Duration + Lateness /\ time' = time + 1
      /\ UNCHANGED <<wake, begun, fired, nextMouse, nextEnter, enters>>
  BY DEF TimePasses
<1>3. late' \in BOOLEAN /\ (late' <=> d)
  BY <1>1 DEF TimePasses
<1>4. WakeTypeOK'
  BY <1>2, <1>3 DEF WakeIInv, WakeTypeOK
<1>5. wake = "on" /\ ~late' => ~late /\ ~(nextEnter <= time) /\ ~(time >= Duration)
  BY <1>1, <1>3 DEF EnterDue
<1>6. PICK m \in Nat, n \in Nat : m = enters * EnterInterval /\ n = (enters + 1) * EnterInterval
  BY DEF WakeIInv, WakeTypeOK
<1>7. m = enters' * EnterInterval /\ n = (enters' + 1) * EnterInterval
  BY <1>2, <1>6
<1>8. /\ time \in Nat /\ begun \in Nat /\ begun + m <= time
      /\ fired => time >= Duration
  BY <1>6 DEF WakeIInv, EntersOnTime, WakeTypeOK
<1>9. EntersOnTime'
  BY <1>2, <1>7, <1>8 DEF EntersOnTime
<1>10. wake' = "on" =>
         /\ nextEnter' = begun' + n
         /\ ~late' => /\ nextEnter' >= time'
                      /\ time' <= Duration \/ time' = begun'
                      /\ enters' > 0 => begun' + m <= Duration
  <2> SUFFICES ASSUME wake' = "on"
               PROVE  /\ nextEnter' = begun' + n
                      /\ ~late' => /\ nextEnter' >= time'
                                   /\ time' <= Duration \/ time' = begun'
                                   /\ enters' > 0 => begun' + m <= Duration
    OBVIOUS
  <2>1. wake = "on" /\ nextEnter = begun + n
    BY <1>2, <1>6 DEF WakeIInv
  <2>2. ~late => (enters > 0 => begun + m <= Duration)
    BY <1>6, <2>1 DEF WakeIInv
  <2> QED BY <1>2, <1>5, <1>8, <2>1, <2>2
<1> QED BY <1>2, <1>4, <1>7, <1>8, <1>9, <1>10 DEF WakeIInv

LEMMA WakingStep ==
  ASSUME WakeIInv, WakeStep
  PROVE  WakeIInv'
<1>1. CASE Fire
  BY <1>1 DEF Fire, WakeIInv, WakeTypeOK, EntersOnTime
<1>2. CASE Shutdown
  <2>1. /\ wake = "on" /\ fired /\ wake' = "over"
        /\ UNCHANGED <<time, begun, fired, nextMouse, nextEnter, enters, late>>
    BY <1>2 DEF Shutdown
  <2>2. time \in Nat /\ begun \in Nat /\ time >= Duration
    BY <2>1 DEF WakeIInv, WakeTypeOK
  <2>3. PICK m \in Nat, n \in Nat : m = enters * EnterInterval /\ n = (enters + 1) * EnterInterval
    BY DEF WakeIInv, WakeTypeOK
  <2>4. /\ begun + m <= time
        /\ ~late => /\ begun + n >= Duration
                    /\ enters > 0 => begun + m <= Duration
    BY <2>1, <2>2, <2>3 DEF WakeIInv, EntersOnTime
  <2>5. EntersOnTime'
    BY <2>1, <2>3, <2>4 DEF EntersOnTime
  <2> QED BY <2>1, <2>2, <2>5 DEF WakeIInv, WakeTypeOK
<1>3. CASE MoveMouse
  BY <1>3 DEF MoveMouse, WakeIInv, WakeTypeOK, EntersOnTime
<1> QED BY <1>1, <1>2, <1>3, DevicesStep, PressStep, TimeStep DEF WakeStep

LEMMA WakeRests ==
  ASSUME WakeIInv, UNCHANGED wakeVars
  PROVE  WakeIInv'
BY DEF wakeVars, WakeIInv, WakeTypeOK, EntersOnTime

LEMMA WakeInitInv == Init => WakeIInv
BY WakeInit DEF Init

LEMMA WakeNext == WakeIInv /\ [Next]_vars => WakeIInv'
<1> SUFFICES ASSUME WakeIInv, [Next]_vars PROVE WakeIInv'
  OBVIOUS
<1>1. CASE DecideUnlock
  BY <1>1, WakeStartStep DEF DecideUnlock
<1>2. CASE Woken
  BY <1>2, WakeResetStep DEF Woken
<1>3. CASE Waking
  BY <1>3, WakingStep DEF Waking
<1>4. CASE UNCHANGED wakeVars
  BY <1>4, WakeRests
<1>5. \/ DecideUnlock \/ Woken \/ Waking \/ UNCHANGED wakeVars
  BY DEF Next, vars, Watcher, Loop, Looking, List, Ask, NoneActive, CallFails, FirstStore,
     Subscribe, Hear, Store, DecideLock, GiveUp, Call, Switch, Begins, Ends, Change
<1> QED BY <1>1, <1>2, <1>3, <1>4, <1>5

\* The Enters of a wake-up keep to their schedule, for every duration and
\* interval: none early, and none missing or too many unless a task is late.
THEOREM EntersKeepTime == Spec => []EntersOnTime
<1>1. WakeIInv => EntersOnTime
  BY DEF WakeIInv
<1> QED BY <1>1, WakeInitInv, WakeNext, PTL DEF Spec

------------------------------------------------------------------------------
(* Lookups.                                                                *)

\* What a lookup knows: the active session is one of those that were active
\* since it began, and while nothing changes it is the only one, and still to
\* be asked.
LookOK(l) ==
  /\ l.pc = "ask" =>
       /\ active \in l.been \union {None}
       /\ l.same => l.been = {active} \ {None} /\ active \in l.todo \union {None}
  /\ l.pc = "found" => l.found \in l.been
  /\ l.pc = "failed" /\ l.same /\ ~l.error => l.been = {}

\* The rest of the state but for the lookups.
SeatTypeOK ==
  /\ open \subseteq Sessions /\ active \in open \union {None}
  /\ changes \in Nat /\ signals \in Nat /\ changes + signals <= Changes
  /\ failures \in 0..Failures
  /\ watch \in {"first", "subscribing", "listening", "looking"}
  /\ activeUid \in Users \union {None}
  /\ act \in [pc: {"idle", "lock", "wake", "unlock"}, uid: Users \union {None}]
  /\ unheard \in BOOLEAN /\ broken \in BOOLEAN

SeatIInv ==
  /\ SeatTypeOK
  /\ look \in [Callers -> Lookup]
  /\ \A c \in Callers : LookOK(look[c])

\* One lookup goes on; the other, and the seat, are left alone.
LEMMA LookStep ==
  ASSUME SeatIInv, SeatTypeOK', active' = active, NEW c \in Callers, NEW l \in Lookup,
         Sets(c, l), LookOK(l)
  PROVE  SeatIInv'
<1>1. look' \in [Callers -> Lookup]
  BY DEF SeatIInv, Sets
<1>2. ASSUME NEW d \in Callers PROVE LookOK(look[d])'
  <2>1. CASE d = c
    BY <2>1 DEF SeatIInv, Sets, LookOK
  <2>2. CASE d # c
    BY <2>2 DEF SeatIInv, Sets, LookOK
  <2> QED BY <2>1, <2>2
<1> QED BY <1>1, <1>2 DEF SeatIInv

LEMMA OffFacts == Off \in Lookup /\ LookOK(Off)
BY DEF Off, Lookup, LookOK

\* A lookup at work, one of its fields changed.
LEMMA LookFacts ==
  ASSUME SeatIInv, NEW c \in Callers
  PROVE  /\ look[c] \in Lookup /\ LookOK(look[c])
         /\ [look[c] EXCEPT !.pc = "failed"] \in Lookup
         /\ [look[c] EXCEPT !.pc = "failed", !.error = TRUE] \in Lookup
         /\ \A s \in Sessions : [look[c] EXCEPT !.pc = "found", !.found = s] \in Lookup
         /\ \A s \in Sessions : [look[c] EXCEPT !.todo = look[c].todo \ {s}] \in Lookup
<1>1. look[c] \in Lookup /\ LookOK(look[c])
  BY DEF SeatIInv
<1>2. PICK k \in Lookup : k = look[c]
  BY <1>1
<1>3. /\ [k EXCEPT !.pc = "failed"] \in Lookup
      /\ [k EXCEPT !.pc = "failed", !.error = TRUE] \in Lookup
  BY DEF Lookup
<1>4. ASSUME NEW s \in Sessions PROVE [k EXCEPT !.pc = "found", !.found = s] \in Lookup
  BY DEF Lookup
<1>5. ASSUME NEW s \in Sessions PROVE [k EXCEPT !.todo = k.todo \ {s}] \in Lookup
  BY DEF Lookup
<1> QED BY <1>1, <1>2, <1>3, <1>4, <1>5

LEMMA LookupStep ==
  ASSUME SeatIInv, NEW c \in Callers, Looking(c)
  PROVE  SeatIInv'
<1>1. SeatTypeOK' /\ active' = active
  <2>1. CASE CallFails(c)
    BY <2>1 DEF CallFails, SeatIInv, SeatTypeOK
  <2>2. CASE ~CallFails(c)
    BY <2>2 DEF Looking, List, Ask, NoneActive, SeatIInv, SeatTypeOK
  <2> QED BY <2>1, <2>2
<1>2. look[c] \in Lookup /\ LookOK(look[c]) /\ look[c].todo \subseteq Sessions
  BY LookFacts DEF Lookup
<1>3. PICK l \in Lookup : Sets(c, l) /\ LookOK(l)
  <2>1. CASE List(c)
    <3> DEFINE l == [pc |-> "ask", todo |-> open, found |-> None, been |-> {active} \ {None},
                     same |-> TRUE, error |-> FALSE]
    <3>1. l \in Lookup /\ LookOK(l)
      BY DEF SeatIInv, SeatTypeOK, Lookup, LookOK
    <3> QED BY <2>1, <3>1 DEF List
  <2>2. CASE Ask(c)
    <3>1. PICK s \in look[c].todo :
            Sets(c, CASE s \notin open -> [look[c] EXCEPT !.pc = "failed", !.error = TRUE]
                      [] s \in open /\ s = active -> [look[c] EXCEPT !.pc = "found", !.found = s]
                      [] s \in open /\ s # active -> [look[c] EXCEPT !.todo = look[c].todo \ {s}])
      BY <2>2 DEF Ask
    <3>2. s \in Sessions /\ s # None
      BY <1>2
    <3>3. CASE s \notin open
      <4> DEFINE l == [look[c] EXCEPT !.pc = "failed", !.error = TRUE]
      <4>1. l \in Lookup /\ l.pc = "failed" /\ l.error
        BY <1>2, LookFacts DEF Lookup
      <4>2. Sets(c, l)
        BY <3>1, <3>3
      <4>3. LookOK(l)
        BY <4>1 DEF LookOK
      <4> QED BY <4>1, <4>2, <4>3
    <3>4. CASE s \in open /\ s = active
      <4> DEFINE l == [look[c] EXCEPT !.pc = "found", !.found = s]
      <4>1. l \in Lookup /\ l.pc = "found" /\ l.found = s /\ l.been = look[c].been
        BY <1>2, <3>2, LookFacts DEF Lookup
      <4>2. Sets(c, l)
        BY <3>1, <3>4
      <4>3. s \in look[c].been
        BY <1>2, <2>2, <3>2, <3>4 DEF LookOK, Ask, At
      <4> QED BY <4>1, <4>2, <4>3 DEF LookOK
    <3>5. CASE s \in open /\ s # active
      <4> DEFINE l == [look[c] EXCEPT !.todo = look[c].todo \ {s}]
      <4>1. l \in Lookup /\ l.pc = "ask" /\ l.todo = look[c].todo \ {s}
            /\ l.been = look[c].been /\ l.same = look[c].same
        BY <1>2, <2>2, <3>2, LookFacts DEF Lookup, Ask, At
      <4>2. Sets(c, l)
        BY <3>1, <3>5
      <4>3. LookOK(l)
        BY <1>2, <2>2, <3>2, <3>5, <4>1 DEF LookOK, Ask, At
      <4> QED BY <4>1, <4>2, <4>3
    <3> QED BY <3>3, <3>4, <3>5
  <2>3. CASE NoneActive(c)
    <3> DEFINE l == [look[c] EXCEPT !.pc = "failed"]
    <3>1. l \in Lookup /\ l.pc = "failed" /\ l.been = look[c].been /\ l.same = look[c].same
      BY <1>2, LookFacts DEF Lookup
    <3>2. look[c].same => look[c].been = {}
      BY <1>2, <2>3 DEF NoneActive, At, LookOK
    <3>3. LookOK(l)
      BY <3>1, <3>2 DEF LookOK
    <3>4. Sets(c, l)
      BY <2>3 DEF NoneActive
    <3> QED BY <3>1, <3>3, <3>4
  <2>4. CASE CallFails(c)
    <3> DEFINE l == [look[c] EXCEPT !.pc = "failed", !.error = TRUE]
    <3>1. l \in Lookup /\ l.pc = "failed" /\ l.error
      BY <1>2, LookFacts DEF Lookup
    <3>2. Sets(c, l)
      BY <2>4 DEF CallFails
    <3>3. LookOK(l)
      BY <3>1 DEF LookOK
    <3> QED BY <3>1, <3>2, <3>3
  <2> QED BY <2>1, <2>2, <2>3, <2>4 DEF Looking
<1> QED BY <1>1, <1>3, LookStep

\* A lookup is begun, or put away.
LEMMA StartOrEnd ==
  ASSUME SeatIInv, SeatTypeOK', active' = active, NEW c \in Callers,
         Sets(c, Off) \/ Sets(c, [Off EXCEPT !.pc = "list"])
  PROVE  SeatIInv'
<1>1. [Off EXCEPT !.pc = "list"] \in Lookup /\ LookOK([Off EXCEPT !.pc = "list"])
  BY DEF Off, Lookup, LookOK
<1>2. CASE Sets(c, Off)
  BY <1>2, OffFacts, LookStep
<1>3. CASE Sets(c, [Off EXCEPT !.pc = "list"])
  BY <1>1, <1>3, LookStep
<1> QED BY <1>2, <1>3

LEMMA ResultFacts == SeatIInv => Result \in Users \union {None}
<1> SUFFICES ASSUME SeatIInv PROVE Result \in Users \union {None}
  OBVIOUS
<1>1. "watcher" \in Callers
  BY DEF Callers
<1>2. look["watcher"] \in Lookup /\ LookOK(look["watcher"])
  BY <1>1, LookFacts
<1>3. At("watcher", "found") => look["watcher"].found \in Sessions
  BY <1>2 DEF At, LookOK, Lookup
<1> QED BY <1>3 DEF Result

LEMMA WatcherStep ==
  ASSUME SeatIInv, FirstStore \/ Subscribe \/ Hear \/ Store
  PROVE  SeatIInv'
<1>0. "watcher" \in Callers
  BY DEF Callers
<1>1. SeatTypeOK' /\ active' = active
  BY ResultFacts DEF FirstStore, Subscribe, Hear, Store, SeatIInv, SeatTypeOK
<1>2. CASE FirstStore \/ Hear \/ Store
  BY <1>0, <1>1, <1>2, StartOrEnd DEF FirstStore, Hear, Store
<1>3. CASE Subscribe
  BY <1>1, <1>3 DEF Subscribe, SeatIInv, LookOK
<1> QED BY <1>2, <1>3

LEMMA LoopStep ==
  ASSUME SeatIInv, DecideLock \/ DecideUnlock \/ Woken \/ GiveUp \/ Call
  PROVE  SeatIInv'
<1>0. "loop" \in Callers
  BY DEF Callers
<1>1. SeatTypeOK' /\ active' = active
  BY DEF DecideLock, DecideUnlock, Woken, GiveUp, Call, SeatIInv, SeatTypeOK
<1>2. CASE DecideLock \/ Woken \/ GiveUp \/ Call
  BY <1>0, <1>1, <1>2, StartOrEnd DEF DecideLock, Woken, GiveUp, Call
<1>3. CASE DecideUnlock
  BY <1>1, <1>3 DEF DecideUnlock, SeatIInv, LookOK
<1> QED BY <1>2, <1>3

\* The seat changes under the lookups.
LEMMA ChangeStep ==
  ASSUME SeatIInv, NEW newOpen \in SUBSET Sessions, NEW newActive \in newOpen \union {None},
         Change(newOpen, newActive)
  PROVE  SeatIInv'
<1>1. SeatTypeOK'
  <2>1. unheard' \in BOOLEAN
    BY Zenon DEF Change
  <2>2. changes' \in Nat /\ signals' \in Nat /\ changes' + signals' <= Changes
    <3>1. changes > 0 /\ changes' = changes - 1 /\ signals' \in {signals, signals + 1}
      BY DEF Change
    <3>2. changes \in Nat /\ signals \in Nat /\ changes + signals <= Changes
      BY DEF SeatIInv, SeatTypeOK
    <3>3. PICK m \in Nat, n \in Nat : changes = m + 1 /\ signals = n /\ m + 1 + n <= Changes
      <4>1. changes - 1 \in Nat
        BY <3>1, <3>2
      <4> QED BY <3>2, <4>1
    <3>4. changes' = m
      BY <3>1, <3>3
    <3>5. CASE signals' = signals
      BY <3>3, <3>4, <3>5
    <3>6. CASE signals' = signals + 1
      BY <3>3, <3>4, <3>6
    <3> QED BY <3>1, <3>5, <3>6
  <2>3. /\ open' = newOpen /\ active' = newActive
        /\ UNCHANGED <<failures, watch, activeUid, act, broken>>
    BY DEF Change
  <2> QED BY <2>1, <2>2, <2>3 DEF SeatIInv, SeatTypeOK
<1>2. ASSUME NEW c \in Callers PROVE look'[c] \in Lookup /\ LookOK(look[c])'
  <2>1. look[c] \in Lookup /\ LookOK(look[c]) /\ active' = newActive
    BY LookFacts DEF Change
  <2>2. CASE look[c].pc # "ask"
    <3>1. look'[c] = look[c]
      BY <2>2 DEF Change
    <3> QED BY <2>1, <2>2, <3>1 DEF LookOK
  <2>3. CASE look[c].pc = "ask"
    <3> DEFINE l == [look[c] EXCEPT !.been = look[c].been \union ({newActive} \ {None}), !.same = FALSE]
    <3>1. look'[c] = l
      BY <2>3 DEF Change
    <3>2. l \in Lookup /\ l.pc = "ask" /\ ~l.same /\ newActive \in l.been \union {None}
      BY <2>1, <2>3 DEF Lookup
    <3> QED BY <2>1, <3>1, <3>2 DEF LookOK
  <2> QED BY <2>2, <2>3
<1>3. look' = [c \in Callers |-> look'[c]]
  BY DEF Change
<1> QED BY <1>1, <1>2, <1>3 DEF SeatIInv

LEMMA SeatInit == Init => SeatIInv
<1> SUFFICES ASSUME Init PROVE SeatIInv
  OBVIOUS
<1>1. SeatTypeOK
  <2>1. unheard \in BOOLEAN /\ broken \in BOOLEAN
    BY DEF Init
  <2>2. changes \in Nat /\ signals \in Nat /\ changes + signals <= Changes /\ failures \in 0..Failures
    BY DEF Init
  <2>3. open \subseteq Sessions /\ active \in open \union {None}
    BY DEF Init
  <2>4. /\ watch = "first" /\ activeUid \in Users \union {None}
        /\ act \in [pc: {"idle", "lock", "wake", "unlock"}, uid: Users \union {None}]
    BY DEF Init
  <2> QED BY <2>1, <2>2, <2>3, <2>4 DEF SeatTypeOK
<1>2. [Off EXCEPT !.pc = "list"] \in Lookup /\ LookOK([Off EXCEPT !.pc = "list"])
  BY DEF Off, Lookup, LookOK
<1> QED BY <1>1, <1>2, OffFacts DEF Init, SeatIInv

LEMMA SeatNext == SeatIInv /\ [Next]_vars => SeatIInv'
<1> SUFFICES ASSUME SeatIInv, [Next]_vars PROVE SeatIInv'
  OBVIOUS
<1>1. CASE \E c \in Callers : Looking(c)
  BY <1>1, LookupStep
<1>2. CASE FirstStore \/ Subscribe \/ Hear \/ Store
  BY <1>2, WatcherStep
<1>3. CASE DecideLock \/ DecideUnlock \/ Woken \/ GiveUp \/ Call
  BY <1>3, LoopStep
<1>4. CASE Switch \/ Begins \/ Ends
  <2>1. CASE Switch
    BY <2>1, ChangeStep DEF Switch, SeatIInv, SeatTypeOK
  <2>2. CASE Begins
    BY <2>2, ChangeStep DEF Begins, SeatIInv, SeatTypeOK
  <2>3. CASE Ends
    BY <2>3, ChangeStep DEF Ends, SeatIInv, SeatTypeOK
  <2> QED BY <1>4, <2>1, <2>2, <2>3
<1>5. CASE UNCHANGED seatVars
  BY <1>5 DEF seatVars, SeatIInv, SeatTypeOK, LookOK
<1> QED BY <1>1, <1>2, <1>3, <1>4, <1>5 DEF Next, Watcher, Loop, Waking, vars, Callers

LEMMA SeatInvariance == Spec => []SeatIInv
BY SeatInit, SeatNext, PTL DEF Spec

\* A lookup that takes several calls answers for some moment of it.
THEOREM LookupsAreRight == Spec => []LookupIsRight
<1>1. SeatIInv => LookupIsRight
  BY DEF SeatIInv, LookOK, LookupIsRight, At
<1> QED BY <1>1, SeatInvariance, PTL

\* Types of the seat, of the lookups and of a wake-up.
THEOREM TypeCorrect == Spec => []TypeOK
<1>1. SeatIInv /\ WakeIInv => TypeOK
  BY DEF SeatIInv, SeatTypeOK, WakeIInv, TypeOK
<1> QED BY <1>1, SeatInvariance, WakeInitInv, WakeNext, PTL DEF Spec
==============================================================================
