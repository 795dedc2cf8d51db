---------------------------- MODULE DaemonProofs ----------------------------
(***************************************************************************)
(* Safety of the lock path for any number of devices and users, any        *)
(* configurations, any channel factor and any number of environment events *)
(* of any kind.                                                            *)
(*                                                                         *)
(* Typed (the types, and MonitorsAreOwners) is inductive on its own; the   *)
(* three other invariants are each inductive relative to it.               *)
(***************************************************************************)
EXTENDS DaemonLogin, TLAPS

Typed == TypeOK /\ MonitorsAreOwners

USE DaemonAssumption
USE DEF shared, logind, watcher, loop, monitors, Monitor, Watcher

------------------------------------------------------------------------------
(* Facts about the operators.                                              *)

LEMMA ConfigFacts ==
  ASSUME NEW c \in Configs \union {Empty}
  PROVE  /\ DOMAIN c \in SUBSET Macs
         /\ \A d \in DOMAIN c : c[d] \in Users
BY DEF Empty

LEMMA MineFacts ==
  ASSUME NEW c \in Configs \union {Empty}, NEW u \in Uids
  PROVE  /\ Mine(c, u) \in SUBSET Macs
         /\ Mine(c, u) # {} => u \in Users
BY ConfigFacts DEF Mine

\* A transition yields a phase and an action, from any phase.
LEMMA TransitionType ==
  ASSUME NEW q \in Profile, NEW f \in Phase, NEW r \in Reading
  PROVE  /\ PhaseAfter(q, f, r) \in Phase
         /\ ActionOf(q, f, r) \in Action
<1>0. /\ f.name \in PhaseName /\ f.count \in Nat
      /\ q.disc \in Action /\ q.lock \in Nat /\ q.unlock \in Nat
  BY DEF Phase, Profile
<1>1. PhaseAfter(q, f, r) \in Phase
  <2>1. CASE r = "lost"
    BY <2>1 DEF PhaseAfter, Disconnected, Phase, PhaseName
  <2>2. CASE r # "lost" /\ f.name = "Near"
    BY <1>0, <2>2 DEF PhaseAfter, FromNear, Near, Far, Phase, PhaseName, Reading
  <2>3. CASE r # "lost" /\ f.name = "Far"
    BY <1>0, <2>3 DEF PhaseAfter, FromFar, Near, Far, Phase, PhaseName, Reading
  <2>4. CASE r # "lost" /\ f.name = "Disconnected"
    BY <1>0, <2>4 DEF PhaseAfter, FromDisconnected, Far, Phase, PhaseName
  <2> QED BY <1>0, <2>1, <2>2, <2>3, <2>4 DEF PhaseName
<1>2. ActionOf(q, f, r) \in Action
  BY <1>0 DEF ActionOf, Action, MovesAway, MovesBack
<1> QED BY <1>1, <1>2

LEMMA AppendFacts ==
  ASSUME NEW m \in Message, chan \in Seq(Message)
  PROVE  /\ Append(chan, m) \in Seq(Message)
         /\ DOMAIN chan = 1..Len(chan) /\ Len(chan) \in Nat
         /\ DOMAIN Append(chan, m) = 1..(Len(chan) + 1)
         /\ Append(chan, m)[Len(chan) + 1] = m
         /\ \A i \in 1..Len(chan) : Append(chan, m)[i] = chan[i]
OBVIOUS

LEMMA TailFacts ==
  ASSUME chan \in Seq(Message), chan # <<>>
  PROVE  /\ Tail(chan) \in Seq(Message)
         /\ Head(chan) = chan[1] /\ Head(chan) \in Message
         /\ DOMAIN chan = 1..Len(chan) /\ Len(chan) \in Nat /\ Len(chan) >= 1
         /\ DOMAIN Tail(chan) = 1..(Len(chan) - 1)
         /\ \A i \in 1..(Len(chan) - 1) : Tail(chan)[i] = chan[i + 1]
OBVIOUS

------------------------------------------------------------------------------
(* Types and the coupling of one iteration.                                *)

\* An environment event leaves one fewer.
LEMMA SpendFacts ==
  ASSUME Typed, NEW e, Spend(e)
  PROVE  budget' \in 0..Budget
BY DEF Typed, TypeOK, Spend

LEMMA InitTyped == Init => Typed
<1> SUFFICES ASSUME Init PROVE Typed
  OBVIOUS
<1>1. task \in [Macs -> Monitor]
  BY DEF Init, NoTask, NewPhase, Near, Phase, PhaseName, Action
<1>2. /\ wants \in [DOMAIN wants -> {"Lock", "Unlock"}] /\ DOMAIN wants = {}
      /\ status \in [DOMAIN status -> PhaseName] /\ DOMAIN status = {}
      /\ chan \in Seq(Message) /\ DOMAIN chan = {}
  BY DEF Init, Empty
<1>3. \A d \in Macs : task[d].pc = "gone"
  BY DEF Init, NoTask
<1>4. /\ live \in Configs /\ permit \in BOOLEAN /\ owed \in Nat
      /\ seat \in Uids /\ locked \in [Users -> BOOLEAN]
      /\ watch \in Watcher
      /\ signals \in Nat /\ activeUid \in Uids
      /\ mode \in Modes /\ pc = "boot" /\ cfg \in Configs \union {Empty} /\ cur \in Uids
      /\ wasNear \in BOOLEAN /\ zombies = {} /\ budget \in 0..Budget
  <2>1. /\ seat \in Uids /\ watch \in Watcher /\ activeUid \in Uids /\ cur \in Uids
    BY DEF Init, Uids
  <2>2. locked \in [Users -> BOOLEAN] /\ budget \in 0..Budget /\ signals \in Nat /\ owed \in Nat
    BY DEF Init
  <2> QED BY <2>1, <2>2 DEF Init
<1> QED BY <1>1, <1>2, <1>3, <1>4 DEF Typed, TypeOK, MonitorsAreOwners, Monitoring, At

\* Restart leaves nothing of the iteration behind but zombies.
LEMMA RestartTyped ==
  ASSUME Typed, Restart
  PROVE  /\ task' \in [Macs -> Monitor] /\ \A d \in Macs : task'[d].pc = "gone"
         /\ zombies' \subseteq Macs \X PhaseName
         /\ chan' \in Seq(Message)
         /\ wants' \in [DOMAIN wants' -> {"Lock", "Unlock"}] /\ DOMAIN wants' = {}
         /\ pc' = "top"
         /\ MonitorsAreOwners'
<1>1. \A d \in Macs : task[d].ph.name \in PhaseName
  BY DEF Typed, TypeOK, Phase
<1>2. /\ task' \in [Macs -> Monitor]
      /\ \A d \in Macs : task'[d].pc = "gone"
  BY DEF Restart, NoTask, NewPhase, Near, Phase, PhaseName, Action
<1>3. zombies' \subseteq Macs \X PhaseName
  BY <1>1 DEF Typed, TypeOK, Restart
<1>4. wants' \in [DOMAIN wants' -> {"Lock", "Unlock"}] /\ DOMAIN wants' = {}
  BY DEF Restart, Empty
<1>5. chan' = <<>> /\ chan' \in Seq(Message) /\ pc' = "top"
  BY DEF Restart
<1> QED BY <1>2, <1>3, <1>4, <1>5 DEF MonitorsAreOwners, Monitoring

LEMMA MainTyped ==
  ASSUME Typed, MainStep
  PROVE  Typed'
<1> USE DEF Typed, TypeOK, MonitorsAreOwners, Uids, Monitoring, At
<1>1. CASE Boot
  <2>1. budget' \in 0..Budget
    BY <1>1, SpendFacts DEF Boot
  <2>2. watch' \in Watcher
    BY <1>1 DEF Boot
  <2> QED BY <1>1, <2>1, <2>2 DEF Boot
<1>2. CASE ReadConfig
  BY <1>2 DEF ReadConfig
<1>3. CASE Wait
  BY <1>3 DEF Wait
<1>4. CASE Spawn
  BY <1>4, MineFacts DEF Spawn, NewTask, NoTask, NewPhase, Near, Phase, PhaseName, Action
<1>5. CASE Reset
  BY <1>5 DEF Reset, Empty
<1>6. CASE LockLook
  <2>1. budget' \in 0..Budget
    BY <1>6, SpendFacts DEF LockLook
  <2>2. wasNear' \in BOOLEAN /\ pc' \in {"select", "lockcall"}
    BY <1>6 DEF LockLook, BackToSelect
  <2> QED BY <1>6, <2>1, <2>2 DEF LockLook
<1>7. CASE LockCall
  <2>1. budget' \in 0..Budget
    BY <1>7, SpendFacts DEF LockCall
  <2>2. locked' \in [Users -> BOOLEAN]
    BY <1>7 DEF LockCall
  <2>3. wasNear' = FALSE /\ pc' = "select"
    BY <1>7 DEF LockCall, BackToSelect
  <2>4. UNCHANGED <<shared, seat, watcher, mode, cfg, cur, wants, monitors>>
    BY <1>7 DEF LockCall
  <2>5. pc = "lockcall"
    BY <1>7 DEF LockCall
  <2>6. TypeOK'
    BY <2>1, <2>2, <2>3, <2>4
  <2>7. MonitorsAreOwners'
    <3> HIDE DEF TypeOK
    <3>1. Monitoring' = Monitoring
      BY <2>3, <2>5
    <3> HIDE DEF Monitoring
    <3> QED BY <2>4, <3>1
  <2> QED BY <2>6, <2>7
<1>8. CASE Wake
  BY <1>8 DEF Wake
<1>9. CASE UnlockLook
  <2>1. budget' \in 0..Budget
    BY <1>9, SpendFacts DEF UnlockLook
  <2>2. wasNear' \in BOOLEAN /\ pc' \in {"select", "unlockcall"}
    BY <1>9 DEF UnlockLook, BackToSelect
  <2> QED BY <1>9, <2>1, <2>2 DEF UnlockLook
<1>10. CASE UnlockCall
  <2>1. budget' \in 0..Budget
    BY <1>10, SpendFacts DEF UnlockCall
  <2>2. locked' \in [Users -> BOOLEAN]
    BY <1>10 DEF UnlockCall
  <2>3. wasNear' = TRUE /\ pc' = "select"
    BY <1>10 DEF UnlockCall, BackToSelect
  <2>4. UNCHANGED <<shared, seat, watcher, mode, cfg, cur, wants, monitors>>
    BY <1>10 DEF UnlockCall
  <2>5. pc = "unlockcall"
    BY <1>10 DEF UnlockCall
  <2>6. TypeOK'
    BY <2>1, <2>2, <2>3, <2>4
  <2>7. MonitorsAreOwners'
    <3> HIDE DEF TypeOK
    <3>1. Monitoring' = Monitoring
      BY <2>3, <2>5
    <3> HIDE DEF Monitoring
    <3> QED BY <2>4, <3>1
  <2> QED BY <2>6, <2>7
<1> QED BY <1>1, <1>2, <1>3, <1>4, <1>5, <1>6, <1>7, <1>8, <1>9, <1>10 DEF MainStep

LEMMA RecvTyped ==
  ASSUME Typed, Recv \/ Notified \/ Hup \/ Stop
  PROVE  Typed'
<1> USE DEF At
<1>1. CASE RecvAfterSwitch
  BY <1>1, RestartTyped DEF Typed, TypeOK, RecvAfterSwitch, Restart
<1>2. CASE RecvWant
  BY <1>2, TailFacts DEF Typed, TypeOK, MonitorsAreOwners, RecvWant, Decide, Monitoring, Message
<1>3. CASE RecvClosed
  BY <1>3, RestartTyped DEF Typed, TypeOK, RecvClosed, Restart
<1>4. CASE Notified
  BY <1>4, RestartTyped DEF Typed, TypeOK, Notified, Restart
<1>5. CASE Hup
  BY <1>5, RestartTyped DEF Typed, TypeOK, Hup, Restart, Spend
<1>6. CASE Stop
  <2>1. budget' \in 0..Budget
    BY <1>6, SpendFacts DEF Stop
  <2>2. /\ task' \in [Macs -> Monitor]
        /\ \A d \in Macs : task'[d].pc = "gone"
    BY <1>6 DEF Stop, NoTask, NewPhase, Near, Phase, PhaseName, Action
  <2>3. /\ wants' \in [DOMAIN wants' -> {"Lock", "Unlock"}] /\ DOMAIN wants' = {}
        /\ status' \in [DOMAIN status' -> PhaseName] /\ DOMAIN status' = {}
        /\ chan' \in Seq(Message) /\ DOMAIN chan' = {}
    BY <1>6 DEF Stop, Empty
  <2>4. watch' \in Watcher
    BY <1>6 DEF Stop, Typed, TypeOK
  <2> QED BY <1>6, <2>1, <2>2, <2>3, <2>4
          DEF Stop, Typed, TypeOK, MonitorsAreOwners, Monitoring
<1> QED BY <1>1, <1>2, <1>3, <1>4, <1>5, <1>6 DEF Recv

\* Moving a monitor from one step to another.
LEMMA NewPc ==
  ASSUME task \in [Macs -> Monitor], NEW d \in Macs,
         task[d].pc # "gone",
         NEW step \in {"start", "poll", "publish", "send", "exited"},
         task' = [task EXCEPT ![d].pc = step]
  PROVE  /\ task' \in [Macs -> Monitor]
         /\ \A e \in Macs : task'[e].pc = "gone" <=> task[e].pc = "gone"
         /\ \A e \in Macs : e # d => task'[e] = task[e]
         /\ task'[d].pc = step /\ task'[d].act = task[d].act
<1>1. task' = [task EXCEPT ![d] = [task[d] EXCEPT !.pc = step]]
  OBVIOUS
<1>2. [task[d] EXCEPT !.pc = step] \in Monitor
  OBVIOUS
<1> QED BY <1>1, <1>2

LEMMA MonitorTyped ==
  ASSUME Typed, NEW d \in Macs, MonitorStep(d)
  PROVE  Typed'
<1> USE DEF Typed, TypeOK, MonitorsAreOwners, Monitoring, At
<1>1. CASE Open(d)
  <2>1. budget' \in 0..Budget
    BY <1>1, SpendFacts DEF Open
  <2>2. /\ task' \in [Macs -> Monitor]
        /\ \A e \in Macs : task'[e].pc = "gone" <=> task[e].pc = "gone"
        /\ \A e \in Macs : task'[e].pc = "send" => task'[e].act # "None"
    <3>1. PICK step \in {"poll", "exited"} : task' = [task EXCEPT ![d].pc = step]
      BY <1>1 DEF Open
    <3>2. task[d].pc = "start"
      BY <1>1 DEF Open
    <3>3. /\ task' \in [Macs -> Monitor]
          /\ \A e \in Macs : task'[e].pc = "gone" <=> task[e].pc = "gone"
          /\ \A e \in Macs : e # d => task'[e] = task[e]
          /\ task'[d].pc = step
      BY <3>1, <3>2, NewPc
    <3> QED BY <3>1, <3>3
  <2> QED BY <1>1, <2>1, <2>2 DEF Open
<1>2. CASE PollDevice(d)
  BY <1>2, TransitionType DEF PollDevice
<1>3. CASE Publish(d)
  <2>1. /\ status' \in [DOMAIN status' -> PhaseName] /\ DOMAIN status' \subseteq Macs
    BY <1>3 DEF Publish, Shown, Phase
  <2>2. /\ task' \in [Macs -> Monitor]
        /\ \A e \in Macs : task'[e].pc = "gone" <=> task[e].pc = "gone"
        /\ \A e \in Macs : task'[e].pc = "send" => task'[e].act # "None"
    <3>1. CASE task[d].act # "None"
      BY <1>3, <3>1, NewPc DEF Publish
    <3>2. CASE task[d].act = "None"
      BY <1>3, <3>2, NewPc DEF Publish
    <3> QED BY <3>1, <3>2
  <2> QED BY <1>3, <2>1, <2>2 DEF Publish
<1>4. CASE Send(d)
  <2>0. task[d].act \in {"Lock", "Unlock"}
    BY <1>4 DEF Send, Action
  <2>1. /\ task' \in [Macs -> Monitor]
        /\ \A e \in Macs : task'[e].pc = "gone" <=> task[e].pc = "gone"
        /\ \A e \in Macs : e # d => task'[e] = task[e]
        /\ task'[d].pc = "poll"
    <3> DEFINE t == [pc |-> "poll", ph |-> task[d].ph, act |-> "None"]
    <3>1. task' = [task EXCEPT ![d] = t]
      BY <1>4 DEF Send
    <3>2. t \in Monitor
      BY DEF Action
    <3> HIDE DEF t
    <3> QED BY <1>4, <3>1, <3>2 DEF Send, t
  <2>2. /\ chan' \in Seq(Message)
        /\ \A i \in DOMAIN chan' : chan'[i].mac \in DOMAIN wants
    BY <1>4, <2>0, AppendFacts DEF Send, Message
  <2> QED BY <1>4, <2>1, <2>2 DEF Send
<1> QED BY <1>1, <1>2, <1>3, <1>4 DEF MonitorStep

LEMMA OtherTyped ==
  ASSUME Typed,
         ZombiePublish \/ WatcherStep \/ WebNotify
           \/ WatchDies \/ Switch \/ Manual \/ WebPut \/ WebEdit \/ UNCHANGED vars
  PROVE  Typed'
<1> USE DEF Typed, TypeOK, MonitorsAreOwners, Monitoring, Uids, At
<1>1. CASE ZombiePublish
  BY <1>1 DEF ZombiePublish, Shown
<1>2. CASE WatcherStep
  BY <1>2 DEF WatcherStep, Subscribe, WatchLook, WatchStore, Spend
<1>3. CASE WebNotify
  BY <1>3 DEF WebNotify
<1>4. CASE WatchDies
  <2>1. budget' \in 0..Budget
    BY <1>4, SpendFacts DEF WatchDies
  <2>2. watch' \in Watcher
    BY <1>4 DEF WatchDies
  <2> QED BY <1>4, <2>1, <2>2 DEF WatchDies
<1>5. CASE Switch
  BY <1>5 DEF Switch, Spend
<1>6. CASE Manual
  BY <1>6 DEF Manual, Spend
<1>7. CASE WebPut \/ WebEdit
  BY <1>7 DEF WebPut, WebEdit, Spend
<1>8. CASE UNCHANGED vars
  BY <1>8 DEF vars
<1> QED BY <1>1, <1>2, <1>3, <1>4, <1>5, <1>6, <1>7, <1>8

LEMMA NextTyped == Typed /\ [Next]_vars => Typed'
BY MainTyped, RecvTyped, MonitorTyped, OtherTyped DEF Next, EnvStep

LEMMA AlwaysTyped == Spec => []Typed
BY InitTyped, NextTyped, PTL DEF Spec

\* Every variable keeps its type.
THEOREM TypeCorrect == Spec => []TypeOK
<1>1. Typed => TypeOK
  BY DEF Typed
<1> QED BY <1>1, AlwaysTyped, PTL

\* Whatever restarts it, the loop monitors the current user's devices only.
THEOREM MonitorsOwners == Spec => []MonitorsAreOwners
<1>1. Typed => MonitorsAreOwners
  BY DEF Typed
<1> QED BY <1>1, AlwaysTyped, PTL

------------------------------------------------------------------------------
(* was_near and device_wants.                                              *)

\* In PamOnly mode the loop is never on its way to logind.
PamHandsOff ==
  mode = "PamOnly" => pc \notin {"lock", "lockcall", "wake", "unlock", "unlockcall"}

Belief == BeliefMatchesWants /\ PamHandsOff

LEMMA InitBelief == Init => Belief
BY DEF Init, Belief, BeliefMatchesWants, PamHandsOff

\* Only the main loop can disturb it, and a restart makes it vacuous.
LEMMA NextBelief == Typed /\ Belief /\ [Next]_vars => Belief'
<1> SUFFICES ASSUME Typed, Belief, [Next]_vars PROVE Belief'
  OBVIOUS
<1> USE DEF Belief, BeliefMatchesWants, PamHandsOff, AnyUnlock
<1>1. CASE MainStep
  <2>1. CASE Boot \/ ReadConfig \/ Wait
    BY <2>1 DEF Boot, ReadConfig, Wait
  <2>2. CASE Spawn
    BY <2>2 DEF Spawn
  <2>3. CASE Reset
    BY <2>3 DEF Reset
  <2>4. CASE LockLook
    BY <2>4 DEF LockLook, BackToSelect
  <2>5. CASE LockCall
    BY <2>5 DEF LockCall, BackToSelect
  <2>6. CASE Wake
    BY <2>6 DEF Wake
  <2>7. CASE UnlockLook
    BY <2>7 DEF UnlockLook, BackToSelect
  <2>8. CASE UnlockCall
    BY <2>8 DEF UnlockCall, BackToSelect
  <2> QED BY <1>1, <2>1, <2>2, <2>3, <2>4, <2>5, <2>6, <2>7, <2>8 DEF MainStep
<1>2. CASE RecvWant
  BY <1>2 DEF RecvWant, Decide, Typed, TypeOK
<1>3. CASE RecvAfterSwitch \/ RecvClosed \/ Notified \/ Hup \/ Stop
  BY <1>3 DEF RecvAfterSwitch, RecvClosed, Notified, Hup, Stop, Restart
<1>4. CASE \E d \in Macs : MonitorStep(d)
  BY <1>4 DEF MonitorStep, Open, PollDevice, Publish, Send
<1>5. CASE ZombiePublish \/ WatcherStep \/ WebNotify \/ WatchDies \/ Switch \/ Manual
             \/ WebPut \/ WebEdit \/ UNCHANGED vars
  BY <1>5 DEF ZombiePublish, WatcherStep, Subscribe, WatchLook, WatchStore, WebNotify,
     WatchDies, Switch, Manual, WebPut, WebEdit, vars
<1> QED BY <1>1, <1>2, <1>3, <1>4, <1>5 DEF Next, Recv, EnvStep

LEMMA AlwaysBelief == Spec => []Belief
BY InitBelief, NextBelief, AlwaysTyped, PTL DEF Spec

\* was_near is what the wants of the devices say, whatever logind answers.
THEOREM BeliefIsRight == Spec => []BeliefMatchesWants
<1>1. Belief => BeliefMatchesWants
  BY DEF Belief
<1> QED BY <1>1, AlwaysBelief, PTL

\* Only the two calls of the controller make the daemon change a lock.
LEMMA OnlyCallsLock ==
  ASSUME Next, NEW u \in Users, locked'[u] # locked[u], pc' # pc
  PROVE  LockCall \/ UnlockCall
BY DEF Next, MainStep, Boot, ReadConfig, Wait, Spawn, Reset, LockLook, Wake, UnlockLook,
   Recv, RecvAfterSwitch, RecvWant, RecvClosed, Notified, Hup, Stop, MonitorStep, Open,
   PollDevice, Publish, Send, ZombiePublish, WatcherStep, Subscribe, WatchLook, WatchStore,
   WebNotify, EnvStep, WatchDies, Switch, Manual, WebPut, WebEdit

\* A session is locked or unlocked for all the devices of its own user.
THEOREM LocksForOwner == Spec => ActsForOwner
<1>1. ASSUME Typed, Belief, [Next]_vars
      PROVE  [ \A u \in Users :
                 locked'[u] # locked[u] /\ pc' # pc =>
                   /\ mode # "PamOnly"
                   /\ DOMAIN wants # {} /\ DOMAIN wants = Mine(cfg, u)
                   /\ locked'[u] = ~AnyUnlock(wants) ]_vars
  <2>1. CASE UNCHANGED vars
    BY <2>1
  <2>2. ASSUME Next, NEW u \in Users, locked'[u] # locked[u], pc' # pc
        PROVE  /\ mode # "PamOnly"
               /\ DOMAIN wants # {} /\ DOMAIN wants = Mine(cfg, u)
               /\ locked'[u] = ~AnyUnlock(wants)
    <3>1. CASE LockCall
      <4>1. pc = "lockcall" /\ locked' = [locked EXCEPT ![cur] = TRUE] /\ u = cur
        BY <1>1, <2>2, <3>1 DEF LockCall, Typed, TypeOK
      <4>2. mode # "PamOnly" /\ ~AnyUnlock(wants)
        BY <1>1, <4>1 DEF Belief, BeliefMatchesWants, PamHandsOff
      <4>3. DOMAIN wants # {} /\ DOMAIN wants = Mine(cfg, u)
        BY <1>1, <4>1 DEF Typed, MonitorsAreOwners, Monitoring
      <4>4. locked'[u] = TRUE
        BY <1>1, <4>1 DEF Typed, TypeOK
      <4> QED BY <4>2, <4>3, <4>4
    <3>2. CASE UnlockCall
      <4>1. pc = "unlockcall" /\ locked' = [locked EXCEPT ![cur] = FALSE] /\ u = cur
        BY <1>1, <2>2, <3>2 DEF UnlockCall, Typed, TypeOK
      <4>2. mode # "PamOnly" /\ AnyUnlock(wants)
        BY <1>1, <4>1 DEF Belief, BeliefMatchesWants, PamHandsOff
      <4>3. DOMAIN wants # {} /\ DOMAIN wants = Mine(cfg, u)
        BY <1>1, <4>1 DEF Typed, MonitorsAreOwners, Monitoring
      <4>4. locked'[u] = FALSE
        BY <1>1, <4>1 DEF Typed, TypeOK
      <4> QED BY <4>2, <4>3, <4>4
    <3> QED BY <2>2, <3>1, <3>2, OnlyCallsLock
  <2> QED BY <1>1, <2>1, <2>2
<1> QED BY <1>1, AlwaysTyped, AlwaysBelief, PTL DEF Spec, ActsForOwner

------------------------------------------------------------------------------
(* Edits of the configuration.                                             *)

\* A stale device list always has a notification coming: only ReadConfig
\* and the web handlers move the two lists apart or together, and only Notified
\* takes the permit, on its way to ReadConfig.
LEMMA NextEdit == Typed /\ EditNotLost /\ [Next]_vars => EditNotLost'
<1> SUFFICES ASSUME Typed, EditNotLost, [Next]_vars PROVE EditNotLost'
  OBVIOUS
<1> USE DEF EditNotLost
<1>0. owed \in Nat /\ permit \in BOOLEAN
  BY DEF Typed, TypeOK
<1>1. CASE MainStep
  BY <1>1 DEF MainStep, Boot, ReadConfig, Wait, Spawn, Reset, LockLook, LockCall, Wake,
     UnlockLook, UnlockCall
<1>2. CASE Recv \/ Notified \/ Hup \/ Stop
  BY <1>2 DEF Recv, RecvAfterSwitch, RecvWant, RecvClosed, Notified, Hup, Stop, Restart
<1>3. CASE \E d \in Macs : MonitorStep(d)
  BY <1>3 DEF MonitorStep, Open, PollDevice, Publish, Send
<1>4. CASE WebEdit \/ WebPut \/ WebNotify
  <2>1. CASE WebPut
    <3>1. PICK tells \in BOOLEAN :
            /\ tells \in Differ(DOMAIN live, DOMAIN live')
            /\ owed' = IF tells THEN owed + 1 ELSE owed
      BY <2>1 DEF WebPut, Differ
    <3>2. tells \/ DOMAIN live' = DOMAIN live
      BY <3>1 DEF Differ
    <3> QED BY <1>0, <2>1, <3>1, <3>2 DEF WebPut
  <2> QED BY <1>0, <1>4, <2>1 DEF WebEdit, WebNotify
<1>5. CASE ZombiePublish \/ WatcherStep \/ WatchDies \/ Switch \/ Manual \/ UNCHANGED vars
  BY <1>5 DEF ZombiePublish, WatcherStep, Subscribe, WatchLook, WatchStore,
     WatchDies, Switch, Manual, vars
<1> QED BY <1>1, <1>2, <1>3, <1>4, <1>5 DEF Next, EnvStep

\* No device added or removed goes unnoticed, however busy the loop is.
THEOREM EditsReachTheLoop == Spec => []EditNotLost
<1>1. Init => EditNotLost
  BY DEF Init, EditNotLost
<1> QED BY <1>1, NextEdit, AlwaysTyped, PTL DEF Spec

------------------------------------------------------------------------------
(* The counters of the monitors.                                           *)

\* A phase of a monitor with settings q, short of the count that ends it.
InTime(q, f) ==
  /\ f.name = "Near" => f.count < q.lock
  /\ f.name = "Far" => f.count < IF q.unlock >= 2 THEN q.unlock ELSE 2
  /\ f.name = "Disconnected" => f.count = 0

AllInTime == \A d \in Macs : InTime(Prox[d], task[d].ph)

LEMMA TransitionInTime ==
  ASSUME NEW q \in Profile, NEW f \in Phase, NEW r \in Reading, InTime(q, f)
  PROVE  InTime(q, PhaseAfter(q, f, r))
<1>0. /\ f.name \in PhaseName /\ f.count \in Nat
      /\ q.lock \in Nat \ {0} /\ q.unlock \in Nat \ {0}
  BY DEF Phase, Profile
<1>1. CASE r = "lost"
  BY <1>1 DEF PhaseAfter, Disconnected, InTime
<1>2. CASE r # "lost" /\ f.name = "Near"
  BY <1>0, <1>2 DEF PhaseAfter, FromNear, MovesAway, Near, Far, InTime, Reading
<1>3. CASE r # "lost" /\ f.name = "Far"
  BY <1>0, <1>3 DEF PhaseAfter, FromFar, MovesBack, Near, Far, InTime, Reading
<1>4. CASE r # "lost" /\ f.name = "Disconnected"
  BY <1>0, <1>4 DEF PhaseAfter, FromDisconnected, Far, InTime
<1> QED BY <1>0, <1>1, <1>2, <1>3, <1>4 DEF PhaseName

\* A monitor begins with nothing counted.
LEMMA FreshInTime ==
  ASSUME NEW d \in Macs
  PROVE  InTime(Prox[d], NewTask.ph) /\ InTime(Prox[d], NoTask.ph)
<1>1. Prox[d].lock \in Nat \ {0}
  BY DEF Profile
<1> QED BY <1>1 DEF NewTask, NoTask, NewPhase, Near, InTime

LEMMA NextInTime ==
  ASSUME Typed, AllInTime, [Next]_vars
  PROVE  AllInTime'
<1>0. task \in [Macs -> Monitor]
  BY DEF Typed, TypeOK
<1>1. CASE \E d \in Macs : PollDevice(d)
  <2>1. PICK d \in Macs, r \in Reading :
          task' = [task EXCEPT ![d] = [pc  |-> "publish",
                                       ph  |-> PhaseAfter(Prox[d], task[d].ph, r),
                                       act |-> ActionOf(Prox[d], task[d].ph, r)]]
    BY <1>1 DEF PollDevice
  <2>2. InTime(Prox[d], PhaseAfter(Prox[d], task[d].ph, r))
    BY <1>0, TransitionInTime DEF AllInTime
  <2>3. task'[d].ph = PhaseAfter(Prox[d], task[d].ph, r)
    BY <1>0, <2>1
  <2>4. \A e \in Macs : e # d => task'[e] = task[e]
    BY <1>0, <2>1
  <2> QED BY <2>2, <2>3, <2>4 DEF AllInTime
<1>2. CASE \E d \in Macs : Open(d) \/ Publish(d) \/ Send(d)
  <2>1. \A e \in Macs : task'[e].ph = task[e].ph
    BY <1>0, <1>2 DEF Open, Publish, Send
  <2> QED BY <2>1 DEF AllInTime
<1>3. CASE Spawn \/ RecvAfterSwitch \/ RecvClosed \/ Notified \/ Hup \/ Stop
  <2>1. \A e \in Macs : task'[e].ph \in {NewTask.ph, NoTask.ph}
    BY <1>3 DEF Spawn, RecvAfterSwitch, RecvClosed, Notified, Hup, Stop, Restart, NewTask,
       NoTask
  <2> QED BY <2>1, FreshInTime DEF AllInTime
<1>4. CASE UNCHANGED task
  BY <1>4 DEF AllInTime
<1>5. CASE \/ Boot \/ ReadConfig \/ Wait \/ Reset \/ LockLook \/ LockCall \/ Wake
           \/ UnlockLook \/ UnlockCall \/ RecvWant \/ ZombiePublish \/ WatcherStep
           \/ WebNotify \/ WatchDies \/ Switch \/ Manual \/ WebPut \/ WebEdit
           \/ UNCHANGED vars
  <2>1. UNCHANGED task
    BY <1>5 DEF Boot, ReadConfig, Wait, Reset, LockLook, LockCall, Wake, UnlockLook,
       UnlockCall, RecvWant, ZombiePublish, WatcherStep, Subscribe, WatchLook, WatchStore,
       WebNotify, WatchDies, Switch, Manual, WebPut, WebEdit, vars
  <2> QED BY <2>1, <1>4
<1> QED BY <1>1, <1>2, <1>3, <1>5 DEF Next, MainStep, Recv, MonitorStep, EnvStep

\* Beside all else that goes on in the daemon no monitor stays in a phase
\* whose run of readings is complete: a near device has had fewer than
\* lock_count far readings in a row, one that is away fewer than unlock_count
\* near ones (or one, the reading that restored its connection), for restarts
\* start the monitors and their counters together.
THEOREM CountersInPlace == Spec => []AllInTime
<1>1. Init => AllInTime
  BY FreshInTime DEF Init, AllInTime
<1> QED BY <1>1, NextInTime, AlwaysTyped, PTL DEF Spec

------------------------------------------------------------------------------
(* The latest action of each monitor.                                      *)

\* An action that is asked for fits the phase it comes with, and one that
\* fitted the phase before still does when nothing is asked for.
LEMMA TransitionFits ==
  ASSUME NEW d \in Macs, NEW f \in Phase, NEW r \in Reading, NEW a \in Action,
         IF ActionOf(Prox[d], f, r) # "None" THEN a = ActionOf(Prox[d], f, r)
                                             ELSE Fits(d, f.name, a)
  PROVE  Fits(d, PhaseAfter(Prox[d], f, r).name, a)
<1> DEFINE q == Prox[d]
<1>0. q \in Profile /\ f.name \in PhaseName /\ f.count \in Nat /\ q.disc \in Action
      /\ q.lock \in Nat /\ q.unlock \in Nat
  BY DEF Phase, Profile
<1> HIDE DEF q
<1> USE DEF Fits, PhaseAfter, ActionOf, Disconnected, Near, Far
<1>1. CASE r = "lost"
  BY <1>0, <1>1 DEF MovesAway, MovesBack, PhaseName, Action, q
<1>2. CASE r # "lost" /\ f.name = "Near"
  BY <1>0, <1>2 DEF FromNear, MovesAway, MovesBack, Reading, q
<1>3. CASE r # "lost" /\ f.name = "Far"
  BY <1>0, <1>3 DEF FromFar, MovesAway, MovesBack, Reading, q
<1>4. CASE r # "lost" /\ f.name = "Disconnected"
  BY <1>0, <1>4 DEF FromDisconnected, MovesAway, MovesBack, q
<1> QED BY <1>0, <1>1, <1>2, <1>3, <1>4 DEF PhaseName

\* The invariant for one device whose part of the state a step leaves alone.
LEMMA NewestUntouched ==
  ASSUME NEW d \in Macs, NEW a \in Action,
         IsNewest(d, a) => Fits(d, task[d].ph.name, a),
         task'[d] = task[d], wants'[d] = wants[d], chan' = chan,
         IsNewest(d, a)'
  PROVE  Fits(d, task'[d].ph.name, a)
BY DEF IsNewest, Unsent, At

LEMMA InitNewest == Init => NewestWantFitsPhase
BY DEF Init, Empty, NewestWantFitsPhase

LEMMA SpawnNewest ==
  ASSUME Typed, NewestWantFitsPhase, Spawn
  PROVE  NewestWantFitsPhase'
<1>1. DOMAIN chan' = {}
  BY DEF Spawn, Typed, TypeOK, MonitorsAreOwners, Monitoring
<1>2. \A d \in DOMAIN wants' : wants'[d] = "Unlock" /\ task'[d] = NewTask
  BY MineFacts DEF Spawn, Typed, TypeOK
<1> QED BY <1>1, <1>2
        DEF NewestWantFitsPhase, IsNewest, Unsent, At, NewTask, NewPhase, Near, Fits

\* Taking a message out of the channel makes it the one that is kept.
LEMMA RecvNewest ==
  ASSUME Typed, NewestWantFitsPhase, RecvWant
  PROVE  NewestWantFitsPhase'
<1> DEFINE m == Head(chan)
<1>1. /\ chan \in Seq(Message) /\ chan # <<>> /\ chan' = Tail(chan)
      /\ wants' = [wants EXCEPT ![m.mac] = m.act] /\ task' = task
      /\ m.mac \in DOMAIN wants /\ DOMAIN wants \subseteq Macs
      /\ m = chan[1] /\ m \in Message
  <2>1. /\ chan \in Seq(Message) /\ chan # <<>> /\ chan' = Tail(chan)
        /\ wants' = [wants EXCEPT ![m.mac] = m.act] /\ task' = task
    BY DEF RecvWant, Decide, Typed, TypeOK
  <2>2. m = chan[1] /\ m \in Message /\ 1 \in DOMAIN chan
    BY <2>1, TailFacts
  <2>3. m.mac \in DOMAIN wants
    BY <2>2 DEF Typed, MonitorsAreOwners
  <2>4. DOMAIN wants \subseteq Macs
    BY MineFacts DEF Typed, TypeOK, MonitorsAreOwners
  <2> QED BY <2>1, <2>2, <2>3, <2>4
<1>2. DOMAIN wants' = DOMAIN wants
  BY <1>1
<1> SUFFICES ASSUME NEW d \in DOMAIN wants, NEW a \in Action, IsNewest(d, a)'
             PROVE  Fits(d, task[d].ph.name, a)
  BY <1>1, <1>2 DEF NewestWantFitsPhase
<1>3. IsNewest(d, a)
  <2>0. Unsent(d)' <=> Unsent(d)
    BY <1>1 DEF Unsent, At
  <2>1. CASE Unsent(d)
    BY <1>1, <2>0, <2>1 DEF IsNewest
  <2>2. CASE ~Unsent(d) /\ \E i \in DOMAIN chan' :
                  /\ chan'[i] = [mac |-> d, act |-> a]
                  /\ \A j \in DOMAIN chan' : j > i => chan'[j].mac # d
    <3>1. PICK i \in DOMAIN chan' : /\ chan'[i] = [mac |-> d, act |-> a]
                                   /\ \A j \in DOMAIN chan' : j > i => chan'[j].mac # d
      BY <2>2
    <3>2. i + 1 \in DOMAIN chan /\ chan[i + 1] = [mac |-> d, act |-> a] /\ i \in Nat
      BY <1>1, <3>1, TailFacts
    <3>3. ASSUME NEW j \in DOMAIN chan, j > i + 1 PROVE chan[j].mac # d
      <4>1. j - 1 \in DOMAIN chan' /\ chan'[j - 1] = chan[j] /\ j - 1 > i
        BY <1>1, <3>1, <3>2, <3>3, TailFacts
      <4> QED BY <3>1, <4>1
    <3> QED BY <2>2, <3>2, <3>3 DEF IsNewest
  <2>3. CASE ~Unsent(d) /\ (\A i \in DOMAIN chan' : chan'[i].mac # d) /\ a = wants'[d]
    <3>1. ASSUME NEW j \in DOMAIN chan, j > 1 PROVE chan[j].mac # d
      <4>1. j - 1 \in DOMAIN chan' /\ chan'[j - 1] = chan[j]
        BY <1>1, <3>1, TailFacts
      <4> QED BY <2>3, <4>1
    <3>2. 1 \in DOMAIN chan
      BY <1>1, TailFacts
    <3>3. CASE d = m.mac
      <4>1. a = m.act /\ chan[1] = [mac |-> d, act |-> a]
        BY <1>1, <2>3, <3>3 DEF Message
      <4> QED BY <2>3, <3>1, <3>2, <4>1 DEF IsNewest
    <3>4. CASE d # m.mac
      <4>1. \A j \in DOMAIN chan : chan[j].mac # d
        <5>1. \A j \in DOMAIN chan : j = 1 \/ j > 1
          BY <1>1, TailFacts
        <5> QED BY <1>1, <3>1, <3>4, <5>1
      <4> QED BY <1>1, <2>3, <3>4, <4>1 DEF IsNewest
    <3> QED BY <3>3, <3>4
  <2> QED BY <2>0, <2>1, <2>2, <2>3 DEF IsNewest
<1> QED BY <1>3 DEF NewestWantFitsPhase

LEMMA PollNewest ==
  ASSUME Typed, NewestWantFitsPhase, NEW d \in Macs, PollDevice(d)
  PROVE  NewestWantFitsPhase'
<1>1. PICK r \in Reading :
        task' = [task EXCEPT ![d] = [pc  |-> "publish",
                                     ph  |-> PhaseAfter(Prox[d], task[d].ph, r),
                                     act |-> ActionOf(Prox[d], task[d].ph, r)]]
  BY DEF PollDevice
<1>2. wants' = wants /\ chan' = chan /\ DOMAIN wants \subseteq Macs /\ ~Unsent(d)
  BY MineFacts DEF PollDevice, Typed, TypeOK, MonitorsAreOwners, Unsent, At
<1> SUFFICES ASSUME NEW e \in DOMAIN wants, NEW a \in Action, IsNewest(e, a)'
             PROVE  Fits(e, task'[e].ph.name, a)
  BY <1>2 DEF NewestWantFitsPhase
<1>3. CASE e # d
  BY <1>1, <1>2, <1>3, NewestUntouched DEF NewestWantFitsPhase, Typed, TypeOK
<1>4. CASE e = d
  <2>1. /\ task[d].ph \in Phase
        /\ task'[d].pc = "publish"
        /\ task'[d].ph = PhaseAfter(Prox[d], task[d].ph, r)
        /\ task'[d].act = ActionOf(Prox[d], task[d].ph, r)
    BY <1>1 DEF Typed, TypeOK
  <2>2. CASE task'[d].act # "None"
    <3>1. a = task'[d].act
      BY <1>4, <2>1, <2>2 DEF IsNewest, Unsent, At
    <3> QED BY <1>4, <2>1, <2>2, <3>1, TransitionFits
  <2>3. CASE task'[d].act = "None"
    <3>1. IsNewest(d, a)
      BY <1>2, <1>4, <2>1, <2>3 DEF IsNewest, Unsent, At
    <3>2. Fits(d, task[d].ph.name, a)
      BY <1>4, <3>1 DEF NewestWantFitsPhase
    <3> QED BY <1>4, <2>1, <2>3, <3>2, TransitionFits
  <2> QED BY <2>2, <2>3
<1> QED BY <1>3, <1>4

\* Opening and publishing change neither the phase nor what is on its way.
LEMMA MoveNewest ==
  ASSUME Typed, NewestWantFitsPhase, NEW d \in Macs, Open(d) \/ Publish(d)
  PROVE  NewestWantFitsPhase'
<1>1. /\ wants' = wants /\ chan' = chan /\ DOMAIN wants \subseteq Macs
      /\ \A e \in Macs : e # d => task'[e] = task[e]
  BY MineFacts DEF Open, Publish, Typed, TypeOK, MonitorsAreOwners
<1>2. task'[d].ph = task[d].ph /\ task'[d].act = task[d].act
  BY DEF Open, Publish, Typed, TypeOK
<1>3. Unsent(d)' <=> Unsent(d)
  BY DEF Open, Publish, Typed, TypeOK, Unsent, At
<1> SUFFICES ASSUME NEW e \in DOMAIN wants, NEW a \in Action, IsNewest(e, a)'
             PROVE  Fits(e, task'[e].ph.name, a)
  BY <1>1 DEF NewestWantFitsPhase
<1>4. CASE e # d
  BY <1>1, <1>4, NewestUntouched DEF NewestWantFitsPhase
<1>5. CASE e = d
  <2>1. IsNewest(d, a)
    BY <1>1, <1>2, <1>3, <1>5 DEF IsNewest
  <2> QED BY <1>2, <1>5, <2>1 DEF NewestWantFitsPhase
<1> QED BY <1>4, <1>5

\* A message sent is the last one in the channel.
LEMMA SendNewest ==
  ASSUME Typed, NewestWantFitsPhase, NEW d \in Macs, Send(d)
  PROVE  NewestWantFitsPhase'
<1> DEFINE m == [mac |-> d, act |-> task[d].act]
           n == Len(chan) + 1
<1>1. /\ wants' = wants /\ chan' = Append(chan, m) /\ DOMAIN wants \subseteq Macs
      /\ chan \in Seq(Message) /\ m \in Message
      /\ \A e \in Macs : e # d => task'[e] = task[e]
  BY MineFacts DEF Send, Typed, TypeOK, MonitorsAreOwners, Message, At, Action
<1>2. task'[d].ph = task[d].ph /\ Unsent(d) /\ ~Unsent(d)'
  BY DEF Send, Typed, TypeOK, Unsent, At
<1>3. /\ n \in DOMAIN chan' /\ chan'[n] = m
      /\ \A i \in DOMAIN chan' : i = n \/ (i \in DOMAIN chan /\ chan'[i] = chan[i] /\ i < n)
      /\ DOMAIN chan \subseteq DOMAIN chan'
  BY <1>1, AppendFacts
<1> HIDE DEF n
<1> SUFFICES ASSUME NEW e \in DOMAIN wants, NEW a \in Action, IsNewest(e, a)'
             PROVE  Fits(e, task'[e].ph.name, a)
  BY <1>1 DEF NewestWantFitsPhase
<1>4. CASE e = d
  <2>1. a = task[d].act
    BY <1>2, <1>3, <1>4 DEF IsNewest
  <2>2. IsNewest(d, a)
    BY <1>2, <2>1 DEF IsNewest
  <2> QED BY <1>2, <1>4, <2>2 DEF NewestWantFitsPhase
<1>5. CASE e # d
  <2>0. task'[e] = task[e] /\ (Unsent(e)' <=> Unsent(e))
    BY <1>1, <1>5 DEF Unsent, At
  <2>1. CASE Unsent(e)
    BY <2>0, <2>1 DEF IsNewest, NewestWantFitsPhase
  <2>2. CASE ~Unsent(e) /\ \E i \in DOMAIN chan' :
                  /\ chan'[i] = [mac |-> e, act |-> a]
                  /\ \A j \in DOMAIN chan' : j > i => chan'[j].mac # e
    <3>1. PICK i \in DOMAIN chan' : /\ chan'[i] = [mac |-> e, act |-> a]
                                   /\ \A j \in DOMAIN chan' : j > i => chan'[j].mac # e
      BY <2>2
    <3>2. i \in DOMAIN chan /\ chan[i] = [mac |-> e, act |-> a]
      BY <1>3, <1>5, <3>1
    <3>3. \A j \in DOMAIN chan : j > i => chan[j].mac # e
      BY <1>1, <1>3, <3>1, AppendFacts
    <3>4. IsNewest(e, a)
      BY <2>2, <3>2, <3>3 DEF IsNewest
    <3> QED BY <2>0, <3>4 DEF NewestWantFitsPhase
  <2>3. CASE ~Unsent(e) /\ (\A i \in DOMAIN chan' : chan'[i].mac # e) /\ a = wants'[e]
    <3>1. \A i \in DOMAIN chan : chan[i].mac # e
      BY <1>1, <2>3, AppendFacts
    <3>2. IsNewest(e, a)
      BY <1>1, <2>3, <3>1 DEF IsNewest
    <3> QED BY <2>0, <3>2 DEF NewestWantFitsPhase
  <2> QED BY <2>0, <2>1, <2>2, <2>3 DEF IsNewest
<1> QED BY <1>4, <1>5

\* The steps that touch neither the monitors nor the channel nor the wants.
LEMMA QuietNewest ==
  ASSUME NewestWantFitsPhase, UNCHANGED <<task, chan, wants>>
  PROVE  NewestWantFitsPhase'
BY DEF NewestWantFitsPhase, IsNewest, Unsent, At

LEMMA NextNewest == Typed /\ NewestWantFitsPhase /\ [Next]_vars => NewestWantFitsPhase'
<1> SUFFICES ASSUME Typed, NewestWantFitsPhase, [Next]_vars PROVE NewestWantFitsPhase'
  OBVIOUS
<1>1. CASE Boot \/ ReadConfig \/ Wait \/ Reset \/ LockLook \/ LockCall \/ Wake
             \/ UnlockLook \/ UnlockCall
  BY <1>1, QuietNewest DEF Boot, ReadConfig, Wait, Reset, LockLook, LockCall, Wake,
     UnlockLook, UnlockCall
<1>2. CASE ZombiePublish \/ WatcherStep \/ WebNotify \/ WatchDies \/ Switch \/ Manual
             \/ WebPut \/ WebEdit \/ UNCHANGED vars
  BY <1>2, QuietNewest DEF ZombiePublish, WatcherStep, Subscribe, WatchLook, WatchStore,
     WebNotify, WatchDies, Switch, Manual, WebPut, WebEdit, vars
<1>3. CASE RecvAfterSwitch \/ RecvClosed \/ Notified \/ Hup \/ Stop
  BY <1>3 DEF RecvAfterSwitch, RecvClosed, Notified, Hup, Stop, Restart, Empty,
     NewestWantFitsPhase
<1>4. CASE Spawn
  BY <1>4, SpawnNewest
<1>5. CASE RecvWant
  BY <1>5, RecvNewest
<1>6. CASE \E d \in Macs : MonitorStep(d)
  BY <1>6, PollNewest, MoveNewest, SendNewest DEF MonitorStep
<1> QED BY <1>1, <1>2, <1>3, <1>4, <1>5, <1>6 DEF Next, MainStep, Recv, EnvStep

\* Nothing a monitor said last is lost or overtaken on the way to the loop.
THEOREM NewestIsRight == Spec => []NewestWantFitsPhase
BY InitNewest, NextNewest, AlwaysTyped, PTL DEF Spec

------------------------------------------------------------------------------
(* End to end.  A run names what the environment may do; here it may do    *)
(* anything but come between the daemon's decision and its session.        *)

\* logind finds the session and locks it, the seat stays with its user, and
\* nobody else touches the lock.  Edits, reloads, failed unlocks, monitors
\* that cannot open their socket and a dead watcher are all allowed.
LocksObeyed == Env \intersect {"findFails", "lockFails", "switch", "manual"} = {}

\* The user of the seat is the one that the watcher knows of, if any, and the
\* one being monitored, if any.
SeatKept ==
  /\ activeUid \in {NoUid, seat} /\ watch.found \in {NoUid, seat}
  /\ Monitoring => cur = seat

\* As long as the loop takes its user to be away, the session is locked.
LeftIsLocked == Monitoring /\ ~wasNear => locked[cur]

LEMMA InitSeat == Init => SeatKept /\ LeftIsLocked
BY DEF Init, SeatKept, LeftIsLocked, Monitoring

\* Who is monitored has a uid, for the configuration gives him a device.
LEMMA MonitoredUser ==
  ASSUME Typed, Monitoring
  PROVE  cur \in Users
BY MineFacts DEF Typed, TypeOK, MonitorsAreOwners

LEMMA NextSeat ==
  ASSUME Env \intersect {"findFails", "switch"} = {}, Typed, SeatKept, [Next]_vars
  PROVE  SeatKept'
<1> USE DEF SeatKept, Monitoring
<1>0. ~Spend("findFails") /\ ~Spend("switch") /\ watch \in Watcher
  BY DEF Spend, Typed, TypeOK
<1>1. CASE Spawn
  <2>1. activeUid \in Users
    BY <1>1, MineFacts DEF Spawn, Typed, TypeOK
  <2> QED BY <1>1, <2>1 DEF Spawn
<1>2. CASE MainStep /\ ~Spawn
  BY <1>0, <1>2 DEF MainStep, Boot, ReadConfig, Wait, Reset, LockLook, LockCall, Wake,
     UnlockLook, UnlockCall, BackToSelect
<1>3. CASE Recv \/ Notified \/ Hup \/ Stop
  BY <1>0, <1>3 DEF Recv, RecvAfterSwitch, RecvWant, RecvClosed, Notified, Hup, Stop, Restart, Decide
<1>4. CASE \E d \in Macs : MonitorStep(d)
  BY <1>4 DEF MonitorStep, Open, PollDevice, Publish, Send
<1>5. CASE WatcherStep
  BY <1>0, <1>5 DEF WatcherStep, Subscribe, WatchLook, WatchStore
<1>6. CASE ZombiePublish \/ WebNotify \/ WatchDies \/ Switch \/ Manual
             \/ WebPut \/ WebEdit \/ UNCHANGED vars
  BY <1>0, <1>6 DEF ZombiePublish, WebNotify, WatchDies, Switch, Manual, WebPut, WebEdit, vars
<1> QED BY <1>1, <1>2, <1>3, <1>4, <1>5, <1>6 DEF Next, EnvStep

LEMMA NextLeft ==
  ASSUME LocksObeyed, Typed, SeatKept, LeftIsLocked, [Next]_vars
  PROVE  LeftIsLocked'
<1> USE DEF LeftIsLocked, Monitoring
<1>0. ~Spend("findFails") /\ ~Spend("lockFails") /\ ~Spend("manual") /\ ~Spend("switch")
  BY DEF Spend, LocksObeyed
<1>1. CASE LockCall
  <2>1. cur \in Users /\ cur' = cur
    BY <1>1, MonitoredUser DEF LockCall
  <2>2. locked' = [locked EXCEPT ![cur] = TRUE]
    BY <1>0, <1>1 DEF LockCall
  <2>3. locked'[cur'] = TRUE
    BY <2>1, <2>2 DEF Typed, TypeOK
  <2> QED BY <2>3
<1>2. CASE UnlockCall \/ UnlockLook \/ Spawn
  <2>1. CASE wasNear'
    BY <2>1
  <2>2. CASE ~wasNear'
    BY <1>0, <1>2, <2>2 DEF UnlockCall, UnlockLook, Spawn, BackToSelect
  <2> QED BY <2>1, <2>2
<1>3. CASE LockLook
  BY <1>0, <1>3 DEF LockLook, SeatKept
<1>4. CASE Boot \/ ReadConfig \/ Wait \/ Reset \/ Wake
  BY <1>4 DEF Boot, ReadConfig, Wait, Reset, Wake
<1>5. CASE Recv \/ Notified \/ Hup \/ Stop
  BY <1>5 DEF Recv, RecvAfterSwitch, RecvWant, RecvClosed, Notified, Hup, Stop, Restart, Decide
<1>6. CASE \E d \in Macs : MonitorStep(d)
  BY <1>6 DEF MonitorStep, Open, PollDevice, Publish, Send
<1>7. CASE ZombiePublish \/ WatcherStep \/ WebNotify \/ WatchDies \/ Switch \/ Manual
             \/ WebPut \/ WebEdit \/ UNCHANGED vars
  BY <1>0, <1>7 DEF ZombiePublish, WatcherStep, Subscribe, WatchLook, WatchStore, WebNotify,
     WatchDies, Switch, Manual, WebPut, WebEdit, vars
<1> QED BY <1>1, <1>2, <1>3, <1>4, <1>5, <1>6, <1>7 DEF Next, MainStep, EnvStep

\* When nothing is on its way, what a device wants fits its phase.
LEMMA SettledFits ==
  ASSUME Typed, NewestWantFitsPhase, Settled, NEW d \in DOMAIN wants
  PROVE  /\ Fits(d, task[d].ph.name, wants[d])
         /\ wants[d] \in {"Lock", "Unlock"} /\ task[d].ph.name \in PhaseName
<1>1. d \in Macs /\ wants[d] \in {"Lock", "Unlock"}
  <2>1. pc = "select"
    BY DEF Settled
  <2> QED BY <2>1, MineFacts DEF Typed, TypeOK, MonitorsAreOwners, Monitoring
<1>2. task[d].ph.name \in PhaseName
  BY <1>1 DEF Typed, TypeOK, Phase
<1>3. IsNewest(d, wants[d])
  <2>1. ~Unsent(d) /\ DOMAIN chan = {}
    BY DEF Settled, Unsent, At
  <2> QED BY <2>1 DEF IsNewest
<1> QED BY <1>1, <1>2, <1>3 DEF NewestWantFitsPhase, Action

\* All devices away and set to lock when lost: the session is locked.  The
\* whole chain, from the transitions of proximity.rs over the channel and the
\* edge detection of main.rs to the call of Lock, through any edits and reloads.
THEOREM AwayLocked ==
  ASSUME LocksObeyed
  PROVE  Spec => []AwayIsLocked
<1>1. Typed /\ SeatKept /\ LeftIsLocked /\ [Next]_vars => (SeatKept /\ LeftIsLocked)'
  BY NextSeat, NextLeft DEF LocksObeyed
<1>2. Typed /\ Belief /\ NewestWantFitsPhase /\ LeftIsLocked => AwayIsLocked
  <2> SUFFICES ASSUME Typed, Belief, NewestWantFitsPhase, LeftIsLocked,
                      Settled, mode # "PamOnly", LockOnLoss, AllAway
               PROVE  locked[cur]
    BY DEF AwayIsLocked
  <2>1. ASSUME NEW d \in DOMAIN wants PROVE wants[d] = "Lock"
    BY <2>1, SettledFits DEF Fits, LockOnLoss, AllAway, PhaseName
  <2>2. ~AnyUnlock(wants) /\ pc = "select"
    BY <2>1 DEF AnyUnlock, Settled
  <2>3. ~wasNear
    BY <2>2 DEF Belief, BeliefMatchesWants
  <2> QED BY <2>2, <2>3 DEF LeftIsLocked, Monitoring
<1> QED BY <1>1, <1>2, InitSeat, AlwaysTyped, AlwaysBelief, NewestIsRight, PTL DEF Spec

\* What may happen here ends no iteration but by its monitors' exit: the
\* socket of a monitor, a call of Lock and the watcher may fail, and the
\* daemon may be stopped.  A restart would forget that the session is locked.
UnlocksObeyed == Env \subseteq {"openFails", "lockFails", "watchDies", "stop"}

\* The watcher never hears a thing, and no edit is announced.
NothingNew ==
  /\ ~permit /\ owed = 0
  /\ signals = 0 /\ watch.pc # "storing"
  /\ Monitoring => activeUid = cur

\* A monitor that has not polled yet, or never will, has said nothing.
SilentAtFirst ==
  \A d \in DOMAIN wants : task[d].pc \in {"start", "exited"} =>
    wants[d] = "Unlock" /\ \A i \in DOMAIN chan : chan[i].mac # d

\* No session is locked but the one being monitored, and that one only while
\* the loop takes its user to be away.
LockedOnlyAway ==
  /\ pc # "stopped" => \A u \in Users : locked[u] => Monitoring /\ u = cur /\ ~wasNear
  /\ Monitoring /\ mode = "PamOnly" => wasNear

LEMMA InitQuiet == Init => NothingNew /\ SilentAtFirst /\ LockedOnlyAway
<1> SUFFICES ASSUME Init PROVE NothingNew /\ SilentAtFirst /\ LockedOnlyAway
  OBVIOUS
<1>1. ~permit /\ \A u \in Users : ~locked[u]
  BY DEF Init
<1>2. owed = 0 /\ signals = 0 /\ watch.pc = "off" /\ pc = "boot" /\ DOMAIN wants = {}
  BY DEF Init, Empty
<1> QED BY <1>1, <1>2 DEF NothingNew, SilentAtFirst, LockedOnlyAway, Monitoring

LEMMA NextNothing ==
  ASSUME UnlocksObeyed, Typed, NothingNew, [Next]_vars
  PROVE  NothingNew'
<1> USE DEF NothingNew, Monitoring
<1>0. /\ ~Spend("findFails") /\ ~Spend("switch") /\ ~Spend("edit") /\ ~Spend("put")
      /\ ~Spend("reload") /\ watch \in Watcher
  BY DEF Spend, UnlocksObeyed, Typed, TypeOK
<1>1. CASE Recv \/ Notified \/ Hup
  BY <1>0, <1>1 DEF Recv, RecvAfterSwitch, RecvWant, RecvClosed, Notified, Hup, Restart, Decide
<1>2. CASE Stop
  <2>1. ~permit'
    BY <1>2 DEF Stop
  <2> QED BY <1>0, <1>2, <2>1 DEF Stop
<1>3. CASE MainStep
  BY <1>0, <1>3 DEF MainStep, Boot, ReadConfig, Wait, Spawn, Reset, LockLook, LockCall, Wake,
     UnlockLook, UnlockCall, BackToSelect
<1>4. CASE \E d \in Macs : MonitorStep(d)
  BY <1>4 DEF MonitorStep, Open, PollDevice, Publish, Send
<1>5. CASE ZombiePublish \/ WatcherStep \/ WebNotify \/ WatchDies \/ Switch \/ Manual
             \/ WebPut \/ WebEdit \/ UNCHANGED vars
  BY <1>0, <1>5 DEF ZombiePublish, WatcherStep, Subscribe, WatchLook, WatchStore, WebNotify,
     WatchDies, Switch, Manual, WebPut, WebEdit, vars
<1> QED BY <1>1, <1>2, <1>3, <1>4, <1>5 DEF Next, EnvStep

LEMMA NextSilent ==
  ASSUME Typed, SilentAtFirst, [Next]_vars
  PROVE  SilentAtFirst'
<1> USE DEF SilentAtFirst
<1>0. /\ chan \in Seq(Message) /\ task \in [Macs -> Monitor]
      /\ wants \in [DOMAIN wants -> {"Lock", "Unlock"}] /\ DOMAIN wants \in SUBSET Macs
  BY MineFacts DEF Typed, TypeOK, MonitorsAreOwners
<1>1. CASE Spawn
  <2>1. DOMAIN wants = {}
    BY <1>1 DEF Spawn, Typed, MonitorsAreOwners, Monitoring
  <2>2. DOMAIN chan = {} /\ chan' = chan
    BY <1>1, <2>1 DEF Spawn, Typed, MonitorsAreOwners
  <2>3. \A d \in DOMAIN wants' : wants'[d] = "Unlock"
    BY <1>1 DEF Spawn
  <2> QED BY <2>2, <2>3
<1>2. CASE RecvWant
  <2>1. /\ Head(chan) = chan[1] /\ 1 \in DOMAIN chan
        /\ chan' = Tail(chan) /\ task' = task
        /\ wants' = [wants EXCEPT ![Head(chan).mac] = Head(chan).act]
    BY <1>0, <1>2, TailFacts DEF RecvWant, Decide
  <2>2. \A i \in DOMAIN chan' : i + 1 \in DOMAIN chan /\ chan'[i] = chan[i + 1]
    BY <1>0, <1>2, <2>1, TailFacts DEF RecvWant
  <2>3. DOMAIN wants' = DOMAIN wants
        /\ \A d \in DOMAIN wants : d # chan[1].mac => wants'[d] = wants[d]
    BY <1>0, <2>1
  <2> QED BY <2>1, <2>2, <2>3
<1>3. CASE RecvAfterSwitch \/ RecvClosed \/ Notified \/ Hup \/ Stop
  BY <1>3 DEF RecvAfterSwitch, RecvClosed, Notified, Hup, Stop, Restart, Empty
<1>4. ASSUME NEW e \in Macs, Open(e) \/ PollDevice(e) \/ Publish(e) PROVE SilentAtFirst'
  <2>1. UNCHANGED <<wants, chan>>
    BY <1>4 DEF Open, PollDevice, Publish
  <2>2. \A d \in Macs : task'[d].pc \in {"start", "exited"} => task[d].pc \in {"start", "exited"}
    BY <1>0, <1>4 DEF Open, PollDevice, Publish, At
  <2> QED BY <1>0, <2>1, <2>2
<1>5. ASSUME NEW e \in Macs, Send(e) PROVE SilentAtFirst'
  <2>1. /\ task[e].pc = "send" /\ task[e].act \in {"Lock", "Unlock"}
        /\ chan' = Append(chan, [mac |-> e, act |-> task[e].act]) /\ wants' = wants
    BY <1>0, <1>5 DEF Send, At, Typed, TypeOK, Action
  <2>2. [mac |-> e, act |-> task[e].act] \in Message
    BY <2>1 DEF Message
  <2>3. \A i \in DOMAIN chan' : \/ i \in DOMAIN chan /\ chan'[i] = chan[i]
                              \/ chan'[i].mac = e
    BY <1>0, <2>1, <2>2, AppendFacts
  <2>4. \A d \in Macs : task'[d].pc \in {"start", "exited"} => task[d].pc \in {"start", "exited"} /\ d # e
    BY <1>0, <1>5 DEF Send, At
  <2> QED BY <1>0, <2>1, <2>3, <2>4
<1>6. CASE Boot \/ ReadConfig \/ Wait \/ Reset \/ LockLook \/ LockCall \/ Wake
             \/ UnlockLook \/ UnlockCall
  BY <1>6 DEF Boot, ReadConfig, Wait, Reset, LockLook, LockCall, Wake, UnlockLook, UnlockCall
<1>7. CASE ZombiePublish \/ WatcherStep \/ WebNotify \/ WatchDies \/ Switch \/ Manual
             \/ WebPut \/ WebEdit \/ UNCHANGED vars
  BY <1>7 DEF ZombiePublish, WatcherStep, Subscribe, WatchLook, WatchStore, WebNotify,
     WatchDies, Switch, Manual, WebPut, WebEdit, vars
<1> QED BY <1>1, <1>2, <1>3, <1>4, <1>5, <1>6, <1>7 DEF Next, MainStep, Recv, MonitorStep, EnvStep

LEMMA NextLocked ==
  ASSUME UnlocksObeyed, Typed, Belief, SeatKept, NothingNew, SilentAtFirst, LockedOnlyAway,
         [Next]_vars
  PROVE  LockedOnlyAway'
<1>0. /\ ~Spend("findFails") /\ ~Spend("unlockFails") /\ ~Spend("switch") /\ ~Spend("edit")
      /\ ~Spend("put") /\ ~Spend("reload") /\ ~Spend("manual")
      /\ locked \in [Users -> BOOLEAN]
  BY DEF Spend, UnlocksObeyed, Typed, TypeOK
<1>1. CASE LockCall
  <2>1. /\ pc = "lockcall" /\ pc' = "select" /\ cur' = cur /\ mode' = mode /\ ~wasNear'
        /\ locked' = [locked EXCEPT ![cur] = TRUE] \/ locked' = locked
    BY <1>1 DEF LockCall, BackToSelect
  <2>2. mode # "PamOnly"
    BY <2>1 DEF Belief, PamHandsOff
  <2>3. \A u \in Users : locked'[u] => u = cur \/ locked[u]
    BY <1>0, <2>1
  <2> QED BY <2>1, <2>2, <2>3 DEF LockedOnlyAway, Monitoring
<1>2. CASE UnlockCall
  <2>1. /\ pc = "unlockcall" /\ wasNear'
        /\ locked' = [locked EXCEPT ![cur] = FALSE]
    BY <1>0, <1>2 DEF UnlockCall, BackToSelect
  <2>2. \A u \in Users : u # cur => ~locked[u]
    BY <2>1 DEF LockedOnlyAway
  <2>3. \A u \in Users : ~locked'[u]
    BY <1>0, <2>1, <2>2
  <2> QED BY <2>1, <2>3 DEF LockedOnlyAway
<1>3. CASE LockLook \/ UnlockLook
  <2>1. seat = cur /\ mode # "PamOnly"
    BY <1>3 DEF LockLook, UnlockLook, SeatKept, Monitoring, Belief, PamHandsOff
  <2>2. /\ pc \in {"lock", "unlock"} /\ pc' \in {"lockcall", "unlockcall"}
        /\ UNCHANGED <<wasNear, locked, cur, mode>>
    BY <1>0, <1>3, <2>1 DEF LockLook, UnlockLook
  <2> QED BY <2>1, <2>2 DEF LockedOnlyAway, Monitoring
<1>4. CASE Spawn
  <2>1. \A u \in Users : ~locked'[u]
    BY <1>4 DEF Spawn, LockedOnlyAway, Monitoring
  <2>2. wasNear'
    BY <1>4 DEF Spawn
  <2> QED BY <2>1, <2>2 DEF LockedOnlyAway
<1>5. CASE Boot \/ ReadConfig \/ Wait \/ Reset \/ Wake
  BY <1>5 DEF Boot, ReadConfig, Wait, Reset, Wake, LockedOnlyAway, Monitoring
<1>6. CASE RecvWant
  BY <1>6 DEF RecvWant, Decide, LockedOnlyAway, Monitoring
<1>7. CASE RecvClosed
  <2>1. pc = "select" /\ pc' = "top" /\ locked' = locked
    BY <1>7 DEF RecvClosed, Restart
  <2>2. PICK d \in DOMAIN wants : TRUE
    BY <2>1 DEF Typed, MonitorsAreOwners, Monitoring
  <2>3. wants[d] = "Unlock"
    BY <1>7 DEF RecvClosed, SilentAtFirst
  <2>4. AnyUnlock(wants)
    BY <2>3 DEF AnyUnlock
  <2>5. wasNear
    BY <2>1, <2>4 DEF Belief, BeliefMatchesWants, LockedOnlyAway, Monitoring
  <2> QED BY <2>1, <2>5 DEF LockedOnlyAway, Monitoring
<1>8. CASE RecvAfterSwitch \/ Notified \/ Hup
  BY <1>0, <1>8 DEF RecvAfterSwitch, Notified, Hup, NothingNew, Monitoring
<1>9. CASE Stop
  BY <1>9 DEF Stop, LockedOnlyAway, Monitoring
<1>10. CASE \E d \in Macs : MonitorStep(d)
  BY <1>10 DEF MonitorStep, Open, PollDevice, Publish, Send, LockedOnlyAway, Monitoring
<1>11. CASE ZombiePublish \/ WatcherStep \/ WebNotify \/ WatchDies \/ Switch \/ Manual
             \/ WebPut \/ WebEdit \/ UNCHANGED vars
  BY <1>0, <1>11 DEF ZombiePublish, WatcherStep, Subscribe, WatchLook, WatchStore, WebNotify,
     WatchDies, Switch, Manual, WebPut, WebEdit, vars, LockedOnlyAway, Monitoring
<1> QED BY <1>1, <1>2, <1>3, <1>4, <1>5, <1>6, <1>7, <1>8, <1>9, <1>10, <1>11
        DEF Next, MainStep, Recv, EnvStep

\* A device near: the session is not locked, once things have settled.
THEOREM NearUnlocked ==
  ASSUME UnlocksObeyed
  PROVE  Spec => []NearIsUnlocked
<1> DEFINE I == SeatKept /\ NothingNew /\ SilentAtFirst /\ LockedOnlyAway
<1>1. Init => I
  BY InitSeat, InitQuiet
<1>2. Typed /\ Belief /\ I /\ [Next]_vars => I'
  <2>1. Env \intersect {"findFails", "switch"} = {}
    BY DEF UnlocksObeyed
  <2> QED BY <2>1, NextSeat, NextNothing, NextSilent, NextLocked
<1>3. Typed /\ Belief /\ NewestWantFitsPhase /\ I => NearIsUnlocked
  <2> SUFFICES ASSUME Typed, Belief, NewestWantFitsPhase, I, Settled, mode # "PamOnly", ~AllAway
               PROVE  ~locked[cur]
    BY DEF NearIsUnlocked
  <2>1. PICK d \in DOMAIN wants : task[d].ph.name = "Near"
    BY DEF AllAway
  <2>2. wants[d] = "Unlock"
    BY <2>1, SettledFits DEF Fits
  <2>3. pc = "select" /\ wasNear
    BY <2>2 DEF AnyUnlock, Settled, Belief, BeliefMatchesWants
  <2>4. cur \in Users
    BY <2>3, MonitoredUser DEF Monitoring
  <2> QED BY <2>3, <2>4 DEF LockedOnlyAway
<1> HIDE DEF I
<1> QED BY <1>1, <1>2, <1>3, AlwaysTyped, AlwaysBelief, NewestIsRight, PTL DEF Spec

------------------------------------------------------------------------------
(* The status table.                                                       *)

Showers == {z[1] : z \in zombies}

LEMMA InitTable == Init => Table!Init
BY DEF Init, Table!Init, Table!Nothing, Empty, Stage

\* What a step must keep to leave the abstract table alone.
LEMMA TableStutter ==
  ASSUME UNCHANGED <<live, status, wants, zombies>>, Stage' = Stage
  PROVE  UNCHANGED Table!vars
BY DEF Table!vars

\* The monitors are those of a user the copied configuration names.
LEMMA SpawnBegins ==
  ASSUME Typed, Spawn
  PROVE  Table!Begin
<1>1. /\ cfg \in Configs \union {Empty} /\ activeUid \in Uids
      /\ DOMAIN wants' = Mine(cfg, activeUid) /\ Mine(cfg, activeUid) # {}
  BY DEF Spawn, Typed, TypeOK
<1>2. activeUid \in Users /\ cfg \in Configs
  <2>1. activeUid \in Users
    BY <1>1, MineFacts
  <2>2. cfg # Empty
    BY <1>1 DEF Mine, Empty
  <2> QED BY <1>1, <2>1, <2>2
<1>3. Mine(cfg, activeUid) = Table!Devices(cfg, activeUid)
  BY DEF Mine, Table!Devices
<1>4. Stage = "between" /\ Stage' = "fresh"
  BY DEF Spawn, Stage
<1> QED BY <1>1, <1>2, <1>3, <1>4 DEF Spawn, Table!Begin

\* A monitor about to publish when it is aborted is one of the running ones.
LEMMA RestartAborts ==
  ASSUME Typed, Restart, pc \in {"select", "waiting"}, live' = live \/ live' \in Configs
  PROVE  Table!Abort
<1> DEFINE late == {d \in Macs : task[d].pc = "publish"}
<1>1. late \subseteq DOMAIN wants
  BY DEF Typed, MonitorsAreOwners
<1>2. Showers' = Showers \union late
  <2> DEFINE Leaver(d) == <<d, task[d].ph.name>>
  <2>1. zombies' = zombies \union {Leaver(d) : d \in late}
    BY DEF Restart
  <2>2. \A d \in late : Leaver(d)[1] = d
    OBVIOUS
  <2> HIDE DEF Leaver, late
  <2>3. Showers \subseteq Showers'
    BY <2>1 DEF Showers
  <2>4. late \subseteq Showers'
    <3> SUFFICES ASSUME NEW d \in late PROVE d \in Showers'
      OBVIOUS
    <3>1. Leaver(d) \in zombies' /\ Leaver(d)[1] = d
      BY <2>1, <2>2
    <3> QED BY <3>1 DEF Showers
  <2>5. Showers' \subseteq Showers \union late
    BY <2>1, <2>2 DEF Showers
  <2> QED BY <2>3, <2>4, <2>5
<1>3. DOMAIN wants' = {} /\ status' = status
  BY DEF Restart, Empty
<1>4. Stage \in {"waiting", "steady"} /\ Stage' = "between"
  BY DEF Restart, Stage
<1>5. \E gone \in SUBSET DOMAIN wants : Showers' = Showers \union gone
  <2> HIDE DEF late
  <2> QED BY <1>1, <1>2
<1> QED BY <1>3, <1>4, <1>5 DEF Table!Abort, Showers

LEMMA PublishShows ==
  ASSUME Typed, NEW d \in Macs, Publish(d)
  PROVE  Table!Publish(d)
<1>1. d \in DOMAIN wants /\ task[d].ph.name \in PhaseName
  BY DEF Publish, At, Typed, TypeOK, MonitorsAreOwners, Phase
<1>2. status' = Table!Showing(d, task[d].ph.name)
  BY DEF Publish, Shown, Table!Showing
<1>3. Stage' = Stage /\ UNCHANGED <<live, wants, zombies>>
  BY DEF Publish, Stage
<1> QED BY <1>1, <1>2, <1>3 DEF Table!Publish, Table!PhaseName, PhaseName

LEMMA ZombieShows ==
  ASSUME Typed, ZombiePublish
  PROVE  \E d \in Macs : Table!PublishLate(d)
<1>1. PICK z \in zombies : /\ status' = Shown(z[1], z[2])
                           /\ zombies' = zombies \ {z}
  BY DEF ZombiePublish
<1>2. z[1] \in Macs /\ z[2] \in PhaseName /\ z[1] \in Showers
  BY DEF Typed, TypeOK, Showers
<1>3. Showers' \in {Showers, Showers \ {z[1]}}
  <2>1. Showers' \subseteq Showers
    BY <1>1 DEF Showers
  <2>2. Showers \ {z[1]} \subseteq Showers'
    BY <1>1 DEF Showers
  <2> QED BY <2>1, <2>2
<1>4. status' = Table!Showing(z[1], z[2])
  BY <1>1 DEF Shown, Table!Showing
<1>5. Stage' = Stage /\ UNCHANGED <<live, wants>>
  BY DEF ZombiePublish, Stage
<1>6. Table!PublishLate(z[1])
  BY <1>2, <1>3, <1>4, <1>5 DEF Table!PublishLate, Showers, Table!PhaseName, PhaseName
<1> QED BY <1>2, <1>6

LEMMA MainTable ==
  ASSUME Typed, MainStep
  PROVE  [Table!Next]_(Table!vars)
<1>1. CASE Boot \/ ReadConfig \/ LockLook \/ LockCall \/ Wake \/ UnlockLook \/ UnlockCall
  <2>1. UNCHANGED <<live, status, wants, zombies>>
    BY <1>1 DEF Boot, ReadConfig, LockLook, LockCall, Wake, UnlockLook, UnlockCall
  <2>2. Stage' = Stage
    BY <1>1 DEF Boot, ReadConfig, LockLook, LockCall, Wake, UnlockLook, UnlockCall,
       BackToSelect, Stage
  <2> QED BY <2>1, <2>2, TableStutter
<1>2. CASE Wait
  <2>1. Table!Rest
    BY <1>2 DEF Wait, Stage, Table!Rest
  <2> QED BY <2>1 DEF Table!Next
<1>3. CASE Spawn
  BY <1>3, SpawnBegins DEF Table!Next
<1>4. CASE Reset
  <2>1. Table!Clear
    BY <1>4 DEF Reset, Stage, Empty, Table!Nothing, Table!Clear
  <2> QED BY <2>1 DEF Table!Next
<1> QED BY <1>1, <1>2, <1>3, <1>4 DEF MainStep

LEMMA RecvTable ==
  ASSUME Typed, Recv \/ Notified \/ Hup \/ Stop
  PROVE  [Table!Next]_(Table!vars)
<1>1. CASE RecvWant
  <2>1. Head(chan).mac \in DOMAIN wants
    BY <1>1, TailFacts DEF RecvWant, Typed, TypeOK, MonitorsAreOwners
  <2>2. DOMAIN wants' = DOMAIN wants /\ UNCHANGED <<live, status, zombies>>
    BY <1>1, <2>1 DEF RecvWant, Decide
  <2>3. Stage' = Stage
    BY <1>1 DEF RecvWant, Decide, Stage
  <2> QED BY <2>2, <2>3 DEF Table!vars
<1>2. CASE RecvAfterSwitch \/ RecvClosed \/ Notified \/ Hup
  <2>1. Restart /\ pc \in {"select", "waiting"} /\ (live' = live \/ live' \in Configs)
    BY <1>2 DEF RecvAfterSwitch, RecvClosed, Notified, Hup
  <2> QED BY <2>1, RestartAborts DEF Table!Next
<1>3. CASE Stop
  <2>1. Table!Stop
    BY <1>3 DEF Stop, Stage, Empty, Table!Nothing, Table!Stop
  <2> QED BY <2>1 DEF Table!Next
<1> QED BY <1>1, <1>2, <1>3 DEF Recv

LEMMA MonitorTable ==
  ASSUME Typed, NEW d \in Macs, MonitorStep(d)
  PROVE  [Table!Next]_(Table!vars)
<1>1. CASE Open(d) \/ PollDevice(d) \/ Send(d)
  <2>1. UNCHANGED <<live, status, wants, zombies>>
    BY <1>1 DEF Open, PollDevice, Send
  <2>2. Stage' = Stage
    BY <1>1 DEF Open, PollDevice, Send, Stage
  <2> QED BY <2>1, <2>2, TableStutter
<1>2. CASE Publish(d)
  BY <1>2, PublishShows DEF Table!Next
<1> QED BY <1>1, <1>2 DEF MonitorStep

LEMMA OtherTable ==
  ASSUME Typed,
         ZombiePublish \/ WatcherStep \/ WebNotify
           \/ WatchDies \/ Switch \/ Manual \/ WebPut \/ WebEdit \/ UNCHANGED vars
  PROVE  [Table!Next]_(Table!vars)
<1>1. CASE ZombiePublish
  BY <1>1, ZombieShows DEF Table!Next
<1>2. CASE WebPut \/ WebEdit
  <2>1. Table!Edit
    BY <1>2 DEF WebPut, WebEdit, Stage, Table!Edit
  <2> QED BY <2>1 DEF Table!Next
<1>3. CASE WatcherStep \/ WebNotify \/ WatchDies \/ Switch \/ Manual \/ UNCHANGED vars
  <2>1. UNCHANGED <<live, status, wants, zombies, pc>>
    BY <1>3 DEF WatcherStep, Subscribe, WatchLook, WatchStore, WebNotify, WatchDies,
       Switch, Manual, vars
  <2>2. Stage' = Stage
    BY <2>1 DEF Stage
  <2> QED BY <2>1, <2>2, TableStutter
<1> QED BY <1>1, <1>2, <1>3

\* The daemon, with its monitors, zombies, restarts and edits, changes the
\* status table only as StatusTable lets it: what the answers to PAM rest on.
LEMMA NextInTable == Typed /\ [Next]_vars => [Table!Next]_(Table!vars)
BY MainTable, RecvTable, MonitorTable, OtherTable DEF Next, EnvStep

THEOREM DaemonImplementsTable == Spec => ImplementsTable
BY NextInTable, InitTable, AlwaysTyped, PTL DEF Spec, ImplementsTable, Table!Spec

------------------------------------------------------------------------------
(* A login beside the daemon.                                              *)

\* The table PamLogin is built on is the one the daemon implements.
LEMMA SameStart == Table!Init => Pam!Init
BY DEF Table!Init, Pam!Init, Table!Nothing, Pam!Nothing

LEMMA SameShow ==
  ASSUME NEW d \in Macs, Table!Publish(d) \/ Table!PublishLate(d)
  PROVE  Pam!Publish(d) \/ Pam!PublishLate(d)
<1>1. \A name : Table!Showing(d, name) = Pam!Showing(d, name)
  BY DEF Table!Showing, Pam!Showing
<1>2. Table!PhaseName = Pam!PhaseName
  BY DEF Table!PhaseName, Pam!PhaseName
<1> QED BY <1>1, <1>2 DEF Table!Publish, Table!PublishLate, Pam!Publish, Pam!PublishLate

LEMMA SameNext == Table!Next => Pam!Next
<1>1. Table!Rest => Pam!Rest
  BY DEF Table!Rest, Pam!Rest
<1>2. Table!Begin => Pam!Begin
  BY DEF Table!Begin, Pam!Begin, Table!Devices, Pam!Devices
<1>3. Table!Clear => Pam!Clear
  BY DEF Table!Clear, Pam!Clear, Table!Nothing, Pam!Nothing
<1>4. Table!Abort => Pam!Abort
  BY DEF Table!Abort, Pam!Abort
<1>5. Table!Edit => Pam!Edit
  BY DEF Table!Edit, Pam!Edit
<1>6. Table!Stop => Pam!Stop
  BY DEF Table!Stop, Pam!Stop, Table!Nothing, Pam!Nothing
<1> QED BY <1>1, <1>2, <1>3, <1>4, <1>5, <1>6, SameShow DEF Table!Next, Pam!Next

\* The daemon does not notice the login.
LEMMA LoginLeavesDaemon == [DaemonStep \/ PamStep]_both => [Next]_vars
BY DEF DaemonStep, PamStep, both

LEMMA BothTyped == BothSpec => []Typed
<1>1. BothInit => Init
  BY DEF BothInit
<1> QED BY <1>1, InitTyped, NextTyped, LoginLeavesDaemon, PTL DEF BothSpec

LEMMA BothNext ==
  Typed /\ [DaemonStep \/ PamStep]_both => [Pam!LoginNext]_<<Pam!vars, Pam!login>>
<1>1. ASSUME Typed, DaemonStep PROVE Pam!LoginNext
  <2>1. Pam!Next \/ UNCHANGED Pam!vars
    BY <1>1, NextInTable, SameNext DEF DaemonStep, Table!vars, Pam!vars
  <2> QED BY <1>1, <2>1 DEF DaemonStep, Pam!Beside, Pam!LoginNext
<1>2. ASSUME PamStep PROVE Pam!LoginNext
  BY <1>2 DEF PamStep, Pam!LoginNext
<1>3. ASSUME UNCHANGED both PROVE UNCHANGED <<Pam!vars, Pam!login>>
  BY <1>3 DEF both, vars, Pam!vars, Pam!login, Stage
<1> QED BY <1>1, <1>2, <1>3

\* A login beside the running daemon is one that PamLogin describes.
THEOREM LoginBesideDaemon == BothSpec => ImplementsLogin
<1>1. BothInit => Pam!LoginInit
  BY InitTable, SameStart DEF BothInit, Pam!LoginInit
<1> QED BY <1>1, BothNext, BothTyped, PTL DEF BothSpec, ImplementsLogin, Pam!LoginSpec

\* PamLoginProofs, with the daemon for its table.
Answers == INSTANCE PamLoginProofs WITH
  running <- DOMAIN wants, leaving <- {z[1] : z \in zombies}, stage <- Stage

\* It speaks of the same logins.
LEMMA SameLogin == ImplementsLogin => Answers!LoginSpec
<1>1. Pam!LoginInit => Answers!LoginInit
  BY DEF Pam!LoginInit, Answers!LoginInit, Pam!Init, Answers!Init, Pam!LoginStart,
     Answers!LoginStart, Pam!Nothing, Answers!Nothing
<1>2. Pam!Next => Answers!Next
  BY DEF Pam!Next, Answers!Next, Pam!Rest, Answers!Rest, Pam!Begin, Answers!Begin,
     Pam!Clear, Answers!Clear, Pam!Abort, Answers!Abort, Pam!Edit, Answers!Edit,
     Pam!Stop, Answers!Stop, Pam!Publish, Answers!Publish, Pam!PublishLate,
     Answers!PublishLate, Pam!Nothing, Answers!Nothing, Pam!Devices, Answers!Devices,
     Pam!Showing, Answers!Showing, Pam!PhaseName, Answers!PhaseName
<1>3. Pam!Observe => Answers!Observe
  BY DEF Pam!Observe, Answers!Observe, Pam!Remember, Answers!Remember, Pam!Asking,
     Answers!Asking, Pam!ShownNear, Answers!ShownNear, Pam!Devices, Answers!Devices
<1>4. Pam!LoginStep => Answers!LoginStep
  BY DEF Pam!LoginStep, Answers!LoginStep, Pam!Authenticate, Answers!Authenticate,
     Pam!Connect, Answers!Connect, Pam!LookUp, Answers!LookUp, Pam!Reply, Answers!Reply,
     Pam!Read, Answers!Read, Pam!GiveUp, Answers!GiveUp, Pam!Retry, Answers!Retry,
     Pam!Answer, Answers!Answer, Pam!IsAny, Answers!IsAny, Pam!Forget, Answers!Forget,
     Pam!Asking, Answers!Asking, Pam!ShownNear, Answers!ShownNear, Pam!Devices,
     Answers!Devices, Pam!vars, Answers!vars
<1>5. Pam!Bind => Answers!Bind
  BY DEF Pam!Bind, Answers!Bind, Pam!vars, Answers!vars
<1>6. Pam!LoginNext => Answers!LoginNext
  BY <1>2, <1>3, <1>4, <1>5 DEF Pam!LoginNext, Answers!LoginNext, Pam!Beside, Answers!Beside,
     Pam!vars, Answers!vars
<1>7. [Pam!LoginNext]_<<Pam!vars, Pam!login>>
        => [Answers!LoginNext]_<<Answers!vars, Answers!login>>
  BY <1>6 DEF Pam!vars, Answers!vars, Pam!login, Answers!login
<1> QED BY <1>1, <1>7, PTL DEF ImplementsLogin, Pam!LoginSpec, Answers!LoginSpec

\* So what a login is told beside the running daemon is right, with every
\* restart, edit, switch of users and late status of it in between: Near if
\* a device of the user is configured and shown near all through the query,
\* and only if one of their own was shown near meanwhile.  It is granted on
\* that answer alone and denied after MAX_RETRIES others.
THEOREM DaemonAnswersRight ==
  ASSUME MaxRetries \in Nat \ {0}, NoUser \notin Users
  PROVE  BothSpec => [](Pam!LoginTypeOK /\ Pam!SteadyIsNear /\ Pam!NearIsOwn)
<1>1. /\ Configs \subseteq UNION {[D -> Users] : D \in SUBSET Macs}
      /\ MaxRetries \in Nat \ {0} /\ NoUser \notin Users
  BY DaemonAssumption
<1>2. Answers!LoginSpec => [](Answers!LoginTypeOK /\ Answers!SteadyIsNear /\ Answers!NearIsOwn)
  BY <1>1, Answers!LoginTypeCorrect, Answers!SteadyIsTold, Answers!OnlyOwnDevices, PTL
<1>3. Answers!LoginTypeOK => Pam!LoginTypeOK
  BY DEF Answers!LoginTypeOK, Pam!LoginTypeOK, Answers!TypeOK, Pam!TypeOK, Answers!Login,
     Pam!Login, Answers!Stages, Pam!Stages, Answers!PhaseName, Pam!PhaseName,
     Answers!Verdict, Pam!Verdict, Answers!Asking, Pam!Asking, Answers!Ended, Pam!Ended
<1>4. /\ Answers!SteadyIsNear => Pam!SteadyIsNear
      /\ Answers!NearIsOwn => Pam!NearIsOwn
  BY DEF Answers!SteadyIsNear, Pam!SteadyIsNear, Answers!NearIsOwn, Pam!NearIsOwn
<1> QED BY <1>2, <1>3, <1>4, SameLogin, LoginBesideDaemon, PTL

------------------------------------------------------------------------------
(* The policy.                                                             *)

\* The loop goes to logind on an edge: to lock from near, to unlock from away.
EdgeAhead ==
  /\ pc \in {"lock", "lockcall"} => wasNear
  /\ pc \in {"wake", "unlock", "unlockcall"} => ~wasNear

Opened == {d \in DOMAIN wants : wants[d] = "Unlock"}

LEMMA NextEdge ==
  ASSUME EdgeAhead, [Next]_vars
  PROVE  EdgeAhead'
<1> USE DEF EdgeAhead
<1>1. CASE MainStep
  BY <1>1 DEF MainStep, Boot, ReadConfig, Wait, Spawn, Reset, LockLook, LockCall, Wake,
     UnlockLook, UnlockCall, BackToSelect
<1>2. CASE RecvWant
  BY <1>2 DEF RecvWant, Decide
<1>3. CASE RecvAfterSwitch \/ RecvClosed \/ Notified \/ Hup \/ Stop
  BY <1>3 DEF RecvAfterSwitch, RecvClosed, Notified, Hup, Stop, Restart
<1>4. CASE \E d \in Macs : MonitorStep(d)
  BY <1>4 DEF MonitorStep, Open, PollDevice, Publish, Send
<1>5. CASE ZombiePublish \/ WatcherStep \/ WebNotify \/ WatchDies \/ Switch \/ Manual
             \/ WebPut \/ WebEdit \/ UNCHANGED vars
  BY <1>5 DEF ZombiePublish, WatcherStep, Subscribe, WatchLook, WatchStore, WebNotify,
     WatchDies, Switch, Manual, WebPut, WebEdit, vars
<1> QED BY <1>1, <1>2, <1>3, <1>4, <1>5 DEF Next, Recv, EnvStep

LEMMA InitPolicy == Init => Policy!Init /\ EdgeAhead
BY DEF Init, Policy!Init, EdgeAhead, Monitoring, Empty

\* What a step must keep to leave the policy alone.
LEMMA PolicyStutter ==
  ASSUME UNCHANGED <<mode, locked, wants>>, Monitoring' = Monitoring,
         Monitoring => UNCHANGED <<cur, wasNear>>
  PROVE  UNCHANGED Policy!vars
BY DEF Policy!vars

\* While the loop listens, the last edge has been acted on.
LEMMA SelectInStep ==
  ASSUME Belief, pc \in {"reset", "select"}
  PROVE  Policy!InStep
BY DEF Belief, BeliefMatchesWants, AnyUnlock, Policy!InStep, Monitoring

LEMMA SpawnPolicy ==
  ASSUME Typed, Spawn
  PROVE  Policy!Begin
<1>1. /\ cfg \in Configs \union {Empty} /\ activeUid \in Uids
      /\ pc = "uid" /\ pc' = "reset" /\ cur' = activeUid /\ wasNear'
      /\ wants' = [d \in Mine(cfg, activeUid) |-> "Unlock"] /\ Mine(cfg, activeUid) # {}
      /\ UNCHANGED <<mode, locked>>
  BY DEF Spawn, Typed, TypeOK
<1>2. activeUid \in Users /\ Mine(cfg, activeUid) \in SUBSET Macs
  BY <1>1, MineFacts
<1>3. /\ DOMAIN wants' = Mine(cfg, activeUid)
      /\ {d \in DOMAIN wants' : wants'[d] = "Unlock"} = DOMAIN wants'
  BY <1>1
<1>4. ~Monitoring /\ Monitoring'
  BY <1>1 DEF Monitoring
<1>5. DOMAIN wants' \in (SUBSET Macs) \ {{}}
  <2>1. Mine(cfg, activeUid) \in (SUBSET Macs) \ {{}}
    BY <1>1, <1>2
  <2> QED BY <1>3, <2>1
<1>6. (Monitoring => wasNear)' = TRUE /\ UNCHANGED <<mode # "PamOnly", locked>>
  BY <1>1
<1> QED BY <1>1, <1>2, <1>3, <1>4, <1>5, <1>6 DEF Policy!Begin

\* A message is one device's word, whatever the loop makes of it.
LEMMA HearPolicy ==
  ASSUME Typed, Belief, RecvWant
  PROVE  [Policy!Hear]_(Policy!vars)
<1>1. /\ pc = "select" /\ Head(chan).mac \in DOMAIN wants
      /\ Head(chan).act \in {"Lock", "Unlock"}
  BY TailFacts DEF RecvWant, Typed, TypeOK, MonitorsAreOwners, Message
<1>2. PICK d \in DOMAIN wants, a \in {"Lock", "Unlock"} : wants' = [wants EXCEPT ![d] = a]
  BY <1>1 DEF RecvWant, Decide
<1>3. Opened' \in {Opened \union {d}, Opened \ {d}} /\ DOMAIN wants' = DOMAIN wants
  <2>1. CASE a = "Unlock"
    BY <1>2, <2>1 DEF Opened
  <2>2. CASE a = "Lock"
    BY <1>2, <2>2 DEF Opened
  <2> QED BY <2>1, <2>2
<1>4. Monitoring /\ Monitoring' /\ UNCHANGED <<mode, locked, cur, wasNear>>
  BY <1>1 DEF RecvWant, Decide, Monitoring
<1>5. Policy!InStep
  BY <1>1, SelectInStep
<1> QED BY <1>3, <1>4, <1>5 DEF Policy!Hear, Opened

\* The controller has been asked to lock, or could not be.
LEMMA LockPolicyStep ==
  ASSUME Typed, Belief, EdgeAhead, pc \in {"lock", "lockcall"}, BackToSelect(FALSE),
         locked' = locked \/ locked' = [locked EXCEPT ![cur] = TRUE],
         UNCHANGED <<mode, cur, wants>>
  PROVE  Policy!Lock
<1>1. Monitoring /\ Monitoring' /\ wasNear /\ ~wasNear'
  BY DEF BackToSelect, Monitoring, EdgeAhead
<1>2. cur \in Users
  BY <1>1, MonitoredUser
<1>3. mode # "PamOnly" /\ Opened = {}
  BY DEF Belief, BeliefMatchesWants, PamHandsOff, AnyUnlock, Opened
<1> QED BY <1>1, <1>2, <1>3 DEF Policy!Lock, Opened

LEMMA UnlockPolicyStep ==
  ASSUME Typed, Belief, EdgeAhead, pc \in {"unlock", "unlockcall"}, BackToSelect(TRUE),
         locked' = locked \/ locked' = [locked EXCEPT ![cur] = FALSE],
         UNCHANGED <<mode, cur, wants>>
  PROVE  Policy!Unlock
<1>1. Monitoring /\ Monitoring' /\ ~wasNear /\ wasNear'
  BY DEF BackToSelect, Monitoring, EdgeAhead
<1>2. cur \in Users
  BY <1>1, MonitoredUser
<1>3. mode # "PamOnly" /\ Opened # {}
  BY DEF Belief, BeliefMatchesWants, PamHandsOff, AnyUnlock, Opened
<1> QED BY <1>1, <1>2, <1>3 DEF Policy!Unlock, Opened

\* An iteration ends while the loop listens; a loop that waits serves nobody.
LEMMA EndPolicy ==
  ASSUME Typed, Belief, pc \in {"select", "waiting"}, ~Monitoring', wants' = Empty,
         UNCHANGED <<mode, locked>>
  PROVE  [Policy!End]_(Policy!vars)
<1>1. Opened' = {} /\ DOMAIN wants' = {}
  BY DEF Opened, Empty
<1>2. CASE pc = "select"
  <2>1. Monitoring /\ cur \in Users /\ Policy!InStep
    BY <1>2, MonitoredUser, SelectInStep DEF Monitoring
  <2> QED BY <1>1, <2>1 DEF Policy!End, Opened
<1>3. CASE pc = "waiting"
  <2>1. ~Monitoring /\ DOMAIN wants = {}
    BY <1>3 DEF Monitoring, Typed, MonitorsAreOwners
  <2>2. Opened = {}
    BY <2>1 DEF Opened
  <2> QED BY <1>1, <2>1, <2>2 DEF Policy!vars, Opened
<1> QED BY <1>2, <1>3

LEMMA MainPolicy ==
  ASSUME Typed, Belief, EdgeAhead, MainStep
  PROVE  [Policy!Next]_(Policy!vars)
<1>1. CASE Boot \/ ReadConfig \/ Wait \/ Reset \/ Wake
  <2>1. /\ UNCHANGED <<mode, locked, wants>> /\ Monitoring' = Monitoring
        /\ Monitoring => UNCHANGED <<cur, wasNear>>
    BY <1>1 DEF Boot, ReadConfig, Wait, Reset, Wake, Monitoring
  <2> QED BY <2>1, PolicyStutter
<1>2. CASE Spawn
  BY <1>2, SpawnPolicy DEF Policy!Next
<1>3. CASE LockLook \/ LockCall
  <2>1. CASE pc' = "lockcall"
    <3>1. UNCHANGED <<mode, locked, wants, cur, wasNear>> /\ Monitoring' = Monitoring
      BY <1>3, <2>1 DEF LockLook, LockCall, BackToSelect, Monitoring
    <3> QED BY <3>1, PolicyStutter
  <2>2. CASE pc' # "lockcall"
    <3>1. /\ pc \in {"lock", "lockcall"} /\ BackToSelect(FALSE) /\ UNCHANGED <<mode, cur, wants>>
          /\ locked' = locked \/ locked' = [locked EXCEPT ![cur] = TRUE]
      BY <1>3, <2>2 DEF LockLook, LockCall
    <3> QED BY <3>1, LockPolicyStep DEF Policy!Next
  <2> QED BY <2>1, <2>2
<1>4. CASE UnlockLook \/ UnlockCall
  <2>1. CASE pc' = "unlockcall"
    <3>1. UNCHANGED <<mode, locked, wants, cur, wasNear>> /\ Monitoring' = Monitoring
      BY <1>4, <2>1 DEF UnlockLook, UnlockCall, BackToSelect, Monitoring
    <3> QED BY <3>1, PolicyStutter
  <2>2. CASE pc' # "unlockcall"
    <3>1. /\ pc \in {"unlock", "unlockcall"} /\ BackToSelect(TRUE)
          /\ UNCHANGED <<mode, cur, wants>>
          /\ locked' = locked \/ locked' = [locked EXCEPT ![cur] = FALSE]
      BY <1>4, <2>2 DEF UnlockLook, UnlockCall
    <3> QED BY <3>1, UnlockPolicyStep DEF Policy!Next
  <2> QED BY <2>1, <2>2
<1> QED BY <1>1, <1>2, <1>3, <1>4 DEF MainStep

LEMMA OtherPolicy ==
  ASSUME Typed,
         (\E d \in Macs : MonitorStep(d)) \/ ZombiePublish \/ WatcherStep \/ WebNotify
           \/ WatchDies \/ Switch \/ Manual \/ WebPut \/ WebEdit \/ UNCHANGED vars
  PROVE  [Policy!Next]_(Policy!vars)
<1>1. UNCHANGED <<mode, wants, cur, wasNear>> /\ Monitoring' = Monitoring
  BY DEF MonitorStep, Open, PollDevice, Publish, Send, ZombiePublish, WatcherStep, Subscribe,
     WatchLook, WatchStore, WebNotify, WatchDies, Switch, Manual, WebPut, WebEdit, vars,
     Monitoring
<1>2. CASE Manual
  <2>1. Policy!ByHand
    <3>1. seat \in Users /\ locked' = [locked EXCEPT ![seat] = ~locked[seat]]
      BY <1>2 DEF Manual
    <3>2. \E u \in Users : locked' = [locked EXCEPT ![u] = ~locked[u]]
      BY <3>1
    <3> QED BY <1>1, <3>2 DEF Policy!ByHand
  <2> QED BY <2>1 DEF Policy!Next
<1>3. CASE ~Manual
  <2>1. locked' = locked
    BY <1>3 DEF MonitorStep, Open, PollDevice, Publish, Send, ZombiePublish, WatcherStep,
       Subscribe, WatchLook, WatchStore, WebNotify, WatchDies, Switch, WebPut, WebEdit, vars
  <2> QED BY <1>1, <2>1, PolicyStutter
<1> QED BY <1>2, <1>3

\* The daemon touches sessions only as LockPolicy says: for the user it
\* monitors, once per edge, before it takes the next message or restarts, and
\* never twice the same way; every other change of a lock is by hand.
THEOREM DaemonFollowsPolicy == Spec => FollowsPolicy
<1>1. Typed /\ Belief /\ EdgeAhead /\ [Next]_vars => [Policy!Next]_(Policy!vars)
  <2> SUFFICES ASSUME Typed, Belief, EdgeAhead, [Next]_vars
               PROVE  [Policy!Next]_(Policy!vars)
    OBVIOUS
  <2>1. CASE MainStep
    BY <2>1, MainPolicy
  <2>2. CASE RecvWant
    BY <2>2, HearPolicy DEF Policy!Next
  <2>3. CASE RecvAfterSwitch \/ RecvClosed \/ Notified \/ Hup \/ Stop
    <3>1. /\ pc \in {"select", "waiting"} /\ pc' \in {"top", "stopped"} /\ wants' = Empty
          /\ UNCHANGED <<mode, locked>>
      BY <2>3 DEF RecvAfterSwitch, RecvClosed, Notified, Hup, Stop, Restart
    <3>2. ~Monitoring'
      BY <3>1 DEF Monitoring
    <3> QED BY <3>1, <3>2, EndPolicy DEF Policy!Next
  <2> QED BY <2>1, <2>2, <2>3, OtherPolicy DEF Next, Recv, EnvStep
<1>2. EdgeAhead /\ [Next]_vars => EdgeAhead'
  BY NextEdge
<1> QED BY <1>1, <1>2, InitPolicy, AlwaysTyped, AlwaysBelief, PTL
        DEF Spec, FollowsPolicy, Policy!Spec

\* What the policy calls the user and the devices is always of the right
\* kind, and there is a user exactly while there are devices.
THEOREM PolicyTypes == Spec => []Policy!TypeOK
<1>1. Typed => Policy!TypeOK
  <2> SUFFICES ASSUME Typed PROVE Policy!TypeOK
    OBVIOUS
  <2>1. (Monitoring => wasNear) \in BOOLEAN /\ (mode # "PamOnly") \in BOOLEAN
    OBVIOUS
  <2>2. DOMAIN wants \subseteq Macs
    BY MineFacts DEF Typed, TypeOK, MonitorsAreOwners
  <2>3. CASE Monitoring
    BY <2>1, <2>2, <2>3, MonitoredUser DEF Typed, TypeOK, MonitorsAreOwners, Policy!TypeOK
  <2>4. CASE ~Monitoring
    BY <2>1, <2>2, <2>4 DEF Typed, TypeOK, MonitorsAreOwners, Policy!TypeOK
  <2> QED BY <2>3, <2>4
<1> QED BY <1>1, AlwaysTyped, PTL
==============================================================================
