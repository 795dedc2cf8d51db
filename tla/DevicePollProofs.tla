-------------------------- MODULE DevicePollProofs --------------------------
(***************************************************************************)
(* The properties of DevicePoll for every set of profiles and every bound  *)
(* of the history.  IInv is inductive: CountIsRun is what carries it, for  *)
(* the counter alone does not say what the device has been doing.          *)
(***************************************************************************)
EXTENDS DevicePoll, TLAPS

IInv == TypeOK /\ Safe

USE ProfilesAssumption, RunCapAssumption DEF Sent

\* A profile drawn from the settings has counts of one or more.
LEMMA ProfileFacts ==
  ASSUME NEW q \in Profiles
  PROVE  /\ q.lock \in Nat /\ q.lock >= 1 /\ q.lock <= RunCap
         /\ q.unlock \in Nat /\ q.unlock >= 1 /\ q.unlock <= RunCap
         /\ q.disc \in Action
BY DEF Profile

\* The part of IInv that does not speak of dropped.
Shape ==
  /\ p \in Profiles /\ ph \in Phase
  /\ want \in {"Lock", "Unlock"} /\ rate \in {"normal", "slow"}
  /\ farRun \in 0..RunCap /\ nearRun \in 0..RunCap
  /\ CountIsRun
  /\ SlowWhileDisconnected

LEMMA Parts == IInv <=> Shape /\ dropped \in BOOLEAN /\ WantFitsPhase
BY DEF IInv, TypeOK, Safe, Shape

\* The initial state satisfies the inductive invariant.
LEMMA InitIInv == Init => IInv
<1> SUFFICES ASSUME Init PROVE IInv
  OBVIOUS
<1>1. Shape
  BY ProfileFacts DEF Init, Shape, CountIsRun, SlowWhileDisconnected, NewPhase,
     Near, Phase, PhaseName, Larger
<1>2. ph.name = "Near" /\ want = "Unlock"
  BY DEF Init, NewPhase, Near
<1>3. dropped \in BOOLEAN
  BY DEF Init
<1> QED BY <1>1, <1>2, <1>3, Parts DEF WantFitsPhase

\* One poll preserves it, whatever the reading and whatever the phase.
LEMMA PollIInv ==
  ASSUME IInv, NEW r \in Reading, Poll(r)
  PROVE  IInv'
<1> USE DEF Reading, Near, Far, Disconnected, Larger, Longer
<1>0. /\ p \in Profiles /\ p' = p
      /\ p.lock \in Nat /\ p.lock >= 1 /\ p.lock <= RunCap
      /\ p.unlock \in Nat /\ p.unlock >= 1 /\ p.unlock <= RunCap
      /\ p.disc \in Action
      /\ ph.name \in PhaseName /\ ph.count \in Nat
      /\ ph = [name |-> ph.name, count |-> ph.count]
      /\ farRun \in Nat /\ nearRun \in Nat /\ farRun <= RunCap /\ nearRun <= RunCap
  BY ProfileFacts DEF IInv, TypeOK, Poll, Phase
<1>d. dropped' \in BOOLEAN
  BY DEF Poll
<1>e. ph'.name # "Near" /\ (dropped \/ r = "lost") => dropped'
  BY DEF Poll
<1>f. Shape' /\ WantFitsPhase' => IInv'
  BY <1>d DEF IInv, TypeOK, Safe, Shape
<1>1. CASE r = "lost"
  <2>1. ph' = Disconnected /\ farRun' = 0 /\ nearRun' = 0
    BY <1>1 DEF Poll, PhaseAfter
  <2>2. want' \in {"Lock", "Unlock"} /\ (p.disc = "Lock" => want' = "Lock")
    <3>1. want \in {"Lock", "Unlock"} /\ (ph.name = "Disconnected" /\ want = "Unlock" => p.disc # "Lock")
      BY <1>0 DEF IInv, TypeOK, Safe, WantFitsPhase
    <3>2. want' = Sent(ActionOf(p, ph, r), want)
      BY DEF Poll
    <3> QED BY <1>0, <1>1, <3>1, <3>2 DEF ActionOf, MovesAway, MovesBack, PhaseName, Action
  <2>3. rate' = "slow"
    BY <1>0, <1>1, <2>1 DEF Poll, RateAfter, IInv, TypeOK, Safe, SlowWhileDisconnected, PhaseName
  <2>4. Shape'
    BY <1>0, <2>1, <2>2, <2>3 DEF Shape, CountIsRun, SlowWhileDisconnected, Phase, PhaseName
  <2>5. ph'.name = "Disconnected" /\ dropped'
    BY <1>1, <1>e, <2>1
  <2>6. WantFitsPhase'
    BY <1>0, <2>2, <2>5 DEF WantFitsPhase
  <2> QED BY <1>f, <2>4, <2>6
<1>2. CASE r # "lost" /\ ph.name = "Near"
  <2>0. ph.count = farRun /\ farRun < p.lock /\ want = "Unlock" /\ rate = "normal"
    BY <1>0, <1>2 DEF IInv, TypeOK, Safe, CountIsRun, WantFitsPhase, SlowWhileDisconnected
  <2>1. CASE MovesAway(p, ph, r)
    <3>1. ph' = Far(0) /\ want' = "Lock" /\ farRun' = farRun + 1 /\ nearRun' = 0 /\ rate' = "normal"
      BY <1>0, <1>2, <2>0, <2>1 DEF Poll, PhaseAfter, FromNear, ActionOf, MovesAway, MovesBack, RateAfter
    <3>2. Shape'
      BY <1>0, <2>0, <2>1, <3>1 DEF Shape, CountIsRun, SlowWhileDisconnected, Phase, PhaseName, MovesAway
    <3>3. WantFitsPhase'
      BY <3>1 DEF WantFitsPhase
    <3> QED BY <1>f, <3>2, <3>3
  <2>2. CASE r = "far" /\ ~MovesAway(p, ph, r)
    <3>1. /\ ph' = Near(ph.count + 1) /\ want' = want /\ rate' = "normal"
          /\ farRun' = farRun + 1 /\ nearRun' = 0 /\ farRun + 1 < p.lock
      BY <1>0, <1>2, <2>0, <2>2
         DEF Poll, PhaseAfter, FromNear, ActionOf, MovesAway, MovesBack, RateAfter
    <3>2. Shape'
      BY <1>0, <2>0, <3>1 DEF Shape, CountIsRun, SlowWhileDisconnected, Phase, PhaseName
    <3>3. WantFitsPhase'
      BY <2>0, <3>1 DEF WantFitsPhase
    <3> QED BY <1>f, <3>2, <3>3
  <2>3. CASE r = "near"
    <3>1. /\ ph' = Near(0) /\ want' = want /\ rate' = "normal" /\ farRun' = 0
          /\ nearRun' \in 0..RunCap
      BY <1>0, <1>2, <2>0, <2>3
         DEF Poll, PhaseAfter, FromNear, ActionOf, MovesAway, MovesBack, RateAfter
    <3>2. Shape'
      BY <1>0, <2>0, <3>1 DEF Shape, CountIsRun, SlowWhileDisconnected, Phase, PhaseName
    <3>3. WantFitsPhase'
      BY <2>0, <3>1 DEF WantFitsPhase
    <3> QED BY <1>f, <3>2, <3>3
  <2> QED BY <1>2, <2>1, <2>2, <2>3
<1>3. CASE r # "lost" /\ ph.name = "Far"
  <2>0. /\ ph.count = nearRun /\ nearRun < Larger(p.unlock, 2) /\ rate = "normal"
        /\ want \in {"Lock", "Unlock"}
    BY <1>0, <1>3 DEF IInv, TypeOK, Safe, CountIsRun, SlowWhileDisconnected
  <2>w. want = "Unlock" => dropped /\ p.disc # "Lock"
    BY <1>3 DEF IInv, Safe, WantFitsPhase
  <2>1. CASE MovesBack(p, ph, r)
    <3>1. ph' = Near(0) /\ want' = "Unlock" /\ farRun' = 0 /\ rate' = "normal" /\ nearRun' \in 0..RunCap
      BY <1>0, <1>3, <2>0, <2>1
         DEF Poll, PhaseAfter, FromFar, ActionOf, MovesAway, MovesBack, RateAfter
    <3>2. Shape'
      BY <1>0, <2>0, <2>1, <3>1 DEF Shape, CountIsRun, SlowWhileDisconnected, Phase, PhaseName
    <3>3. WantFitsPhase'
      BY <2>0, <3>1 DEF WantFitsPhase
    <3> QED BY <1>f, <3>2, <3>3
  <2>2. CASE r = "near" /\ ~MovesBack(p, ph, r)
    <3>1. /\ ph' = Far(ph.count + 1) /\ want' = want /\ rate' = "normal"
          /\ farRun' = 0 /\ nearRun' = nearRun + 1 /\ nearRun + 1 < p.unlock
      BY <1>0, <1>3, <2>0, <2>2
         DEF Poll, PhaseAfter, FromFar, ActionOf, MovesAway, MovesBack, RateAfter
    <3>2. Shape'
      BY <1>0, <2>0, <3>1 DEF Shape, CountIsRun, SlowWhileDisconnected, Phase, PhaseName
    <3>3. WantFitsPhase'
      BY <1>0, <1>e, <2>w, <3>1 DEF WantFitsPhase
    <3> QED BY <1>f, <3>2, <3>3
  <2>3. CASE r = "far"
    <3>1. /\ ph' = Far(0) /\ want' = want /\ rate' = "normal" /\ nearRun' = 0
          /\ farRun' \in 0..RunCap
      BY <1>0, <1>3, <2>0, <2>3
         DEF Poll, PhaseAfter, FromFar, ActionOf, MovesAway, MovesBack, RateAfter
    <3>2. Shape'
      BY <1>0, <2>0, <3>1 DEF Shape, CountIsRun, SlowWhileDisconnected, Phase, PhaseName
    <3>3. WantFitsPhase'
      BY <1>0, <1>e, <2>w, <3>1 DEF WantFitsPhase
    <3> QED BY <1>f, <3>2, <3>3
  <2> QED BY <1>3, <2>1, <2>2, <2>3
<1>4. CASE r # "lost" /\ ph.name = "Disconnected"
  <2>0. farRun = 0 /\ nearRun = 0 /\ want \in {"Lock", "Unlock"}
    BY <1>0, <1>4 DEF IInv, TypeOK, Safe, CountIsRun
  <2>w. want = "Unlock" => dropped /\ p.disc # "Lock"
    BY <1>4 DEF IInv, Safe, WantFitsPhase
  <2>1. /\ ph' = FromDisconnected(r) /\ want' = want
        /\ farRun' = (IF r = "far" THEN 1 ELSE 0)
        /\ nearRun' = (IF r = "near" THEN 1 ELSE 0)
    BY <1>0, <1>4, <2>0 DEF Poll, PhaseAfter, ActionOf, MovesAway, MovesBack
  <2>2. /\ ph'.name = "Far" /\ ph'.count = (IF r = "near" THEN 1 ELSE 0)
        /\ ph' \in Phase
    BY <1>4, <2>1 DEF FromDisconnected, Phase, PhaseName
  <2>3. rate' = "normal"
    BY <1>0, <1>4, <2>2 DEF Poll, RateAfter
  <2>4. Shape'
    BY <1>0, <2>0, <2>1, <2>2, <2>3 DEF Shape, CountIsRun, SlowWhileDisconnected
  <2>5. WantFitsPhase'
    BY <1>0, <1>e, <2>w, <2>1, <2>2 DEF WantFitsPhase
  <2> QED BY <1>f, <2>4, <2>5
<1> QED BY <1>0, <1>1, <1>2, <1>3, <1>4 DEF PhaseName

\* A step that changes nothing preserves it too.
LEMMA NextIInv == IInv /\ [Next]_vars => IInv'
<1> SUFFICES ASSUME IInv, [Next]_vars PROVE IInv'
  OBVIOUS
<1>1. CASE Next
  BY <1>1, PollIInv DEF Next
<1>2. CASE UNCHANGED vars
  BY <1>2 DEF vars, IInv, TypeOK, Safe, CountIsRun, WantFitsPhase,
     SlowWhileDisconnected
<1> QED BY <1>1, <1>2

LEMMA Inductive == Spec => []IInv
BY InitIInv, NextIInv, PTL DEF Spec

\* Every variable keeps its type, for every set of profiles.
THEOREM TypeCorrect == Spec => []TypeOK
<1>1. IInv => TypeOK
  BY DEF IInv
<1> QED BY <1>1, Inductive, PTL

\* The phase counter is the run of readings in progress, for every profile.
THEOREM CountsTheRun == Spec => []CountIsRun
<1>1. IInv => CountIsRun
  BY DEF IInv, Safe
<1> QED BY <1>1, Inductive, PTL

\* The last action sent fits the phase: a device that is away and has left
\* the session open lost its connection on the way.
THEOREM WantIsCurrent == Spec => []WantFitsPhase
<1>1. IInv => WantFitsPhase
  BY DEF IInv, Safe
<1> QED BY <1>1, Inductive, PTL

\* The poll rate follows the connection.
THEOREM RateIsRight == Spec => []SlowWhileDisconnected
<1>1. IInv => SlowWhileDisconnected
  BY DEF IInv, Safe
<1> QED BY <1>1, Inductive, PTL

\* No switch between Near and Far without the run of readings that earns
\* it, and no way from a lost connection straight to Near.
THEOREM SwitchesEarned == Spec => SwitchesAreEarned
<1>1. ASSUME IInv, [Next]_vars
      PROVE  [ /\ ph.name = "Near" /\ ph'.name = "Far" => farRun' >= p.lock
               /\ ph.name # "Near" /\ ph'.name = "Near" =>
                    nearRun' >= p.unlock /\ ph.name = "Far" ]_vars
  <2>1. CASE UNCHANGED vars
    BY <2>1
  <2>2. ASSUME NEW r \in Reading, Poll(r)
        PROVE  /\ ph.name = "Near" /\ ph'.name = "Far" => farRun' >= p.lock
               /\ ph.name # "Near" /\ ph'.name = "Near" =>
                    nearRun' >= p.unlock /\ ph.name = "Far"
    <3>0. /\ p.lock \in Nat /\ p.unlock \in Nat /\ p.lock <= RunCap /\ p.unlock <= RunCap
          /\ ph.name \in PhaseName /\ ph.count \in Nat /\ farRun \in Nat /\ nearRun \in Nat
          /\ farRun <= RunCap /\ nearRun <= RunCap
          /\ (ph.name = "Near" => ph.count = farRun)
          /\ (ph.name = "Far" => ph.count = nearRun)
      BY <1>1, ProfileFacts DEF IInv, TypeOK, Safe, CountIsRun, Phase
    <3>1. CASE ph.name = "Near" /\ ph'.name = "Far"
      <4>1. MovesAway(p, ph, r)
        BY <2>2, <3>1 DEF Poll, PhaseAfter, FromNear, Near, Disconnected, Reading
      <4> QED BY <2>2, <3>0, <3>1, <4>1 DEF Poll, MovesAway, Longer
    <3>2. CASE ph.name # "Near" /\ ph'.name = "Near"
      <4>1. ph.name = "Far" /\ MovesBack(p, ph, r)
        BY <2>2, <3>0, <3>2
           DEF Poll, PhaseAfter, FromFar, FromDisconnected, Far, Disconnected, Reading, PhaseName
      <4> QED BY <2>2, <3>0, <3>2, <4>1 DEF Poll, MovesBack, Longer
    <3> QED BY <3>1, <3>2
  <2> QED BY <1>1, <2>1, <2>2 DEF Next
<1> QED BY <1>1, Inductive, PTL DEF Spec, SwitchesAreEarned
==============================================================================
