----------------------------- MODULE DevicePoll -----------------------------
(***************************************************************************)
(* One device monitor (spawn_device_task in daemon/src/device.rs): poll,   *)
(* transition, report, and pick the next poll rate.  The loop is a single  *)
(* task and nothing else writes its state, so a round is one action.  What *)
(* happens to the report once it is sent is in Daemon; here `want' is the  *)
(* last action the monitor has sent, with the Unlock main.rs assumes for   *)
(* a device that has not spoken yet.                                       *)
(*                                                                         *)
(* farRun and nearRun are history: how many of the latest readings were    *)
(* far, and near, in a row.  They stop counting at RunCap.  dropped tells  *)
(* whether the connection has been lost since the device was last near.    *)
(***************************************************************************)
EXTENDS ProxState

CONSTANTS
  Profiles,   \* proximity settings a device may be given
  RunCap      \* bound of the history counters

ASSUME ProfilesAssumption == Profiles \subseteq Profile

ASSUME RunCapAssumption ==
  /\ RunCap \in Nat /\ RunCap >= 2
  /\ \A q \in Profiles : q.lock <= RunCap /\ q.unlock <= RunCap

VARIABLES
  p,        \* lock_count, unlock_count and disconnect_action of the device
  ph,       \* prox_state.phase
  want,     \* the last action sent to the main loop
  rate,     \* which of the two intervals poll_interval was built from
  farRun,
  nearRun,
  dropped

vars == <<p, ph, want, rate, farRun, nearRun, dropped>>

------------------------------------------------------------------------------
Larger(a, b) == IF a >= b THEN a ELSE b

Longer(run) == IF run < RunCap THEN run + 1 ELSE run

Init ==
  /\ p \in Profiles
  /\ ph = NewPhase
  /\ want = "Unlock"
  /\ rate = "normal"
  /\ farRun = 0 /\ nearRun = 0
  /\ dropped = FALSE

\* The interval is rebuilt only when the device enters or leaves Disconnected.
RateAfter(before, after, current) ==
  IF (before.name = "Disconnected") # (after.name = "Disconnected")
  THEN IF after.name = "Disconnected" THEN "slow" ELSE "normal"
  ELSE current

\* Slip: None is sent too.
SentAlways(act, before) == act

\* Only an action other than None is sent.
Sent(act, before) == IF act # "None" THEN act ELSE before

\* One round: the poll answers r (a failed poll is a lost connection).
Poll(r) ==
  /\ ph' = PhaseAfter(p, ph, r)
  /\ want' = Sent(ActionOf(p, ph, r), want)
  /\ rate' = RateAfter(ph, ph', rate)
  /\ farRun' = IF r = "far" THEN Longer(farRun) ELSE 0
  /\ nearRun' = IF r = "near" THEN Longer(nearRun) ELSE 0
  /\ dropped' = (ph'.name # "Near" /\ (dropped \/ r = "lost"))
  /\ UNCHANGED p

Next == \E r \in Reading : Poll(r)

Spec == Init /\ [][Next]_vars

------------------------------------------------------------------------------
TypeOK ==
  /\ p \in Profiles
  /\ ph \in Phase
  /\ want \in {"Lock", "Unlock"}
  /\ rate \in {"normal", "slow"}
  /\ farRun \in 0..RunCap
  /\ nearRun \in 0..RunCap
  /\ dropped \in BOOLEAN

\* The counter of the phase is exactly the run of opposite readings that
\* ends in the latest poll, across resets and reconnections, and it is
\* always short of the count that would have moved the phase on.
CountIsRun ==
  /\ ph.name = "Near" => ph.count = farRun /\ farRun < p.lock
  /\ ph.name = "Far" => ph.count = nearRun /\ nearRun < Larger(p.unlock, 2)
  /\ ph.name = "Disconnected" => farRun = 0 /\ nearRun = 0

\* The monitor never jumps: Near is left for Far only after lock_count far
\* readings in a row, and Near is entered only after unlock_count near
\* readings in a row, none of which may predate a lost connection.
SwitchesAreEarned ==
  [][ /\ ph.name = "Near" /\ ph'.name = "Far" => farRun' >= p.lock
      /\ ph.name # "Near" /\ ph'.name = "Near" =>
           nearRun' >= p.unlock /\ ph.name = "Far" ]_vars

\* The actions sent add up to the phase: whoever keeps only the last one
\* knows a near device as wanting Unlock, and one that is away as wanting
\* Lock, unless its connection was lost on the way and disconnect_action is
\* not to lock: only so can a device go far away and leave the session open.
WantFitsPhase ==
  /\ ph.name = "Near" => want = "Unlock"
  /\ ph.name # "Near" /\ want = "Unlock" => dropped /\ p.disc # "Lock"

\* The slow interval is used exactly while the device is disconnected.
SlowWhileDisconnected == rate = "slow" <=> ph.name = "Disconnected"

Safe == CountIsRun /\ WantFitsPhase /\ SlowWhileDisconnected
==============================================================================
