------------------------------ MODULE ProxState ------------------------------
(***************************************************************************)
(* The hysteresis of daemon/src/proximity.rs: how one reading of a device  *)
(* moves its phase and which action that asks for.  Operators only; the    *)
(* poll loop around them is in DevicePoll and in Daemon.                   *)
(*                                                                         *)
(* A relative path loss is abstracted to the side of rpl_threshold it      *)
(* falls on, the one thing transition() reads of it.                       *)
(*                                                                         *)
(* An operator whose comment begins with "Slip:" is not the code: it is a  *)
(* plausible mistake in the definition that follows it, kept to show that  *)
(* a property would notice it.                                             *)
(***************************************************************************)
EXTENDS Integers

\* Reading: Rpl(r) with r >= rpl_threshold, Rpl(r) below it, ConnectionLost.
Reading == {"far", "near", "lost"}

Action == {"Lock", "Unlock", "None"}

PhaseName == {"Near", "Far", "Disconnected"}

\* Phase: the counter is consecutive_far in Near and consecutive_near in Far.
Phase == [name: PhaseName, count: Nat]

Near(n) == [name |-> "Near", count |-> n]
Far(n) == [name |-> "Far", count |-> n]
Disconnected == [name |-> "Disconnected", count |-> 0]

\* The part of ProximityConfig that transition() reads.  Config validation
\* keeps both counts at 1 or more.
Profile == [lock: Nat \ {0}, unlock: Nat \ {0}, disc: Action]

\* ProxState::new
NewPhase == Near(0)

\* The reading that completes a run of lock_count far ones.
MovesAway(p, ph, r) ==
  r = "far" /\ ph.name = "Near" /\ ph.count + 1 >= p.lock

\* The reading that completes a run of unlock_count near ones.
MovesBack(p, ph, r) ==
  r = "near" /\ ph.name = "Far" /\ ph.count + 1 >= p.unlock

\* Slip: a near reading does not reset consecutive_far.
FromNearNoReset(p, ph, r) ==
  CASE MovesAway(p, ph, r) -> Far(0)
    [] r = "far" /\ ~MovesAway(p, ph, r) -> Near(ph.count + 1)
    [] r = "near" -> ph

\* The Near arm of handle_rpl.
FromNear(p, ph, r) ==
  CASE MovesAway(p, ph, r) -> Far(0)
    [] r = "far" /\ ~MovesAway(p, ph, r) -> Near(ph.count + 1)
    [] r = "near" -> Near(0)

\* The Far arm of handle_rpl.
FromFar(p, ph, r) ==
  CASE MovesBack(p, ph, r) -> Near(0)
    [] r = "near" /\ ~MovesBack(p, ph, r) -> Far(ph.count + 1)
    [] r = "far" -> Far(0)

\* Slip: a connection restored nearby counts as near at once.
FromDisconnectedTrusting(r) == IF r = "far" THEN Far(0) ELSE Near(0)

\* The Disconnected arm of handle_rpl: a near reading already counts once.
FromDisconnected(r) == IF r = "far" THEN Far(0) ELSE Far(1)

\* The phase transition() leaves behind.
PhaseAfter(p, ph, r) ==
  CASE r = "lost" -> Disconnected
    [] r # "lost" /\ ph.name = "Near" -> FromNear(p, ph, r)
    [] r # "lost" /\ ph.name = "Far" -> FromFar(p, ph, r)
    [] r # "lost" /\ ph.name = "Disconnected" -> FromDisconnected(r)

\* Slip: a connection restored nearby unlocks at once.
ActionOfEager(p, ph, r) ==
  CASE r = "lost" /\ ph.name # "Disconnected" -> p.disc
    [] MovesAway(p, ph, r) -> "Lock"
    [] MovesBack(p, ph, r) \/ (r = "near" /\ ph.name = "Disconnected") -> "Unlock"
    [] OTHER -> "None"

\* The action transition() returns; a loss is reported only once.
ActionOf(p, ph, r) ==
  CASE r = "lost" /\ ph.name # "Disconnected" -> p.disc
    [] MovesAway(p, ph, r) -> "Lock"
    [] MovesBack(p, ph, r) -> "Unlock"
    [] OTHER -> "None"
==============================================================================
