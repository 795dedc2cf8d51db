------------------------------ MODULE LockPolicy ------------------------------
(***************************************************************************)
(* What the main loop (daemon/src/main.rs) promises to do to sessions,     *)
(* with the channel, the awaits and everything that restarts it left out.  *)
(* It serves one user at a time and hears of each device whether it wants  *)
(* the session open.  It locks when the last of them has ceased to, and    *)
(* unlocks when the first does again: once per edge, for the user it       *)
(* serves, and before it hears another word.  Between two edges the        *)
(* session is the user's to lock and unlock by hand.  Daemon implements    *)
(* this specification.                                                     *)
(***************************************************************************)

CONSTANTS
  Macs,      \* trusted devices
  Users,     \* uids
  NoUid      \* NO_ACTIVE_UID

VARIABLES
  acts,      \* daemon.mode is Both or LockOnly
  locked,    \* whose session is locked
  user,      \* whose devices are being monitored, or NoUid
  devices,   \* those devices
  open,      \* the ones that want the session open, as far as is known
  near       \* was_near: how the session was left after the last edge

vars == <<acts, locked, user, devices, open, near>>

------------------------------------------------------------------------------
Init ==
  /\ acts \in BOOLEAN
  /\ locked = [u \in Users |-> FALSE]
  /\ user = NoUid /\ devices = {} /\ open = {} /\ near = TRUE

\* The last edge has been acted on.
InStep == acts => near = (open # {})

\* A device that has not spoken yet counts as near.
Begin ==
  /\ user = NoUid
  /\ user' \in Users
  /\ devices' \in (SUBSET Macs) \ {{}}
  /\ open' = devices' /\ near' = TRUE
  /\ UNCHANGED <<acts, locked>>

Hear ==
  /\ InStep
  /\ \E d \in devices : open' \in {open \union {d}, open \ {d}}
  /\ UNCHANGED <<acts, locked, user, devices, near>>

\* logind may fail to do what it is asked; it is asked once.
Lock ==
  /\ user \in Users /\ acts
  /\ near /\ open = {}
  /\ near' = FALSE
  /\ locked' \in {locked, [locked EXCEPT ![user] = TRUE]}
  /\ UNCHANGED <<acts, user, devices, open>>

Unlock ==
  /\ user \in Users /\ acts
  /\ ~near /\ open # {}
  /\ near' = TRUE
  /\ locked' \in {locked, [locked EXCEPT ![user] = FALSE]}
  /\ UNCHANGED <<acts, user, devices, open>>

\* A restart or the end, never between an edge and what it calls for.
End ==
  /\ user \in Users /\ InStep
  /\ user' = NoUid /\ devices' = {} /\ open' = {} /\ near' = TRUE
  /\ UNCHANGED <<acts, locked>>

\* A user locks the screen, or unlocks it with the password.
ByHand ==
  /\ \E u \in Users : locked' = [locked EXCEPT ![u] = ~locked[u]]
  /\ UNCHANGED <<acts, user, devices, open, near>>

Next == Begin \/ Hear \/ Lock \/ Unlock \/ End \/ ByHand

Spec == Init /\ [][Next]_vars

------------------------------------------------------------------------------
\* Somebody is served while there are devices to hear, and nobody otherwise.
TypeOK ==
  /\ acts \in BOOLEAN
  /\ locked \in [Users -> BOOLEAN]
  /\ user \in Users \union {NoUid}
  /\ devices \subseteq Macs /\ open \subseteq devices
  /\ near \in BOOLEAN
  /\ user \in Users <=> devices # {}
==============================================================================
