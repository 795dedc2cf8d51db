---------------------------- MODULE DaemonLogin ----------------------------
(***************************************************************************)
(* The daemon and one login through the PAM module, together: Daemon       *)
(* changes the configuration and the status table, and the IPC listener of *)
(* PamLogin reads them between any two of its steps.  PamLogin is checked  *)
(* against everything StatusTable allows; here the daemon itself stands in *)
(* its place.                                                              *)
(***************************************************************************)
EXTENDS Daemon

CONSTANTS
  NoUser,
  MaxRetries   \* MAX_RETRIES, 3 in the code

VARIABLES
  socket,   \* the listener is bound
  pam,      \* the login
  steady,   \* the histories of PamLogin
  owned,
  near

Pam == INSTANCE PamLogin WITH
  running <- DOMAIN wants, leaving <- {z[1] : z \in zombies}, stage <- Stage

both == <<vars, socket, pam, steady, owned, near>>

------------------------------------------------------------------------------
BothInit == Init /\ Pam!LoginStart

\* A step of the daemon, which the login's histories take note of.
DaemonStep == Next /\ Pam!Observe

\* A step of the login, or of the listener on its behalf.
PamStep == UNCHANGED vars /\ (Pam!Bind \/ Pam!LoginStep)

BothSpec == BothInit /\ [][DaemonStep \/ PamStep]_both

------------------------------------------------------------------------------
\* A login beside the daemon is one that PamLogin describes, so what is said
\* of every login there is true of it.
ImplementsLogin == Pam!LoginSpec
==============================================================================
