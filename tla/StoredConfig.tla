----------------------------- MODULE StoredConfig -----------------------------
(***************************************************************************)
(* What the configuration of the daemon is to everything that uses it: a   *)
(* copy in memory and one on disk, with the handlers, the locks and the    *)
(* steps of a save left out.  ConfigStore implements this specification.   *)
(*                                                                         *)
(* The disk comes first.  A change replaces the configuration stored there *)
(* as a whole, at once or not at all, and only once memory has caught up   *)
(* with the change before; memory only ever takes over what is stored.     *)
(* The password goes its own way: `haraltr passwd' changes it on disk      *)
(* alone, and a change of anything else writes the one in memory back.     *)
(*                                                                         *)
(* All this as long as no two changes overlap, which nothing prevents, and *)
(* none stops between its two halves: after that nothing is promised.      *)
(***************************************************************************)

CONSTANTS
  Macs,        \* devices that may be configured
  Configs      \* configurations: devices, other settings, and a password

VARIABLES
  memory,      \* the daemon's copy
  stored,      \* what config.toml holds
  heard,       \* the devices the main loop last read
  due,         \* it is about to read them again
  overlapped   \* two changes have overlapped, or one has stopped half way

vars == <<memory, stored, heard, due, overlapped>>

------------------------------------------------------------------------------
Init ==
  /\ memory \in Configs /\ stored = memory
  /\ heard = memory.devs /\ due = FALSE
  /\ overlapped = FALSE

\* The password aside.
CaughtUp == stored.devs = memory.devs /\ stored.set = memory.set

\* A change made through the web UI.
Replace ==
  /\ ~overlapped /\ CaughtUp
  /\ \E c \in Configs : c.hash = memory.hash /\ stored' = c
  /\ UNCHANGED <<memory, heard, due, overlapped>>

ChangePassword ==
  /\ ~overlapped /\ CaughtUp
  /\ \E c \in Configs : c.devs = stored.devs /\ c.set = stored.set /\ stored' = c
  /\ UNCHANGED <<memory, heard, due, overlapped>>

\* Memory takes over what is stored: a change is completed, SIGHUP has the
\* file read, or the daemon is started again.  The main loop reads the new
\* devices with it, or is about to.
CatchUp ==
  /\ ~overlapped
  /\ memory' = stored
  /\ \/ memory'.devs = memory.devs /\ UNCHANGED <<heard, due>>
     \/ due' = TRUE /\ UNCHANGED heard
     \/ heard' = memory'.devs /\ due' \in BOOLEAN
  /\ UNCHANGED <<stored, overlapped>>

\* The main loop reads the devices; another change may be due by then.
Hear ==
  /\ ~overlapped /\ due
  /\ heard' = memory.devs
  /\ due' \in BOOLEAN
  /\ UNCHANGED <<memory, stored, overlapped>>

Overlap ==
  /\ overlapped' = TRUE
  /\ memory' \in Configs /\ stored' \in Configs
  /\ heard' \subseteq Macs /\ due' \in BOOLEAN

Next == Replace \/ ChangePassword \/ CatchUp \/ Hear \/ Overlap

Spec == Init /\ [][Next]_vars

------------------------------------------------------------------------------
TypeOK ==
  /\ memory \in Configs /\ stored \in Configs
  /\ heard \subseteq Macs
  /\ due \in BOOLEAN /\ overlapped \in BOOLEAN

\* The main loop knows the devices, or is about to read them.
Informed == ~overlapped => due \/ heard = memory.devs
==============================================================================
