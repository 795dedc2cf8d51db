------------------------------ MODULE MCDaemon ------------------------------
\* Values for the constants of Daemon.
EXTENDS Daemon

CONSTANTS d1, d2, u1, u2

\* One user with both devices.
MCOneOwner == {[d \in {d1, d2} |-> u1]}

\* Each user with a device of their own, with d1 only, and the other way
\* round.
MCOwners == {[d \in {d1, d2} |-> IF d = d1 THEN u1 ELSE u2], [d \in {d1} |-> u1],
             [d \in {d1, d2} |-> IF d = d1 THEN u2 ELSE u1]}

\* One device, configured or not.
MCOneOrNone == {[d \in {d1} |-> u1], [d \in {} |-> u1]}

\* One device, always configured.
MCOneDevice == {[d \in {d1} |-> u1]}

\* Both lock when lost; d2 wants two far readings.
MCLockOnLoss == [d \in Macs |-> [lock |-> IF d = d1 THEN 1 ELSE 2, unlock |-> 2, disc |-> "Lock"]]

\* The shipped disconnect_action for d1, unlock for d2.
MCOther == [d \in Macs |-> [lock |-> 1, unlock |-> 1, disc |-> IF d = d1 THEN "None" ELSE "Unlock"]]
==============================================================================
