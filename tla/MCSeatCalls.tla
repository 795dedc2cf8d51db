---------------------------- MODULE MCSeatCalls ----------------------------
\* Values for the constants of SeatCalls: two sessions, of two users.
EXTENDS SeatCalls

CONSTANTS s1, s2, u1, u2

MCOwner == [s \in Sessions |-> IF s = s1 THEN u1 ELSE u2]
==============================================================================
