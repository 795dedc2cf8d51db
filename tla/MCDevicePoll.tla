---------------------------- MODULE MCDevicePoll ----------------------------
\* Values for the constants of Monitor: the shipped BR/EDR counts (4/4), an
\* uneven pair and counts of one, each with another disconnect_action; the
\* shipped BR/EDR and LE filters, losses to a tenth of a dB, covariances to
\* 1/1000.
EXTENDS Monitor

MCProfiles ==
  {[lock |-> 4, unlock |-> 4, disc |-> "None"],
   [lock |-> 2, unlock |-> 3, disc |-> "Lock"],
   [lock |-> 1, unlock |-> 1, disc |-> "Unlock"]}

MCRadios ==
  {[addr |-> "BrEdr", fallback |-> 0, q |-> 100, r |-> 3000, initial |-> 50, threshold |-> 150],
   [addr |-> "LePublic", fallback |-> 0, q |-> 100, r |-> 8000, initial |-> 400, threshold |-> 600]}

\* A loss of 4 dB and one of 70, a power and a signal that could not be read.
MCAnswers == {<<4, 0>>, <<10, -60>>, <<127, -70>>, <<4, 127>>}

\* The rungs a filter reaches from the lowest of these losses on, down to a
\* whole step each.
MCRung(s, c, x) == x + ((c + s.q) * (Away - x)) \div (c + s.q + s.r)

MCLadder(s, c) ==
  LET up[n \in 0..Patience] == IF n = 0 THEN -123 * Unit ELSE MCRung(s, c, up[n - 1])
  IN up

\* The shipped filters are quick enough for the theorem that needs it.
ASSUME ShippedAreQuick ==
  \A s \in Radios : \E c \in 1..Grain : IsLadder(s, c, MCLadder(s, c))
==============================================================================
