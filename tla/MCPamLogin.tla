----------------------------- MODULE MCPamLogin -----------------------------
\* Values for the constants of PamLogin.
EXTENDS PamLogin

CONSTANTS d1, d2, u1, u2

\* Both devices belong to u1, or one of them is u2's.
MCShared == {[d \in {d1, d2} |-> u1], [d \in {d1, d2} |-> IF d = d1 THEN u1 ELSE u2]}
=============================================================================
