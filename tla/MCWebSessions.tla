--------------------------- MODULE MCWebSessions ---------------------------
\* Values for the constants of WebSessions.
EXTENDS WebSessions, TLC

MCSymmetry == Permutations(Tokens) \union Permutations(Clients) \union Permutations(Requests)
              \union Permutations(Passwords)
==============================================================================
