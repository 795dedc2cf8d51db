SPECIFICATION Spec
CONSTANTS
  Tokens = {k1, k2}
  None = None
  Clients = {c1, c2}
  Requests = {r1, r2}
  Passwords = {w1, w2}
  Day = 2
  MaxTime = 3
  MaxEvents = 1
INVARIANTS
  TypeOK
  HandledIsSignedIn
  RefusedForCause
  RefusedIsGone
SYMMETRY MCSymmetry
CHECK_DEADLOCK FALSE
