SPECIFICATION LoginSpec
CONSTANTS
  d1 = d1
  d2 = d2
  u1 = u1
  u2 = u2
  Macs = {d1, d2}
  Users = {u1, u2}
  NoUser = NoUser
  Configs <- MCShared
  MaxRetries = 3
INVARIANTS
  LoginTypeOK
  SteadyIsNear
  NearIsOwn
CHECK_DEADLOCK FALSE
