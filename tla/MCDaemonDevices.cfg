SPECIFICATION Spec
CONSTANTS
  d1 = d1
  d2 = d2
  u1 = u1
  u2 = u2
  Macs = {d1, d2}
  Users = {u1}
  NoUid = NoUid
  Seated = {u1}
  Configs <- MCOneOwner
  Prox <- MCLockOnLoss
  Modes = {"Both", "PamOnly"}
  ChanFactor = 1
  Env = {}
  Budget = 0
INVARIANTS
  AwayIsLocked
  NearIsUnlocked
