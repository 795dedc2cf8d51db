SPECIFICATION FairSpec
CONSTANTS
  d1 = d1
  d2 = d2
  u1 = u1
  u2 = u2
  Macs = {d1}
  Users = {u1}
  NoUid = NoUid
  Seated = {u1}
  Configs <- MCOneOrNone
  Prox <- MCLockOnLoss
  Modes = {"Both", "PamOnly"}
  ChanFactor = 1
  Env = {"edit", "reload", "switch"}
  Budget = 2
PROPERTIES
  EditIsApplied
  AwayLocks
  StatusHeals
CHECK_DEADLOCK FALSE
