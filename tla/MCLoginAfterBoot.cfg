SPECIFICATION FairSpec
CONSTANTS
  d1 = d1
  d2 = d2
  u1 = u1
  u2 = u2
  Macs = {d1}
  Users = {u1}
  NoUid = NoUid
  Seated = {NoUid}
  Configs <- MCOneDevice
  Prox <- MCLockOnLoss
  Modes = {"Both"}
  ChanFactor = 1
  Env = {"switch"}
  Budget = 1
PROPERTY
  SeatedUserIsMonitored
CHECK_DEADLOCK FALSE
