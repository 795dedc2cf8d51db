SPECIFICATION Spec
CONSTANTS
  d1 = d1
  d2 = d2
  u1 = u1
  u2 = u2
  Macs = {d1, d2}
  Users = {u1, u2}
  NoUid = NoUid
  Seated = {u1}
  Configs <- MCOwners
  Prox <- MCOther
  Modes = {"Both", "PamOnly"}
  ChanFactor = 1
  Env = {"openFails", "findFails", "lockFails", "unlockFails", "watchDies", "switch", "manual", "edit", "put", "reload", "stop"}
  Budget = 2
INVARIANTS
  TypeOK
  MonitorsAreOwners
  NewestWantFitsPhase
  EditNotLost
PROPERTIES
  ActsForOwner
  ImplementsTable
  FollowsPolicy
CHECK_DEADLOCK FALSE
