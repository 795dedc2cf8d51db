SPECIFICATION FairSpec
CONSTANTS
  s1 = s1
  s2 = s2
  u1 = u1
  u2 = u2
  Sessions = {s1, s2}
  Owner <- MCOwner
  Users = {u1, u2}
  None = None
  Changes = 2
  Failures = 1
  Duration = 2
  MouseInterval = 1
  EnterInterval = 2
  Lateness = 1
INVARIANTS
  TypeOK
  LookupIsRight
  EntersOnTime
PROPERTIES
  WatcherSettles
  LoopReturns
CHECK_DEADLOCK FALSE
