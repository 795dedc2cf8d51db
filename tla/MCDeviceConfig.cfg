SPECIFICATION Spec
CONSTANTS
  m1 = m1
  m2 = m2
  u1 = u1
  u2 = u2
  upper = upper
  lower = lower
  Macs = {m1, m2}
  NoMac = NoMac
  Forms = {upper, lower}
  Canonical = upper
  Users = {u1, u2}
  NoUid = NoUid
  Values = {0, 1, 2}
  Start <- MCStart
  Overrides <- MCOverrides
  Patches <- MCPatches
  Lists <- MCLists
  Requests = {r1, r2}
  Budget = 2
INVARIANTS
  TypeOK
  NoTwins
  SaneSettings
  ListedIsOwn
CHECK_DEADLOCK FALSE
