SPECIFICATION Spec
CONSTANTS
  f1 = f1
  f2 = f2
  f3 = f3
  f4 = f4
  f5 = f5
  f6 = f6
  Macs = {m1}
  Settings = {s1, s2}
  Requests = {r1}
  Passwd = Passwd
  Ops = {"put"}
  Beside = {"passwd"}
  Files <- MCFiles
  NoFile = NoFile
INVARIANT
  PasswordStays
CHECK_DEADLOCK FALSE
