SPECIFICATION Spec
CONSTANTS
  f1 = f1
  f2 = f2
  f3 = f3
  f4 = f4
  f5 = f5
  f6 = f6
  Macs = {m1}
  Settings = {s1, s2}
  Requests = {r1, r2}
  Passwd = Passwd
  Ops = {"add", "remove", "update", "put"}
  Beside = {"passwd", "reload", "crash", "writeFails", "chmodFails"}
  Files <- MCFiles
  NoFile = NoFile
INVARIANTS
  TypeOK
  WholeFile
  StoredIsLive
PROPERTIES
  PasswordKept
  ImplementsStored
CHECK_DEADLOCK FALSE
