SPECIFICATION FairSpec
CONSTANTS
  f1 = f1
  f2 = f2
  f3 = f3
  f4 = f4
  f5 = f5
  f6 = f6
  Macs = {m1}
  Settings = {s1}
  Requests = {r1, r2, r3}
  Passwd = Passwd
  Ops = {"put", "add"}
  Beside = {"reload"}
  Files <- MCFiles
  NoFile = NoFile
PROPERTY
  AllAnswered
CHECK_DEADLOCK FALSE
