SPECIFICATION Spec
CONSTANTS
  r1 = r1
  r2 = r2
  c1 = c1
  c2 = c2
  u1 = u1
  u2 = u2
  RunIds = {r1, r2}
  Tabs = {c1, c2}
  Users = {u1, u2}
  UserOf <- TwoUsers
  NoRun = NoRun
  NoUser = NoUser
  MaxBufferedEvents = 3
  MaxRunSeconds = 0
  KeepFinishedSeconds = 0
  MaxProgress = 1
  MaxTime = 2
  MaxDrops = 1
  MaxRestarts = 0
PROPERTIES ImplementsFeed
SYMMETRY RunSymmetry
CHECK_DEADLOCK FALSE
