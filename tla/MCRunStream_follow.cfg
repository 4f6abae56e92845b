SPECIFICATION Spec
CONSTANTS
  r1 = r1
  r2 = r2
  c1 = c1
  c2 = c2
  u1 = u1
  u2 = u2
  RunIds = {r1}
  Tabs = {c1}
  Users = {u1}
  UserOf <- SoloTab
  NoRun = NoRun
  NoUser = NoUser
  MaxBufferedEvents = 2
  MaxRunSeconds = 1
  KeepFinishedSeconds = 1
  MaxProgress = 3
  MaxTime = 4
  MaxDrops = 1
  MaxRestarts = 1
INVARIANTS FollowsLive
CHECK_DEADLOCK FALSE
