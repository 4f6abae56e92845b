\* One run, two pages of one user, and a buffer that overflows.
SPECIFICATION WorkFairSpec
CONSTANTS
  r1 = r1
  r2 = r2
  c1 = c1
  c2 = c2
  u1 = u1
  u2 = u2
  RunIds = {r1}
  Tabs = {c1, c2}
  Users = {u1}
  UserOf <- OneUser
  NoRun = NoRun
  NoUser = NoUser
  MaxBufferedEvents = 2
  MaxRunSeconds = 0
  KeepFinishedSeconds = 0
  MaxProgress = 3
  MaxTime = 2
  MaxDrops = 1
  MaxRestarts = 1
INVARIANTS StreamsAreExact NoLostWakeup
PROPERTIES EndedRunsAreFrozen FollowersLearnTheEnd
CHECK_DEADLOCK FALSE
