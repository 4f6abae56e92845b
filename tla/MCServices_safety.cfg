\* Every component at the instance its hazards need; they share no state.
SPECIFICATION ServicesFairSpec
CONSTANTS
  \* Accounts: a bootstrap admin and one other person, two disjoint roles, two starts.
  boss = boss
  staff = staff
  db = db
  infra = infra
  analytics = analytics
  Admin = Admin
  Users = {boss, staff}
  Surfaces = {Admin, db}
  Roles = {infra, analytics}
  SurfacesOf <- RoleSurfaces
  Bootstrap = {boss}
  Askers = {staff}
  MaxTime = 1
  MaxRestarts = 2
  \* Limits: two questions in a window of two and a half seconds, over two short days.
  Sec = 2
  Window = 5
  Limit = 2
  Retention = 6
  Day = 5
  Budget = 2
  MaxCost = 2
  MaxOpen = 2
  MaxAsks = 4
  MaxClock = 9
  \* Migrations: CREATEs and two ALTERs at their end, in three releases.
  N = 6
  Alters = {5, 6}
  Releases = {2, 4, 6}
  MaxCrashes = 4
  \* Journal: three days, each looks back at one more.
  MaxDay = 2
  MaxRecords = 3
  MaxCuts = 1
  Lookback = 1
  MinObservations = 2
  \* Case files: rows leave by age and by the limit of the query.
  CaseWords = {"driver", "reader", "scan"}
  CaseRuns <- MCCaseRuns
  MaxCases = 2
  MaxAge = 3
  HalfAge = 1
  MaxRows = 3
  MaxCaseDay = 4
  MaxKept = 4
  \* Runbooks.
  Titles = {"Pods", "PODS", " pods ", "a: ---", "x---y", "long"}
  Clipped = {"x---y"}
  Unreadable = {"a: ---"}
  Blanked = {" pods "}
  Shipped = {"Pods"}
  SlugOf <- MCSlugOf
  Reslug <- MCReslug
  MaxSaves = 3
  MaxContainers = 2
  \* Door: two people; a source of its own, one that is spelled as a person, one without a
  \* name.  The window is not a whole number of seconds.
  Emails = {"ann", "bob"}
  Sources = {"s1", "ann", ""}
  Second = 2
  LoginLimit = 2
  RegisterLimit = 1
  DoorWindow = 3
  MaxDoorTime = 4
  MaxPosts = 4
  \* Assertions: two requests and a rotation.
  Requests = {"r1", "r2"}
  Ttl = 2
  FetchTime = 1
  MaxAssertionTime = 4
  MaxGeneration = 2
  \* Backups: one copy is kept; two backups, two restores, a commit between them, two days.
  BackupKeep = 1
  MaxMade = 2
  MaxBackups = 2
  MaxRestores = 2
  MaxBackupDay = 1
INVARIANTS
  AccessIsAccountable
  RoleIsNotExceeded
  QuotaIsExact
  RateIsBounded
  RetryAfterIsHonest
  OvershootIsBounded
  VersionIsApplied
  ServesItsSchema
  CutsAreContained
  HintsAreEarned
  PrecedentsAreFair
  AnsweredIsServed
  
  KeysFollowTheProxy
  BackupsHold
PROPERTY
  GetsUp
CHECK_DEADLOCK FALSE
