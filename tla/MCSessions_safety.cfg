\* Two people, two tokens, a code, and other logins that purge it.
SPECIFICATION FairSpec
CONSTANTS
  boss = boss
  staff = staff
  admin = admin
  t1 = t1
  t2 = t2
  d1 = d1
  d2 = d2
  Admin = Admin
  Users = {boss, staff}
  Surfaces = {Admin}
  Roles = {admin}
  SurfacesOf <- OneRole
  Bootstrap = {boss}
  Askers = {}
  MaxTime = 2
  MaxRestarts = 2
  Tokens = {t1, t2}
  Codes = {d1}
  NoUser = NoUser
  NoCode = NoCode
  TokenTtl = 2
  CodeTtl = 1
INVARIANTS CodesAreSingleUse EndingsHold
PROPERTIES LoginEnds
CHECK_DEADLOCK FALSE
