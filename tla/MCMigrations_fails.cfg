\* app/storage/db.py: startup is idempotent, only the tail runs.
SPECIFICATION MigrationsSpec
CONSTANTS
  N = 6
  Alters = {5, 6}
  Releases = {2, 4, 6}
  MaxCrashes = 4
INVARIANTS
  StartNeverFails
CHECK_DEADLOCK FALSE
