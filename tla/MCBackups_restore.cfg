\* restore.sh: "restoring the same backup twice leaves the same state".
SPECIFICATION BackupsSpec
CONSTANTS
  BackupKeep = 1
  MaxMade = 2
  MaxBackups = 1
  MaxRestores = 2
  MaxBackupDay = 0
INVARIANT
  RestoresRepeat
CHECK_DEADLOCK FALSE
