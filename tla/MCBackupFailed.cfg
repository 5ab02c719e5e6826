SPECIFICATION Spec
CONSTANTS
  Writers = {w1, w2}
  Nobody = Nobody
  Main = Main
  BackupKeepLastN = 3
  JournalModes = {"DELETE"}
  MaxClock = 1
  MaxVersion = 1
  MaxSessions = 1
CHECK_DEADLOCK FALSE
INVARIANT FailedBackupNoWrite
