\* Two sessions, racing requests, a crash or an exit between them.  The run may
\* stop: every bound can be reached.
SPECIFICATION Spec
CONSTANTS
  Writers = {w1, w2}
  Nobody = Nobody
  Main = Main
  BackupKeepLastN = 1
  JournalModes = {"WAL", "DELETE"}
  MaxClock = 2
  MaxVersion = 2
  MaxSessions = 2
CHECK_DEADLOCK FALSE
SYMMETRY WriterSymmetry
INVARIANTS
  TypeOK
  PreSessionImage
PROPERTIES
  OneBackupPerSession
  ImplementsBackups
  NewestKept
