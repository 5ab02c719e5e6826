\* Three of two saves, an edit and a cleaner run at once; up to two switches, each
\* of which may fail; and an end of the program at any moment.
SPECIFICATION FairSpec
CONSTANTS
  Paths = {pA, pB}
  InitialPath = pA
  Savers = {s1, s2}
  Editors = {e1}
  Cleaners = {c1}
  Nobody = Nobody
  MaxHandles = 3
  MaxRequests = 3
INVARIANTS
  TypeOK
  OneLiveHandle
  SaveKeepsTogether
  BackupBeforeWrite
  ClosedForGood
PROPERTIES
  NoBatchAfterStop
  EverythingEnds
