\* Every script of at most two tasks, for a note of one field.
SPECIFICATION FairSpec
CONSTANTS
  Texts = {"word", "7"}
  NoteFields = 1
  MaxTasks = 2
INVARIANTS
  AsMeant
PROPERTIES
  Ends
CHECK_DEADLOCK FALSE
