\* Three notes in batches of two, two workers, a results buffer of one: the
\* buffer fills, a worker can die while the other holds a note, the writer
\* needs two transactions.  No symmetry, for the sake of Termination.
SPECIFICATION FairSpec
CONSTANTS
  NoteCount = 3
  Workers = {w1, w2}
  ResultsBuffer = 1
  BatchSize = 2
INVARIANTS
  TypeOK
  ErrorNeverLost
  RootCause
  GuardedWrites
  NothingLostOrDoubled
PROPERTIES
  ImplementsContract
  Termination
