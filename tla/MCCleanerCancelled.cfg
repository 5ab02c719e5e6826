SPECIFICATION Spec
CONSTANTS
  NoteCount = 3
  Workers = {w1, w2}
  ResultsBuffer = 2
  BatchSize = 2
INVARIANT FinishedProcessedAll
