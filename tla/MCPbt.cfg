SPECIFICATION PbtSpec
CONSTANTS
  Recorded <- MCRecorded
  MaxAttempts = 24
  Cases = {a, b}
  NumTests = 2
  MaxDiscardRatio = 2
  CorpusLimit = 3
INVARIANTS
  StaysRecording
  LocalMinimum
  NoSavedFailureMissed
  
PROPERTIES
  OnlySmaller
  RunEnds
CHECK_DEADLOCK FALSE
