SPECIFICATION Spec
CONSTANTS
  Bodies <- MCBodies
  MaxAnswers = 5
  Depth = 1
  LoopDepth = 0
  Escapes = TRUE
INVARIANT EmissionFaithful
CHECK_DEADLOCK FALSE
