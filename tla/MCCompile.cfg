SPECIFICATION Spec
CONSTANTS
  Bodies <- MCBodies
  MaxAnswers = 5
  Depth = 2
  LoopDepth = 2
  Escapes = FALSE
INVARIANTS KirWellFormed LoweringFaithful EmissionFaithful
CHECK_DEADLOCK FALSE
