SPECIFICATION Spec
CONSTANTS
  Files = {f}
  Texts = {"x", "y"}
  MaxMessages = 3
  Concurrency = 4
INVARIANT ClosedIsForgotten
CHECK_DEADLOCK FALSE
