SPECIFICATION Spec
CONSTANTS
  Files = {f, g}
  Texts = {"x", "y"}
  MaxMessages = 5
  Concurrency = 4
INVARIANT CaughtUp
PROPERTIES NoStaleOverwrite CatchesUp
CHECK_DEADLOCK FALSE
