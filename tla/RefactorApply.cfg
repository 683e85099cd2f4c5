SPECIFICATION Spec
CONSTANTS
  Files = {"a", "b", "c", "d"}
  Edited = {"a", "b", "c"}
  MaxSaves = 2
INVARIANTS OnlyVerifiedWritten AppliedIsVerified FailedIsRolledBack
CHECK_DEADLOCK FALSE
