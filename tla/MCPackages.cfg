SPECIFICATION Spec
CONSTANTS
  DepsOf <- MCDepsOf
  Published <- MCPublished
  Settings <- MCSettings
INVARIANTS ReadyOffline FailedRestores StoreClosed
PROPERTY UntouchedStays
CHECK_DEADLOCK FALSE
