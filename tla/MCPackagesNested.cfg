SPECIFICATION Spec
CONSTANTS
  DepsOf <- NestedDepsOf
  Published <- MCPublished
  Settings <- NestedSettings
PROPERTY UntouchedStays
CHECK_DEADLOCK FALSE
