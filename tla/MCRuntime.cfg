SPECIFICATION Spec
CONSTANTS
  Programs <- MCPrograms
  Broken = {"bad"}
  Caps = {"io", "fs"}
  Ops = {"print", "read_line", "read_file"}
  ReadOps = {"read_line", "read_file"}
  CapOf <- MCCapOf
  Texts = {"a", "b"}
  Fns = {"save"}
  Points <- MCPoints
  Start <- MCStart
  ItemAt <- MCItemAt
  Goto <- MCGoto
  MaxSessions = 2
  MaxEdits = 2
INVARIANTS
  Sandboxed
  AuthorizedInLog
  AtMostOneUnlogged
  ReplayTracksRecording
  ReplayReachesSameEnd
  SuccessfulReplayMatchesLog
 
CHECK_DEADLOCK FALSE
