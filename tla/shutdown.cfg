SPECIFICATION FairSpec
CONSTANTS
  Conn = {c1}
  User = {u1, u2}
  Observer = {u2}
  QueueSize = 1
INVARIANTS
  ExitClean
PROPERTIES
  Exits
  SessionsEnd
CHECK_DEADLOCK FALSE
