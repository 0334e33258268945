SPECIFICATION Spec
CONSTANTS
  MaxConn = 2
  MaxReq = 0
  MaxUser = 1
  MaxWork = 2
  MaxPing = 1
  QueueSize = 1
INVARIANT AnswersMatch
CHECK_DEADLOCK FALSE
