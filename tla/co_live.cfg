SPECIFICATION FairSpec
CONSTANTS
  Caller = {u1, u2}
  IDSpace = 2
  QueueSize = 1
  MaxReq = 3
INVARIANTS
  Correlated
  TeardownMeansLate
  StoreExact
PROPERTIES
  ImplementsRequestReply
  SendReturns
CHECK_DEADLOCK FALSE
