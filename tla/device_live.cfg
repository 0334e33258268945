SPECIFICATION FairSpec
CONSTANTS
  MaxConn = 2
  MaxReq = 1
  MaxUser = 1
  MaxWork = 1
  MaxPing = 1
  QueueSize = 2
INVARIANTS
  OneChain
  ServesCurrent
  TeardownMeansLate
  IdentityKnown
PROPERTIES
  Recovers
  CancelCloses
CHECK_DEADLOCK FALSE
