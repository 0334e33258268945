SPECIFICATION FairSpec
CONSTANTS
  User = {u1, u2}
  OutgoingChanSize = 1
  MaxVerify = 1
PROPERTIES
  VerifyDeadline
  
  BlockEnds
  CallerUnblocks
CHECK_DEADLOCK FALSE
