SPECIFICATION FairSpec
CONSTANTS
  c1 = c1
  c2 = c2
  d1 = d1
  d2 = d2
  Conn = {c1, c2}
  Device = {d1, d2}
  NoConn = NoConn
  NoDevice = NoDevice
  MaxVerify <- VerifyAgain
  MayStop = TRUE
  Claims <- BothDevices
INVARIANTS
  HandoverOrdered
  RegisteredVerified
  RegistryExact
  DoneNotStolen
PROPERTIES
  ImplementsDirectory
  HandoverCompletes
CHECK_DEADLOCK FALSE
