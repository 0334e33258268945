SPECIFICATION Spec
CONSTANTS
  H = 8
  Default = 20
  MinTimeout = 4
  MaxTimeout = 40
  MaxDelay = 1
  MaxVerify = 3
  MaxBusy = 2
  MaxWire = 2
INVARIANTS
  AliveNotCut
  DeadCutInTime
CHECK_DEADLOCK FALSE
