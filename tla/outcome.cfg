SPECIFICATION Spec
CONSTANTS
  u1 = u1
  u2 = u2
  User = {u1, u2}
  Request = {r1}
  URI = {x}
  MaxCall = 2
  MaxSession = 3
  MaxFrame = 1
  ObservationsMax = 1
SYMMETRY Users
INVARIANTS
  UserTold
  CrossedIsStale
  DeviceTold
PROPERTIES
  Settled
CHECK_DEADLOCK FALSE
