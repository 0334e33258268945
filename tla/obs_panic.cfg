SPECIFICATION Spec
CONSTANTS
  Observer = {o1}
  ObservationsMax = 1
  MaxFrame = 2
  MayClog = TRUE
INVARIANTS
  GoneIsTerminated
CHECK_DEADLOCK FALSE
