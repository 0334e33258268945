SPECIFICATION Spec
CONSTANTS
  o1 = o1
  o2 = o2
  Observer = {o1, o2}
  ObservationsMax = 1
  MaxFrame = 1
  MayClog = FALSE
SYMMETRY Observers
INVARIANTS
  CountExact
  StreamFinished
PROPERTIES
  ImplementsStream
CHECK_DEADLOCK FALSE
