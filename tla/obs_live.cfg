SPECIFICATION FairSpec
CONSTANTS
  Observer = {o1}
  ObservationsMax = 1
  MaxFrame = 3
  MayClog = TRUE
PROPERTIES
  ImplementsStream
  ObserversEnd
  
  IncomingFreed
CHECK_DEADLOCK FALSE
