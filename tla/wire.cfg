SPECIFICATION Spec
CONSTANTS
  Lengths <- EdgeLengths
  Ids = {258}
  ObIDs = {772}
  URIs = {66051}
  Verifies <- EdgeVerifies
  Timeouts = {0, 29, 30, 43200, 43201}
INVARIANTS
  Intact
  LossesExplained
CHECK_DEADLOCK FALSE
