CONSTANTS
  method = method
  Reader <- OneReader
  SINKLIMIT = 3
  Dwell <- Dwells
  MaxClock = 6
SPECIFICATION Spec
CHECK_DEADLOCK FALSE
INVARIANT KeepsNewest
PROPERTY AdjacentReading
