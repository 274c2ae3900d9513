CONSTANTS
  a = a
  b = b
  Thread = {a, b}
  NoThread = none
  Menu <- OneWriter
  NumSpecs = 2
  Failing = {"measurement"}
  MaxClock = 2
  MaxCalls <- ThreeTwo
SPECIFICATION FairSpec
CHECK_DEADLOCK FALSE
INVARIANTS ConfigLabels ReadingsBelong ValuesBelong
PROPERTY CallsReturn
