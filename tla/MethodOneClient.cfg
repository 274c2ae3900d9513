CONSTANTS
  a = a
  b = b
  NoThread = none
  Thread = {a}
  Executor = {a}
  Terminator = {a}
  Method <- Methods
  Wrap = 4
  MaxDepth = 20
  MaxRuns = 3
SPECIFICATION FairSpec
INVARIANT NoDangling
PROPERTIES ExecutesText MethodCompletes
