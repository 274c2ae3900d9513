CONSTANTS
  c1 = c1
  c2 = c2
  none = none
  default = default
  unset = unset
  saved1 = saved1
  saved2 = saved2
  Thread <- Clients
  NoThread = none
  NumSpecs = 2
  MaxAbsWaves = 2
  Lambda <- Lambdas
  Wave <- Waves2
  Label <- Labels
  Menu <- Requests
  MaxRequests = 2
  BenchValue <- BenchValues
  Default = default
  Unset = unset
  MaxRestarts = 1
SPECIFICATION SSpec
SYMMETRY ClientSymmetry
CHECK_DEADLOCK FALSE
INVARIANTS SavedIsMemory LoggedIsMemory OldNewOrNothing PixelsFollow BenchSaved NobodyStuck
