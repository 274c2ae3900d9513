CONSTANTS
  a = a
  b = b
  Thread = {a, b}
  NoThread = none
  NumPumps = 3
  PumpsPerNode = 2
  MaxPercent = 10
  Temp = {20, 30}
  BenchPercent = 5
  BenchTemp = 20
  Menu <- TwoClients
  Lossy = FALSE
SPECIFICATION FairSpec
INVARIANTS NodePowered PumpAgrees HeaterAgrees RunningIsCommanded
PROPERTIES NoPowerCut RequestsComplete
