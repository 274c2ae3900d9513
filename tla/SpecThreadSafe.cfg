CONSTANTS
  c1 = c1
  c2 = c2
  main = main
  none = none
  Thread <- Clients
  Main = main
  NoThread = none
  Serial <- Serials
  Bus <- Devices
  NumScans = 2
  Menu <- RaceMenus
  MaxRequests = 2
SPECIFICATION Spec
CHECK_DEADLOCK FALSE
INVARIANT ThreadSafe
