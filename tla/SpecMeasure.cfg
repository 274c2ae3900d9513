CONSTANTS
  c1 = c1
  c2 = c2
  main = main
  none = none
  Thread <- Clients
  Main = main
  NoThread = none
  Serial <- Serials
  Bus <- Devices
  NumScans = 2
  Menu <- Menus
  MaxRequests = 3
SPECIFICATION Spec
CHECK_DEADLOCK FALSE
INVARIANTS TypeOK OwnDevices NoFreedSample FreshMessages OneSample
PROPERTY RequestsReturn
