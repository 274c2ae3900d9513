CONSTANTS
  c1 = c1
  c2 = c2
  a = a
  b = b
  empty = empty
  mixed = mixed
  none = none
  Client = {c1, c2}
  Name = {a, b}
  Empty = empty
  Mixed = mixed
  NoSelection = none
  Buffer = 1
  MaxPieces = 3
  MaxRequests = 4
  MaxRestarts = 1
SPECIFICATION FSpec
CHECK_DEADLOCK FALSE
SYMMETRY Alike
INVARIANTS StoredWhole ReadsStored
