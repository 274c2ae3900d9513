CONSTANTS
  numPixels = 13
  START_DARK = 0
  MAX_DARK_PIXEL = 2
  ByteSize = 8
  Word = 65536
  satScale = 2
  Exposure <- Exposures
  MaxScans = 2
  Boxcar = {1, 9}
  Time = {2741}
  Order <- Orders
SPECIFICATION ASpec
INVARIANTS TimeKept SmoothedWithin DimmedNotAbsorbed
