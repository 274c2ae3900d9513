CONSTANTS
  client = client
  queryCTD = queryCTD
  Thread <- Threads
  NoThread = none
  FrameLen = 5
  Garbage <- Misread
  MaxCommands = 3
SPECIFICATION FairSpec
CHECK_DEADLOCK FALSE
INVARIANT CleanBetween
PROPERTIES OwnAnswer CommandReturns
