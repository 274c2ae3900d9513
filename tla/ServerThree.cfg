CONSTANTS
  runner = runner
  mainThread = mainThread
  nobody = nobody
  Connections = 3
  Runner = runner
  Main = mainThread
  NobodyId = nobody
  NUM_THREADS = 2
  MaxFds = 3
  MaxThreads = 2
  MaxMessages = 2
SPECIFICATION FairSpec
CHECK_DEADLOCK FALSE
INVARIANTS OwnBin ServesWhileFree StaysUp NoLostCommand
PROPERTY ExitsOnTerm
