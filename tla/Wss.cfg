SPECIFICATION FairSpec
CONSTANTS
  MaxOpens = 2
  Counts = {1, 2}
  MaxThreads = 3
  MaxAfterThrow = 2
INVARIANTS TypeOK NoTerminate
PROPERTIES QuietWhenClosed HandshakeEnds CloseReturns
CHECK_DEADLOCK FALSE
