SPECIFICATION FairSpec
CONSTANTS
  MaxConnects = 3
  MaxMessages = 2
  Careful = TRUE
INVARIANTS TypeOK HandlersLive NoTerminate
PROPERTIES QuietWhenDisconnected DisconnectReturns
CHECK_DEADLOCK FALSE
