SPECIFICATION Spec
CONSTANTS
  MaxClients = 3
  MaxMessages = 2
INVARIANTS TypeOK ToldOnce BroadcastReaches ServesUntilStop
PROPERTY QuietWhenStopped
CHECK_DEADLOCK FALSE
