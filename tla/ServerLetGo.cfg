SPECIFICATION Spec
CONSTANTS
  MaxClients = 2
  MaxMessages = 2
INVARIANT LetGoIsDone
CHECK_DEADLOCK FALSE
