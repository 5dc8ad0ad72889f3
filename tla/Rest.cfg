SPECIFICATION FairSpec
CONSTANTS
  Clients = {c1, c2, c3}
  NoClient = none
INVARIANTS TypeOK RunsUntilSignal
PROPERTIES QuietWhenDestroyed SignalEnds Accepted Handled
CHECK_DEADLOCK FALSE
