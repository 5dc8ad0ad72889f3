SPECIFICATION FairSpec
CONSTANTS
  Producers = {p1, p2}
  Consumer = c
  NoThread = none
  Items = {1, 2}
  Ops = {"push_back", "push_front", "pop_front", "pop_back", "clear"}
  Waits = {TRUE, FALSE}
  Budgets = {1, 3}
  MaxPushes = 3
INVARIANTS TypeOK DequeExclusive PopFindsItem NoLockCycle
PROPERTIES AtomicSpec Handled
CHECK_DEADLOCK FALSE
