SPECIFICATION Spec
CONSTANTS
  Producers = {p1}
  Consumer = c
  NoThread = none
  Items = {1}
  Ops = {"push_back", "pop_front"}
  Waits = {TRUE}
  Budgets = {3}
  MaxPushes = 2
INVARIANT NoLostWakeup
CHECK_DEADLOCK FALSE
