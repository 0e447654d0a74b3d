SPECIFICATION FairSpec
CONSTANTS
  Keys = {k1}
  Calls = {c1, c2, c3}
  Pools = {p1, p2, p3}
  None = None
  Limit = 1
CHECK_DEADLOCK FALSE
INVARIANTS
  SlotInv
PROPERTIES
  ArrivalOrder
  WaiterServed
