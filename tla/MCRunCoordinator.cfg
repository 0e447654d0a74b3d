SPECIFICATION FairSpec
CONSTANTS
  Keys = {k1}
  Execs = {x1, x2}
  Clients = {c1, c2}
  None = None
INVARIANTS
  OneExecution
  NoDoorbellLost
  QuietInv
  NoOrphanWaiter
PROPERTIES
  ImplementsDoorbell
  WakeAnswered
  IdlenessReached
