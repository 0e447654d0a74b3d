SPECIFICATION FairSpec
CONSTANTS
  None = None
  Processes = {p1, p2}
  Requests <- Asked
  ActivationAttempts = 2
  MaxJobs = 2
  MaxHead = 2
  MaxFaults = 1
INVARIANTS
  JobInv
PROPERTIES
  HolderDecides
  CallReturns
CHECK_DEADLOCK FALSE
