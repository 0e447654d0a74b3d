SPECIFICATION FairSpec
CONSTANTS
  Shells = {x1}
  Lives = 3
  Default = {d1}
  None = None
  MaxStarts = 3
INVARIANTS
  LeaseCovers
  NoticeAccounted
  LedgerInv
PROPERTIES
  OwedUntilAdmitted
  NoticeArrives
CHECK_DEADLOCK FALSE
