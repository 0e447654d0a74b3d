SPECIFICATION LockFairSpec
CONSTANTS
  Keys = {k1, k2}
  Fibers = {f1, f2, f3}
  Entries = {e1, e2, e3}
  NoEntry = NoEntry
  MaxStrands = 1
PROPERTIES
  WaitersProgress
  ImplementsMutex
