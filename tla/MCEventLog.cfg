SPECIFICATION FairSpec
CONSTANTS
  Followers = {f1}
  ParentSeq = 1
  Committers = 2
  PageSize = 2
  MaxBatch = 2
  MaxSeq = 3
INVARIANTS
  NothingMissed
  InOrder
PROPERTIES
  Followed
