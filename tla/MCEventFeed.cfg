SPECIFICATION FeedFairSpec
CONSTANTS
  Publishers = {p1, p2}
  Connections = {c1, c2}
  Capacity = 1
  MaxEvents = 2
  BatchLimit = 2
INVARIANTS
  SameRun
  FeedInv
PROPERTIES
  Received
