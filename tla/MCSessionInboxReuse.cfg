SPECIFICATION FairSpec
CONSTANTS
  Clients = {a, b}
  Inputs = {i}
  Kinds = {"user", "synthetic"}
  Deliveries = {"queue"}
  None = None
  RetryLimit = 1
  UserShell = TRUE
INVARIANTS
  ReuseInv
PROPERTIES
  RowPromoted
