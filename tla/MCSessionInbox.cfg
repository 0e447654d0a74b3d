SPECIFICATION Spec
CONSTANTS
  Clients = {a}
  Inputs = {i, j}
  Kinds = {"user"}
  Deliveries = {"steer", "queue"}
  None = None
  RetryLimit = 2
  UserShell = FALSE
SYMMETRY Symmetry
INVARIANTS
  InDeliveryOrder
  InboxInv
  NoStranded
PROPERTIES
  SteersFirst
  UsesDoorbell
