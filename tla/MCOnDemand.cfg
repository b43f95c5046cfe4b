CONSTANTS
  n1 = n1
  n2 = n2
  h1 = h1
  None = None
  Node = {n1, n2}
  Host = {h1}
  Served = {}
  Handshaking = {n1}
  Flaky = {n1}
  Landing = FALSE
  MaxTokens = 1
  MaxDue = 1
  MaxOrders = 3
  MaxFaults = 1
SPECIFICATION LiveSpec
INVARIANTS
  TypeOK
  IndexDescribesStorage
PROPERTIES
  RenewedDespiteBudget
  LateWriteAnnounced
