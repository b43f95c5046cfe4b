CONSTANTS
  n1 = n1
  n2 = n2
  h1 = h1
  None = None
  Node = {n1, n2}
  Host = {h1}
  Served = {}
  Handshaking = {}
  Flaky = {}
  Landing = FALSE
  MaxTokens = 1
  MaxDue = 1
  MaxOrders = 2
  MaxFaults = 0
SPECIFICATION LiveSpec
PROPERTIES
  FollowersConverge
CHECK_DEADLOCK FALSE
