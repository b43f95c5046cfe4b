SPECIFICATION LiveSpec
CONSTANTS
  n1 = n1  n2 = n2
  op1 = op1  shake1 = shake1  tick1 = tick1  shake2 = shake2  tick2 = tick2
  Node = {n1, n2}
  Proc = {tick1, tick2}
  Operator = {}
  Handshake = {}
  NodeOf <- MCNodeOf
  MaxOrders = 5
  MaxDue = 2
  MaxFaults = 2
PROPERTIES
  FreshNotReordered
  DueIsRenewed
  MissingIsRestored
CHECK_DEADLOCK FALSE
