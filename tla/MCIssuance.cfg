SPECIFICATION Spec
CONSTANTS
  n1 = n1  n2 = n2
  op1 = op1  shake1 = shake1  tick1 = tick1  shake2 = shake2  tick2 = tick2
  Node = {n1, n2}
  Proc = {op1, tick1, shake2, tick2}
  Operator = {op1}
  Handshake = {shake2}
  NodeOf <- MCNodeOf
  MaxOrders = 4
  MaxDue = 2
  MaxFaults = 2
PROPERTIES
  NeverOlder
  OutstandingCollected
  HeldReachesStorage
CHECK_DEADLOCK FALSE
