SPECIFICATION LiveSpec
CONSTANTS
  n1 = n1  n2 = n2  op1 = op1  tick1 = tick1  op2 = op2  tick2 = tick2
  Node = {n1, n2}
  Proc = {op1, tick1, tick2}
  Operator = {op1}
  NodeOf <- MCNodeOf
  Flaky = {n1}
  OneLeader = TRUE
  OneAtATime = TRUE
  MaxKeys = 3
  MaxOrders = 3
  MaxFaults = 1
  None = None
INVARIANTS
  TypeOK
  ServedIsDesired
PROPERTIES
  RetiredBeforeReplaced
  CeremonyCompletes
  OnlyFlushUnpairs
CHECK_DEADLOCK FALSE
