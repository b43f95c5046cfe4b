CONSTANTS
  n1 = n1
  n2 = n2
  Node = {n1, n2}
  Reached = {n2}
  MissCap = 2
  MaxTokens = 3
  MaxFaults = 2
SPECIFICATION LiveSpec
INVARIANTS
  AcceptedIsAnswered
  LeftoversAreFaults
PROPERTIES
  ValidatedInTheEnd
CHECK_DEADLOCK FALSE
