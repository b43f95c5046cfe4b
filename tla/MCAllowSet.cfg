CONSTANTS
  n1 = n1
  n2 = n2
  h1 = h1
  None = None
  Node = {n1, n2}
  Host = {h1}
  Flaky = {n2}
  MaxChanges = 2
  MaxElections = 2
  MaxRestarts = 1
SPECIFICATION LiveSpec
PROPERTIES
  IndexForgets
  ChangePublished
