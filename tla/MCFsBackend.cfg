CONSTANTS
  w1 = w1
  w2 = w2
  lease = lease
  chain = chain
  None = None
  Writer = {w1, w2}
  Key = {lease, chain}
  Swapped = {lease}
  MaxPuts = 4
  MaxCrashes = 1
SPECIFICATION LiveSpec
INVARIANTS
  ComparedIsReplaced
PROPERTIES
  ImplementsStore
  CallsReturn
