CONSTANTS
  MaxChains = 3
  MaxKeys = 2
  MaxOutages = 1
  MaxFaults = 1
  MaxCommands = 1
SPECIFICATION LiveSpec
INVARIANTS
  CopyWasStored
PROPERTIES
  RemovesOnlyUnservable
  CopySuperseded
  RemovedComesBack
