SPECIFICATION SurvivorSpec
CONSTANTS
  n1 = n1  n2 = n2  a1 = a1  a2 = a2
  Node = {n1, n2}
  Attempt = {a1, a2}
  NodeOf <- MCNodeOf
  Skew <- MCSkew
  TTL = 4
  MaxHold = 1
  MaxTime = 7
  NoLease = NoLease
INVARIANTS
  TypeOK
  MutualExclusion
  HolderIsRecorded
PROPERTIES
  OnlyExpiredReplaced
  ReleaseSparesPeer
  ImplementsMutex
  Reclaimed
CHECK_DEADLOCK FALSE
