CONSTANTS
  d = d
  second = second
  c1 = c1
  None = None
  Name = {d, second}
  Domain = d
  Client = {c1}
  MaxRetries = 2
  CALimit = 4
  Window = 2
  MaxWait = 2
  MaxUnread = 1
SPECIFICATION LiveSpec
INVARIANTS
  UnderCALimit
  LimitHonoured
  OneCertificatePerCaller
PROPERTIES
  RefusalLapses
