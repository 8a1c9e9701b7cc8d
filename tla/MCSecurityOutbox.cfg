\* Two flushes over two alerts: the promise of a leased table, fencing, and nothing
\* starves.
SPECIFICATION FairSpec
CONSTANTS
  Alerts = {a1, a2}
  Procs = {p1, p2}
  None = None
  MaxAttempts = 2
  BatchSize = 2
  LeaseLen = 1
  RetryBase = 1
  Backoff <- MCBackoff
  MaxTime = 2
  MaxFaults = 1
INVARIANTS
  TypeOK
  LeaseFences
PROPERTIES
  ImplementsLeasedWork
  PendingIsAttempted
CHECK_DEADLOCK FALSE
