\* Two executors, two rows, a batch of one, no operators: nothing starves.
SPECIFICATION FairSpec
CONSTANTS
  Interventions = {i1, i2}
  Kinds <- DemoHoldOnly
  Procs = {p1, p2}
  Requests = {}
  Challenges = {}
  Keys = {}
  None = None
  MaxAttempts = 2
  BatchSize = 1
  LeaseLen = 1
  RetryBase = 1
  Backoff <- MCBackoff
  ChallengeTtl = 2
  Ttl = 1
  MaxTime = 2
  MaxFaults = 1
PROPERTIES
  PendingIsAttempted
CHECK_DEADLOCK FALSE
