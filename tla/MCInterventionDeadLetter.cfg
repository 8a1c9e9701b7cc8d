\* A row whose every attempt fails.
SPECIFICATION FairSpec
CONSTANTS
  Interventions = {i1}
  Kinds <- DemoHoldOnly
  Procs = {p1}
  Requests = {}
  Challenges = {}
  Keys = {}
  None = None
  MaxAttempts = 2
  BatchSize = 1
  LeaseLen = 1
  RetryBase = 1
  Backoff <- MCBackoff
  ChallengeTtl = 2
  Ttl = 1
  MaxTime = 3
  MaxFaults = 0
PROPERTIES
  ExhaustedIsDeadLettered
CHECK_DEADLOCK FALSE
