\* Two executors, an operator, verification and maintenance around one row.
SPECIFICATION Spec
CONSTANTS
  Interventions = {i1}
  Kinds <- AllKinds
  Procs = {p1, p2}
  Requests = {r1}
  Challenges = {c1}
  Keys = {k1}
  None = None
  MaxAttempts = 2
  BatchSize = 1
  LeaseLen = 1
  RetryBase = 1
  Backoff <- MCBackoff
  ChallengeTtl = 1
  Ttl = 1
  MaxTime = 2
  MaxFaults = 1
SYMMETRY ProcSymmetry
INVARIANTS
  TypeOK
  AttemptClaimedOnce
  LeaseExcludes
  HoldBeforeInProgress
  ReleaseNeedsVerification
PROPERTIES
  StatusFollowsDomain
  ActiveHoldOnlySatisfied
CHECK_DEADLOCK FALSE
