\* Three connections of one client where two are allowed, one event, one call, one
\* subscribe at a time.
SPECIFICATION Spec
SYMMETRY Symmetry
CONSTANTS
  None = None
  e1 = e1
  c1 = c1
  u1 = u1
  Sockets = {s1, s2, s3}
  Users = {u1}
  UserOf <- OneUser
  Calls = {c1}
  Events = {e1}
  CallOf <- OneCall
  Handlers = {h1}
  MaxConnections = 2
  ReplayMax = 1
INVARIANTS
  ConnectionLimit
  SteadySubscriberIsServed
  OnlyGrantedCalls
  RevokedIsDisconnected
CHECK_DEADLOCK FALSE
