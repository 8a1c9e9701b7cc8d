\* One call with one track: the map is left by the expiry of a session that is STARTING.
SPECIFICATION Spec
CONSTANTS
  Customer = customer
  Caller = caller
  Participants = {caller}
  Tracks = {t1}
  Procs = {p1}
  None = None
PROPERTIES
  SessionFollowsMap
CHECK_DEADLOCK FALSE
