\* One call, two tracks, two overlapping handlers.
SPECIFICATION Spec
CONSTANTS
  Customer = customer
  Caller = caller
  Participants = {caller}
  Tracks = {t1, t2}
  Procs = {p1, p2}
  None = None
INVARIANTS
  OneActiveBinding
  OnlyTheBoundTrackSpeaks
PROPERTIES
  CallFollowsMap
  HandlersFollowMap
SYMMETRY Symmetry
CHECK_DEADLOCK FALSE
