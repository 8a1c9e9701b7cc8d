\* Two connections, one after the other, number their windows from one.
SPECIFICATION Spec
CONSTANTS
  None = None
  WindowLength = 2
  Stride = 1
  FrameMax = 1
  WindowMax = 1
  EvidenceMax = 2
  ConnectMax = 2
  PostMax = 2
  StreamMax <- Streams
INVARIANTS
  DuplicateIsOfTheSameWindow
CHECK_DEADLOCK FALSE
