\* Two connections of three and of two frames, windows of two frames, an evidence
\* queue of two and others of one.
SPECIFICATION FairSpec
CONSTANTS
  None = None
  WindowLength = 2
  Stride = 1
  FrameMax = 1
  WindowMax = 1
  EvidenceMax = 2
  ConnectMax = 2
  PostMax = 2
  StreamMax <- Streams
INVARIANTS
  TypeOK
  WindowSpansNoGap
  DeepFollowsFast
PROPERTIES
  DeliveryGoesOn
CHECK_DEADLOCK FALSE
