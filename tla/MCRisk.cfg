\* Entry after two windows, clearing after three, one window may be missing.  Two
\* callback requests deliver events of two windows, one of them revised, in any order;
\* the engine alone is called with windows of seven kinds in five positions.
SPECIFICATION RiskSpec
CONSTANTS
  Scale = 10
  LastWindow = 4
  identityEnter = 7
  identityClear = 6
  spoofEnter = 7
  spoofClear = 6
  fastWeight = 2
  deepWeight = 8
  entryConsecutiveWindows = 2
  clearConsecutiveWindows = 3
  maximumWindowGap = 1
  highRisk = {"WARN"}
  critical = {"WARN", "HOLD_PROTECTED_ACTION", "REQUIRE_STEP_UP"}
  Groups <- FixtureGroups
  Ids <- RevisedIds
  Payload <- RevisedPayload
  Requests = {r1, r2}
  EvidenceMode = "CALIBRATED"
  Promoted = TRUE
  HasReference = TRUE
  InProduction = FALSE
SYMMETRY Symmetry
INVARIANTS
  HysteresisReference
  ConfirmedStateIsStable
  ScoreMeaningOnly
  TypeOK
  SlotKeepsHighestRevision
  LatestAssessmentIsCurrent
  OutcomeIndependentOfOrder
  ControlsAreLicensed
PROPERTIES
  RedeliveryChangesNothing
CHECK_DEADLOCK FALSE
