\* One consent that is withdrawn while two voiceprints are enrolled on it, two
\* sessions, two requests at a time; and four refresh tokens: two logins, or one that
\* is rotated three times.
SPECIFICATION AuthorizationSpec
SYMMETRY Symmetry
CONSTANTS
  Consents = {c1}
  Voiceprints = {v1, v2}
  Sessions = {s1, s2}
  Requests = {r1, r2}
  None = None
  Tokens = {t1, t2, t3, t4}
  NoToken = NoToken
INVARIANTS
  ActiveVoiceprintHasConsent
  UnreplacedUseIsLicensed
  SuccessMeansStopped
  OneActivePerFamily
  RedeemedOnce
  ExposedFamilyIsDead
PROPERTIES
  NeverAuthenticAgain
CHECK_DEADLOCK FALSE
