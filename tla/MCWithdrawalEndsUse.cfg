\* One session goes on with its voiceprint after that was replaced and the consent
\* withdrawn; the token stays unused.
SPECIFICATION AuthorizationSpec
CONSTANTS
  Consents = {c1}
  Voiceprints = {v1, v2}
  Sessions = {s1}
  Requests = {r1}
  None = None
  Tokens = {t1}
  NoToken = NoToken
INVARIANTS
  WithdrawalEndsUse
CHECK_DEADLOCK FALSE
