------------------------ MODULE AuthSessionsProofs ------------------------
(***************************************************************************)
(* For any number of tokens: the invariants and the two finality           *)
(* properties of AuthSessions.                                             *)
(***************************************************************************)
EXTENDS AuthSessions, TLAPS

\* What was issued, answered or succeeded to is a row, and so is the root of
\* every family: a fresh token can therefore not fall into an old family.
RowsExist ==
  /\ \A t \in held \cup unanswered : status[t] # "ABSENT"
  /\ \A t \in Tokens : successor[t] # NoToken => status[t] # "ABSENT" /\ status[successor[t]] # "ABSENT"
  /\ \A t \in Tokens : family[t] # NoToken => status[family[t]] # "ABSENT"
  /\ \A f \in exposed : status[f] # "ABSENT"

AuthInv ==
  /\ AuthTypeOK
  /\ RowsExist
  /\ OneActivePerFamily
  /\ RedeemedOnce
  /\ ExposedFamilyIsDead

\* Revoking a family makes no row, and only takes the status ACTIVE from rows:
\* what withdrawing, reuse detection and logout have in common.
LEMMA RevokedRows ==
  ASSUME AuthInv, NEW f \in Tokens
  PROVE  /\ FamilyRevoked(f) \in [Tokens -> SessionStatus \cup {"ABSENT"}]
         /\ \A t \in Tokens : FamilyRevoked(f)[t] = "ABSENT" <=> status[t] = "ABSENT"
         /\ \A t \in Tokens : FamilyRevoked(f)[t] = "ACTIVE" => status[t] = "ACTIVE"
         /\ \A t \in Tokens : status[t] # "ACTIVE" => FamilyRevoked(f)[t] = status[t]
         /\ \A t \in Tokens : family[t] = f => FamilyRevoked(f)[t] # "ACTIVE"
  BY DEF AuthInv, AuthTypeOK, SessionStatus, FamilyRevoked

\* A step that only takes the status ACTIVE from rows keeps the invariant, if the
\* families it exposes are the ones it revokes.
LEMMA WithdrawingKeeps ==
  ASSUME AuthInv,
         status' \in [Tokens -> SessionStatus \cup {"ABSENT"}],
         \A t \in Tokens : status'[t] = "ABSENT" <=> status[t] = "ABSENT",
         \A t \in Tokens : status'[t] = "ACTIVE" => status[t] = "ACTIVE",
         UNCHANGED <<family, successor>>,
         lapsed' \in SUBSET Tokens, identity' \in BOOLEAN,
         unanswered' \in SUBSET unanswered,
         held' \in SUBSET (held \cup unanswered),
         exposed' \in SUBSET Tokens,
         \A f \in exposed' : status[f] # "ABSENT",
         \A t \in Tokens : family[t] \in exposed' => status'[t] # "ACTIVE"
  PROVE  AuthInv'
<1>1. AuthTypeOK'
  BY DEF AuthInv, AuthTypeOK
<1>2. RowsExist'
  BY TokensAssumption DEF AuthInv, AuthTypeOK, RowsExist
<1>3. OneActivePerFamily'
  BY DEF AuthInv, OneActivePerFamily
<1>4. RedeemedOnce'
  BY DEF AuthInv, RedeemedOnce
<1>5. ExposedFamilyIsDead'
  BY DEF ExposedFamilyIsDead
<1> QED
  BY <1>1, <1>2, <1>3, <1>4, <1>5 DEF AuthInv

\* Without sessions the invariant holds.
LEMMA InitHolds == AuthInit => AuthInv
BY TokensAssumption DEF AuthInit, AuthInv, AuthTypeOK, RowsExist, OneActivePerFamily,
   RedeemedOnce, ExposedFamilyIsDead, SessionStatus

\* A login: the row of the new token was no family's root.
LEMMA CreateKeeps ==
  ASSUME AuthInv, NEW t \in Tokens, create(t)
  PROVE  AuthInv'
<1> USE TokensAssumption DEF AuthInv, create
<1>1. AuthTypeOK'
  BY DEF AuthTypeOK, SessionStatus
<1>2. RowsExist'
  BY DEF AuthTypeOK, RowsExist
<1>3. OneActivePerFamily'
  BY DEF AuthTypeOK, RowsExist, OneActivePerFamily
<1>4. RedeemedOnce'
  BY DEF AuthTypeOK, RowsExist, RedeemedOnce
<1>5. ExposedFamilyIsDead'
  BY DEF AuthTypeOK, RowsExist, ExposedFamilyIsDead
<1> QED
  BY <1>1, <1>2, <1>3, <1>4, <1>5

\* A rotation: the one ACTIVE row of its family gives way to its successor.
LEMMA RotateKeeps ==
  ASSUME AuthInv, NEW t \in Tokens, NEW n \in Tokens, Rotate(t, n)
  PROVE  AuthInv'
<1> USE TokensAssumption DEF AuthInv, Rotate
<1>0. t # n /\ family[t] \in Tokens /\ successor[n] = NoToken
  BY DEF AuthTypeOK, RowsExist
<1>1. AuthTypeOK'
  BY <1>0 DEF AuthTypeOK, SessionStatus
<1>2. RowsExist'
  BY <1>0 DEF AuthTypeOK, RowsExist
<1>3. OneActivePerFamily'
  BY <1>0 DEF AuthTypeOK, OneActivePerFamily
<1>4. RedeemedOnce'
  BY <1>0 DEF AuthTypeOK, RowsExist, RedeemedOnce
<1>5. ExposedFamilyIsDead'
  BY <1>0 DEF AuthTypeOK, ExposedFamilyIsDead
<1> QED
  BY <1>1, <1>2, <1>3, <1>4, <1>5

\* Every step of the service or of a client keeps the invariant.
LEMMA StepKeeps ==
  ASSUME AuthInv, [AuthNext]_authVars
  PROVE  AuthInv'
<1> USE DEF AuthInv
<1>1. ASSUME NEW t \in Tokens, create(t) PROVE AuthInv'
  BY <1>1, CreateKeeps
<1>2. ASSUME NEW t \in Tokens, NEW n \in Tokens, Rotate(t, n) PROVE AuthInv'
  BY <1>2, RotateKeeps
<1>3. ASSUME NEW t \in Tokens, Answer(t) \/ AnswerLost(t) PROVE AuthInv'
  BY <1>3, WithdrawingKeeps DEF Answer, AnswerLost, AuthTypeOK, RowsExist, ExposedFamilyIsDead
<1>4. ASSUME NEW t \in Tokens, AuditRejects(t) \/ RotateInvalid(t) \/ revokeFamily(t) PROVE AuthInv'
  <2>1. status[t] # "ABSENT" /\ family[t] \in Tokens
    BY <1>4 DEF AuditRejects, RotateInvalid, revokeFamily, AuthTypeOK, RowsExist
  <2>2. status' = FamilyRevoked(family[t])
    BY <1>4 DEF AuditRejects, RotateInvalid, revokeFamily
  <2> QED
    BY <1>4, <2>1, <2>2, RevokedRows, WithdrawingKeeps
       DEF AuditRejects, RotateInvalid, revokeFamily, AuthTypeOK, RowsExist, ExposedFamilyIsDead
<1>5. ASSUME NEW t \in Tokens, RotateReuse(t) PROVE AuthInv'
  <2>1. status[t] # "ABSENT" /\ family[t] \in Tokens /\ status[family[t]] # "ABSENT"
    BY <1>5, TokensAssumption DEF RotateReuse, AuthTypeOK, RowsExist
  <2> QED
    BY <1>5, <2>1, RevokedRows, WithdrawingKeeps
       DEF RotateReuse, AuthTypeOK, RowsExist, ExposedFamilyIsDead
<1>6. ASSUME NEW t \in Tokens, RotateExpired(t) PROVE AuthInv'
  <2>1. /\ status' \in [Tokens -> SessionStatus \cup {"ABSENT"}]
        /\ \A u \in Tokens : status'[u] = "ABSENT" <=> status[u] = "ABSENT"
        /\ \A u \in Tokens : status'[u] = "ACTIVE" => status[u] = "ACTIVE"
    BY <1>6 DEF RotateExpired, AuthTypeOK, SessionStatus
  <2> QED
    BY <1>6, <2>1, WithdrawingKeeps DEF RotateExpired, AuthTypeOK, RowsExist, ExposedFamilyIsDead
<1>7. ASSUME NEW t \in Tokens, Lapse(t) PROVE AuthInv'
  BY <1>7, WithdrawingKeeps DEF Lapse, AuthTypeOK, RowsExist, ExposedFamilyIsDead
<1>8. CASE Disable
  BY <1>8, WithdrawingKeeps DEF Disable, AuthTypeOK, RowsExist, ExposedFamilyIsDead
<1>9. CASE UNCHANGED authVars
  BY <1>9, WithdrawingKeeps DEF authVars, AuthTypeOK, RowsExist, ExposedFamilyIsDead
<1> QED
  BY <1>1, <1>2, <1>3, <1>4, <1>5, <1>6, <1>7, <1>8, <1>9 DEF AuthNext

\* The inductive invariant holds in every reachable state.
LEMMA AuthInvariant == AuthSpec => []AuthInv
BY InitHolds, StepKeeps, PTL DEF AuthSpec

\* Every row the sessions' transactions write is of its type, and of a family as
\* soon as it exists.
THEOREM SessionsAreTyped == AuthSpec => []AuthTypeOK
BY AuthInvariant, PTL DEF AuthInv

\* However the rotations of one family overlap, it has one ACTIVE session at most.
THEOREM FamilyHasOneActive == AuthSpec => []OneActivePerFamily
BY AuthInvariant, PTL DEF AuthInv

\* No refresh token is redeemed twice.
THEOREM TokenIsRedeemedOnce == AuthSpec => []RedeemedOnce
BY AuthInvariant, PTL DEF AuthInv

\* A family in which a used token came back stays without an ACTIVE session.
THEOREM ReuseKillsFamily == AuthSpec => []ExposedFamilyIsDead
BY AuthInvariant, PTL DEF AuthInv

\* A row that left ACTIVE is never written again.
THEOREM UsedSessionIsFinal == AuthSpec => UsedIsFinal
<1>1. ASSUME AuthInv, [AuthNext]_authVars
      PROVE  [\A t \in Tokens : status[t] \in SessionStatus \ {"ACTIVE"} => status'[t] = status[t]]_authVars
  <2> SUFFICES ASSUME NEW t \in Tokens, status[t] \in SessionStatus \ {"ACTIVE"}
               PROVE  status'[t] = status[t]
    OBVIOUS
  <2>1. CASE \E u \in Tokens : create(u) \/ RotateExpired(u) \/ \E n \in Tokens : Rotate(u, n)
    BY <1>1, <2>1 DEF create, RotateExpired, Rotate, AuthInv, AuthTypeOK, SessionStatus
  <2>2. CASE \E u \in Tokens : AuditRejects(u) \/ RotateReuse(u) \/ RotateInvalid(u) \/ revokeFamily(u)
    BY <1>1, <2>2 DEF AuditRejects, RotateReuse, RotateInvalid, revokeFamily, FamilyRevoked, SessionStatus
  <2>3. CASE UNCHANGED status
    BY <2>3
  <2> QED
    BY <1>1, <2>1, <2>2, <2>3 DEF AuthNext, authVars, Answer, AnswerLost, Lapse, Disable
<1> QED
  BY <1>1, AuthInvariant, PTL DEF AuthSpec, UsedIsFinal

\* An access token that is not accepted now is never accepted later.
THEOREM RejectedStaysRejected == AuthSpec => NeverAuthenticAgain
<1>1. ASSUME AuthInv, [AuthNext]_authVars
      PROVE  [\A t \in Tokens : (status[t] # "ABSENT" /\ ~Authentic(t)) => ~Authentic(t)']_authVars
  <2> SUFFICES ASSUME NEW t \in Tokens, status[t] # "ABSENT", ~Authentic(t)
               PROVE  ~Authentic(t)'
    OBVIOUS
  <2>1. CASE \E u \in Tokens : create(u) \/ RotateExpired(u) \/ \E n \in Tokens : Rotate(u, n)
    BY <1>1, <2>1 DEF create, RotateExpired, Rotate, AuthInv, AuthTypeOK, SessionStatus, Authentic
  <2>2. CASE \E u \in Tokens : AuditRejects(u) \/ RotateReuse(u) \/ RotateInvalid(u) \/ revokeFamily(u)
    BY <1>1, <2>2 DEF AuditRejects, RotateReuse, RotateInvalid, revokeFamily, FamilyRevoked, Authentic
  <2>3. CASE UNCHANGED status
    BY <1>1, <2>3 DEF AuthNext, authVars, create, Answer, AuditRejects, AnswerLost, RotateReuse,
       RotateExpired, RotateInvalid, Rotate, revokeFamily, Lapse, Disable, Authentic
  <2> QED
    BY <1>1, <2>1, <2>2, <2>3 DEF AuthNext, authVars, Answer, AnswerLost, Lapse, Disable
<1> QED
  BY <1>1, AuthInvariant, PTL DEF AuthSpec, NeverAuthenticAgain
=============================================================================
