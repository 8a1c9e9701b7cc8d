---------------------------- MODULE AuthSessions ----------------------------
(***************************************************************************)
(* Refresh sessions: login, rotation with reuse detection, logout, and     *)
(* what an access token is worth.  Each transaction of the repository is   *)
(* serializable and is one step; between the commit and the answer a       *)
(* request writes its audit row, which may fail.                           *)
(***************************************************************************)
EXTENDS Naturals, FiniteSets

CONSTANTS
  Tokens,   \* refresh tokens; a token stands for the row with its hash
  NoToken   \* no token

ASSUME TokensAssumption == NoToken \notin Tokens

VARIABLES
  status,      \* RefreshSession.status
  family,      \* RefreshSession.familyId: the token of the login
  successor,   \* the token that was issued for this one
  lapsed,      \* tokens whose expiresAt has passed
  identity,    \* device, membership and user are all ACTIVE
  unanswered,  \* committed, and neither audited nor answered yet
  held,        \* tokens that were returned in an answer
  exposed      \* families in which a used token was presented again

authVars == <<status, family, successor, lapsed, identity, unanswered, held, exposed>>

SessionStatus == {"ACTIVE", "ROTATED", "REVOKED", "EXPIRED"}

\* A row is of a family from its first moment on, and is never deleted.
AuthTypeOK ==
  /\ \A t \in Tokens : status[t] = "ABSENT" <=> family[t] = NoToken
  /\ status \in [Tokens -> SessionStatus \cup {"ABSENT"}]
  /\ family \in [Tokens -> Tokens \cup {NoToken}]
  /\ successor \in [Tokens -> Tokens \cup {NoToken}]
  /\ lapsed \in SUBSET Tokens
  /\ identity \in BOOLEAN
  /\ unanswered \in SUBSET Tokens
  /\ held \in SUBSET Tokens
  /\ exposed \in SUBSET Tokens

AuthInit ==
  /\ status = [t \in Tokens |-> "ABSENT"]
  /\ family = [t \in Tokens |-> NoToken]
  /\ successor = [t \in Tokens |-> NoToken]
  /\ lapsed = {}
  /\ identity = TRUE
  /\ unanswered = {}
  /\ held = {}
  /\ exposed = {}

\* updateMany of the ACTIVE rows of a family.
FamilyRevoked(f) ==
  [t \in Tokens |-> IF family[t] = f /\ status[t] = "ACTIVE" THEN "REVOKED" ELSE status[t]]

\* Mutant: a login may take over a row that exists.
MutantCreateUpserts(t) ==
  /\ identity
  /\ status' = [status EXCEPT ![t] = "ACTIVE"]
  /\ family' = [family EXCEPT ![t] = t]
  /\ unanswered' = unanswered \cup {t}
  /\ UNCHANGED <<successor, lapsed, identity, held, exposed>>

\* AuthService.login with a password that matches, up to the commit.
create(t) ==
  /\ status[t] = "ABSENT"
  /\ identity
  /\ status' = [status EXCEPT ![t] = "ACTIVE"]
  /\ family' = [family EXCEPT ![t] = t]
  /\ unanswered' = unanswered \cup {t}
  /\ UNCHANGED <<successor, lapsed, identity, held, exposed>>

\* The audit row is written and the pair of tokens returned.
Answer(t) ==
  /\ t \in unanswered
  /\ unanswered' = unanswered \ {t}
  /\ held' = held \cup {t}
  /\ UNCHANGED <<status, family, successor, lapsed, identity, exposed>>

\* The audit row cannot be written: the new session is withdrawn again.
AuditRejects(t) ==
  /\ t \in unanswered
  /\ unanswered' = unanswered \ {t}
  /\ status' = FamilyRevoked(family[t])
  /\ UNCHANGED <<family, successor, lapsed, identity, held, exposed>>

\* The process dies, or withdrawing fails as well: a session nobody holds.
AnswerLost(t) ==
  /\ t \in unanswered
  /\ unanswered' = unanswered \ {t}
  /\ UNCHANGED <<status, family, successor, lapsed, identity, held, exposed>>

\* Mutant: the repeated token is refused, and that is all.
MutantReuseOnlyRefused(t) ==
  /\ t \in held
  /\ status[t] # "ACTIVE"
  /\ exposed' = exposed \cup {family[t]}
  /\ UNCHANGED <<status, family, successor, lapsed, identity, unanswered, held>>

\* rotate.  Its client, or whoever has a copy, presents t.
RotateReuse(t) ==
  /\ t \in held
  /\ status[t] # "ACTIVE"
  /\ status' = FamilyRevoked(family[t])
  /\ exposed' = exposed \cup {family[t]}
  /\ UNCHANGED <<family, successor, lapsed, identity, unanswered, held>>

RotateExpired(t) ==
  /\ t \in held
  /\ status[t] = "ACTIVE"
  /\ t \in lapsed
  /\ status' = [status EXCEPT ![t] = "EXPIRED"]
  /\ UNCHANGED <<family, successor, lapsed, identity, unanswered, held, exposed>>

RotateInvalid(t) ==
  /\ t \in held
  /\ status[t] = "ACTIVE"
  /\ t \notin lapsed
  /\ ~identity
  /\ status' = FamilyRevoked(family[t])
  /\ UNCHANGED <<family, successor, lapsed, identity, unanswered, held, exposed>>

\* Mutant: the presented row is marked only after the answer, in a later request.
MutantRotateKeepsCurrent(t, n) ==
  /\ t \in held
  /\ status[t] = "ACTIVE"
  /\ t \notin lapsed
  /\ identity
  /\ status[n] = "ABSENT"
  /\ status' = [status EXCEPT ![n] = "ACTIVE"]
  /\ family' = [family EXCEPT ![n] = family[t]]
  /\ successor' = [successor EXCEPT ![t] = n]
  /\ unanswered' = unanswered \cup {n}
  /\ UNCHANGED <<lapsed, identity, held, exposed>>

Rotate(t, n) ==
  /\ t \in held
  /\ status[t] = "ACTIVE"
  /\ t \notin lapsed
  /\ identity
  /\ status[n] = "ABSENT"
  /\ status' = [status EXCEPT ![t] = "ROTATED", ![n] = "ACTIVE"]
  /\ family' = [family EXCEPT ![n] = family[t]]
  /\ successor' = [successor EXCEPT ![t] = n]
  /\ unanswered' = unanswered \cup {n}
  /\ UNCHANGED <<lapsed, identity, held, exposed>>

\* AuthService.logout.
revokeFamily(t) ==
  /\ t \in held
  /\ status' = FamilyRevoked(family[t])
  /\ UNCHANGED <<family, successor, lapsed, identity, unanswered, held, exposed>>

Lapse(t) ==
  /\ status[t] # "ABSENT"
  /\ t \notin lapsed
  /\ lapsed' = lapsed \cup {t}
  /\ UNCHANGED <<status, family, successor, identity, unanswered, held, exposed>>

\* An administrator disables the device, the membership or the user.
Disable ==
  /\ identity
  /\ identity' = FALSE
  /\ UNCHANGED <<status, family, successor, lapsed, unanswered, held, exposed>>

AuthNext ==
  \/ \E t \in Tokens :
       \/ create(t) \/ Answer(t) \/ AuditRejects(t) \/ AnswerLost(t)
       \/ RotateReuse(t) \/ RotateExpired(t) \/ RotateInvalid(t)
       \/ \E n \in Tokens : Rotate(t, n)
       \/ revokeFamily(t) \/ Lapse(t)
  \/ Disable

AuthSpec == AuthInit /\ [][AuthNext]_authVars

\* AccessSessionAuthenticator: an access token is worth what its session row is
\* now.  Whether the JWT itself has run out is left to lapsed.
Authentic(t) == status[t] = "ACTIVE" /\ t \notin lapsed /\ identity

-----------------------------------------------------------------------------
\* However requests for the same token overlap or repeat, a family has one ACTIVE
\* session at most.
OneActivePerFamily ==
  \A t, u \in Tokens :
    (status[t] = "ACTIVE" /\ status[u] = "ACTIVE" /\ family[t] = family[u]) => t = u

\* A refresh token is redeemed once: no two tokens have the same successor, and
\* one with a successor is never ACTIVE again.
RedeemedOnce ==
  /\ \A t \in Tokens : successor[t] # NoToken => status[t] # "ACTIVE"
  /\ \A t, u \in Tokens : (successor[t] = successor[u] /\ successor[t] # NoToken) => t = u

\* Once a used token was presented again, nothing of that family is worth
\* anything, also not a successor that was being issued meanwhile.
ExposedFamilyIsDead ==
  \A t \in Tokens : family[t] \in exposed => status[t] # "ACTIVE"

\* A session that was rotated, revoked or expired stays so: the later of two
\* requests does not overwrite why the earlier one ended it.
UsedIsFinal ==
  [][\A t \in Tokens : status[t] \in SessionStatus \ {"ACTIVE"} => status'[t] = status[t]]_authVars

\* Whatever requests follow, an access token that was worth nothing once is worth
\* nothing for ever: a socket or a request need not fear that it was early.
NeverAuthenticAgain ==
  [][\A t \in Tokens : (status[t] # "ABSENT" /\ ~Authentic(t)) => ~Authentic(t)']_authVars
=============================================================================
