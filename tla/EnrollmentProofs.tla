------------------------- MODULE EnrollmentProofs -------------------------
(***************************************************************************)
(* For any number of consents, voiceprints, sessions and requests: the     *)
(* three invariants of Enrollment.                                         *)
(***************************************************************************)
EXTENDS Enrollment, TLAPS

\* The voiceprint of the session is ACTIVE, or a new enrollment replaced it and nobody
\* deleted it.  This is more than UnreplacedUseIsLicensed says of a replaced one, and
\* says nothing of the consent, which ActiveVoiceprintHasConsent adds.
Licensed(s) ==
  \/ voiceprint[uses[s]] = "ACTIVE"
  \/ voiceprint[uses[s]] = "REVOKED" /\ uses[s] \in superseded

UseIsLicensed ==
  \A s \in Sessions : (session[s] \in InUse /\ uses[s] # None) => Licensed(s)

\* Between the check of the voiceprint and the transition to STARTING the session is
\* not in use, and already has to be licensed.
LaunchIsLicensed ==
  \A s \in Sessions :
    (launch[s].pc = "start" /\ session[s] \in Open /\ uses[s] # None) => Licensed(s)

\* The sessions of a withdrawal that have been dealt with are stopped for good.
StopsAreKept ==
  \A r \in Requests : request[r].pc \in {"stop", "done"} =>
    \A s \in request[r].all : s \in request[r].left \/ ml[s] = "stopped"

RequestsConsistent ==
  \A r \in Requests :
    /\ request[r].pc = "infer" => request[r].consent \in Consents
    /\ request[r].pc = "done" => request[r].left = {}

EnrollmentInv ==
  /\ TypeOK
  /\ RequestsConsistent
  /\ ActiveVoiceprintHasConsent
  /\ UseIsLicensed
  /\ LaunchIsLicensed
  /\ StopsAreKept

-----------------------------------------------------------------------------
Request == [pc : {"idle", "infer", "stop", "done"}, consent : Consents \cup {None},
            all : SUBSET Sessions, left : SUBSET Sessions]
Launch == [pc : {"idle", "bind", "check", "start", "await", "started"},
           read : Voiceprints \cup {None}, was : {"ABSENT", "AUTHORIZED", "STARTING"}]

\* A step writes the entry of one request, or the entry of one session's launch.
LEMMA WriteRequest ==
  ASSUME TypeOK, NEW r \in Requests, NEW x \in Request, request' = [request EXCEPT ![r] = x]
  PROVE  /\ request' \in [Requests -> Request]
         /\ \A q \in Requests : request'[q] = IF q = r THEN x ELSE request[q]
<1>1. request \in [Requests -> Request]
  BY DEF TypeOK, Request
<1> QED
  BY <1>1

\* Writing one session's launch leaves the others alone.
LEMMA WriteLaunch ==
  ASSUME TypeOK, NEW s \in Sessions, NEW x \in Launch, launch' = [launch EXCEPT ![s] = x]
  PROVE  /\ launch' \in [Sessions -> Launch]
         /\ \A u \in Sessions : launch'[u] = IF u = s THEN x ELSE launch[u]
<1>1. launch \in [Sessions -> Launch]
  BY DEF TypeOK, Launch
<1> QED
  BY <1>1

\* What the two updates of a request change, and what they leave.
LEMMA RequestFields ==
  ASSUME NEW x \in Request, NEW left \in SUBSET Sessions
  PROVE  /\ [x EXCEPT !.pc = "done"] \in Request
         /\ [x EXCEPT !.pc = "done"].pc = "done"
         /\ [x EXCEPT !.pc = "done"].all = x.all
         /\ [x EXCEPT !.pc = "done"].left = x.left
         /\ [x EXCEPT !.left = left] \in Request
         /\ [x EXCEPT !.left = left].pc = x.pc
         /\ [x EXCEPT !.left = left].all = x.all
         /\ [x EXCEPT !.left = left].left = left
BY DEF Request

\* The fresh records.
LEMMA FreshRecords ==
  /\ NoRequest \in Request /\ NoRequest.pc = "idle"
  /\ NoLaunch \in Launch /\ NoLaunch.pc = "idle"
  /\ \A v \in Voiceprints \cup {None} :
       LET x == [NoLaunch EXCEPT !.pc = "bind", !.read = v] IN x \in Launch /\ x.pc = "bind"
  /\ \A st \in {"AUTHORIZED", "STARTING"} :
       LET x == [NoLaunch EXCEPT !.pc = "check", !.was = st] IN x \in Launch /\ x.pc = "check"
BY DEF Request, Launch, NoRequest, NoLaunch

-----------------------------------------------------------------------------
\* findActiveVoiceprint returns an ACTIVE one, or none.
LEMMA CurrentIsActive ==
  ASSUME TypeOK
  PROVE  /\ Current \in Voiceprints \cup {None}
         /\ Current # None => voiceprint[Current] = "ACTIVE"
BY DEF Current, ActiveVoiceprints, TypeOK

\* Before the first request the invariant holds.
LEMMA InitHolds == Init => EnrollmentInv
BY EnrollmentAssumption DEF Init, EnrollmentInv, TypeOK, RequestsConsistent, ActiveVoiceprintHasConsent,
   UseIsLicensed, LaunchIsLicensed, StopsAreKept, Open, InUse, NoRequest, NoLaunch

-----------------------------------------------------------------------------
\* What a step does to the requests: one of them is given up or begins, a session of
\* one is stopped, or one is done.
LEMMA RequestStep ==
  ASSUME TypeOK, [Next]_vars
  PROVE  \/ UNCHANGED request
         \/ \E r \in Requests, x \in Request :
              /\ request' = [request EXCEPT ![r] = x]
              /\ \/ x.pc = "idle"
                 \/ x.pc = "infer" /\ x.consent \in Consents
                 \/ x.pc = "stop" /\ x.left = x.all
                 \/ /\ request[r].pc = "stop" /\ x.pc = "stop" /\ x.all = request[r].all
                    /\ \E s \in Sessions : x.left = request[r].left \ {s} /\ ml'[s] = "stopped"
                 \/ /\ request[r].pc = "stop" /\ x.pc = "done" /\ x.all = request[r].all
                    /\ x.left = {} /\ request[r].left = {}
<1> DEFINE Goal(r, x) ==
      /\ request' = [request EXCEPT ![r] = x]
      /\ \/ x.pc = "idle"
         \/ x.pc = "infer" /\ x.consent \in Consents
         \/ x.pc = "stop" /\ x.left = x.all
         \/ /\ request[r].pc = "stop" /\ x.pc = "stop" /\ x.all = request[r].all
            /\ \E s \in Sessions : x.left = request[r].left \ {s} /\ ml'[s] = "stopped"
         \/ /\ request[r].pc = "stop" /\ x.pc = "done" /\ x.all = request[r].all
            /\ x.left = {} /\ request[r].left = {}
<1>0. \A r \in Requests : request[r] \in Request
  BY DEF TypeOK, Request
<1>1. ASSUME NEW r \in Requests, NEW c \in Consents, enroll(r, c) PROVE \E x \in Request : Goal(r, x)
  <2> DEFINE x == [NoRequest EXCEPT !.pc = "infer", !.consent = c]
  <2>1. x \in Request /\ x.pc = "infer" /\ x.consent = c
    BY DEF Request, NoRequest
  <2>2. request' = [request EXCEPT ![r] = x]
    BY <1>1 DEF enroll
  <2> HIDE DEF x
  <2> QED
    BY <2>1, <2>2
<1>2. ASSUME NEW r \in Requests, NEW ss \in SUBSET Sessions, Stopping(r, ss)
      PROVE  \E x \in Request : Goal(r, x)
  <2> DEFINE x == [NoRequest EXCEPT !.pc = "stop", !.all = ss, !.left = ss]
  <2>1. x \in Request /\ x.pc = "stop" /\ x.all = ss /\ x.left = ss
    BY DEF Request, NoRequest
  <2>2. request' = [request EXCEPT ![r] = x]
    BY <1>2 DEF Stopping
  <2> HIDE DEF x
  <2> QED
    BY <2>1, <2>2
<1>3. ASSUME NEW r \in Requests, request' = [request EXCEPT ![r] = NoRequest]
      PROVE  \E x \in Request : Goal(r, x)
  BY <1>3, FreshRecords
<1>4. ASSUME NEW r \in Requests, NEW s \in Sessions, stopAnalysis(r, s) PROVE \E x \in Request : Goal(r, x)
  <2> DEFINE x == [request[r] EXCEPT !.left = request[r].left \ {s}]
  <2>1. request[r].left \ {s} \in SUBSET Sessions
    BY <1>0 DEF Request
  <2>2. x \in Request /\ x.pc = "stop" /\ x.all = request[r].all /\ x.left = request[r].left \ {s}
    <3>1. request[r] \in Request /\ request[r].pc = "stop"
      BY <1>0, <1>4 DEF stopAnalysis
    <3> QED
      BY <2>1, <3>1, RequestFields
  <2>3. request' = [request EXCEPT ![r] = x]
    BY <1>4 DEF stopAnalysis
  <2>4. request[r].pc = "stop" /\ ml'[s] = "stopped"
    BY <1>4 DEF stopAnalysis, TypeOK
  <2> HIDE DEF x
  <2> QED
    BY <2>2, <2>3, <2>4
<1>5. ASSUME NEW r \in Requests, Stopped(r) PROVE \E x \in Request : Goal(r, x)
  <2> DEFINE x == [request[r] EXCEPT !.pc = "done"]
  <2>1. x \in Request /\ x.pc = "done" /\ x.all = request[r].all /\ x.left = {}
    BY <1>0, <1>5, RequestFields DEF Stopped
  <2>2. request' = [request EXCEPT ![r] = x] /\ request[r].pc = "stop" /\ request[r].left = {}
    BY <1>5 DEF Stopped
  <2> HIDE DEF x
  <2> QED
    BY <2>1, <2>2
<1>6. CASE \E r \in Requests, c \in Consents : revokeConsent(r, c)
  BY <1>2, <1>6 DEF revokeConsent, OpenSessionsOn
<1>7. CASE \E r \in Requests, v \in Voiceprints : deleteVoiceprint(r, v)
  BY <1>2, <1>7 DEF deleteVoiceprint, OpenSessionsOn
<1>8. CASE \E r \in Requests : \/ EnrollFails(r) \/ StopFails(r)
                               \/ \E v \in Voiceprints : activateVoiceprint(r, v)
  BY <1>3, <1>8 DEF EnrollFails, StopFails, activateVoiceprint
<1>9. CASE UNCHANGED request
  BY <1>9
<1> QED
  BY <1>1, <1>4, <1>5, <1>6, <1>7, <1>8, <1>9 DEF Next, vars, grantConsent, ReadVoiceprint,
     bindTrackAndCreateAnalysis, start, VoiceprintIsCurrent, VoiceprintIsNotActive, Starting,
     startAnalysis, StartFails, Started

\* What a step does to the launches: only the check of the voiceprint leads up to the
\* transition to STARTING.
LEMMA LaunchStep ==
  ASSUME TypeOK, [Next]_vars
  PROVE  \/ UNCHANGED launch
         \/ \E s \in Sessions, x \in Launch :
              /\ launch' = [launch EXCEPT ![s] = x]
              /\ x.pc = "start" => VoiceprintIsCurrent(s)
<1> DEFINE Goal(s) == \E x \in Launch : /\ launch' = [launch EXCEPT ![s] = x]
                                        /\ x.pc = "start" => VoiceprintIsCurrent(s)
<1>0. \A s \in Sessions : launch[s] \in Launch
  BY DEF TypeOK, Launch
<1>1. ASSUME NEW s \in Sessions, launch' = [launch EXCEPT ![s] = NoLaunch] PROVE Goal(s)
  BY <1>1, FreshRecords
<1>2. ASSUME NEW s \in Sessions, NEW pc \in {"await", "start", "started"},
             launch' = [launch EXCEPT ![s] = [launch[s] EXCEPT !.pc = pc]],
             pc = "start" => VoiceprintIsCurrent(s)
      PROVE  Goal(s)
  <2> DEFINE x == [launch[s] EXCEPT !.pc = pc]
  <2>1. x \in Launch /\ x.pc = pc
    <3>1. launch[s] \in Launch
      BY <1>0
    <3> QED
      BY <3>1 DEF Launch
  <2>2. launch' = [launch EXCEPT ![s] = x]
    BY <1>2
  <2> HIDE DEF x
  <2> QED
    BY <1>2, <2>1, <2>2
<1>3. ASSUME NEW s \in Sessions, ReadVoiceprint(s) PROVE Goal(s)
  <2> DEFINE x == [NoLaunch EXCEPT !.pc = "bind", !.read = Current]
  <2>1. x \in Launch /\ x.pc = "bind"
    BY CurrentIsActive, FreshRecords
  <2>2. launch' = [launch EXCEPT ![s] = x]
    BY <1>3 DEF ReadVoiceprint
  <2> HIDE DEF x
  <2> QED
    BY <2>1, <2>2
<1>4. ASSUME NEW s \in Sessions, start(s) PROVE Goal(s)
  <2> DEFINE x == [NoLaunch EXCEPT !.pc = "check", !.was = session[s]]
  <2>1. x \in Launch /\ x.pc = "check"
    BY <1>4, FreshRecords DEF start
  <2>2. launch' = [launch EXCEPT ![s] = x]
    BY <1>4 DEF start
  <2> HIDE DEF x
  <2> QED
    BY <2>1, <2>2
<1>5. ASSUME NEW s \in Sessions, VoiceprintIsCurrent(s) PROVE Goal(s)
  BY <1>2, <1>5 DEF VoiceprintIsCurrent
<1>6. ASSUME NEW s \in Sessions, Starting(s) PROVE Goal(s)
  BY <1>1, <1>2, <1>6 DEF Starting
<1>7. ASSUME NEW s \in Sessions, startAnalysis(s) PROVE Goal(s)
  BY <1>2, <1>7 DEF startAnalysis
<1>8. ASSUME NEW s \in Sessions,
             bindTrackAndCreateAnalysis(s) \/ VoiceprintIsNotActive(s) \/ StartFails(s) \/ Started(s)
      PROVE  Goal(s)
  BY <1>1, <1>8 DEF bindTrackAndCreateAnalysis, VoiceprintIsNotActive, StartFails, Started
<1>9. CASE UNCHANGED launch
  BY <1>9
<1> QED
  BY <1>3, <1>4, <1>5, <1>6, <1>7, <1>8, <1>9 DEF Next, vars, grantConsent, enroll, revokeConsent,
     activateVoiceprint, deleteVoiceprint, EnrollFails, StopFails, Stopped, stopAnalysis

-----------------------------------------------------------------------------
\* Every step keeps the types.
LEMMA TypeKept ==
  ASSUME TypeOK, RequestsConsistent, [Next]_vars
  PROVE  TypeOK'
<1>1. request' \in [Requests -> Request]
  <2>1. CASE UNCHANGED request
    BY <2>1 DEF TypeOK, Request
  <2>2. CASE \E r \in Requests, x \in Request : request' = [request EXCEPT ![r] = x]
    BY <2>2, WriteRequest
  <2> QED
    BY <2>1, <2>2, RequestStep
<1>2. launch' \in [Sessions -> Launch]
  <2>1. CASE UNCHANGED launch
    BY <2>1 DEF TypeOK, Launch
  <2>2. CASE \E s \in Sessions, x \in Launch : launch' = [launch EXCEPT ![s] = x]
    BY <2>2, WriteLaunch
  <2> QED
    BY <2>1, <2>2, LaunchStep
<1> DEFINE RowsOK == /\ consent \in [Consents -> {"ABSENT", "GRANTED", "REVOKED"}]
                     /\ voiceprint \in [Voiceprints -> {"ABSENT", "ACTIVE", "REVOKED", "DELETED"}]
                     /\ basis \in [Voiceprints -> Consents \cup {None}]
                     /\ \A v \in Voiceprints : voiceprint[v] = "ABSENT" <=> basis[v] = None
                     /\ session \in [Sessions -> Open \cup {"ABSENT", "REVOKED"}]
                     /\ uses \in [Sessions -> Voiceprints \cup {None}]
                     /\ ml \in [Sessions -> {"unknown", "running", "stopped"}]
                     /\ superseded \in SUBSET Voiceprints
<1>3. RowsOK
  BY DEF TypeOK
<1>4. RowsOK'
  <2> USE <1>3, EnrollmentAssumption DEF Open
  <2>1. ASSUME NEW c \in Consents, grantConsent(c) PROVE RowsOK'
    BY <2>1 DEF grantConsent
  <2>2. ASSUME NEW r \in Requests, NEW c \in Consents, revokeConsent(r, c) PROVE RowsOK'
    BY <2>2 DEF revokeConsent, OpenSessionsOn, ActiveVoiceprints, WithRevoked
  <2>3. ASSUME NEW r \in Requests, NEW v \in Voiceprints, activateVoiceprint(r, v) PROVE RowsOK'
    BY <2>3 DEF activateVoiceprint, ActiveVoiceprints, RequestsConsistent
  <2>4. ASSUME NEW r \in Requests, NEW v \in Voiceprints, deleteVoiceprint(r, v) PROVE RowsOK'
    BY <2>4 DEF deleteVoiceprint, OpenSessionsOn, WithRevoked
  <2>5. ASSUME NEW r \in Requests, NEW s \in Sessions, stopAnalysis(r, s) PROVE RowsOK'
    BY <2>5 DEF stopAnalysis, tableVars
  <2>6. ASSUME NEW s \in Sessions, bindTrackAndCreateAnalysis(s) PROVE RowsOK'
    <3>1. launch[s].read \in Voiceprints \cup {None}
      BY DEF TypeOK
    <3> QED
      BY <2>6, <3>1 DEF bindTrackAndCreateAnalysis
  <2>7. ASSUME NEW s \in Sessions, VoiceprintIsNotActive(s) \/ Starting(s) \/ Started(s) PROVE RowsOK'
    BY <2>7 DEF VoiceprintIsNotActive, Starting, Started
  <2>8. ASSUME NEW s \in Sessions, startAnalysis(s) PROVE RowsOK'
    BY <2>8 DEF startAnalysis, tableVars
  <2>9. CASE UNCHANGED <<tableVars, ml, superseded>>
    BY <2>9 DEF tableVars
  <2> QED
    BY <2>1, <2>2, <2>3, <2>4, <2>5, <2>6, <2>7, <2>8, <2>9 DEF Next, vars, enroll, EnrollFails, StopFails,
       Stopped, ReadVoiceprint, start, VoiceprintIsCurrent, StartFails
<1> QED
  BY <1>1, <1>2, <1>4 DEF TypeOK, Request, Launch

\* Every step leaves an inference with its consent and a finished request with nothing left.
LEMMA RequestsKept ==
  ASSUME TypeOK, RequestsConsistent, [Next]_vars
  PROVE  RequestsConsistent'
<1>1. CASE UNCHANGED request
  BY <1>1 DEF RequestsConsistent
<1>2. ASSUME NEW r \in Requests, NEW x \in Request, request' = [request EXCEPT ![r] = x],
             x.pc = "infer" => x.consent \in Consents, x.pc = "done" => x.left = {}
      PROVE  RequestsConsistent'
  BY <1>2, WriteRequest DEF RequestsConsistent
<1> QED
  BY <1>1, <1>2, RequestStep

\* Only activateVoiceprint makes a voiceprint ACTIVE, and only revokeConsent ends a
\* consent; it takes the voiceprints with it.
LEMMA ConsentKept ==
  ASSUME TypeOK, ActiveVoiceprintHasConsent, RequestsConsistent, [Next]_vars
  PROVE  ActiveVoiceprintHasConsent'
<1> USE EnrollmentAssumption DEF TypeOK, ActiveVoiceprintHasConsent
<1>1. ASSUME NEW c \in Consents, grantConsent(c) PROVE ActiveVoiceprintHasConsent'
  BY <1>1 DEF grantConsent
<1>2. ASSUME NEW r \in Requests, NEW c \in Consents, revokeConsent(r, c) PROVE ActiveVoiceprintHasConsent'
  BY <1>2 DEF revokeConsent, ActiveVoiceprints
<1>3. ASSUME NEW r \in Requests, NEW v \in Voiceprints, activateVoiceprint(r, v)
      PROVE  ActiveVoiceprintHasConsent'
  BY <1>3 DEF activateVoiceprint, RequestsConsistent
<1>4. ASSUME NEW r \in Requests, NEW v \in Voiceprints, deleteVoiceprint(r, v)
      PROVE  ActiveVoiceprintHasConsent'
  BY <1>4 DEF deleteVoiceprint
<1>5. CASE UNCHANGED <<consent, voiceprint, basis>>
  BY <1>5
<1> QED
  BY <1>1, <1>2, <1>3, <1>4, <1>5 DEF Next, vars, tableVars, enroll, EnrollFails, StopFails, Stopped,
     stopAnalysis, ReadVoiceprint, bindTrackAndCreateAnalysis, start, VoiceprintIsCurrent,
     VoiceprintIsNotActive, Starting, startAnalysis, StartFails, Started

-----------------------------------------------------------------------------
\* A step that leaves the voiceprints alone keeps the licence of every session that it
\* does not bring into use or up to its start.
LEMMA LicenceKeptElsewhere ==
  ASSUME UNCHANGED <<voiceprint, superseded>>, NEW s \in Sessions,
         uses'[s] = uses[s], Licensed(s)
  PROVE  Licensed(s)'
BY DEF Licensed

\* Every step leaves a session in use or being launched with a licensed voiceprint.
LEMMA UseKept ==
  ASSUME TypeOK, UseIsLicensed, LaunchIsLicensed, [Next]_vars
  PROVE  UseIsLicensed' /\ LaunchIsLicensed'
<1> SUFFICES ASSUME NEW s \in Sessions, uses'[s] # None,
                    \/ session'[s] \in InUse
                    \/ launch'[s].pc = "start" /\ session'[s] \in Open
             PROVE  Licensed(s)'
  BY DEF UseIsLicensed, LaunchIsLicensed, Licensed
<1> DEFINE Claimed == /\ uses[s] # None
                      /\ \/ session[s] \in InUse
                         \/ launch[s].pc = "start" /\ session[s] \in Open
<1>0. Claimed => Licensed(s)
  BY DEF UseIsLicensed, LaunchIsLicensed, Licensed
<1> USE DEF TypeOK, Open, InUse, NoRequest, NoLaunch
<1>1. ASSUME NEW r \in Requests, NEW c \in Consents, revokeConsent(r, c) PROVE Licensed(s)'
  <2>1. Claimed
    BY <1>1 DEF revokeConsent, WithRevoked
  <2>2. uses[s] \notin {v \in ActiveVoiceprints : basis[v] = c}
    BY <1>1 DEF revokeConsent, WithRevoked, OpenSessionsOn
  <2> QED
    BY <1>0, <1>1, <2>1, <2>2 DEF revokeConsent, Licensed
<1>2. ASSUME NEW r \in Requests, NEW v \in Voiceprints, deleteVoiceprint(r, v) PROVE Licensed(s)'
  <2>1. Claimed
    BY <1>2 DEF deleteVoiceprint, WithRevoked
  <2>2. uses[s] # v
    BY <1>2 DEF deleteVoiceprint, WithRevoked, OpenSessionsOn
  <2> QED
    BY <1>0, <1>2, <2>1, <2>2 DEF deleteVoiceprint, Licensed
<1>3. ASSUME NEW r \in Requests, NEW v \in Voiceprints, activateVoiceprint(r, v) PROVE Licensed(s)'
  <2>1. Claimed
    BY <1>3 DEF activateVoiceprint
  <2> QED
    BY <1>0, <1>3, <2>1 DEF activateVoiceprint, ActiveVoiceprints, Licensed
<1>4. ASSUME NEW u \in Sessions, VoiceprintIsCurrent(u) PROVE Licensed(s)'
  <2>1. CASE u = s
    BY <1>4, <2>1, CurrentIsActive DEF VoiceprintIsCurrent, tableVars, Licensed
  <2>2. CASE u # s
    <3>1. Claimed
      BY <1>4, <2>2 DEF VoiceprintIsCurrent, tableVars
    <3> QED
      BY <1>0, <1>4, <3>1, LicenceKeptElsewhere DEF VoiceprintIsCurrent, tableVars
  <2> QED
    BY <2>1, <2>2
<1>5. ASSUME NEW u \in Sessions,
             bindTrackAndCreateAnalysis(u) \/ start(u) \/ ReadVoiceprint(u) \/ VoiceprintIsNotActive(u)
      PROVE  Licensed(s)'
  <2>1. launch'[s].pc = "start" => launch[s].pc = "start" /\ u # s
    <3>1. \A v \in Sessions : ReadVoiceprint(v) \/ start(v) => launch'[v].pc # "start"
      <4>1. ASSUME NEW v \in Sessions, ReadVoiceprint(v) PROVE launch'[v].pc # "start"
        <5>1. launch'[v] = [NoLaunch EXCEPT !.pc = "bind", !.read = Current]
          BY <4>1 DEF ReadVoiceprint
        <5> QED
          BY <5>1 DEF NoLaunch
      <4>2. ASSUME NEW v \in Sessions, start(v) PROVE launch'[v].pc # "start"
        <5>1. launch'[v] = [NoLaunch EXCEPT !.pc = "check", !.was = session[v]]
          BY <4>2 DEF start
        <5> QED
          BY <5>1 DEF NoLaunch
      <4> QED
        BY <4>1, <4>2
    <3>2. \A v \in Sessions : bindTrackAndCreateAnalysis(v) \/ VoiceprintIsNotActive(v)
                                => launch'[v].pc # "start"
      BY DEF bindTrackAndCreateAnalysis, VoiceprintIsNotActive
    <3>3. u # s => launch'[s] = launch[s]
      BY <1>5 DEF bindTrackAndCreateAnalysis, start, ReadVoiceprint, VoiceprintIsNotActive
    <3> QED
      BY <1>5, <3>1, <3>2, <3>3
  <2>2. session'[s] \in InUse => session[s] \in InUse /\ uses'[s] = uses[s]
    BY <1>5 DEF bindTrackAndCreateAnalysis, start, ReadVoiceprint, VoiceprintIsNotActive, tableVars
  <2>3. u # s => session'[s] = session[s] /\ uses'[s] = uses[s]
    BY <1>5 DEF bindTrackAndCreateAnalysis, start, ReadVoiceprint, VoiceprintIsNotActive, tableVars
  <2>4. Claimed /\ uses'[s] = uses[s]
    BY <2>1, <2>2, <2>3
  <2> QED
    BY <1>0, <1>5, <2>4, LicenceKeptElsewhere
       DEF bindTrackAndCreateAnalysis, start, ReadVoiceprint, VoiceprintIsNotActive, tableVars
<1>6. ASSUME NEW u \in Sessions, Starting(u) \/ startAnalysis(u) \/ StartFails(u) \/ Started(u)
      PROVE  Licensed(s)'
  <2>1. Claimed /\ uses'[s] = uses[s]
    BY <1>6 DEF Starting, startAnalysis, StartFails, Started, tableVars
  <2> QED
    BY <1>0, <1>6, <2>1, LicenceKeptElsewhere DEF Starting, startAnalysis, StartFails, Started, tableVars
<1>7. CASE UNCHANGED <<voiceprint, session, uses, launch, superseded>>
  BY <1>0, <1>7, LicenceKeptElsewhere
<1> QED
  BY <1>1, <1>2, <1>3, <1>4, <1>5, <1>6, <1>7 DEF Next, vars, tableVars, grantConsent, enroll,
     EnrollFails, StopFails, Stopped, stopAnalysis

-----------------------------------------------------------------------------
\* The ML service never starts what it has stopped.
LEMMA StoppedForGood ==
  ASSUME TypeOK, [Next]_vars, NEW s \in Sessions, ml[s] = "stopped"
  PROVE  ml'[s] = "stopped"
<1>1. CASE \E r \in Requests, u \in Sessions : stopAnalysis(r, u)
  BY <1>1 DEF TypeOK, stopAnalysis
<1>2. CASE \E u \in Sessions : startAnalysis(u)
  BY <1>2 DEF TypeOK, startAnalysis
<1>3. CASE UNCHANGED ml
  BY <1>3
<1> QED
  BY <1>1, <1>2, <1>3 DEF Next, vars, grantConsent, enroll, revokeConsent, activateVoiceprint, deleteVoiceprint,
     EnrollFails, StopFails, Stopped, ReadVoiceprint, bindTrackAndCreateAnalysis, start,
     VoiceprintIsCurrent, VoiceprintIsNotActive, Starting, StartFails, Started

\* Every step keeps the account of the sessions a deletion has to stop.
LEMMA StopsKept ==
  ASSUME TypeOK, StopsAreKept, [Next]_vars
  PROVE  StopsAreKept'
<1>1. CASE UNCHANGED request
  <2> SUFFICES ASSUME NEW q \in Requests, request[q].pc \in {"stop", "done"}, NEW s \in request[q].all
               PROVE  s \in request[q].left \/ ml'[s] = "stopped"
    BY <1>1 DEF StopsAreKept
  <2>1. s \in Sessions
    BY DEF TypeOK
  <2> QED
    BY <2>1, StoppedForGood DEF StopsAreKept
<1>2. CASE ~UNCHANGED request
  <2>1. PICK r \in Requests, x \in Request :
          /\ request' = [request EXCEPT ![r] = x]
          /\ \/ x.pc = "idle"
             \/ x.pc = "infer" /\ x.consent \in Consents
             \/ x.pc = "stop" /\ x.left = x.all
             \/ /\ request[r].pc = "stop" /\ x.pc = "stop" /\ x.all = request[r].all
                /\ \E s \in Sessions : x.left = request[r].left \ {s} /\ ml'[s] = "stopped"
             \/ /\ request[r].pc = "stop" /\ x.pc = "done" /\ x.all = request[r].all
                /\ x.left = {} /\ request[r].left = {}
    BY <1>2, RequestStep
  <2> SUFFICES ASSUME NEW q \in Requests, request'[q].pc \in {"stop", "done"}, NEW s \in request'[q].all
               PROVE  s \in request'[q].left \/ ml'[s] = "stopped"
    BY DEF StopsAreKept
  <2>2. request'[q] = IF q = r THEN x ELSE request[q]
    BY <2>1, WriteRequest
  <2>3. x.all \in SUBSET Sessions /\ request[q].all \in SUBSET Sessions
    BY DEF TypeOK, Request
  <2>4. s \in Sessions /\ (ml[s] = "stopped" => ml'[s] = "stopped")
    BY <2>2, <2>3, StoppedForGood
  <2>5. CASE q # r
    BY <2>2, <2>4, <2>5 DEF StopsAreKept
  <2>6. CASE q = r
    BY <2>1, <2>2, <2>4, <2>6 DEF StopsAreKept
  <2> QED
    BY <2>5, <2>6
<1> QED
  BY <1>1, <1>2

\* The inductive invariant holds in every reachable state.
LEMMA EnrollmentInvariant == Spec => []EnrollmentInv
<1>1. EnrollmentInv /\ [Next]_vars => EnrollmentInv'
  BY TypeKept, RequestsKept, ConsentKept, UseKept, StopsKept DEF EnrollmentInv
<1> QED
  BY InitHolds, <1>1, PTL DEF Spec

-----------------------------------------------------------------------------
\* Every row and every request is of its type; a voiceprint has a consent from its
\* first moment on.
THEOREM EnrollmentIsTyped == Spec => []TypeOK
BY EnrollmentInvariant, PTL DEF EnrollmentInv

\* No interleaving of enrollment and withdrawal leaves an ACTIVE voiceprint without
\* a consent that is GRANTED.
THEOREM NoVoiceprintWithoutConsent == Spec => []ActiveVoiceprintHasConsent
BY EnrollmentInvariant, PTL DEF EnrollmentInv

\* No session comes to use, or goes on to use, a voiceprint that was deleted, or one
\* that was withdrawn before it was replaced, whatever its binding and its start read.
\* Of a replaced voiceprint the theorem says only that it is not deleted: a withdrawal
\* does not end its use.
THEOREM UnreplacedUseStaysLicensed == Spec => []UnreplacedUseIsLicensed
<1>1. EnrollmentInv => UnreplacedUseIsLicensed
  BY DEF EnrollmentInv, TypeOK, UseIsLicensed, Licensed, ActiveVoiceprintHasConsent, UnreplacedUseIsLicensed
<1> QED
  BY EnrollmentInvariant, <1>1, PTL

\* A withdrawal that reports success has had each of its sessions stopped.
THEOREM SuccessfulWithdrawalStops == Spec => []SuccessMeansStopped
<1>1. EnrollmentInv => SuccessMeansStopped
  BY DEF EnrollmentInv, TypeOK, RequestsConsistent, StopsAreKept, SuccessMeansStopped
<1> QED
  BY EnrollmentInvariant, <1>1, PTL
=============================================================================
