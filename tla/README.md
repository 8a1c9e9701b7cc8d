# SWAR in TLA+

SWAR watches call audio for cloned voices. A Python worker (`src/ml`) turns the
audio of one bound track into evidence events; a NestJS backend (`src/backend`)
records them, computes a risk state, raises interventions on the call (warn,
hold a protected action, require a step-up...) and publishes security events to
operators' WebSockets. Everything durable is in one PostgreSQL database, and any
number of backend processes may run against it.

This directory specifies that chain from the announced track to the event on an
operator's socket, and the two things it rests on: who may connect, and whose
voiceprint may be used.

     Enrollment          CallLifecycle <── LiveKit webhooks, operators
     (consent, voice-        │ starts and stops
      prints) ───────────────┤
                       AnalysisWorker  (one session in the ML service)
                             │ evidence callbacks
                       RiskPipeline ──┬─> Intervention rows ──> InterventionLoop
                       (RiskEngine)   └─> Alert rows ─────────> SecurityOutbox
                                                                     │ publish
     AuthSessions ── worth of an access token ─────────────────> SecurityGateway

| module | what it is |
|---|---|
| `InterventionLoop` | the Intervention and VerificationChallenge rows and all their writers |
| `SecurityOutbox` | the Alert rows and the leased flush loops that publish them |
| `LeasedWork` | what the outbox promises, without leases, clocks, scans or crashes; `SecurityOutbox` implements it |
| `RiskEngine` | `evaluateRiskEvidence` as pure operators |
| `RiskEngineMeaning` | what the engine's result should mean, by runs of windows, and a session whose evidence arrives window by window |
| `RiskPipeline` | evidence requests, superseding, decisions, rows created |
| `CallLifecycle` | one call: requests, webhooks, bindings, analysis sessions, their start and stop |
| `AuthSessions` | refresh-token families and what an access token is worth |
| `SecurityGateway` | sockets, subscriptions, push and replay of one process |
| `AnalysisWorker` | one analysis session in the ML service, from frames to callbacks |
| `Enrollment` | consents and voiceprints of a speaker, and the sessions that use them |
| `…Proofs` | theorems about a module; `RiskPipelineProofs` has those of the engine too |
| `MC*` | instances for TLC |

`PROJECT.json` lists the runs, the mutations that each property must detect, the
source lines behind each definition, the hazards, the findings and the theorems.

## 1. Inventory

Paths are under `src/backend/src/modules/` unless they say otherwise.

**Evidence ingestion and risk pipeline** (`evidence/`, `risk/headless-risk-pipeline.service.ts`).
State: EvidenceEvent, RiskAssessment, RiskEvent rows, and the Intervention and
Alert rows it creates. Operations: `ingest`, which reads the grant and then runs
`recordWithClient` and `recordDecision` in one serializable transaction, retried
three times. Hard: redelivery, revisions out of order, requests in parallel, a
session that ends between the grant and the transaction, side records with
unique keys. Correct when the highest revision of each window decides, the state
does not depend on the order of delivery, a redelivery changes nothing, and
production controls rest on calibrated and traced evidence.

**Risk engine** (`risk/risk-engine.ts`, `risk-policy.ts`). No state: a function
from evidence and policy to a state, with hysteresis. Hard: the pending counter
at its boundaries, threshold order, meaning of a score. Correct when a state is
entered exactly after the required windows and a confirmed state is stable.

**Intervention loop** (`interventions/`, `risk/risk.repository.ts`). State:
Intervention and VerificationChallenge rows, the adapters' in-memory receipts.
Operations: the leased executor pass of every process; acknowledge, cancel, hold,
release; step-up request and completion. Hard: optimistic updates after awaited
provider calls, leases that expire under a slow holder, retries, operators racing
the executor. Correct when an attempt has one executor, an active hold can only
be released after an independent verification, and statuses follow the domain map.

**Maintenance worker** (`maintenance/`). Expires interventions, challenges and
analysis sessions by date, racing all of the above.

**Security-event outbox** (`security-events/security-event-outbox.*`). State:
Alert rows with leases and attempt counts. Operations: `claimDispatchable`,
`markDelivered`, `markFailed`, the flush loop. Hard: whole batches claimed before
publication, lost leases, crashes with a claim in hand. Correct when a verdict is
final, DELIVERED means published, and every alert reaches a verdict.

**Security-events gateway** (`security-events/security-events.gateway.ts`).
State: the Map of clients in the order of insertion, sockets being authenticated,
subscriptions, the fingerprints of recently published events. Operations:
`handleConnection`, `subscribe`, `acknowledge`, `publish`, `handleDisconnect`.
Hard: every operation awaits in the middle, and the loop of `publish` walks the
Map while it changes; sessions are lost while a socket is open; replay reads a
table that other processes write. Correct when the connection limit holds, who is
subscribed through a publication has its event or is disconnected, a subscriber whose
session was lost before is disconnected by the end of it, and nobody gets an event of a
call that was not granted.

**Call lifecycle and media binding** (`calls/`, `media/`, `analysis/`,
`src/ml/app/inference/session_pipeline.py`). State: Call, CallParticipant,
TrackBinding, AnalysisSession rows; what `AnalysisSessionManager` remembers of a
session. Operations: create, invite, end; the LiveKit webhooks; bind, supersede and
revoke; start, stop and expiry of analysis. Hard: webhooks out of order and
repeated, in several processes; a start that is under way while its session is
superseded; lost answers of the ML service. Correct when at most one binding is
ACTIVE, only the session of that binding can contribute evidence, and calls and
sessions move along the domain's maps.

**Authentication and sessions** (`auth/`). State: RefreshSession rows in families,
the login limiter. Operations: login, rotation, logout, authentication of an access
token. Hard: one token presented twice at once, a commit whose answer is lost.
Correct when a token is redeemed once, a family has one active session, a reuse
ends the family, and what was rejected is rejected for ever.

**Enrollment, consent, voiceprints** (`enrollment/`, `voice-enrollment/`,
`trusted-speakers/`). State: EnrollmentConsent, Voiceprint and, bound to them,
AnalysisSession rows. Operations: grant, enroll, re-enroll, withdraw, delete, and
the reads of the binding and the start. Hard: withdrawal while samples are
inferred, while a session is bound or started, or half stopped. Correct when no
voiceprint is active without consent and a withdrawal ends every use; the second the
code does only as long as the voiceprint was not replaced (section 4).

**ML analysis worker** (`src/ml/app/inference`, `audio`, `services`, `media`).
State: the subscription, the rolling window, three bounded queues, the tasks of a
session, the ids already delivered. Operations: connect and reconnect, accept a
frame, cut a window, fast and deep inference, deliver, stop. Hard: everything is
dropped when it is late, deep inference finishes after later windows, delivery is
bounded, connections are lost. Correct when a window is one stretch of audio, the
backend sees the fast event of a window before its deep event, and a failed
delivery does not stop the next.

**Idempotency, rate limits, governance** (`src/backend/src/common`, `governance/`).
Keys and their stored answers in one process, a sliding window, activation of
policies and models.

**Read-only or stateless**: security-operations queries, audit log, configuration,
logging, health; model inference and offline evaluation; the frontend.

## 2. Plan

| # | modules | about | state |
|---|---|---|---|
| 1 | `InterventionLoop`, `…Proofs` | dispatch, operators, maintenance | done |
| 2 | `SecurityOutbox`, `…Proofs` | leased publication | done |
| 3 | `RiskEngine`, `RiskEngineMeaning`, `RiskPipeline`, `…Proofs` | evidence to decision | done |
| 4 | `LeasedWork` | the abstract promise of a leased table; refinement by the outbox checked and proved | done |
| 5 | `CallLifecycle`, `…Proofs` | calls, webhooks, bindings, sessions, their start, stop and expiry | done |
| 6 | `AuthSessions`, `…Proofs` | rotation and reuse detection | done; the login limiter is a counter of one process and left out |
| 7 | `SecurityGateway`, `…Proofs` | sockets, subscribe, acknowledge, push, replay; uses what 2 and 6 promise | done |
| 8 | `AnalysisWorker`, `…Proofs` | the runtime of one session | done |
| 9 | `Enrollment`, `…Proofs` | consent, voiceprints and their use | done |
| 10 | idempotency, governance | stored answers, sliding window, policy activation | not started |

Every invariant and every action property that a passing run checks is also a theorem.
What is left to prove is about pairs of modules: that the events `AnalysisWorker`
delivers are among those the pipeline takes is said below in words only. The executor of
`InterventionLoop` does not implement `LeasedWork`: operators and the maintenance
worker give verdicts on its rows without holding an attempt; what holds for it
instead are `AttemptClaimedOnce`, `LeaseExcludes` and `StatusFollowsDomain`.

## 3. The models and the code

One `updateMany`, and one `$transaction`, is one atomic step. Whatever a handler
keeps between two awaits is a variable of its process or request, so a handler
that reads a row and later updates it is at least two actions, and everything
else may happen between them. Audit rows, telemetry and logs are left out, except
that an append may fail where that changes what the code does next.

### InterventionLoop

| variables | code |
|---|---|
| `kind status attempts nextAt lease leaseExp expiresAt resolved deadLettered` | columns of `Intervention` |
| `chal` | `VerificationChallenge` rows |
| `pc scannedAt todo cur att exp` | locals of `executePending` in each process |
| `req` | operator requests between their read, provider call and update |
| `receipts` | the `Map`s of the demo adapters, lost in a crash |
| `effects` | what the provider was made to do, which no code can see |

`Require` creates a row as the pipeline does. `Scan`, `Claim`, `PassOver`,
`EndPass`, `Dispatch`, `DispatchRejects`, `Complete`, `AuditDispatched`,
`RecordingThrows`, `FailAttempt` and `PassAborts` are the executor pass;
`ReadAcknowledge`, `ReadCancel`, `ReadHold`, `ReadRelease`, `ProviderCall`,
`ProviderRejects` and `updateInterventionStatus` are the REST requests;
`RequestChallenge` and `CompleteChallenge` the step-up service;
`expireStaleRecords` the maintenance worker. The CHECK constraint
`Intervention_lifecycle_check` of the migration is part of every write, because
one write of the code does not satisfy it. `lease` holds the process that drew
the lease's UUID: a process draws one per claim and recognises it by value, so a
process and an attempt number identify it.

### SecurityOutbox

`Enqueue`, then `FindCandidates`, `ClaimCandidate` and `ClaimsDone` for
`claimDispatchable`, and `toSecurityEvent`, `PublishReturns` / `PublishRejects`,
`markDelivered`, `RecordingThrows`, `markFailed` and `FlushEnds` for the loop.
The essential detail is that a flush claims its whole batch, with every lease
counted from the instant of the scan, before it publishes anything, and that a
`markFailed` whose lease was lost throws out of the catch block and so out of the
loop. `publish` is one step that returns or rejects; what the gateway does with
the event is `SecurityGateway`.

### LeasedWork, and how the outbox implements it

`LeasedWork` has items, workers, a number of attempts per item, and in the hand of
each worker the attempts it is at. An attempt is begun once, may be lost at any
time, and only the latest attempt of an item closes it: DELIVERED if its effect was
accepted, FAILED if no attempt is left. `SecurityOutbox` implements it with

| `LeasedWork` | `SecurityOutbox` |
|---|---|
| `Items`, `Workers` | alerts, flush processes |
| `verdict`, `begun` | `status`, `attempts` |
| `hand` | the records of a flush's batch that are not dealt with, each with the count it was claimed with |
| `accepted` | those whose `publish` has returned |

(`Work == INSTANCE LeasedWork WITH ...`, `ImplementsLeasedWork == Work!Spec`). That a
scan claims against old reads, that a lease may run out under its holder and that
`markFailed` may abandon a batch all map to steps of `LeasedWork` or to none.

### RiskEngine

`evaluateRiskEvidence` with its helpers under their names in the code. Scores are
the integers `0..Scale`, fused scores are multiplied by `Scale`, so comparisons
are exact; the rounding of the fused sum is the one thing left out. `Loop` is a
recursive function of the window number. The reason codes of undecided windows
are one outcome.

`RiskEngineMeaning` says without a counter what the loop should compute: the state moves
at a window exactly when the last windows, as many as the policy requires for that move
and each close enough to the one before, all decided for the new state
(`HysteresisReference`). Its `EngineSpec` is a session whose evidence grows by the group
of one window at each step, in any order of the windows.

### RiskPipeline

| variables | code |
|---|---|
| `content`, `policyValid` | what an event says, and whether the call's policy document parses: chosen initially, since a redelivered event has the same content |
| `acceptance` | EvidenceEvent rows |
| `assessments riskEvents interventions alerts` | the rows of these tables |
| `terminal` | the session or call has ended |
| `request` | callback requests between the grant and the transaction |

`Ingest` reads the grant, `Record` and `Replay` are the serializable transaction
for an event that is new or on record, `Abandon` is a request that dies, gives up
its retries or is rolled back, `Terminate` is any end of the session. A
transaction that loses a conflict is rolled back and tried again, which is the
same as its not having started. Identity of evidence sets replaces their hash.
One session and its call are modelled; sessions share no row that decides
anything but the sequence number of risk events. `recordDecision` has its two halves,
the assessment and the state, and `RecordTransition`, which is what follows a change of
state. `InProduction` is the environment: there `assertModeAllowed` throws on a SHADOW
decision, which rolls the transaction back, evidence included.

### CallLifecycle

| variables | code |
|---|---|
| `call participant` | `Call.status`, `CallParticipant.status` |
| `binding revision session expired` | `TrackBinding` and `AnalysisSession` of each track |
| `work` | the handlers: REST requests and webhooks, each with its point and what it read |
| `ml`, `mlGrant` | what `AnalysisSessionManager` remembers of a session, and whose request fingerprint it has |

`createCallWithParticipants`, `CreateRoom`, `Invite`, `End`, `CancelCall`,
`BeginEnding`, `listOpenAnalysisSessions`, `FinishEnding`, `CleanupRejects`,
`FailCall` are `CallsService`; `ParticipantJoined`, `ActivateCall`,
`ParticipantLeft`, `TrackPublished`, `BindTrack`, `BindReplays`,
`closeVerifiedTrack` the webhooks; `RefuseStart`, `AdmitStart`, `BeginStarting`,
`StartReturns`, `StartAnswerLost`, `ActivateSession` are `AnalysisService.start`, and
`StopReturns`, `StopRejects`, `StopsDone` the four loops that stop analysis. Any
handler may die or throw at any await (`Abandon`). Webhooks carry no order: any
track may be announced at any time and again. The replay table of idempotency keys
belongs to one process and expires, so the model assumes nothing of it.
`CallRepository.endCall` and `AnalysisService.stop` have no caller and are left out.

### AuthSessions

`status family successor lapsed` are the RefreshSession rows, a token standing for
the row that has its hash; `held` are tokens some client was given; `exposed` are the
families where a used token was presented. `create`, the `Rotate…` actions and
`revokeFamily` are the repository's transactions; `Answer`, `AuditRejects` and
`AnswerLost` are what follows the commit of a login or a rotation. Anyone who has
seen a token may present it, as often as they like. Password and token cryptography
are left out. `Disable` stands for an administrator; nothing in the repository
enables an identity again.

### SecurityGateway

| variables | code |
|---|---|
| `alerts delivered` | the rows that `replay` reads, with the order of creation and of delivery |
| `pending clients subscribed state` | `pendingConnections`, the Map, `ClientState.callIds`, `readyState` |
| `acknowledgedBy` | `Alert.acknowledgedByMembershipId` |
| `recent` | the fingerprints that keep an event from being pushed twice |
| `loop` | the `publish` under way: its event, where it is in the Map |
| `work` | `subscribe` calls under way |
| `sent granted steady revoked` | history: which events were written, what was authorized, who was subscribed all the time, whose session was lost when the publication began |

`handleConnection` and `Authenticated`; `subscribe`, `Reauthenticate`, `Readable`,
`SubscribeRejects`, `ReplayAndAnswer`; `consumeInbound`, `AcknowledgeRevokes`,
`Acknowledge`; `Publish`, `PublishKnown`, `NextTarget`,
`Reauthorize`, `Push`, `PublishReturns`; `Disconnect`. A JavaScript Map is iterated
live: entries that are added while the loop runs are still visited, entries that are
removed are not; `NextTarget` is that. The two neighbours are reduced to what the
gateway sees of them. A token is worth something until it is `lost` for good, which
is `NeverAuthenticAgain`, proved of `AuthSessions`. An alert that is not DELIVERED may
be published at any time, again, here or by another process, which is more than
`SecurityOutbox` allows. Likewise any row may be acknowledged, where the code asks for
one that is DELIVERED or being published. A check of a socket may fail although its
session is good: a query rejects, or a call that was readable no longer is. `sent` has
events only. The message `security.ready` of `handleConnection`, which is sent without a
look at `readyState` (`security-events.gateway.ts:136`), is not one of them; a socket
that was closed meanwhile writes nothing for it, and if the send throws, the socket is
dropped, which is in `Authenticated`. `revoked` is for what the runbook promises: "Each
subscribe, live publish, and acknowledgement revalidates", and "revocation disconnects
the socket" (`docs/backend/headless-backend-runbook.md:89-91`).

### AnalysisWorker

Each `asyncio` task is one position in its loop (`media`, `fast`, `deep`, `sender`);
what happens between two awaits is one step. A frame is its connection and its
position in the stream, and a window is the sequence of its frames, so that a gap
can be seen. Samples, resampling, voice activity and scores are left out; whether a
window is fit or stale, whether an inference fails and whether a fast inference comes
with an identity result is chosen. The queues are `BoundedLatestQueue` and a dropped
item is the oldest. `create`, `stop` and
`shutdown` of the manager are in `CallLifecycle` (`ml`), its capacity limit is left
out.

### Enrollment

`consent voiceprint basis` are the rows of one speaker and of the consents they rest
on, `session uses` the sessions bound to a voiceprint. `enroll` reads the consent and
asks the model, `activateVoiceprint` is the serializable transaction that reads it
again; `revokeConsent` and `deleteVoiceprint` are transactions that revoke the open
sessions and are followed by one `stopAnalysis` each, any of which may fail.
`ReadVoiceprint` and `bindTrackAndCreateAnalysis`, and `start`,
`VoiceprintIsCurrent` / `VoiceprintIsNotActive`, `Starting`, `startAnalysis` and
`Started` are the binding and the start with a read and a write apart. The call side
of these is `CallLifecycle`, where the withdrawal is `RevokeVoiceprintSession`.
`superseded` is history: the voiceprints that an enrollment replaced.

### How the modules meet

The backend's modules meet by rows, so each is given the other's writes in their
most general form. `Require` of `InterventionLoop` and `Enqueue` of `SecurityOutbox`
create at any time any row that `Record` of the pipeline creates; `terminal` of the
pipeline is any end that `CallLifecycle` gives a call or a session, and it may come
at any time; `RiskPipeline` takes events in any order and any number of times, which
includes whatever `AnalysisWorker` delivers; the gateway takes publications and
losses of sessions as said above. What is proved of a module is therefore proved of
it in the whole system. Conversely a property may rest on another: the pipeline
accepts evidence of a session that `Speaks`, and `OnlyTheBoundTrackSpeaks` says whose.

## 4. The runs

### Runs that pass

| run | instance | shows |
|---|---|---|
| `loop` | one row of every kind, 2 executors, 1 request, 1 challenge, 1 key, 2 attempts, 1 fault | an attempt is claimed once, a lease excludes others until it has run out, statuses follow the domain map, an active hold only becomes SATISFIED; the status of a hold agrees with what the provider did, and a release has a passed challenge of that row |
| `executor` | 2 rows, 2 executors, batches of one, 1 fault, fairness | no row starves: it is resolved or its attempts are used up |
| `outbox` | 2 alerts, 2 flushes, batches of two, 2 attempts, horizon 2, 1 fault, fairness | fencing; the outbox implements `LeasedWork`; no alert starves |
| `risk` (`MCRisk`), engine | seven kinds of window in every combination over five positions | the loop's counter computes what hysteresis means (`HysteresisReference`, a definition by runs of windows instead of a counter); confirmed states are stable; direction and target of a score only change its notation |
| `risk`, pipeline | 5 events in 2 windows, one a revision, one of them calibrated and traced or not, 2 requests, valid and invalid policy, gates promoted | order, replay and concurrency do not change the outcome; production controls are licensed |
| `call_lifecycle` | one call, 2 tracks, 2 handlers | one ACTIVE binding with the highest revision; only its session can contribute evidence, also while a start or stop of another is under way; the call follows its map, and sessions follow theirs but for the expiry of one that is STARTING |
| `gateway` | 3 sockets of one client, 2 allowed, 1 event, 1 subscribe at a time | the limit counts sockets being authenticated; who is subscribed through a publication has its event or is disconnected; whose session was lost before it is not pushed the event, and a subscriber among those is disconnected; only events of granted calls are received or acknowledged |
| `analysis_worker` | 2 connections of 3 and 2 frames, windows of 2, queues of 1 and 2, 2 attempts to connect and to deliver, fairness of delivery | queues stay in bounds; a window has no gap; DEEP is never delivered before its FAST; a failing delivery does not stop the next |
| `authorization` (`MCAuthorization`), enrollment | 1 consent, 2 voiceprints, 2 sessions, 2 requests | no active voiceprint without consent; no use of a deleted voiceprint, nor of one whose consent was withdrawn before it was replaced; success of a withdrawal means stopped |
| `authorization`, sessions | 4 tokens: two logins, or one and three rotations | a family has one active session, a token is redeemed once, a reuse ends the family, a rejected token stays rejected |

`MCRisk` and `MCAuthorization` each check two machines in one run. The two have no
variable in common, and every property looks at the variables of one, so interleaving
their steps would give no new state to any property: each runs while the other one has
not started. In `MCRisk` the two have the policy in common.

### Runs that find a disagreement

Each checks one sentence of the repository; `findings` in `PROJECT.json` quotes it.

| run | what TLC shows |
|---|---|
| `dead_letter` | the executor's dead-letter update leaves `resolvedAt` null; the table's CHECK refuses it inside the catch block, so the pass ends and the row stays REQUIRED with no attempt left |
| `worker_reconnect` | after a reconnect windows are numbered from one again, while the ids of delivered events are kept: an event about new audio is discarded as a duplicate |
| `session_map` | the maintenance worker expires a session that is STARTING, which the domain's map does not list ("Unlisted transitions are illegal.") and `AnalysisService.start` refuses to do |
| `withdrawal` | a re-enrollment replaces a voiceprint and leaves the sessions that use it; the withdrawal of the consent revokes the sessions of ACTIVE voiceprints only, so one of those goes on ("Revocation prevents future use immediately.") |

`session_map` checks `SessionFollowsMap` against `analysisTransitions` as the code has
it; `HandlersFollowMap`, which `call_lifecycle` checks, excepts that one expiry and
nothing else. `withdrawal` checks `WithdrawalEndsUse`; `UnreplacedUseIsLicensed`, which
`authorization` checks, says nothing of the consent of a replaced voiceprint.

### Where the models depart from the documents

These follow from lines that the models have as they are; they have no run of their
own.

*Interventions.* A cancel may succeed between the provider's hold and its recording
(`interventions.service.ts:73`, against `docs/backend/api-contracts.md:44`). The claim does
not test `nextAttemptAt`, so an executor whose scan is older than the scheduling of a
retry starts it at once.

*Outbox.* A lost lease ends a flush that may still hold the last attempt of another
alert of its batch, which then is PENDING with no attempt left
(`security-event-outbox.service.ts:71`); so does a crash at that point.

*Risk pipeline.* The redelivery of an event that was superseded meanwhile, or whose
session ended, is answered by a conflict (`evidence.repository.ts:89`, against
`docs/data/state-machines.md:103`). A change of state that is computed together with an
undecided last window is stored and never reported
(`headless-risk-pipeline.service.ts:366`, against `state-machines.md:107`). An event is
accepted after the session ended if it ended between the grant and the transaction
(`evidence-ingestion.service.ts:173`). A late PIPELINE_ERROR voids a window that was
judged and takes back what it led to (`risk-engine.ts:132`). With a policy document
that does not parse, the redelivery of an accepted event fails on the unique key of
the audit row, every time.

In the environment "production" a session whose policy parses never takes any evidence:
its first event alone is not enough for a decision, so it is not eligible for production
and its mode is SHADOW, which `assertModeAllowed`
(`headless-risk-pipeline.service.ts:511`) refuses by throwing out of the transaction that
records the event. The next event is again the first. This does not depend on the
policy's thresholds, the gates or the order, and is proved (`ProductionAcceptsNothing`).

*Calls.* Every start draws a new grant, so one that repeats a start whose answer was
lost has another fingerprint and gets IDEMPOTENCY_KEY_CONFLICT; its session stays
STARTING until it expires (`analysis.service.ts:97`, against
`docs/backend/domain-workflows.md:35`). `end` stops the analysis of a call's sessions
but does not touch their rows, so they stay ACTIVE until they expire; their evidence is
refused because the call has ended.

*Enrollment.* A withdrawal whose stops failed is
answered with success when it is repeated, and stops nothing. The expiry of a consent
only refuses enrollments. Only a deletion clears the ciphertext of a voiceprint.

*Gateway.* A socket that is closed while it is being authenticated is put into the Map
all the same and counts against the limit until an event finds it closed. An alert that
was published before a socket subscribed and is marked delivered after the replay was
read is in neither stream. Replays follow `createdAt` while cursors come in the order of
delivery. Only the sockets of the process whose flush publishes get a push. A retried
publication skips who subscribed since the first one, by its fingerprint. A
subscription that is replaced while `publish` awaits its authorization still gets the
event, which is of a call it was granted. An acknowledgement over a socket reads the row
and writes it without a condition, so of two at once the later one stays, where the one
over HTTP keeps the first.

*Worker.* Attempts to connect are never given back after a good connection. An event that
could not be delivered is never sent again, since its id is remembered before it is
sent. An overfull evidence queue may drop the event that says that it gave up.

### Bounds, and why they suffice

- *Time* is a counter to `MaxTime`; instants saturate there. A lease taken at the
  horizon is over at once, that is, its holder is one that outlives its lease. The
  horizon leaves room for a lease, its expiry and a retry; at the horizon any
  order of the remaining steps is still possible, so liveness is not vacuous.
- *Processes*: two, since every comparison in the code is between the row and one
  earlier reader; one operator request, since requests compare the row in the same
  way. The theorems cover any number of both.
- *Attempts*: two, a first and a last one. *Faults*: one crash or refused statement where one is enough to reach
  the hazard; without this bound nothing could be promised under fairness.
- *Windows*: five for the engine, so that a clearing run of three can be broken
  by an undecided window or by a gap larger than allowed; two in the pipeline, which
  is the run that it takes to enter a state. Scores take values on both sides of, and between, the
  two thresholds.
- *Events*: one revised slot shows superseding in both orders of arrival, and a
  redelivery after it. Requests: two, one overtaking the other. The session's mode
  is CALIBRATED in `risk`, where all of SHADOW and PRODUCTION occurs, and
  `InProduction` is FALSE, since where it is TRUE the tables stay empty. Under a
  policy that does not parse nothing reads what the events say, and one content of
  each is enough.
- *Tracks and handlers* of a call: two, one superseding the other while it is being
  bound, started or stopped. There is no bound on time or on how often a webhook comes.
- *Tokens*: four, so that a reuse of the first comes after two rotations and beside
  another family.
- *Sockets*: three where two are allowed, so that one waits, one is refused and the
  loop of `publish` has a Map that changes before and behind it. With one event a
  replay has nothing after the cursor; the theorems about the gateway cover any
  number of events, calls and subscribe requests, and so the replay.
- *Frames*: three on one connection and two on the next, of which a queue of one drops
  some, and overlapping windows of two: a gap, a second window and a reconnect all
  happen. The evidence queue of two takes both events of a fast inference, and drops
  one when it is not empty. `StreamMax` is the one bound that the code does not have.
- *Voiceprints*: two, one replacing the other. `session_map` and `withdrawal` do with one
  track and handler, and with one session and request. *Sessions and requests*: two, one of each
  overtaking the other.

`CHECK_DEADLOCK FALSE` is set everywhere because these systems do come to rest:
all rows settled, all events delivered, the clock at the horizon, the call over, the
worker stopped.

Symmetry is used in the runs that have no liveness property: handlers, tracks, tokens,
sockets, requests, consents, voiceprints and sessions are only compared for equality.

### Fairness

`FairSpec` of the executor and the outbox assumes weak fairness of each process's pass
as a whole, which a `setInterval` poll timer started at bootstrap and an event loop that
resumes awaits justify, and of time. Nothing else is fair: not operators, the
maintenance worker, crashes, rejections, database failures or deliveries of the ML
worker. The fairness of a pass is of the disjunction of its steps, so it does not
promise that a provider call succeeds.

`FairSpec` of `AnalysisWorker` assumes weak fairness of `TakeEvent` and `Post`: the
delivery task awaits only its queue, requests with a timeout, and pauses. `Post` is
the disjunction of an answer and a failure, so it promises no answer. Nothing is
assumed of the room, the models or the backend.

## 5. The proofs

All theorems hold for every value of the constants that meets the named
assumptions: `KindsAssumption`, `BoundsAssumption`, `NoneAssumption` for the
intervention loop, `OutboxBounds`, `OutboxNone` for the outbox,
`PolicyAssumption`, `PipelineAssumption` for the pipeline, `WorkerAssumption`, `CallRoles`,
`TokensAssumption`, `GatewayAssumption`, `EnrollmentAssumption`. In particular they
hold for any policy that parses and for any number of rows, processes, requests, events,
windows, frames, tracks, tokens and sockets.

**Intervention loop.** `IInv` joins the type invariant with what each participant
may rely on: a working pass has a row and an attempt number (`PassInv`); its
attempt is at most the row's count, and when it is the latest of a REQUIRED row
the lease is still this pass's (`ClaimInv`); a request between its read and its
update is one its guards admitted, and what it learnt lasts (`RequestInv`);
receipts and effects are of existing rows and of the right kind (`ReceiptInv`,
`EffectInv`). The proof's core is that `executionAttemptCount` never
decreases and rises with every claim: an update that finds its own count finds
its own claim, so `AttemptClaimedOnce`, `LeaseExcludes` and `ResolvedIsQuiescent`
follow although each participant works from an old read. For the release, "held"
and "passed" are stable facts (`Lasting`), so a check made before an
awaited call still holds after it.

**Outbox.** The same argument for records of a batch: `ClaimInv` ties the count,
the lease and its end to every record of a flush, `FlushInv` says what its memory
holds at each point. Fencing, the finality of a verdict and
`PublishOverlapsOnlyAfterExpiry` follow. `OutboxImplementsLeasedWork` maps every step
to one of `LeasedWork` or to none; it needs the invariant at exactly the steps that
settle a row: an update that finds its own lease is the latest attempt, so a verdict
is given by the attempt that `LeasedWork` lets give it.

**Risk pipeline.** `IInv` is the shape of the tables, `EvidenceOnRecord` (no
assessment rests on an event that is not on record) and the two invariants of the
tables. A new accepted event makes a set of evidence that contains it, which by
`EvidenceOnRecord` no assessment has; so the lookup by hash misses and the latest
assessment becomes the one of that set. A redelivery finds the latest assessment
to be of the accepted set, so the lookup hits and nothing changes
(`RedeliveryIsIdempotent`). The argument uses nothing of the engine but that it
is a function, so it holds for every policy. `HighestRevisionWins` is independent
of both.

`TablesInv` adds what the tables say of each other: every assessment is the engine's
result on its evidence and eligible when that evidence is (`AssessmentsHold`), every risk
event has the mode its assessment allows and none of mode SHADOW has a control
(`ControlsRest`), and, while the session runs, a stale event was overtaken by an accepted
one (`StaleIsOvertaken`). Eligibility and the engine's result are functions of the set of
evidence and of its contents, which never change, so a row that is written stays right
while evidence is superseded around it; `EveryControlIsLicensed` follows by going from a
control to its risk event, to its assessment and to the events it rests on.
`OrderDoesNotMatter` needs both invariants: the accepted events are the highest revisions,
the latest assessment is of these, and its state is the engine's. `PipelineTypes` needs
that the engine gives a state at all, which is the first of the inductions below.

`ProductionAcceptsNothing` has `ProductionRest` as its invariant: a set of evidence with
one event has no identity score or no spoof score, so none of its windows is sufficient,
its assessment is not eligible and its mode SHADOW.

**Engine.** `Loop` is a recursive function of the window. That it exists, has a value of
the right shape after every window and satisfies its equation (`LoopFollows`) is proved by
induction, and so is what holds after every window of a loop. The library's induction theorems take an
operator as a parameter; here the induction is over a *set* of naturals that has 0 and the
successor of each member (`Inducts`), which is all naturals because its complement has no
least element (`WFMin`).

`StateMovesAfterRun` is `HysteresisReference` for every policy and every set of evidence.
Its inductive facts are two: what is pending is explained by a run of windows of exactly
that length (`Explained`), and no run is longer (`Longest`). The first alone shows that a
state does not move too early, the second that it does not move too late; each needs that
a run grows by one window and shrinks by one (`RunGrows`, `RunShrinks`), where the gap and
an undecided window break it.

`ConfirmedStatesAreStable` has the hypothesis that clear thresholds are no higher than
enter thresholds. The policy parser does not demand that order; the theorem shows what
the parser's omission costs, and that the fusion weights, direction and target of the
scores do not matter. `OnlyMeaningCounts` holds without a hypothesis: events that say the
same (`SameMeaning`) give every window the same scores, so the loops are equal step by step.

**Worker.** `TypeInv` has the bounds of the queues. `SegmentInv` says that the buffer and
every window in use are unbroken; it is inductive as it stands, because a frame that does
not follow the last one resets the buffer. `OrderInv` is what `DeepFollowsFast` needs. A
window has no identity in the code but its number, which starts again at a reconnect, so
the proof tells windows apart by their audio: no frame is delivered twice, and a frame
that ended a window is not queued again (`FramesInv`), so no two windows that can be met
have the same audio; where a window is tells which of its verdicts were queued
(`StagesInv`), and the fast one is before the deep one in the queue or gone (`VerdictsInv`).

**Call lifecycle.** `CallInv` is typing, the rows (`RowsInv`) and that a handler about a
track knows which. The rows come together (`RowsTogether`), revisions are bounded so that
a next one exists (`RevisionsBounded`), and an open session is one of an ACTIVE binding
(`OpenIsBound`), stronger than `OnlyTheBoundTrackSpeaks`, which adds the call.
Most actions touch the rows only through a status that they compare first; these are
proved by lemmas about such updates, and what remains are `BindTrack` and
`closeVerifiedTrack`, which change binding and session in one transaction. `HandlersMoveSessionsAlongMap` goes
through the writers of a session's status (`SessionStep`): each compares the status it
leaves, and of the maintenance worker's expiry only the step from STARTING is outside of
the map.

**Sessions.** `AuthInv` adds `RowsExist` to the invariants: whatever was issued or is the
root of a family is a row, so a fresh token cannot fall into a family that was exposed.
Withdrawal, reuse detection and logout are one lemma (`WithdrawingKeeps`).
`RejectedStaysRejected` follows from the finality of a status, of a lapse and of a
disabled identity.

**Gateway.** The core is `AheadOrServed`: a socket that stays subscribed through a
publication has got the event, is the one the loop is at, or still lies ahead of it in
the Map. It needs that passing the clients before a target passes nobody who was
subscribed then, and that removing another client from the Map leaves it ahead.
`RevokedIsSkipped` is what the check of a target gives: a session that was lost stays
lost, so nobody of `revoked` is ever the target of a push, and a subscriber among those
cannot have been served: by `AheadOrServed` it is closed when the loop is through.
`GrantedOnly` ties subscriptions, replays under way and the target of the loop to calls
that were found readable. The limit needs the finiteness of the sockets that wait, which
is part of the invariant (`Connections`).

**Enrollment.** `Licensed` says of a session's voiceprint that it is ACTIVE, or replaced
and not deleted; with `ActiveVoiceprintHasConsent` it gives `UnreplacedUseIsLicensed`.
Between the check of the voiceprint and the transition to STARTING a
session is not in use, so `UseIsLicensed` says nothing of it; `LaunchIsLicensed` does.
It is kept because a withdrawal in between revokes the session, and the transition then
fails. `StopsAreKept` is the same for the stops of a withdrawal, since a session that was
stopped in the ML service is never started again.

Proved and not in a run: type correctness of four modules (`CallIsTyped`,
`SessionsAreTyped`, `GatewayIsTyped`, `EnrollmentIsTyped`), `UsedSessionIsFinal`,
`LoopResolvedIsQuiescent`, `ProductionAcceptsNothing`, and of the outbox that no two flushes
hold the same attempt, that DELIVERED means published, that two processes publish the same
alert at once only after an expiry, that a free row has no live claim and that verdicts are
final.

Only model-checked: liveness, which needs fairness and ENABLED (`PendingIsAttempted` of the
executor and of the outbox, `DeliveryGoesOn`); and the four runs that
end in a violation.

## 6. Not modelled

*Idempotency, rate limits and governance.* The replay table and the sliding window are
Maps of one process, and the modules assume nothing of them:
any request may come again, as it does after a restart or at another process.
Governance activates policies and models; the pipeline is checked with the policy
fixed for a call, which is how the code snapshots it.
*Login limiter*: a counter per key in one process. *Password, token and voiceprint
cryptography*: not a matter of states.
*Security-operations queries, audit and telemetry rows, times of acknowledgements*:
read by nothing that decides. Where an audit append may fail and so redirect control,
that is in the models.
*Model inference, offline evaluation and baselines*: floating-point tensors.
*Configuration, logging, health, OpenAPI contracts and schema validation*: stateless;
the events that are ingested are those that pass.
*Dead code*: `CallRepository.endCall`, `AnalysisService.stop`,
`revokeConsentAndDeleteVoiceprint` have no callers.
*Infrastructure scripts, migrations beyond the CHECK constraints, the frontend.*
*Exceptions of the ML worker's evidence client* other than timeouts and transport errors
(evidence_client.py:79), which end the delivery task: `DeliveryGoesOn` does not cover them.
Clock steps and disagreement between database and process clocks are not modelled: time
is one counter, or an event that may come at any moment.
