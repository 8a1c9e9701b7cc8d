--------------------------- MODULE CallLifecycle ---------------------------
(***************************************************************************)
(* One call, its participants, the tracks LiveKit announces by webhook,    *)
(* the binding and the analysis session of each track, and the sessions    *)
(* that the ML worker runs.                                                *)
(*                                                                         *)
(* Webhooks are delivered at least once and in any order, to any backend   *)
(* process; the replay table of IdempotencyService belongs to one process  *)
(* and expires, so a redelivered webhook may be handled again, also while  *)
(* another process handles the first delivery.  A handler is one of Procs: *)
(* what it read before an await is in work, and everything else may happen *)
(* before its next step.                                                   *)
(***************************************************************************)
EXTENDS Naturals, FiniteSets

CONSTANTS
  Participants,  \* CallParticipant rows of the call
  Customer,      \* the one created with the call
  Caller,        \* the one whose microphone is bound
  Tracks,        \* track SIDs the caller publishes, each with its own webhook
  Procs,         \* handlers that run at the same time
  None           \* no track, no handler

ASSUME CallRoles ==
  /\ Caller \in Participants
  /\ None \notin Tracks \cup Procs

VARIABLES
  call,          \* Call.status
  participant,   \* CallParticipant.status
  binding,       \* TrackBinding.status of each track
  revision,      \* TrackBinding.revision
  session,       \* AnalysisSession.status of each binding
  expired,       \* sessions whose expiresAt has passed
  work,          \* the handlers
  ml,            \* AnalysisSessionManager: unknown, running, or over
  mlGrant        \* the handler whose grant the manager has in the fingerprint of a
                 \* session, while that handler may still send it again

rows == <<call, participant, binding, revision, session>>
mlVars == <<ml, mlGrant>>
vars == <<rows, expired, work, mlVars>>

CallStatus == {"AUTHORIZED", "ACTIVE", "ENDING", "ENDED", "CANCELLED", "FAILED"}
ParticipantStatus == {"AUTHORIZED", "JOINED", "LEFT"}
BindingStatus == {"ACTIVE", "SUPERSEDED", "REVOKED"}
SessionStatus == {"AUTHORIZED", "STARTING", "ACTIVE", "REVOKED", "EXPIRED"}

CallOver == {"ENDED", "CANCELLED", "FAILED"}
Accepting == {"AUTHORIZED", "ACTIVE"}
\* No production code writes DEGRADED, STOPPING, STOPPED or FAILED.
Open == {"AUTHORIZED", "STARTING", "ACTIVE"}

Control == {"idle", "room", "cancel", "ending", "list", "stop", "failing", "activate",
            "bind", "supersede", "close", "revoke", "start", "starting", "mlStart",
            "activating"}
Stopping == {"stop", "supersede", "close", "revoke"}
Idle == [pc |-> "idle", on |-> None, todo |-> {}]
At(pc, t) == [Idle EXCEPT !.pc = pc, !.on = t]

TypeOK ==
  /\ call \in CallStatus \cup {"ABSENT"}
  /\ participant \in [Participants -> ParticipantStatus \cup {"ABSENT"}]
  /\ binding \in [Tracks -> BindingStatus \cup {"ABSENT"}]
  /\ revision \in [Tracks -> Nat]
  /\ session \in [Tracks -> SessionStatus \cup {"ABSENT"}]
  /\ expired \in SUBSET Tracks
  /\ work \in [Procs -> [pc : Control, on : Tracks \cup {None}, todo : SUBSET Tracks]]
  /\ ml \in [Tracks -> {"unknown", "running", "over"}]
  /\ mlGrant \in [Tracks -> Procs \cup {None}]

Init ==
  /\ call = "ABSENT"
  /\ participant = [c \in Participants |-> "ABSENT"]
  /\ binding = [t \in Tracks |-> "ABSENT"]
  /\ revision = [t \in Tracks |-> 0]
  /\ session = [t \in Tracks |-> "ABSENT"]
  /\ expired = {}
  /\ work = [p \in Procs |-> Idle]
  /\ ml = [t \in Tracks |-> "unknown"]
  /\ mlGrant = [t \in Tracks |-> None]

Goes(p, w) == work' = [work EXCEPT ![p] = w]
OpenSessions == {t \in Tracks : session[t] \in Open}

\* transitionCall: the update is conditional on the expected status.  The caller
\* goes on when it took effect or when another handler was there first.
transitionCall(from, to) == call' = IF call = from THEN to ELSE call
Transitioned(from, to) == call \in {from, to}

-----------------------------------------------------------------------------
(* CallsService.create, invite and end.                                    *)

\* A repeated create with the same key returns the row as it is now; when that is
\* no longer AUTHORIZED, the room request changes nothing any more.
createCallWithParticipants(p) ==
  /\ work[p].pc = "idle"
  /\ call \in {"ABSENT", "AUTHORIZED"}
  /\ call' = "AUTHORIZED"
  /\ participant' = [participant EXCEPT ![Customer] = IF call = "ABSENT" THEN "AUTHORIZED" ELSE @]
  /\ Goes(p, At("room", None))
  /\ UNCHANGED <<binding, revision, session, expired, mlVars>>

\* liveKit.createRoom returns, or it rejects and the call is failed.
CreateRoom(p) ==
  /\ work[p].pc = "room"
  /\ \/ UNCHANGED call
     \/ transitionCall("AUTHORIZED", "FAILED")
  /\ Goes(p, Idle)
  /\ UNCHANGED <<participant, binding, revision, session, expired, mlVars>>

\* In one transaction, before the call is active; a participant on record is returned.
addParticipant(c) ==
  /\ call = "AUTHORIZED"
  /\ participant[c] = "ABSENT"
  /\ participant' = [participant EXCEPT ![c] = "AUTHORIZED"]

\* invite.  The grant for LiveKit that follows is no row: when it fails, the
\* participant stays, and a repeated invitation finds it.
Invite(c) ==
  /\ addParticipant(c)
  /\ UNCHANGED <<call, binding, revision, session, expired, work, mlVars>>

\* end reads the call; a call that is over is returned or refused.
End(p) ==
  /\ work[p].pc = "idle"
  /\ \/ call = "AUTHORIZED" /\ Goes(p, At("cancel", None))
     \/ call = "ACTIVE" /\ Goes(p, At("ending", None))
     \/ call = "ENDING" /\ Goes(p, At("list", None))
  /\ UNCHANGED <<rows, expired, mlVars>>

\* The room has been closed.
CancelCall(p) ==
  /\ work[p].pc = "cancel"
  /\ transitionCall("AUTHORIZED", "CANCELLED")
  /\ Goes(p, Idle)
  /\ UNCHANGED <<participant, binding, revision, session, expired, mlVars>>

BeginEnding(p) ==
  /\ work[p].pc = "ending"
  /\ transitionCall("ACTIVE", "ENDING")
  /\ Goes(p, IF Transitioned("ACTIVE", "ENDING") THEN At("list", None) ELSE Idle)
  /\ UNCHANGED <<participant, binding, revision, session, expired, mlVars>>

listOpenAnalysisSessions(p) ==
  /\ work[p].pc = "list"
  /\ Goes(p, [At("stop", None) EXCEPT !.todo = OpenSessions])
  /\ UNCHANGED <<rows, expired, mlVars>>

\* Everything is stopped and the room closed.  A call that is no longer ENDING
\* throws into the catch block.
FinishEnding(p) ==
  /\ work[p].pc = "stop"
  /\ work[p].todo = {}
  /\ transitionCall("ENDING", "ENDED")
  /\ Goes(p, IF Transitioned("ENDING", "ENDED") THEN Idle ELSE At("failing", None))
  /\ UNCHANGED <<participant, binding, revision, session, expired, mlVars>>

\* The query, LiveKit or the audit row fails.
CleanupRejects(p) ==
  /\ work[p].pc \in {"list", "stop"}
  /\ Goes(p, At("failing", None))
  /\ UNCHANGED <<rows, expired, mlVars>>

FailCall(p) ==
  /\ work[p].pc = "failing"
  /\ transitionCall("ENDING", "FAILED")
  /\ Goes(p, Idle)
  /\ UNCHANGED <<participant, binding, revision, session, expired, mlVars>>

-----------------------------------------------------------------------------
(* TrackBindingService.handleVerifiedLifecycle.                            *)

\* participant_joined, up to the read of the call: a participant who LEFT is
\* refused, a repeated join goes on.
ParticipantJoined(p, c) ==
  /\ work[p].pc = "idle"
  /\ participant[c] \in {"AUTHORIZED", "JOINED"}
  /\ participant' = [participant EXCEPT ![c] = "JOINED"]
  /\ Goes(p, IF call = "AUTHORIZED" THEN At("activate", None) ELSE Idle)
  /\ UNCHANGED <<call, binding, revision, session, expired, mlVars>>

ActivateCall(p) ==
  /\ work[p].pc = "activate"
  /\ transitionCall("AUTHORIZED", "ACTIVE")
  /\ Goes(p, Idle)
  /\ UNCHANGED <<participant, binding, revision, session, expired, mlVars>>

\* participant_left, participant_connection_aborted: markParticipantEnded.
ParticipantLeft(c) ==
  /\ participant[c] \in {"AUTHORIZED", "JOINED"}
  /\ participant' = [participant EXCEPT ![c] = "LEFT"]
  /\ UNCHANGED <<call, binding, revision, session, expired, work, mlVars>>

\* track_published, up to the transaction.
TrackPublished(p, t) ==
  /\ work[p].pc = "idle"
  /\ participant[Caller] # "ABSENT"
  /\ call \in Accepting
  /\ Goes(p, At("bind", t))
  /\ UNCHANGED <<rows, expired, mlVars>>

Highest(S) == CHOOSE n \in S : \A k \in S : k <= n
NextRevision == 1 + Highest({0} \cup {revision[u] : u \in Tracks})

\* Mutant: the earlier binding is left as it is.
MutantSupersededNobody == [u \in Tracks |-> binding[u]]
Superseded == [u \in Tracks |-> IF binding[u] = "ACTIVE" THEN "SUPERSEDED" ELSE binding[u]]
\* Mutant: only sessions that were started are revoked with their binding.
MutantWithRevokedStarted(S) ==
  [u \in Tracks |-> IF u \in S /\ session[u] # "AUTHORIZED" THEN "REVOKED" ELSE session[u]]
WithRevoked(S) == [u \in Tracks |-> IF u \in S THEN "REVOKED" ELSE session[u]]

\* Mutant: the transaction relies on the status read before it.
MutantBindUnchecked(p) ==
  LET t == work[p].on IN
  /\ work[p].pc = "bind"
  /\ binding[t] = "ABSENT"
  /\ binding' = [Superseded EXCEPT ![t] = "ACTIVE"]
  /\ revision' = [revision EXCEPT ![t] = NextRevision]
  /\ session' = [WithRevoked(OpenSessions) EXCEPT ![t] = "AUTHORIZED"]
  /\ call' = "ACTIVE"
  /\ Goes(p, [At("supersede", t) EXCEPT !.todo = OpenSessions])
  /\ UNCHANGED <<participant, expired, mlVars>>

\* The transaction for a track that is not on record.
BindTrack(p) ==
  LET t == work[p].on IN
  /\ work[p].pc = "bind"
  /\ call \in Accepting
  /\ binding[t] = "ABSENT"
  /\ binding' = [Superseded EXCEPT ![t] = "ACTIVE"]
  /\ revision' = [revision EXCEPT ![t] = NextRevision]
  /\ session' = [WithRevoked(OpenSessions) EXCEPT ![t] = "AUTHORIZED"]
  /\ call' = "ACTIVE"
  /\ Goes(p, [At("supersede", t) EXCEPT !.todo = OpenSessions])
  /\ UNCHANGED <<participant, expired, mlVars>>

\* The transaction for a track on record, or after the call stopped accepting:
\* what is there is returned, or the handler throws.
BindReplays(p) ==
  LET t == work[p].on IN
  /\ work[p].pc = "bind"
  /\ call \notin Accepting \/ binding[t] # "ABSENT"
  /\ Goes(p, IF call \in Accepting THEN At("start", t) ELSE Idle)
  /\ UNCHANGED <<rows, expired, mlVars>>

\* track_unpublished: closeVerifiedTrack.
closeVerifiedTrack(p, t) ==
  /\ work[p].pc = "idle"
  /\ binding[t] # "ABSENT"
  /\ binding' = [binding EXCEPT ![t] = IF @ = "ACTIVE" THEN "REVOKED" ELSE @]
  /\ session' = WithRevoked({t} \cap OpenSessions)
  /\ Goes(p, [At("close", t) EXCEPT !.todo = {t} \cap OpenSessions])
  /\ UNCHANGED <<call, participant, revision, expired, mlVars>>

\* The enrollment repository revokes a session together with its voiceprint, and
\* TrustedSpeakersService then stops its analysis.
RevokeVoiceprintSession(p, t) ==
  /\ work[p].pc = "idle"
  /\ session[t] \in Open
  /\ session' = WithRevoked({t})
  /\ Goes(p, [At("revoke", t) EXCEPT !.todo = {t}])
  /\ UNCHANGED <<call, participant, binding, revision, expired, mlVars>>

-----------------------------------------------------------------------------
(* ml.stopAnalysis, in the four loops that call it.                        *)

\* AnalysisSessionManager.stop does not find a session it was never given.
StopReturns(p, t) ==
  /\ work[p].pc \in Stopping
  /\ t \in work[p].todo
  /\ ml[t] # "unknown"
  /\ ml' = [ml EXCEPT ![t] = "over"]
  /\ Goes(p, [work[p] EXCEPT !.todo = @ \ {t}])
  /\ UNCHANGED <<rows, expired, mlGrant>>

\* It is refused, unreachable, or its answer is lost after it took effect.  The
\* webhook handlers record that and go on, end goes to its catch block and a
\* revocation throws.
StopRejects(p, t) ==
  /\ work[p].pc \in Stopping
  /\ t \in work[p].todo
  /\ \/ UNCHANGED ml
     \/ ml[t] # "unknown" /\ ml' = [ml EXCEPT ![t] = "over"]
  /\ \/ work[p].pc \in {"supersede", "close"} /\ Goes(p, [work[p] EXCEPT !.todo = @ \ {t}])
     \/ work[p].pc = "stop" /\ Goes(p, At("failing", None))
     \/ work[p].pc = "revoke" /\ Goes(p, Idle)
  /\ UNCHANGED <<rows, expired, mlGrant>>

StopsDone(p) ==
  /\ work[p].pc \in {"supersede", "close", "revoke"}
  /\ work[p].todo = {}
  /\ Goes(p, IF work[p].pc = "supersede" THEN At("start", work[p].on) ELSE Idle)
  /\ UNCHANGED <<rows, expired, mlVars>>

-----------------------------------------------------------------------------
(* AnalysisService.start.                                                  *)

SetSession(t, status) == session' = [session EXCEPT ![t] = status]

\* The checks before the first update.  STARTING may not become EXPIRED by the
\* transition map, so there the handler throws.
RefuseStart(p) ==
  LET t == work[p].on IN
  /\ work[p].pc = "start"
  /\ \/ session[t] \notin {"AUTHORIZED", "STARTING"} /\ UNCHANGED session
     \/ session[t] = "AUTHORIZED" /\ t \in expired /\ SetSession(t, "EXPIRED")
     \/ session[t] = "STARTING" /\ t \in expired /\ UNCHANGED session
     \/ session[t] \in {"AUTHORIZED", "STARTING"} /\ t \notin expired
          /\ SetSession(t, "REVOKED")   \* its voiceprint is no longer active
  /\ Goes(p, Idle)
  /\ UNCHANGED <<call, participant, binding, revision, expired, mlVars>>

AdmitStart(p) ==
  LET t == work[p].on IN
  /\ work[p].pc = "start"
  /\ session[t] \in {"AUTHORIZED", "STARTING"}
  /\ t \notin expired
  /\ Goes(p, At(IF session[t] = "AUTHORIZED" THEN "starting" ELSE "mlStart", t))
  /\ UNCHANGED <<rows, expired, mlVars>>

\* transitionAnalysisSession AUTHORIZED -> STARTING, which replays.
BeginStarting(p) ==
  LET t == work[p].on IN
  /\ work[p].pc = "starting"
  /\ IF session[t] \in {"AUTHORIZED", "STARTING"}
     THEN SetSession(t, "STARTING") /\ Goes(p, At("mlStart", t))
     ELSE UNCHANGED session /\ Goes(p, Idle)
  /\ UNCHANGED <<call, participant, binding, revision, expired, mlVars>>

\* AnalysisSessionManager.create: a session is created once.  The request that
\* created it may be repeated; one with another grant, and every start draws its
\* own with its own expiry, is a conflict.
MLAccepts(p, t) == ml[t] = "unknown" \/ mlGrant[t] = p
MLCreated(t) == ml' = [ml EXCEPT ![t] = IF @ = "unknown" THEN "running" ELSE @]

StartReturns(p) ==
  LET t == work[p].on IN
  /\ work[p].pc = "mlStart"
  /\ MLAccepts(p, t)
  /\ MLCreated(t)
  /\ mlGrant' = [mlGrant EXCEPT ![t] = None]
  /\ Goes(p, At("activating", t))
  /\ UNCHANGED <<rows, expired>>

\* The answer is lost, and the client repeats the request.
StartAnswerLost(p) ==
  LET t == work[p].on IN
  /\ work[p].pc = "mlStart"
  /\ MLAccepts(p, t)
  /\ MLCreated(t)
  /\ mlGrant' = [mlGrant EXCEPT ![t] = p]
  /\ UNCHANGED <<rows, expired, work>>

\* Mutant: the update is by id.
MutantActivateById(p) ==
  LET t == work[p].on IN
  /\ work[p].pc = "activating"
  /\ SetSession(t, "ACTIVE")
  /\ Goes(p, Idle)
  /\ UNCHANGED <<call, participant, binding, revision, expired, mlVars>>

\* transitionAnalysisSession STARTING -> ACTIVE.
ActivateSession(p) ==
  LET t == work[p].on IN
  /\ work[p].pc = "activating"
  /\ SetSession(t, IF session[t] = "STARTING" THEN "ACTIVE" ELSE session[t])
  /\ Goes(p, Idle)
  /\ UNCHANGED <<call, participant, binding, revision, expired, mlVars>>

-----------------------------------------------------------------------------
(* The rest.                                                               *)

\* A provider or a database call rejects out of the handler, or its process dies.
Abandon(p) ==
  /\ work[p].pc # "idle"
  /\ Goes(p, Idle)
  /\ mlGrant' = [t \in Tracks |-> IF mlGrant[t] = p THEN None ELSE mlGrant[t]]
  /\ UNCHANGED <<rows, expired, ml>>

Expire(t) ==
  /\ session[t] # "ABSENT"
  /\ t \notin expired
  /\ expired' = expired \cup {t}
  /\ UNCHANGED <<rows, work, mlVars>>

Stale == {t \in expired : session[t] \in Open}

\* BackendMaintenanceService.expireStaleRecords.
expireStaleRecords ==
  /\ Stale # {}
  /\ session' = [t \in Tracks |-> IF t \in Stale THEN "EXPIRED" ELSE session[t]]
  /\ UNCHANGED <<call, participant, binding, revision, expired, work, mlVars>>

\* The worker ends a session itself: its grant ran out, or the media did.
MLEnds(t) ==
  /\ ml[t] = "running"
  /\ ml' = [ml EXCEPT ![t] = "over"]
  /\ UNCHANGED <<rows, expired, work, mlGrant>>

\* AnalysisSessionManager.shutdown, or a crash: it remembers nothing.
MLRestart ==
  /\ \E t \in Tracks : ml[t] # "unknown"
  /\ ml' = [t \in Tracks |-> "unknown"]
  /\ mlGrant' = [t \in Tracks |-> None]
  /\ UNCHANGED <<rows, expired, work>>

Next ==
  \/ \E p \in Procs :
       \/ createCallWithParticipants(p) \/ CreateRoom(p)
       \/ End(p) \/ CancelCall(p) \/ BeginEnding(p) \/ listOpenAnalysisSessions(p)
       \/ FinishEnding(p) \/ CleanupRejects(p) \/ FailCall(p)
       \/ \E c \in Participants : ParticipantJoined(p, c)
       \/ ActivateCall(p)
       \/ BindTrack(p) \/ BindReplays(p)
       \/ \E t \in Tracks : \/ TrackPublished(p, t) \/ closeVerifiedTrack(p, t)
                            \/ RevokeVoiceprintSession(p, t)
                            \/ StopReturns(p, t) \/ StopRejects(p, t)
       \/ StopsDone(p)
       \/ RefuseStart(p) \/ AdmitStart(p) \/ BeginStarting(p)
       \/ StartReturns(p) \/ StartAnswerLost(p) \/ ActivateSession(p)
       \/ Abandon(p)
  \/ \E c \in Participants : Invite(c) \/ ParticipantLeft(c)
  \/ \E t \in Tracks : Expire(t) \/ MLEnds(t)
  \/ expireStaleRecords
  \/ MLRestart

Spec == Init /\ [][Next]_vars

-----------------------------------------------------------------------------
(* Safety.                                                                 *)

\* However webhooks are reordered and handlers interleave, one binding of the
\* call is ACTIVE at most, no binding has a higher revision, and revisions are
\* never shared.
OneActiveBinding ==
  \A t, u \in Tracks :
    /\ binding[t] = "ACTIVE" => revision[u] <= revision[t]
    /\ (revision[t] = revision[u] /\ binding[t] # "ABSENT") => t = u

\* EvidenceIngestionService.ingest takes evidence of this session as ACCEPTED.
Speaks(t) == call \notin CallOver /\ session[t] \in Open

\* A session whose evidence would be accepted is that of the ACTIVE binding: a
\* superseded or revoked binding is silent, also while a start of its session is
\* still under way.
OnlyTheBoundTrackSpeaks == \A t \in Tracks : Speaks(t) => binding[t] = "ACTIVE"

callTransitions ==
  {<<"ABSENT", "AUTHORIZED">>, <<"AUTHORIZED", "ACTIVE">>, <<"AUTHORIZED", "CANCELLED">>,
   <<"AUTHORIZED", "FAILED">>, <<"ACTIVE", "ENDING">>, <<"ENDING", "ENDED">>,
   <<"ENDING", "FAILED">>}

\* Whatever overlapping requests and webhooks do, the call moves along the
\* domain's map: in particular nothing moves it out of a terminal status.
CallFollowsMap == [][call' = call \/ <<call, call'>> \in callTransitions]_vars

\* The statuses that follow a status in the domain's map; an absent row is created
\* AUTHORIZED.  DEGRADED, STOPPING, STOPPED and FAILED, which nothing writes, have no
\* entry of their own.
analysisTransitions ==
  [ABSENT     |-> {"AUTHORIZED"},
   AUTHORIZED |-> {"STARTING", "REVOKED", "EXPIRED"},
   STARTING   |-> {"ACTIVE", "FAILED", "REVOKED"},
   ACTIVE     |-> {"DEGRADED", "STOPPING", "FAILED", "EXPIRED", "REVOKED"},
   EXPIRED    |-> {},
   REVOKED    |-> {}]

AlongMap(t) == session'[t] = session[t] \/ session'[t] \in analysisTransitions[session[t]]

\* "Unlisted transitions are illegal" (docs/data/state-machines.md): no step takes an
\* analysis session where the map does not.  The maintenance worker does: it expires
\* sessions that are STARTING, which the map does not list and which
\* AnalysisService.start therefore refuses to do.
SessionFollowsMap == [][\A t \in Tracks : AlongMap(t)]_vars

\* Nothing but that expiry leaves the map.  In particular a slow start never revives
\* a session that was superseded, revoked or expired while the ML service was asked.
HandlersFollowMap ==
  [][\A t \in Tracks :
       AlongMap(t) \/ (expireStaleRecords /\ t \in Stale /\ session[t] = "STARTING")]_vars
=============================================================================
