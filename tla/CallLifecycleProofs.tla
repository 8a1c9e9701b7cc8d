------------------------ MODULE CallLifecycleProofs ------------------------
(***************************************************************************)
(* For any number of tracks, participants and handlers: the invariants of  *)
(* CallLifecycle, and the two maps its rows move along.                    *)
(***************************************************************************)
EXTENDS CallLifecycle, TLAPS

\* What NextRevision looks for exists, also if there were tracks without end: every
\* revision was drawn above all that were there.
RevisionsBounded ==
  \E n \in {0} \cup {revision[u] : u \in Tracks} : \A k \in {0} \cup {revision[u] : u \in Tracks} : k <= n

\* A binding, its revision and its session come into being together.
RowsTogether ==
  \A t \in Tracks :
    /\ binding[t] = "ABSENT" <=> session[t] = "ABSENT"
    /\ binding[t] = "ABSENT" <=> revision[t] = 0

\* The part of OnlyTheBoundTrackSpeaks that does not depend on the call.
OpenIsBound == \A t \in Tracks : session[t] \in Open => binding[t] = "ACTIVE"

\* The handlers that are about a track.
OnTrack == {"bind", "supersede", "close", "revoke", "start", "starting", "mlStart", "activating"}
Work == {x \in [pc : Control, on : Tracks \cup {None}, todo : SUBSET Tracks] :
           x.pc \in OnTrack => x.on \in Tracks}
HandlersKnowTheirTrack == work \in [Procs -> Work]

-----------------------------------------------------------------------------
(* The handlers.                                                           *)

\* An idle process is at work on nothing.
LEMMA IdleIsWork ==
  Idle \in Work /\ Idle.pc = "idle" /\ Idle.on = None /\ Idle.todo = {}
BY DEF Idle, Work, Control, OnTrack

\* A process at a step has its track there.
LEMMA AtIsWork ==
  ASSUME NEW pc \in Control, NEW t \in Tracks \cup {None}, pc \in OnTrack => t \in Tracks
  PROVE  At(pc, t) \in Work /\ At(pc, t).pc = pc /\ At(pc, t).on = t
BY DEF At, Idle, Work, Control

\* So has one with a list of tracks to close.
LEMMA AtWithTodoIsWork ==
  ASSUME NEW pc \in Control, NEW t \in Tracks \cup {None}, pc \in OnTrack => t \in Tracks,
         NEW todo \in SUBSET Tracks
  PROVE  [At(pc, t) EXCEPT !.todo = todo] \in Work
BY DEF At, Idle, Work, Control

\* A track can be taken off the list.
LEMMA LessTodoIsWork ==
  ASSUME NEW x \in Work, NEW t \in Tracks
  PROVE  [x EXCEPT !.todo = x.todo \ {t}] \in Work
BY DEF Work, Control

\* A process that goes to a step of the right shape keeps every process right.
LEMMA GoesToWork ==
  ASSUME HandlersKnowTheirTrack, NEW p \in Procs, NEW w \in Work, Goes(p, w)
  PROVE  HandlersKnowTheirTrack'
BY DEF HandlersKnowTheirTrack, Goes

\* A process knows the track it is at work on.
LEMMA OnItsTrack ==
  ASSUME HandlersKnowTheirTrack, NEW p \in Procs
  PROVE  /\ work[p] \in Work
         /\ work[p].pc \in OnTrack => work[p].on \in Tracks
BY DEF HandlersKnowTheirTrack, Work

\* The steps after which the handler is idle.
LEMMA Finishes ==
  ASSUME HandlersKnowTheirTrack, NEW p \in Procs, Goes(p, Idle)
  PROVE  HandlersKnowTheirTrack'
BY IdleIsWork, GoesToWork

\* The steps after which it is at pc, about t.
LEMMA GoesOn ==
  ASSUME HandlersKnowTheirTrack, NEW p \in Procs, NEW pc \in Control, NEW t \in Tracks \cup {None},
         pc \in OnTrack => t \in Tracks, Goes(p, At(pc, t))
  PROVE  HandlersKnowTheirTrack'
BY AtIsWork, GoesToWork

\* The same, for a step with a list of tracks.
LEMMA GoesOnWithTodo ==
  ASSUME HandlersKnowTheirTrack, NEW p \in Procs, NEW pc \in Control, NEW t \in Tracks \cup {None},
         pc \in OnTrack => t \in Tracks, NEW todo \in SUBSET Tracks,
         Goes(p, [At(pc, t) EXCEPT !.todo = todo])
  PROVE  HandlersKnowTheirTrack'
BY AtWithTodoIsWork, GoesToWork

\* Every step leaves the handlers with the track they are at work on.
LEMMA HandlersKept ==
  ASSUME HandlersKnowTheirTrack, [Next]_vars
  PROVE  HandlersKnowTheirTrack'
<1> USE DEF Control, OnTrack
<1>1. ASSUME NEW p \in Procs, createCallWithParticipants(p) PROVE HandlersKnowTheirTrack'
  BY <1>1, GoesOn DEF createCallWithParticipants
<1>2. ASSUME NEW p \in Procs, CreateRoom(p) \/ CancelCall(p) \/ FailCall(p) \/ ActivateCall(p)
      PROVE  HandlersKnowTheirTrack'
  BY <1>2, Finishes DEF CreateRoom, CancelCall, FailCall, ActivateCall
<1>3. ASSUME NEW p \in Procs, End(p) PROVE HandlersKnowTheirTrack'
  BY <1>3, GoesOn DEF End
<1>4. ASSUME NEW p \in Procs, BeginEnding(p) \/ FinishEnding(p) \/ CleanupRejects(p)
      PROVE  HandlersKnowTheirTrack'
  BY <1>4, GoesOn, Finishes DEF BeginEnding, FinishEnding, CleanupRejects
<1>5. ASSUME NEW p \in Procs, listOpenAnalysisSessions(p) PROVE HandlersKnowTheirTrack'
  <2>1. Goes(p, [At("stop", None) EXCEPT !.todo = OpenSessions])
    BY <1>5 DEF listOpenAnalysisSessions
  <2>2. OpenSessions \in SUBSET Tracks
    BY DEF OpenSessions
  <2>3. "stop" \in Control /\ "stop" \notin OnTrack
    BY DEF Control, OnTrack
  <2> QED
    BY <2>1, <2>2, <2>3, GoesOnWithTodo
<1>6. ASSUME NEW p \in Procs, NEW c \in Participants, ParticipantJoined(p, c) PROVE HandlersKnowTheirTrack'
  BY <1>6, GoesOn, Finishes DEF ParticipantJoined
<1>7. ASSUME NEW p \in Procs, NEW t \in Tracks, TrackPublished(p, t) PROVE HandlersKnowTheirTrack'
  BY <1>7, GoesOn DEF TrackPublished
<1>8. ASSUME NEW p \in Procs, BindTrack(p) PROVE HandlersKnowTheirTrack'
  BY <1>8, OnItsTrack, GoesOnWithTodo DEF BindTrack, OpenSessions
<1>9. ASSUME NEW p \in Procs, BindReplays(p) \/ StopsDone(p) PROVE HandlersKnowTheirTrack'
  BY <1>9, OnItsTrack, GoesOn, Finishes DEF BindReplays, StopsDone
<1>10. ASSUME NEW p \in Procs, NEW t \in Tracks, closeVerifiedTrack(p, t) \/ RevokeVoiceprintSession(p, t)
       PROVE  HandlersKnowTheirTrack'
  <2>1. CASE closeVerifiedTrack(p, t)
    <3>1. Goes(p, [At("close", t) EXCEPT !.todo = {t} \cap OpenSessions])
      BY <2>1 DEF closeVerifiedTrack
    <3>2. {t} \cap OpenSessions \in SUBSET Tracks
      BY DEF OpenSessions
    <3> QED
      BY <3>1, <3>2, GoesOnWithTodo
  <2>2. CASE RevokeVoiceprintSession(p, t)
    <3>1. Goes(p, [At("revoke", t) EXCEPT !.todo = {t}])
      BY <2>2 DEF RevokeVoiceprintSession
    <3>2. "revoke" \in Control
      BY DEF Control
    <3> QED
      BY <3>1, <3>2, GoesOnWithTodo
  <2> QED
    BY <1>10, <2>1, <2>2
<1>11. ASSUME NEW p \in Procs, NEW t \in Tracks, StopReturns(p, t) PROVE HandlersKnowTheirTrack'
  BY <1>11, OnItsTrack, LessTodoIsWork, GoesToWork DEF StopReturns
<1>12. ASSUME NEW p \in Procs, NEW t \in Tracks, StopRejects(p, t) PROVE HandlersKnowTheirTrack'
  BY <1>12, OnItsTrack, LessTodoIsWork, GoesToWork, GoesOn, Finishes DEF StopRejects
<1>13. ASSUME NEW p \in Procs, RefuseStart(p) \/ ActivateSession(p) PROVE HandlersKnowTheirTrack'
  BY <1>13, Finishes DEF RefuseStart, ActivateSession
<1>14. ASSUME NEW p \in Procs, AdmitStart(p) PROVE HandlersKnowTheirTrack'
  BY <1>14, OnItsTrack, GoesOn DEF AdmitStart
<1>15. ASSUME NEW p \in Procs, BeginStarting(p) PROVE HandlersKnowTheirTrack'
  BY <1>15, OnItsTrack, GoesOn, Finishes DEF BeginStarting
<1>16. ASSUME NEW p \in Procs, StartReturns(p) PROVE HandlersKnowTheirTrack'
  BY <1>16, OnItsTrack, GoesOn DEF StartReturns
<1>17. ASSUME NEW p \in Procs, Abandon(p) PROVE HandlersKnowTheirTrack'
  BY <1>17, Finishes DEF Abandon
<1>18. CASE UNCHANGED work
  BY <1>18 DEF HandlersKnowTheirTrack
<1> QED
  BY <1>1, <1>2, <1>3, <1>4, <1>5, <1>6, <1>7, <1>8, <1>9, <1>10, <1>11, <1>12, <1>13, <1>14, <1>15,
     <1>16, <1>17, <1>18 DEF Next, vars, StartAnswerLost, Invite, addParticipant, ParticipantLeft, Expire,
     MLEnds, expireStaleRecords, MLRestart

-----------------------------------------------------------------------------
(* The rows.                                                               *)

Rows == <<binding, revision, session>>

RowsTyped ==
  /\ binding \in [Tracks -> BindingStatus \cup {"ABSENT"}]
  /\ revision \in [Tracks -> Nat]
  /\ session \in [Tracks -> SessionStatus \cup {"ABSENT"}]

RowsInv == RowsTyped /\ RevisionsBounded /\ RowsTogether /\ OpenIsBound /\ OneActiveBinding

\* Highest is a revision that none exceeds, so the next one is above all.
LEMMA NextRevisionIsAbove ==
  ASSUME RowsTyped, RevisionsBounded
  PROVE  /\ NextRevision \in Nat \ {0}
         /\ \A u \in Tracks : revision[u] < NextRevision
<1> DEFINE R == {0} \cup {revision[u] : u \in Tracks}
<1>1. R \subseteq Nat
  BY DEF RowsTyped
<1>2. Highest(R) \in R /\ \A k \in R : k <= Highest(R)
  BY DEF RevisionsBounded, Highest
<1>3. NextRevision = 1 + Highest(R)
  BY DEF NextRevision
<1> HIDE DEF R
<1>4. Highest(R) \in Nat
  BY <1>1, <1>2
<1>5. \A u \in Tracks : revision[u] \in R
  BY DEF R
<1>6. \A u \in Tracks : revision[u] \in Nat /\ revision[u] <= Highest(R)
  BY <1>1, <1>2, <1>5
<1> QED
  BY <1>3, <1>4, <1>6

\* A step that only ends sessions, or moves an open one on.
LEMMA SessionsOnly ==
  ASSUME RowsInv, UNCHANGED <<binding, revision>>,
         session' \in [Tracks -> SessionStatus \cup {"ABSENT"}],
         \A t \in Tracks : session'[t] = "ABSENT" <=> session[t] = "ABSENT",
         \A t \in Tracks : session'[t] \in Open => session[t] \in Open
  PROVE  RowsInv'
BY DEF RowsInv, RowsTyped, RevisionsBounded, RowsTogether, OpenIsBound, OneActiveBinding

\* A new binding takes the highest revision and the place of the ACTIVE one.
LEMMA BindKeeps ==
  ASSUME RowsInv, HandlersKnowTheirTrack, NEW p \in Procs, BindTrack(p)
  PROVE  RowsInv'
<1> DEFINE b == work[p].on
<1>1. b \in Tracks
  BY OnItsTrack DEF BindTrack, OnTrack
<1>2. /\ binding[b] = "ABSENT"
      /\ binding' = [Superseded EXCEPT ![b] = "ACTIVE"]
      /\ revision' = [revision EXCEPT ![b] = NextRevision]
      /\ session' = [WithRevoked(OpenSessions) EXCEPT ![b] = "AUTHORIZED"]
  BY DEF BindTrack
<1>3. NextRevision \in Nat \ {0} /\ \A u \in Tracks : revision[u] < NextRevision
  BY NextRevisionIsAbove DEF RowsInv
<1> HIDE DEF b
<1> DEFINE n == NextRevision
<1> HIDE DEF n
<1>4. n \in Nat \ {0} /\ (\A u \in Tracks : revision[u] < n) /\ revision' = [revision EXCEPT ![b] = n]
  BY <1>2, <1>3 DEF n
<1>5. /\ binding' \in [Tracks -> BindingStatus \cup {"ABSENT"}]
      /\ \A u \in Tracks : binding'[u] = IF u = b THEN "ACTIVE"
                                         ELSE IF binding[u] = "ACTIVE" THEN "SUPERSEDED" ELSE binding[u]
  BY <1>1, <1>2 DEF Superseded, RowsInv, RowsTyped, BindingStatus
<1>6. /\ session' \in [Tracks -> SessionStatus \cup {"ABSENT"}]
      /\ \A u \in Tracks : session'[u] = IF u = b THEN "AUTHORIZED"
                                         ELSE IF session[u] \in Open THEN "REVOKED" ELSE session[u]
  BY <1>1, <1>2 DEF WithRevoked, OpenSessions, RowsInv, RowsTyped, SessionStatus
<1>7. /\ revision' \in [Tracks -> Nat]
      /\ \A u \in Tracks : revision'[u] = IF u = b THEN n ELSE revision[u]
  BY <1>1, <1>4 DEF RowsInv, RowsTyped
<1>8. RowsTyped'
  BY <1>5, <1>6, <1>7 DEF RowsTyped
<1>9. RevisionsBounded'
  <2>1. n \in {0} \cup {revision'[u] : u \in Tracks}
    BY <1>1, <1>7
  <2>2. \A k \in {0} \cup {revision'[u] : u \in Tracks} : k <= n
    <3>1. \A u \in Tracks : revision'[u] <= n
      BY <1>1, <1>4, <1>7 DEF RowsInv, RowsTyped
    <3> QED
      BY <1>4, <3>1
  <2> QED
    BY <2>1, <2>2 DEF RevisionsBounded
<1>10. RowsTogether'
  BY <1>4, <1>5, <1>6, <1>7 DEF RowsInv, RowsTogether, Open
<1>11. OpenIsBound'
  BY <1>5, <1>6 DEF OpenIsBound, Open
<1>12. OneActiveBinding'
  <2> SUFFICES ASSUME NEW t \in Tracks, NEW u \in Tracks
               PROVE  /\ binding'[t] = "ACTIVE" => revision'[u] <= revision'[t]
                      /\ (revision'[t] = revision'[u] /\ binding'[t] # "ABSENT") => t = u
    BY DEF OneActiveBinding
  <2>1. binding'[t] = "ACTIVE" => t = b
    BY <1>5
  <2>2. revision'[u] <= n
    BY <1>4, <1>7 DEF RowsInv, RowsTyped
  <2>3. t = b => revision'[t] = n
    BY <1>7
  <2>4. (revision'[t] = revision'[u] /\ binding'[t] # "ABSENT") => t = u
    <3>1. CASE t = b \/ u = b
      BY <1>4, <1>7, <3>1 DEF RowsInv, RowsTyped
    <3>2. CASE t # b /\ u # b
      BY <1>5, <1>7, <3>2 DEF RowsInv, OneActiveBinding
    <3> QED
      BY <3>1, <3>2
  <2> QED
    BY <2>1, <2>2, <2>3, <2>4
<1> QED
  BY <1>8, <1>9, <1>10, <1>11, <1>12 DEF RowsInv

\* closeVerifiedTrack keeps the rows consistent.
LEMMA CloseKeeps ==
  ASSUME RowsInv, NEW p \in Procs, NEW t \in Tracks, closeVerifiedTrack(p, t)
  PROVE  RowsInv'
<1>1. /\ binding' \in [Tracks -> BindingStatus \cup {"ABSENT"}]
      /\ \A u \in Tracks : binding'[u] = IF u = t /\ binding[u] = "ACTIVE" THEN "REVOKED" ELSE binding[u]
  BY DEF closeVerifiedTrack, RowsInv, RowsTyped, BindingStatus
<1>2. /\ session' \in [Tracks -> SessionStatus \cup {"ABSENT"}]
      /\ \A u \in Tracks : session'[u] = IF u = t /\ session[u] \in Open THEN "REVOKED" ELSE session[u]
  BY DEF closeVerifiedTrack, WithRevoked, OpenSessions, RowsInv, RowsTyped, SessionStatus
<1>3. revision' = revision
  BY DEF closeVerifiedTrack
<1>4. RowsTyped'
  BY <1>1, <1>2, <1>3 DEF RowsInv, RowsTyped
<1>5. RevisionsBounded'
  BY <1>3 DEF RowsInv, RevisionsBounded
<1>6. RowsTogether'
  BY <1>1, <1>2, <1>3 DEF RowsInv, RowsTogether, Open
<1>7. OpenIsBound'
  BY <1>1, <1>2 DEF RowsInv, OpenIsBound, Open
<1>8. OneActiveBinding'
  BY <1>1, <1>3 DEF RowsInv, OneActiveBinding
<1> QED
  BY <1>4, <1>5, <1>6, <1>7, <1>8 DEF RowsInv

\* The actions that write bindings and sessions; every other one leaves them alone.
LEMMA OthersLeaveRows ==
  ASSUME [Next]_vars
  PROVE  \/ UNCHANGED Rows
         \/ \E p \in Procs : BindTrack(p) \/ RefuseStart(p) \/ BeginStarting(p) \/ ActivateSession(p)
         \/ \E p \in Procs, t \in Tracks : closeVerifiedTrack(p, t) \/ RevokeVoiceprintSession(p, t)
         \/ expireStaleRecords
<1>1. ASSUME NEW p \in Procs,
             \/ createCallWithParticipants(p) \/ CreateRoom(p) \/ End(p) \/ CancelCall(p)
             \/ BeginEnding(p) \/ listOpenAnalysisSessions(p) \/ FinishEnding(p)
             \/ CleanupRejects(p) \/ FailCall(p)
      PROVE  UNCHANGED Rows
  BY <1>1 DEF Rows, rows, createCallWithParticipants, CreateRoom, End, CancelCall, BeginEnding,
     listOpenAnalysisSessions, FinishEnding, CleanupRejects, FailCall
<1>2. ASSUME NEW p \in Procs,
             \/ ActivateCall(p) \/ BindReplays(p)
             \/ \E c \in Participants : ParticipantJoined(p, c)
             \/ \E t \in Tracks : TrackPublished(p, t) \/ StopReturns(p, t) \/ StopRejects(p, t)
      PROVE  UNCHANGED Rows
  BY <1>2 DEF Rows, rows, ActivateCall, BindReplays, ParticipantJoined, TrackPublished, StopReturns,
     StopRejects
<1>3. ASSUME NEW p \in Procs,
             \/ StopsDone(p) \/ AdmitStart(p) \/ StartReturns(p) \/ StartAnswerLost(p) \/ Abandon(p)
      PROVE  UNCHANGED Rows
  BY <1>3 DEF Rows, rows, StopsDone, AdmitStart, StartReturns, StartAnswerLost, Abandon
<1>4. ASSUME \/ \E c \in Participants : Invite(c) \/ ParticipantLeft(c)
             \/ \E t \in Tracks : Expire(t) \/ MLEnds(t)
             \/ MLRestart \/ UNCHANGED vars
      PROVE  UNCHANGED Rows
  BY <1>4 DEF Rows, rows, vars, Invite, addParticipant, ParticipantLeft, Expire, MLEnds, MLRestart
<1> QED
  BY <1>1, <1>2, <1>3, <1>4 DEF Next

\* Every step keeps the rows consistent.
LEMMA RowsKept ==
  ASSUME RowsInv, HandlersKnowTheirTrack, [Next]_vars
  PROVE  RowsInv'
<1>1. ASSUME NEW p \in Procs, BindTrack(p) PROVE RowsInv'
  BY <1>1, BindKeeps
<1>2. ASSUME NEW p \in Procs, NEW t \in Tracks, closeVerifiedTrack(p, t) PROVE RowsInv'
  BY <1>2, CloseKeeps
<1> DEFINE Ends == /\ UNCHANGED <<binding, revision>>
                   /\ session' \in [Tracks -> SessionStatus \cup {"ABSENT"}]
                   /\ \A t \in Tracks : session'[t] = "ABSENT" <=> session[t] = "ABSENT"
                   /\ \A t \in Tracks : session'[t] \in Open => session[t] \in Open
<1>3. ASSUME NEW p \in Procs, NEW t \in Tracks, RevokeVoiceprintSession(p, t) PROVE Ends
  BY <1>3 DEF RevokeVoiceprintSession, WithRevoked, RowsInv, RowsTyped, Open, SessionStatus
<1>4. ASSUME NEW p \in Procs, RefuseStart(p) PROVE Ends
  BY <1>4 DEF RefuseStart, SetSession, RowsInv, RowsTyped, Open, SessionStatus
<1>5. ASSUME NEW p \in Procs, BeginStarting(p) \/ ActivateSession(p) PROVE Ends
  BY <1>5 DEF BeginStarting, ActivateSession, SetSession, RowsInv, RowsTyped, Open, SessionStatus
<1>6. ASSUME expireStaleRecords PROVE Ends
  BY <1>6 DEF expireStaleRecords, Stale, RowsInv, RowsTyped, Open, SessionStatus
<1>7. CASE UNCHANGED Rows
  BY <1>7 DEF Rows, RowsInv, RowsTyped, RevisionsBounded, RowsTogether, OpenIsBound, OneActiveBinding
<1>8. Ends => RowsInv'
  BY SessionsOnly
<1> HIDE DEF Ends
<1> QED
  BY <1>1, <1>2, <1>3, <1>4, <1>5, <1>6, <1>7, <1>8, OthersLeaveRows

-----------------------------------------------------------------------------
(* The rest of the state, and the invariant.                               *)

RestTyped ==
  /\ call \in CallStatus \cup {"ABSENT"}
  /\ participant \in [Participants -> ParticipantStatus \cup {"ABSENT"}]
  /\ expired \in SUBSET Tracks
  /\ ml \in [Tracks -> {"unknown", "running", "over"}]
  /\ mlGrant \in [Tracks -> Procs \cup {None}]

CallInv == RestTyped /\ RowsInv /\ HandlersKnowTheirTrack

\* The inductive invariant contains the type invariant.
LEMMA InvIsTyped == CallInv => TypeOK
BY DEF CallInv, RestTyped, RowsInv, RowsTyped, HandlersKnowTheirTrack, Work, TypeOK

CallMove(a, b) ==
  \/ a = b
  \/ a = "ABSENT" /\ b = "AUTHORIZED"
  \/ a = "AUTHORIZED" /\ b \in {"ACTIVE", "CANCELLED", "FAILED"}
  \/ a = "ACTIVE" /\ b = "ENDING"
  \/ a = "ENDING" /\ b \in {"ENDED", "FAILED"}

\* Every update of the call is conditional on the status it starts from.
LEMMA CallStep ==
  ASSUME [Next]_vars
  PROVE  CallMove(call, call')
<1>1. ASSUME NEW p \in Procs, createCallWithParticipants(p) PROVE CallMove(call, call')
  BY <1>1 DEF createCallWithParticipants, CallMove
<1>2. ASSUME NEW p \in Procs, CreateRoom(p) \/ CancelCall(p) \/ ActivateCall(p) PROVE CallMove(call, call')
  BY <1>2 DEF CreateRoom, CancelCall, ActivateCall, transitionCall, CallMove
<1>3. ASSUME NEW p \in Procs, BeginEnding(p) \/ FinishEnding(p) \/ FailCall(p) PROVE CallMove(call, call')
  BY <1>3 DEF BeginEnding, FinishEnding, FailCall, transitionCall, CallMove
<1>4. ASSUME NEW p \in Procs, BindTrack(p) PROVE CallMove(call, call')
  BY <1>4 DEF BindTrack, Accepting, CallMove
<1>5. CASE UNCHANGED call
  BY <1>5 DEF CallMove
<1>6. ASSUME NEW p \in Procs,
             \/ End(p) \/ listOpenAnalysisSessions(p) \/ CleanupRejects(p) \/ BindReplays(p)
             \/ \E c \in Participants : ParticipantJoined(p, c)
      PROVE  UNCHANGED call
  BY <1>6 DEF rows, End, listOpenAnalysisSessions, CleanupRejects, BindReplays, ParticipantJoined
<1>7. ASSUME NEW p \in Procs, NEW t \in Tracks,
             \/ TrackPublished(p, t) \/ closeVerifiedTrack(p, t)
             \/ RevokeVoiceprintSession(p, t) \/ StopReturns(p, t) \/ StopRejects(p, t)
      PROVE  UNCHANGED call
  BY <1>7 DEF rows, TrackPublished, closeVerifiedTrack, RevokeVoiceprintSession,
     StopReturns, StopRejects
<1>8. ASSUME NEW p \in Procs,
             \/ StopsDone(p) \/ RefuseStart(p) \/ AdmitStart(p) \/ BeginStarting(p)
             \/ StartReturns(p) \/ StartAnswerLost(p) \/ ActivateSession(p) \/ Abandon(p)
      PROVE  UNCHANGED call
  BY <1>8 DEF rows, StopsDone, RefuseStart, AdmitStart, BeginStarting, StartReturns,
     StartAnswerLost, ActivateSession, Abandon
<1>9. ASSUME \/ \E c \in Participants : Invite(c) \/ ParticipantLeft(c)
             \/ \E t \in Tracks : Expire(t) \/ MLEnds(t)
             \/ expireStaleRecords \/ MLRestart
      PROVE  UNCHANGED call
  BY <1>9 DEF rows, Invite, addParticipant, ParticipantLeft, Expire, MLEnds, expireStaleRecords,
     MLRestart
<1> QED
  BY <1>1, <1>2, <1>3, <1>4, <1>5, <1>6, <1>7, <1>8, <1>9 DEF Next, vars, rows

\* Every step keeps the types of what neither rows nor handlers speak of.
LEMMA RestKept ==
  ASSUME RestTyped, [Next]_vars
  PROVE  RestTyped'
<1>1. call' \in CallStatus \cup {"ABSENT"}
  BY CallStep DEF RestTyped, CallStatus, CallMove
<1>2. participant' \in [Participants -> ParticipantStatus \cup {"ABSENT"}]
  <2>1. ASSUME NEW p \in Procs, createCallWithParticipants(p)
        PROVE  participant' \in [Participants -> ParticipantStatus \cup {"ABSENT"}]
    BY <2>1 DEF createCallWithParticipants, RestTyped, ParticipantStatus
  <2>2. ASSUME NEW c \in Participants,
               Invite(c) \/ ParticipantLeft(c) \/ \E p \in Procs : ParticipantJoined(p, c)
        PROVE  participant' \in [Participants -> ParticipantStatus \cup {"ABSENT"}]
    BY <2>2 DEF Invite, addParticipant, ParticipantLeft, ParticipantJoined, RestTyped, ParticipantStatus
  <2>3. CASE UNCHANGED participant
    BY <2>3 DEF RestTyped
  <2>4. ASSUME NEW p \in Procs,
               \/ CreateRoom(p) \/ End(p) \/ CancelCall(p) \/ BeginEnding(p)
               \/ listOpenAnalysisSessions(p) \/ FinishEnding(p) \/ CleanupRejects(p)
               \/ FailCall(p) \/ ActivateCall(p) \/ BindTrack(p) \/ BindReplays(p)
        PROVE  UNCHANGED participant
    BY <2>4 DEF rows, CreateRoom, End, CancelCall, BeginEnding, listOpenAnalysisSessions,
       FinishEnding, CleanupRejects, FailCall, ActivateCall, BindTrack, BindReplays
  <2>5. ASSUME NEW p \in Procs, NEW t \in Tracks,
               \/ TrackPublished(p, t) \/ closeVerifiedTrack(p, t)
               \/ RevokeVoiceprintSession(p, t) \/ StopReturns(p, t) \/ StopRejects(p, t)
        PROVE  UNCHANGED participant
    BY <2>5 DEF rows, TrackPublished, closeVerifiedTrack, RevokeVoiceprintSession,
       StopReturns, StopRejects
  <2>6. ASSUME NEW p \in Procs,
               \/ StopsDone(p) \/ RefuseStart(p) \/ AdmitStart(p) \/ BeginStarting(p)
               \/ StartReturns(p) \/ StartAnswerLost(p) \/ ActivateSession(p) \/ Abandon(p)
        PROVE  UNCHANGED participant
    BY <2>6 DEF rows, StopsDone, RefuseStart, AdmitStart, BeginStarting, StartReturns,
       StartAnswerLost, ActivateSession, Abandon
  <2>7. ASSUME expireStaleRecords \/ MLRestart \/ \E t \in Tracks : Expire(t) \/ MLEnds(t)
        PROVE  UNCHANGED participant
    BY <2>7 DEF rows, expireStaleRecords, MLRestart, Expire, MLEnds
  <2> QED
    BY <2>1, <2>2, <2>3, <2>4, <2>5, <2>6, <2>7 DEF Next, vars, rows
<1>3. expired' \in SUBSET Tracks
  <2>1. ASSUME NEW t \in Tracks, Expire(t) PROVE expired' \in SUBSET Tracks
    BY <2>1 DEF Expire, RestTyped
  <2>2. CASE UNCHANGED expired
    BY <2>2 DEF RestTyped
  <2>3. ASSUME NEW p \in Procs,
               \/ createCallWithParticipants(p) \/ CreateRoom(p) \/ End(p) \/ CancelCall(p) \/ BeginEnding(p)
               \/ listOpenAnalysisSessions(p) \/ FinishEnding(p) \/ CleanupRejects(p) \/ FailCall(p)
               \/ \E c \in Participants : ParticipantJoined(p, c)
               \/ ActivateCall(p) \/ BindTrack(p) \/ BindReplays(p)
        PROVE  UNCHANGED expired
    BY <2>3 DEF createCallWithParticipants, CreateRoom, End, CancelCall, BeginEnding,
       listOpenAnalysisSessions, FinishEnding, CleanupRejects, FailCall, ParticipantJoined,
       ActivateCall, BindTrack, BindReplays
  <2>4. ASSUME NEW p \in Procs,
               \/ \E t \in Tracks : \/ TrackPublished(p, t) \/ closeVerifiedTrack(p, t)
                                    \/ RevokeVoiceprintSession(p, t)
                                    \/ StopReturns(p, t) \/ StopRejects(p, t)
               \/ StopsDone(p) \/ RefuseStart(p) \/ AdmitStart(p) \/ BeginStarting(p)
               \/ StartReturns(p) \/ StartAnswerLost(p) \/ ActivateSession(p) \/ Abandon(p)
        PROVE  UNCHANGED expired
    BY <2>4 DEF TrackPublished, closeVerifiedTrack, RevokeVoiceprintSession, StopReturns, StopRejects,
       StopsDone, RefuseStart, AdmitStart, BeginStarting, StartReturns, StartAnswerLost,
       ActivateSession, Abandon
  <2> QED
    BY <2>1, <2>2, <2>3, <2>4 DEF Next, vars, Invite, addParticipant, ParticipantLeft, MLEnds, expireStaleRecords,
       MLRestart
<1>4. ml' \in [Tracks -> {"unknown", "running", "over"}] /\ mlGrant' \in [Tracks -> Procs \cup {None}]
  <2>1. CASE UNCHANGED mlVars
    BY <2>1 DEF RestTyped, mlVars
  <2>2. ASSUME NEW p \in Procs, NEW t \in Tracks, StopReturns(p, t) \/ StopRejects(p, t)
        PROVE  <1>4!1 /\ <1>4!2
    BY <2>2 DEF RestTyped, StopReturns, StopRejects
  <2>3. ASSUME NEW t \in Tracks, MLEnds(t) PROVE <1>4!1 /\ <1>4!2
    BY <2>3 DEF RestTyped, MLEnds
  <2>4. ASSUME NEW p \in Procs, StartReturns(p) \/ StartAnswerLost(p) PROVE <1>4!1 /\ <1>4!2
    BY <2>4 DEF RestTyped, StartReturns, StartAnswerLost, MLCreated
  <2>5. ASSUME NEW p \in Procs, Abandon(p) PROVE <1>4!1 /\ <1>4!2
    BY <2>5 DEF RestTyped, Abandon
  <2>6. CASE MLRestart
    BY <2>6 DEF RestTyped, MLRestart
  <2> QED
    BY <2>1, <2>2, <2>3, <2>4, <2>5, <2>6 DEF Next, vars, createCallWithParticipants,
       CreateRoom, End, CancelCall, BeginEnding, listOpenAnalysisSessions, FinishEnding, CleanupRejects,
       FailCall, ParticipantJoined, ActivateCall, TrackPublished, BindTrack, BindReplays, closeVerifiedTrack,
       RevokeVoiceprintSession, StopsDone, RefuseStart, AdmitStart, BeginStarting,
       ActivateSession, Invite, addParticipant, ParticipantLeft, Expire, expireStaleRecords
<1> QED
  BY <1>1, <1>2, <1>3, <1>4 DEF RestTyped

\* A call that nobody has joined satisfies the invariant.
LEMMA InitHolds == Init => CallInv
<1> SUFFICES ASSUME Init PROVE CallInv
  OBVIOUS
<1>1. RestTyped
  BY DEF Init, RestTyped, CallStatus, ParticipantStatus
<1>2. HandlersKnowTheirTrack
  BY IdleIsWork DEF Init, HandlersKnowTheirTrack
<1>3. RevisionsBounded
  <2>1. \A k \in {0} \cup {revision[u] : u \in Tracks} : k = 0
    BY DEF Init
  <2> QED
    BY <2>1 DEF RevisionsBounded
<1>4. RowsTyped /\ RowsTogether /\ OpenIsBound /\ OneActiveBinding
  BY DEF Init, RowsTyped, BindingStatus, SessionStatus, RowsTogether, OpenIsBound, Open, OneActiveBinding
<1> QED
  BY <1>1, <1>2, <1>3, <1>4 DEF CallInv, RowsInv

\* The inductive invariant holds in every reachable state.
LEMMA CallInvariant == Spec => []CallInv
<1>1. CallInv /\ [Next]_vars => CallInv'
  BY RestKept, RowsKept, HandlersKept DEF CallInv
<1> QED
  BY InitHolds, <1>1, PTL DEF Spec

-----------------------------------------------------------------------------
\* Every row, every handler and every entry of the ML manager is of its type, and the
\* transaction of a binding always finds a highest revision to go beyond.
THEOREM CallIsTyped == Spec => []TypeOK
BY CallInvariant, InvIsTyped, PTL

\* Whatever the order of the webhooks and the overlap of their handlers, one binding
\* is ACTIVE at most, and it is the one with the highest revision.
THEOREM OneBindingIsActive == Spec => []OneActiveBinding
BY CallInvariant, PTL DEF CallInv, RowsInv

\* Evidence is accepted from the session of the ACTIVE binding only.
THEOREM OthersAreSilent == Spec => []OnlyTheBoundTrackSpeaks
<1>1. CallInv => OnlyTheBoundTrackSpeaks
  BY DEF CallInv, RowsInv, OpenIsBound, OnlyTheBoundTrackSpeaks, Speaks
<1> QED
  BY CallInvariant, <1>1, PTL

\* Overlapping requests and webhooks move a call along the domain's map.
THEOREM CallMovesAlongMap == Spec => CallFollowsMap
<1>1. ASSUME [Next]_vars
      PROVE  [call' = call \/ <<call, call'>> \in callTransitions]_vars
  BY <1>1, CallStep DEF CallMove, callTransitions
<1> QED
  BY <1>1, PTL DEF Spec, CallFollowsMap

\* A session that a step leaves on the domain's map, or one that the maintenance
\* worker expires while it is STARTING.
Follows(t) == AlongMap(t) \/ (expireStaleRecords /\ t \in Stale /\ session[t] = "STARTING")

\* A step moves an analysis session along the map, or is that expiry.
LEMMA SessionStep ==
  ASSUME CallInv, [Next]_vars, NEW t \in Tracks
  PROVE  Follows(t)
<1> DEFINE Goal == AlongMap(t)
<1>0. session \in [Tracks -> SessionStatus \cup {"ABSENT"}]
  BY DEF CallInv, RowsInv, RowsTyped
<1>1. ASSUME NEW p \in Procs, BindTrack(p) PROVE Goal
  <2>1. work[p].on \in Tracks
    BY <1>1, OnItsTrack DEF BindTrack, OnTrack, CallInv
  <2>2. session[work[p].on] = "ABSENT"
    BY <1>1, <2>1 DEF BindTrack, CallInv, RowsInv, RowsTogether
  <2> QED
    BY <1>0, <1>1, <2>1, <2>2 DEF BindTrack, WithRevoked, OpenSessions, Open, AlongMap, analysisTransitions
<1>2. ASSUME NEW p \in Procs, NEW u \in Tracks, closeVerifiedTrack(p, u) \/ RevokeVoiceprintSession(p, u)
      PROVE  Goal
  BY <1>0, <1>2 DEF closeVerifiedTrack, RevokeVoiceprintSession, WithRevoked, OpenSessions, Open,
     AlongMap, analysisTransitions
<1>3. ASSUME NEW p \in Procs, RefuseStart(p) PROVE Goal
  BY <1>0, <1>3 DEF RefuseStart, SetSession, AlongMap, analysisTransitions
<1>4. ASSUME NEW p \in Procs, BeginStarting(p) \/ ActivateSession(p) PROVE Goal
  BY <1>0, <1>4 DEF BeginStarting, ActivateSession, SetSession, AlongMap, analysisTransitions
<1>5. ASSUME expireStaleRecords PROVE Follows(t)
  <2>1. CASE t \in Stale
    BY <1>0, <1>5, <2>1 DEF expireStaleRecords, Stale, Open, Follows, AlongMap, analysisTransitions
  <2>2. CASE t \notin Stale
    BY <1>0, <1>5, <2>2 DEF expireStaleRecords, Follows, AlongMap
  <2> QED
    BY <2>1, <2>2
<1>6. ASSUME UNCHANGED session PROVE Goal
  BY <1>6 DEF AlongMap
<1> QED
  BY <1>1, <1>2, <1>3, <1>4, <1>5, <1>6, OthersLeaveRows DEF Rows, Follows

\* An analysis session leaves the domain's map in one way only: the maintenance worker
\* expires it while it is STARTING.  No handler revives a session that is over.
THEOREM HandlersMoveSessionsAlongMap == Spec => HandlersFollowMap
<1>1. ASSUME CallInv, [Next]_vars
      PROVE  [\A t \in Tracks : AlongMap(t) \/ (expireStaleRecords /\ t \in Stale /\ session[t] = "STARTING")]_vars
  BY <1>1, SessionStep DEF Follows
<1> QED
  BY <1>1, CallInvariant, PTL DEF Spec, HandlersFollowMap
=============================================================================
