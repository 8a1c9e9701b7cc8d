----------------------------- MODULE Enrollment -----------------------------
(***************************************************************************)
(* Consents and voiceprints of one trusted speaker, and the analysis       *)
(* sessions that use them: enrollment, re-enrollment, withdrawal, deletion *)
(* and the start of a session run at the same time, in any order.          *)
(*                                                                         *)
(* Each transaction of the repositories is serializable and is one step.   *)
(* DELETED stands for the status together with the cleared ciphertext.     *)
(***************************************************************************)
EXTENDS Naturals, FiniteSets

CONSTANTS
  Consents,
  Voiceprints,
  Sessions,   \* analysis sessions of calls that expect the speaker
  Requests,   \* enroll, revokeConsent and deleteVoiceprint requests
  None        \* no voiceprint, no consent

ASSUME EnrollmentAssumption == None \notin Consents \cup Voiceprints

VARIABLES
  \* the tables
  consent,     \* EnrollmentConsent.status
  voiceprint,  \* Voiceprint.status
  basis,       \* Voiceprint.consentId
  session,     \* AnalysisSession.status
  uses,        \* AnalysisSession.voiceprintId
  \* the processes
  request,     \* requests under way
  launch,      \* what bind and start of a session are at, and what they read
  \* the ML service
  ml,          \* sessions: not known, running or stopped for good
  \* what the properties look at
  superseded   \* voiceprints that an enrollment replaced

tableVars == <<consent, voiceprint, basis, session, uses>>
vars == <<tableVars, request, launch, ml, superseded>>

Open == {"AUTHORIZED", "STARTING", "ACTIVE"}
InUse == {"STARTING", "ACTIVE"}
NoRequest == [pc |-> "idle", consent |-> None, all |-> {}, left |-> {}]
NoLaunch == [pc |-> "idle", read |-> None, was |-> "ABSENT"]

TypeOK ==
  /\ consent \in [Consents -> {"ABSENT", "GRANTED", "REVOKED"}]
  /\ voiceprint \in [Voiceprints -> {"ABSENT", "ACTIVE", "REVOKED", "DELETED"}]
  /\ basis \in [Voiceprints -> Consents \cup {None}]
  /\ \A v \in Voiceprints : voiceprint[v] = "ABSENT" <=> basis[v] = None
  /\ session \in [Sessions -> Open \cup {"ABSENT", "REVOKED"}]
  /\ uses \in [Sessions -> Voiceprints \cup {None}]
  /\ request \in [Requests -> [pc : {"idle", "infer", "stop", "done"},
                               consent : Consents \cup {None},
                               all : SUBSET Sessions, left : SUBSET Sessions]]
  /\ launch \in [Sessions -> [pc : {"idle", "bind", "check", "start", "await", "started"},
                              read : Voiceprints \cup {None},
                              was : {"ABSENT", "AUTHORIZED", "STARTING"}]]
  /\ ml \in [Sessions -> {"unknown", "running", "stopped"}]
  /\ superseded \in SUBSET Voiceprints

Init ==
  /\ consent = [c \in Consents |-> "ABSENT"]
  /\ voiceprint = [v \in Voiceprints |-> "ABSENT"]
  /\ basis = [v \in Voiceprints |-> None]
  /\ session = [s \in Sessions |-> "ABSENT"]
  /\ uses = [s \in Sessions |-> None]
  /\ request = [r \in Requests |-> NoRequest]
  /\ launch = [s \in Sessions |-> NoLaunch]
  /\ ml = [s \in Sessions |-> "unknown"]
  /\ superseded = {}

ActiveVoiceprints == {v \in Voiceprints : voiceprint[v] = "ACTIVE"}
OpenSessionsOn(vs) == {s \in Sessions : uses[s] \in vs /\ session[s] \in Open}

WithRevoked(ss) == [s \in Sessions |-> IF s \in ss THEN "REVOKED" ELSE session[s]]

-----------------------------------------------------------------------------
(* Enrollment.                                                             *)

grantConsent(c) ==
  /\ consent[c] = "ABSENT"
  /\ consent' = [consent EXCEPT ![c] = "GRANTED"]
  /\ UNCHANGED <<voiceprint, basis, session, uses, request, launch, ml, superseded>>

\* enroll reads the consent and has the model infer the samples.
enroll(r, c) ==
  /\ request[r].pc = "idle"
  /\ consent[c] = "GRANTED"
  /\ request' = [request EXCEPT ![r] = [NoRequest EXCEPT !.pc = "infer", !.consent = c]]
  /\ UNCHANGED <<tableVars, launch, ml, superseded>>

\* The model or the database fails; or the consent has run out.
EnrollFails(r) ==
  /\ request[r].pc = "infer"
  /\ request' = [request EXCEPT ![r] = NoRequest]
  /\ UNCHANGED <<tableVars, launch, ml, superseded>>

\* Mutant: the consent that was read before the inference is relied upon.
MutantActivateUnchecked(r, v) ==
  /\ request[r].pc = "infer"
  /\ voiceprint[v] = "ABSENT"
  /\ voiceprint' = [u \in Voiceprints |-> IF u = v THEN "ACTIVE"
                                          ELSE IF voiceprint[u] = "ACTIVE" THEN "REVOKED"
                                          ELSE voiceprint[u]]
  /\ basis' = [basis EXCEPT ![v] = request[r].consent]
  /\ superseded' = superseded \cup ActiveVoiceprints
  /\ request' = [request EXCEPT ![r] = NoRequest]
  /\ UNCHANGED <<consent, session, uses, launch, ml>>

\* activateVoiceprint: the consent is read again, and the speaker's voiceprint so far
\* is replaced.  The sessions that use that one go on.
activateVoiceprint(r, v) ==
  /\ request[r].pc = "infer"
  /\ consent[request[r].consent] = "GRANTED"
  /\ voiceprint[v] = "ABSENT"
  /\ voiceprint' = [u \in Voiceprints |-> IF u = v THEN "ACTIVE"
                                          ELSE IF voiceprint[u] = "ACTIVE" THEN "REVOKED"
                                          ELSE voiceprint[u]]
  /\ basis' = [basis EXCEPT ![v] = request[r].consent]
  /\ superseded' = superseded \cup ActiveVoiceprints
  /\ request' = [request EXCEPT ![r] = NoRequest]
  /\ UNCHANGED <<consent, session, uses, launch, ml>>

-----------------------------------------------------------------------------
(* Withdrawal and deletion: one transaction, and then a stop for each      *)
(* session that it revoked.                                                *)

Stopping(r, ss) == request' = [request EXCEPT ![r] = [NoRequest EXCEPT !.pc = "stop",
                                                                     !.all = ss, !.left = ss]]

\* revokeConsent.  A consent that is REVOKED already is answered with success, and
\* no session is stopped; that changes nothing.
revokeConsent(r, c) ==
  LET vs == {v \in ActiveVoiceprints : basis[v] = c}
      ss == OpenSessionsOn(vs)
  IN
  /\ request[r].pc = "idle"
  /\ consent[c] = "GRANTED"
  /\ consent' = [consent EXCEPT ![c] = "REVOKED"]
  /\ voiceprint' = [v \in Voiceprints |-> IF v \in vs THEN "REVOKED" ELSE voiceprint[v]]
  /\ session' = WithRevoked(ss)
  /\ Stopping(r, ss)
  /\ UNCHANGED <<basis, uses, launch, ml, superseded>>

deleteVoiceprint(r, v) ==
  LET ss == OpenSessionsOn({v}) IN
  /\ request[r].pc = "idle"
  /\ voiceprint[v] \in {"ACTIVE", "REVOKED"}
  /\ voiceprint' = [voiceprint EXCEPT ![v] = "DELETED"]
  /\ session' = WithRevoked(ss)
  /\ Stopping(r, ss)
  /\ UNCHANGED <<consent, basis, uses, launch, ml, superseded>>

\* Mutant: an unknown session counts as stopped.
MutantStopAnalysisUnknown(r, s) ==
  /\ request[r].pc = "stop"
  /\ s \in request[r].left
  /\ ml' = [ml EXCEPT ![s] = IF @ = "unknown" THEN "unknown" ELSE "stopped"]
  /\ request' = [request EXCEPT ![r].left = @ \ {s}]
  /\ UNCHANGED <<tableVars, launch, superseded>>

\* The stop of a session that the ML service knows; it will not start it again.
stopAnalysis(r, s) ==
  /\ request[r].pc = "stop"
  /\ s \in request[r].left
  /\ ml[s] # "unknown"
  /\ ml' = [ml EXCEPT ![s] = "stopped"]
  /\ request' = [request EXCEPT ![r].left = @ \ {s}]
  /\ UNCHANGED <<tableVars, launch, superseded>>

\* 404, a timeout or an outage, or the audit row is not written: the request fails
\* with what it has committed, and the sessions that were left are nobody's business
\* any more.
StopFails(r) ==
  /\ request[r].pc = "stop"
  /\ request' = [request EXCEPT ![r] = NoRequest]
  /\ UNCHANGED <<tableVars, launch, ml, superseded>>

Stopped(r) ==
  /\ request[r].pc = "stop"
  /\ request[r].left = {}
  /\ request' = [request EXCEPT ![r].pc = "done"]
  /\ UNCHANGED <<tableVars, launch, ml, superseded>>

-----------------------------------------------------------------------------
(* The sessions.                                                           *)

\* findActiveVoiceprint: of one speaker there is one or none.
Current == IF ActiveVoiceprints = {} THEN None ELSE CHOOSE v \in ActiveVoiceprints : TRUE

\* The track binding reads the voiceprint, and creates the session later.
ReadVoiceprint(s) ==
  /\ launch[s].pc = "idle"
  /\ session[s] = "ABSENT"
  /\ launch' = [launch EXCEPT ![s] = [NoLaunch EXCEPT !.pc = "bind", !.read = Current]]
  /\ UNCHANGED <<tableVars, request, ml, superseded>>

bindTrackAndCreateAnalysis(s) ==
  /\ launch[s].pc = "bind"
  /\ session' = [session EXCEPT ![s] = "AUTHORIZED"]
  /\ uses' = [uses EXCEPT ![s] = launch[s].read]
  /\ launch' = [launch EXCEPT ![s] = NoLaunch]
  /\ UNCHANGED <<consent, voiceprint, basis, request, ml, superseded>>

\* start reads the session, for the first time or again.
start(s) ==
  /\ launch[s].pc = "idle"
  /\ session[s] \in {"AUTHORIZED", "STARTING"}
  /\ launch' = [launch EXCEPT ![s] = [NoLaunch EXCEPT !.pc = "check", !.was = session[s]]]
  /\ UNCHANGED <<tableVars, request, ml, superseded>>

\* Mutant: the voiceprint that the binding wrote down is relied upon.
MutantVoiceprintUnchecked(s) ==
  /\ launch[s].pc = "check"
  /\ launch' = [launch EXCEPT ![s].pc = "start"]
  /\ UNCHANGED <<tableVars, request, ml, superseded>>

\* The voiceprint is the one that is current now, or none was asked for.
VoiceprintIsCurrent(s) ==
  /\ launch[s].pc = "check"
  /\ uses[s] \in {None, Current}
  /\ launch' = [launch EXCEPT ![s].pc = "start"]
  /\ UNCHANGED <<tableVars, request, ml, superseded>>

\* VOICEPRINT_NOT_ACTIVE; the transition fails if the status is not the one read.
VoiceprintIsNotActive(s) ==
  /\ launch[s].pc = "check"
  /\ uses[s] \notin {None, Current}
  /\ session' = [session EXCEPT ![s] = IF @ = launch[s].was THEN "REVOKED" ELSE @]
  /\ launch' = [launch EXCEPT ![s] = NoLaunch]
  /\ UNCHANGED <<consent, voiceprint, basis, uses, request, ml, superseded>>

\* AUTHORIZED -> STARTING fails if the session is not AUTHORIZED any more.  A session
\* that was STARTING is not looked at again.
Starting(s) ==
  /\ launch[s].pc = "start"
  /\ IF launch[s].was = "AUTHORIZED"
     THEN IF session[s] = "AUTHORIZED"
          THEN /\ session' = [session EXCEPT ![s] = "STARTING"]
               /\ launch' = [launch EXCEPT ![s].pc = "await"]
          ELSE launch' = [launch EXCEPT ![s] = NoLaunch] /\ UNCHANGED session
     ELSE launch' = [launch EXCEPT ![s].pc = "await"] /\ UNCHANGED session
  /\ UNCHANGED <<consent, voiceprint, basis, uses, request, ml, superseded>>

\* AnalysisSessionManager.create refuses a session that it has stopped.
startAnalysis(s) ==
  /\ launch[s].pc = "await"
  /\ ml[s] # "stopped"
  /\ ml' = [ml EXCEPT ![s] = "running"]
  /\ launch' = [launch EXCEPT ![s].pc = "started"]
  /\ UNCHANGED <<tableVars, request, superseded>>

\* It refuses, or does not answer, with the session started or not.
StartFails(s) ==
  /\ launch[s].pc \in {"await", "started"}
  /\ launch' = [launch EXCEPT ![s] = NoLaunch]
  /\ UNCHANGED <<tableVars, request, ml, superseded>>

Started(s) ==
  /\ launch[s].pc = "started"
  /\ session' = [session EXCEPT ![s] = IF @ = "STARTING" THEN "ACTIVE" ELSE @]
  /\ launch' = [launch EXCEPT ![s] = NoLaunch]
  /\ UNCHANGED <<consent, voiceprint, basis, uses, request, ml, superseded>>

-----------------------------------------------------------------------------
Next ==
  \/ \E c \in Consents : grantConsent(c)
  \/ \E r \in Requests :
       \/ \E c \in Consents : enroll(r, c) \/ revokeConsent(r, c)
       \/ \E v \in Voiceprints : activateVoiceprint(r, v) \/ deleteVoiceprint(r, v)
       \/ EnrollFails(r) \/ StopFails(r) \/ Stopped(r)
       \/ \E s \in Sessions : stopAnalysis(r, s)
  \/ \E s \in Sessions :
       \/ ReadVoiceprint(s) \/ bindTrackAndCreateAnalysis(s)
       \/ start(s) \/ VoiceprintIsCurrent(s) \/ VoiceprintIsNotActive(s)
       \/ Starting(s) \/ startAnalysis(s) \/ StartFails(s) \/ Started(s)

Spec == Init /\ [][Next]_vars

-----------------------------------------------------------------------------
(* Safety.                                                                 *)

\* Also when the consent is withdrawn while the model infers the samples: a
\* voiceprint is ACTIVE only on a consent that is GRANTED.
ActiveVoiceprintHasConsent ==
  \A v \in Voiceprints : voiceprint[v] = "ACTIVE" => consent[basis[v]] = "GRANTED"

\* "Revocation prevents future use immediately" (docs/data/state-machines.md): no
\* session that is starting or running uses a voiceprint whose consent is withdrawn.
\* revokeConsent looks at the ACTIVE voiceprints only, so it is not what the code does
\* for a session that still uses a replaced one.
WithdrawalEndsUse ==
  \A s \in Sessions :
    (session[s] \in InUse /\ uses[s] # None) => consent[basis[uses[s]]] # "REVOKED"

\* Whatever the binding and the start of a session had read before, it does not start
\* or run with a deleted voiceprint.  And unless a new enrollment has replaced it, its
\* voiceprint is ACTIVE and on a consent that is still GRANTED.
UnreplacedUseIsLicensed ==
  \A s \in Sessions :
    (session[s] \in InUse /\ uses[s] # None) =>
      /\ voiceprint[uses[s]] # "DELETED"
      /\ uses[s] \notin superseded =>
           voiceprint[uses[s]] = "ACTIVE" /\ consent[basis[uses[s]]] = "GRANTED"

\* A withdrawal or deletion that reports success has reached the ML service: it runs
\* none of the sessions that were revoked, also not one whose start was under way.
SuccessMeansStopped ==
  \A r \in Requests : request[r].pc = "done" => \A s \in request[r].all : ml[s] = "stopped"
=============================================================================
