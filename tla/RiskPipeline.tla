---------------------------- MODULE RiskPipeline ----------------------------
(***************************************************************************)
(* Evidence of one analysis session on its way from the ML callback to     *)
(* risk events, interventions and outbox rows: EvidenceIngestionService    *)
(* and HeadlessRiskPipelineService, several requests at once.              *)
(*                                                                         *)
(* A request reads the grant (is the session over?) and then runs one      *)
(* serializable transaction that records the event and the decision it     *)
(* leads to.  The transaction is one step: an attempt that loses a         *)
(* conflict changes nothing and is retried.  The ML worker sends an event  *)
(* again when no answer arrives, always with the same content.             *)
(*                                                                         *)
(* The flush and the executor pass that a request starts afterwards are    *)
(* those of SecurityOutbox and InterventionLoop, which run at any time     *)
(* anyway.                                                                 *)
(***************************************************************************)
EXTENDS RiskEngine, Sequences

CONSTANTS
  Ids,             \* evidence events: [window, type, revision]
  Payload,         \* id -> the contents such an event may have
  Requests,        \* callback requests that may be in flight at once
  EvidenceMode,    \* of the session: SIMULATED, SHADOW or CALIBRATED
  Promoted,        \* configuration and policy are promoted for production
  HasReference,    \* the call has a protectedActionReference
  InProduction     \* the backend runs in the environment "production"

ASSUME PipelineAssumption ==
  /\ Ids \subseteq [window: 0..LastWindow, type: EvidenceType, revision: Nat]
  /\ Payload \in [Ids -> SUBSET Content]
  /\ EvidenceMode \in {"SIMULATED", "SHADOW", "CALIBRATED"}
  /\ Promoted \in BOOLEAN
  /\ HasReference \in BOOLEAN
  /\ InProduction \in BOOLEAN

VARIABLES
  content,        \* what each event says
  policyValid,    \* the policyDocument of the call parses
  acceptance,     \* the EvidenceEvent rows: acceptanceStatus, or "NONE"
  assessments,    \* the RiskAssessment rows, in the order of their creation
  riskEvents,     \* the RiskEvent rows, in the order of eventSequence
  interventions,  \* the Intervention rows: risk event, type
  alerts,         \* the Alert rows: risk event, event type, intervention type
  terminal,       \* the session or its call has reached a terminal status
  request         \* the callback requests

tables == <<acceptance, assessments, riskEvents, interventions, alerts>>
vars == <<content, policyValid, tables, terminal, request>>

Acceptance == {"NONE", "ACCEPTED", "SUPERSEDED", "STALE"}
Mode == {"DEMO", "SHADOW", "PRODUCTION"}
Assessment == [evidence: SUBSET Ids, prior: RiskState, effective: RiskState,
               outcome: RiskState \cup {"INSUFFICIENT_EVIDENCE"}, eligible: BOOLEAN]
RiskEvent == [assessment: Nat, prior: RiskState, state: RiskState, mode: Mode]

\* A request that is not at work keeps the answer it gave.
Idle(answer) == [pc |-> "idle", accept |-> FALSE, answer |-> answer]
RequestState ==
  [pc: {"idle"}, accept: {FALSE},
   answer: {"none", "original", "recorded", "suppressed", "conflict", "failed"}]
  \cup [pc: {"granted"}, accept: BOOLEAN, id: Ids]

TypeOK ==
  /\ \A i \in Ids : content[i] \in Payload[i]
  /\ policyValid \in BOOLEAN
  /\ acceptance \in [Ids -> Acceptance]
  /\ assessments \in Seq(Assessment)
  /\ riskEvents \in Seq(RiskEvent)
  /\ \A v \in interventions :
       v.event \in DOMAIN riskEvents /\ v.type \in highRisk \cup critical
  /\ \A a \in alerts : a.event \in DOMAIN riskEvents
  /\ terminal \in BOOLEAN
  /\ request \in [Requests -> RequestState]

Init ==
  /\ content \in {c \in [Ids -> UNION {Payload[i] : i \in Ids}] :
                    \A i \in Ids : c[i] \in Payload[i]}
  /\ policyValid \in BOOLEAN
  /\ acceptance = [i \in Ids |-> "NONE"]
  /\ assessments = <<>>
  /\ riskEvents = <<>>
  /\ interventions = {}
  /\ alerts = {}
  /\ terminal = FALSE
  /\ request = [r \in Requests |-> Idle("none")]

-----------------------------------------------------------------------------
(* EvidenceIngestionService.ingest, up to the transaction.                 *)

\* A well-formed event with the session's binding and mode arrives, for the
\* first time or again; the grant is read outside the transaction.
Ingest(r, i) ==
  /\ request[r].pc = "idle"
  /\ request' = [request EXCEPT ![r] = [pc |-> "granted", accept |-> ~terminal, id |-> i]]
  /\ UNCHANGED <<content, policyValid, tables, terminal>>

\* The request dies, or its transaction keeps losing conflicts or fails: rolled
\* back, nothing is left of it.
Abandon(r) ==
  /\ request[r].pc = "granted"
  /\ request' = [request EXCEPT ![r] = Idle("none")]
  /\ UNCHANGED <<content, policyValid, tables, terminal>>

-----------------------------------------------------------------------------
(* EvidenceRepository.recordWithClient.                                    *)

SameSlot(i, j) == i.window = j.window /\ i.type = j.type

\* A recorded event is found by its idempotency key; its content is the same,
\* and the acceptance status is compared with what the request read.
isEquivalent(i, accept) == acceptance[i] = (IF accept THEN "ACCEPTED" ELSE "STALE")

\* Mutant: a lower revision that arrives late is accepted.
MutantClassifyLateAccepted(i, accept) == IF accept THEN "ACCEPTED" ELSE "STALE"

\* The status a new event gets: a revision below the accepted one is stale.
Classify(i, accept) ==
  IF accept /\ \A j \in Ids :
       (SameSlot(i, j) /\ acceptance[j] = "ACCEPTED") => j.revision < i.revision
  THEN "ACCEPTED" ELSE "STALE"

\* Mutant: the accepted event is not superseded.
MutantRecordedKeepsOld(i, accept) ==
  [acceptance EXCEPT ![i] = Classify(i, accept)]

\* The rows after a new event: an accepted one supersedes its predecessor.
Recorded(i, accept) ==
  [j \in Ids |->
     IF j = i THEN Classify(i, accept)
     ELSE IF Classify(i, accept) = "ACCEPTED" /\ SameSlot(i, j) /\ acceptance[j] = "ACCEPTED"
     THEN "SUPERSEDED" ELSE acceptance[j]]

-----------------------------------------------------------------------------
(* HeadlessRiskPipelineService.recordDecision.                             *)

Accepted(rows) == {i \in Ids : rows[i] = "ACCEPTED"}
\* engineEvidence: the row and what its model says of the score.
engineEvidence(ids) ==
  {[window |-> i.window, type |-> i.type, revision |-> i.revision,
    content |-> content[i]] : i \in ids}

\* Mutant: one score that is calibrated and traced is enough.
MutantProductionEligibleSome(ids, outcome) ==
  /\ Promoted
  /\ EvidenceMode = "CALIBRATED"
  /\ outcome # "INSUFFICIENT_EVIDENCE"
  /\ \E i \in ids : content[i].eligible

\* RiskActivationGateService.evaluate: no blocker.
ProductionEligible(ids, outcome) ==
  LET scored == {i \in ids : i.type \in {"IDENTITY", "SPOOF_FAST", "SPOOF_DEEP"}} IN
  /\ Promoted
  /\ EvidenceMode = "CALIBRATED"
  /\ outcome # "INSUFFICIENT_EVIDENCE"
  /\ scored # {}
  /\ \A i \in scored : content[i].eligible

\* Mutant: the evidence mode is taken for the control mode.
MutantControlModeOfEvidence(eligible) ==
  IF eligible THEN "PRODUCTION" ELSE EvidenceMode

controlMode(eligible) ==
  IF eligible THEN "PRODUCTION"
  ELSE IF EvidenceMode = "SIMULATED" THEN "DEMO" ELSE "SHADOW"

\* The latest assessment's state, UNVERIFIED before the first.
PriorState ==
  IF assessments = <<>> THEN "UNVERIFIED" ELSE assessments[Len(assessments)].effective

\* Mutants: the lookup is dropped; the hash covers the windows and types of the
\* events but not their revisions.
MutantAssessedNever(ids) == FALSE
MutantAssessedBySlot(ids) ==
  \E n \in DOMAIN assessments :
    {<<i.window, i.type>> : i \in assessments[n].evidence} = {<<i.window, i.type>> : i \in ids}

\* evidenceSetHash: the accepted set has been assessed before.
Assessed(ids) == \E n \in DOMAIN assessments : assessments[n].evidence = ids

\* The interventions a risk event creates, and the outbox rows that go with it.
InterventionInputs(mode, proposed) ==
  IF mode = "SHADOW" THEN {}
  ELSE {t \in proposed : t # "HOLD_PROTECTED_ACTION" \/ HasReference}
OutboxRows(n, mode, types) ==
  {[event |-> n, about |-> "dashboard.risk-event.created", type |-> "none"]}
  \cup (IF mode = "SHADOW" THEN {}
        ELSE {[event |-> n, about |-> "risk.state.changed", type |-> "none"]}
             \cup {[event |-> n, about |-> "intervention.required", type |-> t] : t \in types})

\* assertModeAllowed.  It throws otherwise: the transaction is rolled back, and the
\* request abandoned.
assertModeAllowed(mode, eligible) ==
  /\ mode = "PRODUCTION" => eligible /\ Promoted
  /\ InProduction => mode = "PRODUCTION"

\* What follows the assessment when the state changes.
RecordTransition(result, mode) ==
  LET types == InterventionInputs(mode, result.proposedInterventions)
      n == Len(riskEvents) + 1 IN
  /\ riskEvents' = Append(riskEvents,
        [assessment |-> Len(assessments) + 1, prior |-> PriorState,
         state |-> result.effectiveState, mode |-> mode])
  /\ interventions' = interventions \cup {[event |-> n, type |-> t] : t \in types}
  /\ alerts' = alerts \cup OutboxRows(n, mode, types)

\* The decision on the accepted events ids; an insufficient outcome records the
\* assessment and nothing else, whether or not the state changed.
recordDecision(ids) ==
  LET result == evaluateRiskEvidence(engineEvidence(ids))
      eligible == ProductionEligible(ids, result.outcome)
      mode == controlMode(eligible) IN
  IF ~policyValid \/ Assessed(ids)
  THEN UNCHANGED <<assessments, riskEvents, interventions, alerts>>
  ELSE /\ assertModeAllowed(mode, eligible)
       /\ assessments' = Append(assessments,
            [evidence |-> ids, prior |-> PriorState, effective |-> result.effectiveState,
             outcome |-> result.outcome, eligible |-> eligible])
       /\ IF PriorState = result.effectiveState \/ result.outcome = "INSUFFICIENT_EVIDENCE"
          THEN UNCHANGED <<riskEvents, interventions, alerts>>
          ELSE RecordTransition(result, mode)

\* The transaction of a request for an event that is on record already.  With
\* an invalid policy the suppression was audited under a key of the event, which
\* is unique: the second append fails and takes the transaction with it.
Replay(r) ==
  LET i == request[r].id
      same == isEquivalent(i, request[r].accept)
      decides == same /\ request[r].accept IN
  /\ request[r].pc = "granted"
  /\ acceptance[i] # "NONE"
  /\ IF decides THEN recordDecision(Accepted(acceptance))
     ELSE UNCHANGED <<assessments, riskEvents, interventions, alerts>>
  /\ request' = [request EXCEPT ![r] =
                   Idle(IF ~same THEN "conflict"
                        ELSE IF decides /\ ~policyValid THEN "failed" ELSE "original")]
  /\ UNCHANGED <<content, policyValid, acceptance, terminal>>

\* The transaction of a request for a new event.
Record(r) ==
  LET i == request[r].id
      rows == Recorded(i, request[r].accept) IN
  /\ request[r].pc = "granted"
  /\ acceptance[i] = "NONE"
  /\ acceptance' = rows
  /\ IF rows[i] = "ACCEPTED"
     THEN recordDecision(Accepted(rows))
     ELSE UNCHANGED <<assessments, riskEvents, interventions, alerts>>
  /\ request' = [request EXCEPT ![r] =
                   Idle(IF rows[i] = "ACCEPTED" /\ policyValid THEN "recorded"
                        ELSE "suppressed")]
  /\ UNCHANGED <<content, policyValid, terminal>>

\* The call ends, or the session is stopped, fails, expires or is revoked.
Terminate ==
  /\ ~terminal
  /\ terminal' = TRUE
  /\ UNCHANGED <<content, policyValid, tables, request>>

Next ==
  \/ \E r \in Requests :
       \/ \E i \in Ids : Ingest(r, i)
       \/ Abandon(r)
       \/ Replay(r)
       \/ Record(r)
  \/ Terminate

Spec == Init /\ [][Next]_vars
-----------------------------------------------------------------------------
(* Safety.                                                                 *)

\* Of the events of a window and type at most one is accepted, and it is of a
\* higher revision than every superseded one, of which none is left without a
\* successor, in whatever order the revisions arrived.
SlotKeepsHighestRevision ==
  \A i, j \in Ids : SameSlot(i, j) =>
    /\ (i # j /\ acceptance[i] = "ACCEPTED") => acceptance[j] # "ACCEPTED"
    /\ (acceptance[i] = "ACCEPTED" /\ acceptance[j] = "SUPERSEDED")
         => j.revision < i.revision
    /\ acceptance[i] = "SUPERSEDED"
         => \E k \in Ids : SameSlot(i, k) /\ acceptance[k] = "ACCEPTED"

\* The latest assessment, which decides what the next one counts as a change, is
\* the one of the evidence that is accepted now: replays and stale events never
\* bring an older one back.
LatestAssessmentIsCurrent ==
  (policyValid /\ Accepted(acceptance) # {}) =>
    /\ assessments # <<>>
    /\ assessments[Len(assessments)].evidence = Accepted(acceptance)

\* When everything was delivered while the session ran, the state is the one of
\* the highest revisions, whatever the order of delivery, the replays and the
\* abandoned requests.
OutcomeIndependentOfOrder ==
  LET latest == {i \in Ids : \A j \in Ids : SameSlot(i, j) => j.revision <= i.revision} IN
  (policyValid /\ ~terminal /\ \A i \in Ids : acceptance[i] # "NONE"
     /\ \A r \in Requests : request[r].pc = "idle")
    => PriorState = evaluateRiskEvidence(engineEvidence(latest)).effectiveState

\* A delivery of an event that is on record changes no table: no second
\* assessment, risk event, intervention or outbox row.
RedeliveryChangesNothing ==
  [][\A r \in Requests :
       (request[r].pc = "granted" /\ request'[r].pc = "idle"
          /\ acceptance[request[r].id] # "NONE")
         => UNCHANGED tables]_vars

\* A control of mode PRODUCTION rests on evidence of which every score is
\* calibrated and traced, and nothing but simulated evidence yields a demo
\* control.
ControlsAreLicensed ==
  \A v \in interventions :
    LET e == riskEvents[v.event]
        ids == assessments[e.assessment].evidence IN
    \/ e.mode = "DEMO" /\ EvidenceMode = "SIMULATED"
    \/ /\ e.mode = "PRODUCTION"
       /\ Promoted
       /\ \A i \in ids : i.type \in {"IDENTITY", "SPOOF_FAST", "SPOOF_DEEP"}
                            => content[i].eligible

=============================================================================
