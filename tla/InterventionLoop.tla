-------------------------- MODULE InterventionLoop --------------------------
(***************************************************************************)
(* The life of an intervention row: the leased demo executor of every      *)
(* backend process, the operator's REST requests, step-up verification     *)
(* challenges and the maintenance worker, all writing the same PostgreSQL  *)
(* row with conditional updates.                                           *)
(*                                                                         *)
(* One updateMany (or one $transaction) is one atomic step; everything     *)
(* between two awaits of a handler is process memory.  A handler that      *)
(* reads a row and later updates it is therefore at least two actions.     *)
(* The audit rows the handlers append are read by nothing here and are not *)
(* state of this module; that an append may fail is kept, because in the   *)
(* executor it redirects control to the failure path.                      *)
(***************************************************************************)
EXTENDS Naturals, FiniteSets

CONSTANTS
  Interventions,   \* ids of intervention rows
  Kinds,           \* the (mode, type) pairs of the rows that get created
  Procs,           \* backend processes, each with its own executor and adapter
  Requests,        \* operator requests that may be in flight at once
  Challenges,      \* ids of verification challenges
  Keys,            \* Idempotency-Key header values operators send
  None,            \* null
  MaxAttempts,     \* api.securityOutboxMaximumAttempts
  BatchSize,       \* api.securityOutboxBatchSize
  LeaseLen,        \* api.securityOutboxLeaseMs, in ticks
  Backoff,         \* attempt -> securityOutboxRetryBaseMs * 2^(attempt-1)
  ChallengeTtl,    \* api.stepUpChallengeTtlSeconds, in ticks
  Ttl,             \* expiresAt of a row that has one, in ticks
  MaxTime,         \* the model's horizon: instants saturate here
  MaxFaults       \* bound on process crashes and aborted passes

InterventionType == {"WARN", "HOLD_PROTECTED_ACTION", "REQUIRE_STEP_UP",
                     "REQUIRE_CALLBACK", "SUPERVISOR_ESCALATION", "END_CALL"}

ASSUME KindsAssumption ==
  Kinds \subseteq [mode: {"DEMO", "PRODUCTION"}, type: InterventionType]

ASSUME BoundsAssumption ==
  /\ MaxAttempts \in Nat \ {0}
  /\ BatchSize \in Nat \ {0}
  /\ LeaseLen \in Nat \ {0}
  /\ ChallengeTtl \in Nat \ {0}
  /\ Ttl \in Nat \ {0}
  /\ MaxTime \in Nat
  /\ MaxFaults \in Nat
  /\ Backoff \in [1..MaxAttempts -> Nat]

ASSUME NoneAssumption ==
  /\ None \notin Interventions
  /\ None \notin Procs
  /\ None \notin Keys
  /\ None \notin Kinds

VARIABLES
  \* the Intervention table
  kind,        \* mode and type of the row (None before it is created)
  status,      \* InterventionStatus
  attempts,    \* executionAttemptCount
  nextAt,      \* nextAttemptAt (0 stands for null: both are due at any instant)
  lease,       \* executionLeaseId: the process whose latest claim drew the UUID
  leaseExp,    \* executionLeaseExpiresAt (0 with a null lease)
  expiresAt,   \* expiresAt (0 for null)
  resolved,    \* resolvedAt is not null
  deadLettered,\* deadLetteredAt is not null
  \* the VerificationChallenge table
  chal,
  \* process memory: the executor pass of each process
  pc,          \* where it is
  scannedAt,   \* `now` of its scan
  todo,        \* candidates not tried yet, with the attempt count read
  cur,         \* the claimed row,
  att,         \* the attempt the claim started,
  exp,         \* and when the lease it took runs out
  \* process memory: the rest
  req,         \* the operator requests in flight
  receipts,    \* the adapters' Maps: what each process remembers it did
  \* the environment
  effects,     \* what the provider was really made to do, ever
  now,
  faults

rowVars == <<kind, status, attempts, nextAt, lease, leaseExp, expiresAt,
             resolved, deadLettered>>
passVars == <<pc, scannedAt, todo, cur, att, exp>>
vars == <<rowVars, chal, passVars, req, receipts, effects, now, faults>>

Status == {"REQUIRED", "ACKNOWLEDGED", "IN_PROGRESS", "SATISFIED", "DECLINED",
           "EXPIRED", "CANCELLED", "FAILED"}
Resolved == {"SATISFIED", "DECLINED", "EXPIRED", "CANCELLED", "FAILED"}
Exists(i) == kind[i] # None
IsDemo(i) == Exists(i) /\ kind[i].mode = "DEMO"
IsHold(i) == Exists(i) /\ kind[i].type = "HOLD_PROTECTED_ACTION"

interventionTransitions ==
  [s \in Status |->
     CASE s = "REQUIRED" ->
            {"ACKNOWLEDGED", "IN_PROGRESS", "EXPIRED", "CANCELLED", "FAILED"}
       [] s = "ACKNOWLEDGED" ->
            {"IN_PROGRESS", "EXPIRED", "CANCELLED", "FAILED"}
       [] s = "IN_PROGRESS" -> {"SATISFIED", "DECLINED", "EXPIRED", "FAILED"}
       [] OTHER -> {}]
assertTransition(from, to) == to \in interventionTransitions[from]

\* The instant d ticks from now, saturating at the horizon.
After(d) == IF now + d <= MaxTime THEN now + d ELSE MaxTime

\* CHECK constraint Intervention_lifecycle_check: PostgreSQL refuses a row in a
\* resolved status that has no resolvedAt.  (The constraint on deadLetteredAt,
\* only with FAILED, holds of every update the code makes.)
LifecycleCheck(st, stamped) == st \in Resolved => stamped

AdapterKey == ({"demo-dispatch"} \X Interventions) \cup ({"api"} \X Keys)
Receipt == [proc: Procs, key: AdapterKey, iv: Interventions,
            did: {"HELD", "RELEASED", "RECORDED"}]
Effect == Interventions \X {"HELD", "RELEASED", "RECORDED"}

Control == {"idle", "loop", "claimed", "dispatched", "recorded", "failed"}

Free == [pc |-> "free", proc |-> None, op |-> "none", iv |-> None, key |-> None,
         seen |-> "REQUIRED"]
RequestState == [pc: {"free", "call", "update"}, proc: Procs \cup {None},
                 op: {"none", "acknowledge", "cancel", "hold", "release"},
                 iv: Interventions \cup {None}, key: Keys \cup {None},
                 seen: Status]

Unrequested == [status |-> "NONE", iv |-> None, exp |-> 0]
ChallengeState == [status: {"NONE", "PENDING", "PASSED", "FAILED", "EXPIRED"},
                   iv: Interventions \cup {None}, exp: Nat]

TypeOK ==
  /\ kind \in [Interventions -> Kinds \cup {None}]
  /\ status \in [Interventions -> Status]
  /\ attempts \in [Interventions -> 0..MaxAttempts]
  /\ nextAt \in [Interventions -> Nat]
  /\ lease \in [Interventions -> Procs \cup {None}]
  /\ leaseExp \in [Interventions -> Nat]
  /\ expiresAt \in [Interventions -> Nat]
  /\ resolved \in [Interventions -> BOOLEAN]
  /\ deadLettered \in [Interventions -> BOOLEAN]
  /\ chal \in [Challenges -> ChallengeState]
  /\ pc \in [Procs -> Control]
  /\ scannedAt \in [Procs -> Nat]
  /\ todo \in [Procs -> SUBSET (Interventions \X (0..MaxAttempts - 1))]
  /\ cur \in [Procs -> Interventions \cup {None}]
  /\ att \in [Procs -> 0..MaxAttempts]
  /\ exp \in [Procs -> Nat]
  /\ req \in [Requests -> RequestState]
  /\ receipts \in SUBSET Receipt
  /\ effects \in SUBSET Effect
  /\ now \in Nat
  /\ faults \in Nat

Init ==
  /\ kind = [i \in Interventions |-> None]
  /\ status = [i \in Interventions |-> "REQUIRED"]
  /\ attempts = [i \in Interventions |-> 0]
  /\ nextAt = [i \in Interventions |-> 0]
  /\ lease = [i \in Interventions |-> None]
  /\ leaseExp = [i \in Interventions |-> 0]
  /\ expiresAt = [i \in Interventions |-> 0]
  /\ resolved = [i \in Interventions |-> FALSE]
  /\ deadLettered = [i \in Interventions |-> FALSE]
  /\ chal = [c \in Challenges |-> Unrequested]
  /\ pc = [p \in Procs |-> "idle"]
  /\ scannedAt = [p \in Procs |-> 0]
  /\ todo = [p \in Procs |-> {}]
  /\ cur = [p \in Procs |-> None]
  /\ att = [p \in Procs |-> 0]
  /\ exp = [p \in Procs |-> 0]
  /\ req = [r \in Requests |-> Free]
  /\ receipts = {}
  /\ effects = {}
  /\ now = 0
  /\ faults = 0

-----------------------------------------------------------------------------
(* Creation of the row, inside the risk pipeline's transaction.            *)

\* The headless pipeline leaves expiresAt null; RiskRepository.recordTransition
\* (PRODUCTION only) may set it.
Require(i, k) ==
  /\ ~Exists(i)
  /\ kind' = [kind EXCEPT ![i] = k]
  /\ \E t \in (IF k.mode = "PRODUCTION" THEN {0, After(Ttl)} ELSE {0}) :
       expiresAt' = [expiresAt EXCEPT ![i] = t]
  /\ UNCHANGED <<status, attempts, nextAt, lease, leaseExp, resolved,
                 deadLettered, chal, passVars, req, receipts, effects, now, faults>>

-----------------------------------------------------------------------------
(* EngineeringInterventionExecutorService.executePending, process p.       *)

\* Mutants: the comparison with the expiry is swapped; an expired lease is never
\* taken over.
MutantLeaseFreeSwapped(i, t) == lease[i] = None \/ leaseExp[i] >= t
MutantLeaseFreeOnlyNull(i, t) == lease[i] = None

LeaseFree(i, t) == lease[i] = None \/ leaseExp[i] <= t

\* Mutant: the query has no bound on the attempts.
MutantDispatchableUnbounded(i) ==
  /\ IsDemo(i)
  /\ status[i] = "REQUIRED"
  /\ nextAt[i] <= now
  /\ LeaseFree(i, now)

Dispatchable(i) ==
  /\ IsDemo(i)
  /\ status[i] = "REQUIRED"
  /\ attempts[i] < MaxAttempts
  /\ nextAt[i] <= now
  /\ LeaseFree(i, now)

\* findMany: a batch of candidate rows with the attempt counts read.  Its order
\* is left open, which covers the order of the query.
Scan(p) ==
  LET ready == {i \in Interventions : Dispatchable(i)} IN
  /\ pc[p] = "idle"
  /\ ready # {}
  /\ \E batch \in SUBSET ready :
       /\ \/ batch = ready /\ Cardinality(ready) <= BatchSize
          \/ Cardinality(batch) = BatchSize
       /\ todo' = [todo EXCEPT ![p] = {<<i, attempts[i]>> : i \in batch}]
  /\ pc' = [pc EXCEPT ![p] = "loop"]
  /\ scannedAt' = [scannedAt EXCEPT ![p] = now]
  /\ UNCHANGED <<rowVars, chal, cur, att, exp, req, receipts, effects, now, faults>>

\* Mutant: the claim selects the row by id and status only.
MutantClaimWinsById(p, i, n) ==
  /\ IsDemo(i)
  /\ status[i] = "REQUIRED"

ClaimWins(p, i, n) ==
  /\ IsDemo(i)
  /\ status[i] = "REQUIRED"
  /\ attempts[i] = n
  /\ LeaseFree(i, scannedAt[p])

\* The claiming updateMany of one candidate: won, or count 0 and `continue`.
Claim(p, i, n) ==
  /\ pc[p] = "loop"
  /\ <<i, n>> \in todo[p]
  /\ todo' = [todo EXCEPT ![p] = @ \ {<<i, n>>}]
  /\ IF ClaimWins(p, i, n)
     THEN /\ attempts' = [attempts EXCEPT ![i] = @ + 1]
          /\ nextAt' = [nextAt EXCEPT ![i] = 0]
          /\ lease' = [lease EXCEPT ![i] = p]
          /\ leaseExp' = [leaseExp EXCEPT ![i] = After(LeaseLen)]
          /\ pc' = [pc EXCEPT ![p] = "claimed"]
          /\ cur' = [cur EXCEPT ![p] = i]
          /\ att' = [att EXCEPT ![p] = n + 1]
          /\ exp' = [exp EXCEPT ![p] = After(LeaseLen)]
     ELSE UNCHANGED <<attempts, nextAt, lease, leaseExp, pc, cur, att, exp>>
  /\ UNCHANGED <<kind, status, expiresAt, resolved, deadLettered, scannedAt, chal,
                 req, receipts, effects, now, faults>>

\* The candidate is done with, and the loop goes on.
NextCandidate(p) ==
  /\ pc' = [pc EXCEPT ![p] = "loop"]
  /\ cur' = [cur EXCEPT ![p] = None]
  /\ att' = [att EXCEPT ![p] = 0]
  /\ exp' = [exp EXCEPT ![p] = 0]
  /\ UNCHANGED <<scannedAt, todo>>

\* The pass is over, whatever it still held; `finally` resets `running`.
PassOver(p) ==
  /\ pc' = [pc EXCEPT ![p] = "idle"]
  /\ scannedAt' = [scannedAt EXCEPT ![p] = 0]
  /\ todo' = [todo EXCEPT ![p] = {}]
  /\ cur' = [cur EXCEPT ![p] = None]
  /\ att' = [att EXCEPT ![p] = 0]
  /\ exp' = [exp EXCEPT ![p] = 0]

\* The loop ends.
EndPass(p) ==
  /\ pc[p] = "loop"
  /\ todo[p] = {}
  /\ PassOver(p)
  /\ UNCHANGED <<rowVars, chal, req, receipts, effects, now, faults>>

\* DemoTransactionHoldAdapter and SafeDemoActionAdapter: the Map is consulted by
\* idempotency key; only an unknown key has an effect.
Remembered(p, key) == {x \in receipts : x.proc = p /\ x.key = key}
KeyConflict(p, key, i) == \E x \in Remembered(p, key) : x.iv # i
Perform(p, key, i, what) ==
  IF Remembered(p, key) = {}
  THEN /\ receipts' = receipts \cup {[proc |-> p, key |-> key, iv |-> i, did |-> what]}
       /\ effects' = effects \cup {<<i, what>>}
  ELSE UNCHANGED <<receipts, effects>>

ExecutorEffect(i) == IF IsHold(i) THEN "HELD" ELSE "RECORDED"

\* await provider.hold / demoActions.dispatch returns.
Dispatch(p) ==
  LET i == cur[p] IN
  /\ pc[p] = "claimed"
  /\ Perform(p, <<"demo-dispatch", i>>, i, ExecutorEffect(i))
  /\ pc' = [pc EXCEPT ![p] = "dispatched"]
  /\ UNCHANGED <<rowVars, chal, scannedAt, todo, cur, att, exp, req, now, faults>>

\* The port rejects: before it acted, or (a timeout) after it did.
DispatchRejects(p) ==
  LET i == cur[p] IN
  /\ pc[p] = "claimed"
  /\ \/ UNCHANGED <<receipts, effects>>
     \/ Perform(p, <<"demo-dispatch", i>>, i, ExecutorEffect(i))
  /\ pc' = [pc EXCEPT ![p] = "failed"]
  /\ UNCHANGED <<rowVars, chal, scannedAt, todo, cur, att, exp, req, now, faults>>

\* Mutant: the lease is compared, the status is not.
MutantOwnsClaimAnyStatus(p) ==
  LET i == cur[p] IN
  /\ IsDemo(i)
  /\ attempts[i] = att[p]
  /\ lease[i] = p

\* The row still carries this pass's claim.
OwnsClaim(p) ==
  LET i == cur[p] IN
  /\ IsDemo(i)
  /\ status[i] = "REQUIRED"
  /\ attempts[i] = att[p]
  /\ lease[i] = p

\* The completing updateMany; its count is not looked at.
Complete(p) ==
  LET i == cur[p] IN
  /\ pc[p] = "dispatched"
  /\ IF OwnsClaim(p)
     THEN /\ status' = [status EXCEPT ![i] = "IN_PROGRESS"]
          /\ nextAt' = [nextAt EXCEPT ![i] = 0]
          /\ lease' = [lease EXCEPT ![i] = None]
          /\ leaseExp' = [leaseExp EXCEPT ![i] = 0]
     ELSE UNCHANGED <<status, nextAt, lease, leaseExp>>
  /\ pc' = [pc EXCEPT ![p] = "recorded"]
  /\ UNCHANGED <<kind, attempts, expiresAt, resolved, deadLettered, chal,
                 scannedAt, todo, cur, att, exp, req, receipts, effects, now, faults>>

\* audit.record after the update: appended, and on to the next candidate.
AuditDispatched(p) ==
  /\ pc[p] = "recorded"
  /\ NextCandidate(p)
  /\ UNCHANGED <<rowVars, chal, req, receipts, effects, now, faults>>

\* The completing update or the audit append throws: the catch block runs.
RecordingThrows(p) ==
  /\ pc[p] \in {"dispatched", "recorded"}
  /\ pc' = [pc EXCEPT ![p] = "failed"]
  /\ UNCHANGED <<rowVars, chal, scannedAt, todo, cur, att, exp, req, receipts, effects, now, faults>>

Exhausted(p) == att[p] >= MaxAttempts

\* The updateMany of the catch block.  When the attempts are exhausted it writes
\* status FAILED and deadLetteredAt without resolvedAt; where the constraint
\* refuses the row the update throws out of the catch block and ends the pass.
FailAttempt(p) ==
  LET i == cur[p]
      st == IF Exhausted(p) THEN "FAILED" ELSE "REQUIRED" IN
  /\ pc[p] = "failed"
  /\ IF OwnsClaim(p) /\ ~LifecycleCheck(st, resolved[i])
     THEN /\ PassOver(p)
          /\ UNCHANGED <<status, nextAt, lease, leaseExp, deadLettered>>
     ELSE /\ NextCandidate(p)
          /\ IF OwnsClaim(p)
             THEN /\ status' = [status EXCEPT ![i] = st]
                  /\ nextAt' = [nextAt EXCEPT ![i] =
                                  IF Exhausted(p) THEN 0 ELSE After(Backoff[att[p]])]
                  /\ lease' = [lease EXCEPT ![i] = None]
                  /\ leaseExp' = [leaseExp EXCEPT ![i] = 0]
                  /\ deadLettered' = [deadLettered EXCEPT ![i] = Exhausted(p)]
             ELSE UNCHANGED <<status, nextAt, lease, leaseExp, deadLettered>>
  /\ UNCHANGED <<kind, attempts, expiresAt, resolved, chal, req, receipts,
                 effects, now, faults>>

\* PostgreSQL refuses the claim, the update of the catch block, or the audit
\* append that follows it: the pass rejects, `finally` resets `running` and
\* runSafely only logs.  The Maps of the adapters survive.
PassAborts(p) ==
  /\ pc[p] \in {"loop", "failed"}
  /\ faults < MaxFaults
  /\ faults' = faults + 1
  /\ PassOver(p)
  /\ UNCHANGED <<rowVars, chal, req, receipts, effects, now>>

ExecutorStep(p) ==
  \/ Scan(p)
  \/ \E i \in Interventions, n \in 0..MaxAttempts - 1 : Claim(p, i, n)
  \/ EndPass(p)
  \/ Dispatch(p)
  \/ DispatchRejects(p)
  \/ Complete(p)
  \/ AuditDispatched(p)
  \/ FailAttempt(p)

-----------------------------------------------------------------------------
(* InterventionsService and StepUpService.  A request that the checks of   *)
(* its first read reject, or answer at once, changes nothing.              *)

Opened(r, p, op, i, key, at) ==
  req' = [req EXCEPT ![r] = [pc |-> at, proc |-> p, op |-> op, iv |-> i,
                             key |-> key, seen |-> status[i]]]

ReadAcknowledge(r, p, i) ==
  /\ req[r].pc = "free"
  /\ Exists(i)
  /\ assertTransition(status[i], "ACKNOWLEDGED")
  /\ Opened(r, p, "acknowledge", i, None, "update")
  /\ UNCHANGED <<rowVars, chal, passVars, receipts, effects, now, faults>>

ReadCancel(r, p, i) ==
  /\ req[r].pc = "free"
  /\ Exists(i)
  /\ status[i] # "IN_PROGRESS"
  /\ assertTransition(status[i], "CANCELLED")
  /\ Opened(r, p, "cancel", i, None, "update")
  /\ UNCHANGED <<rowVars, chal, passVars, receipts, effects, now, faults>>

ReadHold(r, p, i, key) ==
  /\ req[r].pc = "free"
  /\ IsHold(i)
  /\ assertTransition(status[i], "IN_PROGRESS")
  /\ Opened(r, p, "hold", i, key, "call")
  /\ UNCHANGED <<rowVars, chal, passVars, receipts, effects, now, faults>>

\* Mutant: any challenge of the intervention that is not expired will do.
MutantReleasableUnverified(i, c) ==
  /\ IsHold(i)
  /\ status[i] = "IN_PROGRESS"
  /\ chal[c].iv = i
  /\ chal[c].exp > now

\* The intervention and then the challenge are read before anything is checked.
Releasable(i, c) ==
  /\ IsHold(i)
  /\ status[i] = "IN_PROGRESS"
  /\ chal[c].iv = i
  /\ chal[c].status = "PASSED"
  /\ chal[c].exp > now

ReadRelease(r, p, i, key, c) ==
  /\ req[r].pc = "free"
  /\ Releasable(i, c)
  /\ assertTransition(status[i], "SATISFIED")
  /\ Opened(r, p, "release", i, key, "call")
  /\ UNCHANGED <<rowVars, chal, passVars, receipts, effects, now, faults>>

ProviderCall(r) ==
  LET x == req[r] IN
  /\ x.pc = "call"
  /\ ~KeyConflict(x.proc, <<"api", x.key>>, x.iv)
  /\ Perform(x.proc, <<"api", x.key>>, x.iv,
             IF x.op = "hold" THEN "HELD" ELSE "RELEASED")
  /\ req' = [req EXCEPT ![r].pc = "update"]
  /\ UNCHANGED <<rowVars, chal, passVars, now, faults>>

\* Mutant: the failure is audited but not rethrown.
MutantProviderRejectsSwallowed(r) ==
  /\ req[r].pc = "call"
  /\ req' = [req EXCEPT ![r].pc = "update"]
  /\ UNCHANGED <<rowVars, chal, passVars, receipts, effects, now, faults>>

\* The port rejects (an idempotency conflict, an error, or a timeout after it
\* acted): the failure is audited and the request ends.
ProviderRejects(r) ==
  LET x == req[r] IN
  /\ x.pc = "call"
  /\ \/ UNCHANGED <<receipts, effects>>
     \/ /\ ~KeyConflict(x.proc, <<"api", x.key>>, x.iv)
        /\ Perform(x.proc, <<"api", x.key>>, x.iv,
                   IF x.op = "hold" THEN "HELD" ELSE "RELEASED")
  /\ req' = [req EXCEPT ![r] = Free]
  /\ UNCHANGED <<rowVars, chal, passVars, now, faults>>

NextStatus(op) ==
  CASE op = "acknowledge" -> "ACKNOWLEDGED"
    [] op = "cancel" -> "CANCELLED"
    [] op = "hold" -> "IN_PROGRESS"
    [] OTHER -> "SATISFIED"

\* updateInterventionStatus: compare the status with the one read, and set.
\* A lost race raises PersistenceConflictError.
updateInterventionStatus(r) ==
  LET x == req[r]
      st == NextStatus(x.op) IN
  /\ x.pc = "update"
  /\ IF status[x.iv] = x.seen
     THEN /\ status' = [status EXCEPT ![x.iv] = st]
          /\ IF st \in Resolved
             THEN /\ resolved' = [resolved EXCEPT ![x.iv] = TRUE]
                  /\ lease' = [lease EXCEPT ![x.iv] = None]
                  /\ leaseExp' = [leaseExp EXCEPT ![x.iv] = 0]
                  /\ nextAt' = [nextAt EXCEPT ![x.iv] = 0]
             ELSE UNCHANGED <<resolved, lease, leaseExp, nextAt>>
     ELSE UNCHANGED <<status, resolved, lease, leaseExp, nextAt>>
  /\ req' = [req EXCEPT ![r] = Free]
  /\ UNCHANGED <<kind, attempts, expiresAt, deadLettered, chal, passVars, receipts,
                 effects, now, faults>>

\* StepUpService.request: whatever the status of the intervention.
PermitsStepUp(i) ==
  /\ Exists(i)
  /\ kind[i].type \in {"REQUIRE_STEP_UP", "REQUIRE_CALLBACK", "HOLD_PROTECTED_ACTION"}

RequestChallenge(c, i) ==
  /\ chal[c].status = "NONE"
  /\ PermitsStepUp(i)
  /\ chal' = [chal EXCEPT ![c] = [status |-> "PENDING", iv |-> i,
                                  exp |-> After(ChallengeTtl)]]
  /\ UNCHANGED <<rowVars, passVars, req, receipts, effects, now, faults>>

\* StepUpService.complete, called by the independent verifier.
CompleteChallenge(c, result) ==
  /\ chal[c].status = "PENDING"
  /\ chal[c].exp > now
  /\ chal' = [chal EXCEPT ![c].status = result]
  /\ UNCHANGED <<rowVars, passVars, req, receipts, effects, now, faults>>

-----------------------------------------------------------------------------
(* BackendMaintenanceService.expireStaleRecords: one transaction.          *)

\* Mutant: the worker expires whatever is not resolved.
MutantStaleRowActive(i) ==
  /\ Exists(i)
  /\ expiresAt[i] # 0
  /\ expiresAt[i] <= now
  /\ status[i] \notin Resolved

StaleRow(i) ==
  /\ Exists(i)
  /\ expiresAt[i] # 0
  /\ expiresAt[i] <= now
  /\ status[i] \in {"REQUIRED", "ACKNOWLEDGED"}
StaleChallenge(c) == chal[c].status = "PENDING" /\ chal[c].exp <= now

expireStaleRecords ==
  /\ (\E i \in Interventions : StaleRow(i)) \/ (\E c \in Challenges : StaleChallenge(c))
  /\ status' = [i \in Interventions |-> IF StaleRow(i) THEN "EXPIRED" ELSE status[i]]
  /\ resolved' = [i \in Interventions |-> StaleRow(i) \/ resolved[i]]
  /\ lease' = [i \in Interventions |-> IF StaleRow(i) THEN None ELSE lease[i]]
  /\ leaseExp' = [i \in Interventions |-> IF StaleRow(i) THEN 0 ELSE leaseExp[i]]
  /\ nextAt' = [i \in Interventions |-> IF StaleRow(i) THEN 0 ELSE nextAt[i]]
  /\ chal' = [c \in Challenges |->
                IF StaleChallenge(c) THEN [chal[c] EXCEPT !.status = "EXPIRED"]
                ELSE chal[c]]
  /\ UNCHANGED <<kind, attempts, expiresAt, deadLettered, passVars, req, receipts,
                 effects, now, faults>>

-----------------------------------------------------------------------------
(* The environment.                                                        *)

\* A process dies and restarts: its pass, its requests and its Maps are gone.
Crash(p) ==
  /\ faults < MaxFaults
  /\ faults' = faults + 1
  /\ PassOver(p)
  /\ req' = [r \in Requests |-> IF req[r].proc = p THEN Free ELSE req[r]]
  /\ receipts' = {x \in receipts : x.proc # p}
  /\ UNCHANGED <<rowVars, chal, effects, now>>

Tick ==
  /\ now < MaxTime
  /\ now' = now + 1
  /\ UNCHANGED <<rowVars, chal, passVars, req, receipts, effects, faults>>

RequestStep(r) ==
  \/ \E p \in Procs, i \in Interventions :
       \/ ReadAcknowledge(r, p, i)
       \/ ReadCancel(r, p, i)
       \/ \E k \in Keys :
            \/ ReadHold(r, p, i, k)
            \/ \E c \in Challenges : ReadRelease(r, p, i, k, c)
  \/ ProviderCall(r)
  \/ ProviderRejects(r)
  \/ updateInterventionStatus(r)

Next ==
  \/ \E i \in Interventions, k \in Kinds : Require(i, k)
  \/ \E p \in Procs : ExecutorStep(p) \/ RecordingThrows(p) \/ PassAborts(p) \/ Crash(p)
  \/ \E r \in Requests : RequestStep(r)
  \/ \E c \in Challenges :
       \/ \E i \in Interventions : RequestChallenge(c, i)
       \/ \E result \in {"PASSED", "FAILED"} : CompleteChallenge(c, result)
  \/ expireStaleRecords
  \/ Tick

Spec == Init /\ [][Next]_vars

\* The poll timer of every process keeps starting passes and a started pass
\* runs on; time passes.  Crashes, aborted passes, rejections
\* and operators are not fair.
FairSpec ==
  /\ Spec
  /\ \A p \in Procs : WF_vars(ExecutorStep(p))
  /\ WF_vars(Tick)
-----------------------------------------------------------------------------
(* Safety.                                                                 *)

Working(p) == pc[p] \in {"claimed", "dispatched", "recorded", "failed"}

\* Two executors of different processes never work on the same attempt of the
\* same row: the claiming updateMany compares the attempt count that was read
\* with the candidates, so of two passes that read the same count one loses.
AttemptClaimedOnce ==
  \A p, q \in Procs :
    (p # q /\ Working(p) /\ Working(q) /\ cur[p] = cur[q])
      => att[p] # att[q]

\* An executor is overtaken on its row, by a claim that raised the attempt
\* count, only after the lease it took has run out.  The claim tests the lease
\* against the instant of the scan, which may lie well before the claim.
LeaseExcludes ==
  \A p \in Procs :
    (Working(p) /\ att[p] < attempts[cur[p]]) => exp[p] <= now

\* A resolved row carries resolvedAt and neither a lease nor a retry time,
\* whichever of the operator, the executor and the maintenance worker resolved
\* it and whichever of them was still at work on it.
ResolvedIsQuiescent ==
  \A i \in Interventions :
    status[i] \in Resolved => resolved[i] /\ lease[i] = None /\ nextAt[i] = 0

\* A protected-action hold is reported active, or satisfied, only if the
\* provider was really made to hold: the adapter is called before the row is
\* updated, on every path.
HoldBeforeInProgress ==
  \A i \in Interventions :
    (IsHold(i) /\ status[i] \in {"IN_PROGRESS", "SATISFIED"})
      => <<i, "HELD">> \in effects

\* A hold is released, at the provider or on the row, only after a persisted
\* PASSED challenge of this very intervention.
ReleaseNeedsVerification ==
  \A i \in Interventions :
    (status[i] = "SATISFIED" \/ <<i, "RELEASED">> \in effects)
      => \E c \in Challenges : chal[c].iv = i /\ chal[c].status = "PASSED"

\* Every change of status, those of the executor and of the maintenance worker
\* included, which never call assertTransition, is one of the transition map.
StatusFollowsDomain ==
  [][\A i \in Interventions :
       status'[i] # status[i] => assertTransition(status[i], status'[i])]_vars

\* Nothing but a verified release ends an active hold: it is never expired,
\* failed or cancelled, by a worker that read the row earlier either.
ActiveHoldOnlySatisfied ==
  [][\A i \in Interventions :
       (IsHold(i) /\ status[i] = "IN_PROGRESS")
         => status'[i] \in {"IN_PROGRESS", "SATISFIED"}]_vars

-----------------------------------------------------------------------------
(* Liveness, under FairSpec.                                               *)

\* A required demo row does not starve: it leaves REQUIRED or uses up its
\* attempts, whatever claims were abandoned by crashed processes.
PendingIsAttempted ==
  \A i \in Interventions :
    (IsDemo(i) /\ status[i] = "REQUIRED")
      ~> (status[i] # "REQUIRED" \/ attempts[i] = MaxAttempts)

-----------------------------------------------------------------------------
(* What the documents say and the code does not do.                        *)

\* "an explicit dead-letter timestamp": a demo row whose attempts are used up
\* leaves REQUIRED, by FAILED and deadLetteredAt at the latest.
ExhaustedIsDeadLettered ==
  \A i \in Interventions :
    (IsDemo(i) /\ status[i] = "REQUIRED") ~> status[i] # "REQUIRED"
=============================================================================
