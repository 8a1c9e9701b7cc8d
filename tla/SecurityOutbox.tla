--------------------------- MODULE SecurityOutbox ---------------------------
(***************************************************************************)
(* The security-event outbox: Alert rows of channel SECURITY_WEBSOCKET,    *)
(* dispatched by the flush loop of every backend process under expiring    *)
(* leases.  A flush claims its whole batch first and then publishes the    *)
(* claimed records one by one.                                             *)
(*                                                                         *)
(* One updateMany is one atomic step; between two steps a flush only has   *)
(* what it read.  publisher.publish is one step here: it returns or        *)
(* rejects.                                                                *)
(***************************************************************************)
EXTENDS Naturals, FiniteSets

CONSTANTS
  Alerts,        \* ids of alert rows
  Procs,         \* backend processes, each running its own flush loop
  None,          \* null
  MaxAttempts,   \* api.securityOutboxMaximumAttempts
  BatchSize,     \* api.securityOutboxBatchSize
  LeaseLen,      \* api.securityOutboxLeaseMs, in ticks
  Backoff,       \* attempt -> securityOutboxRetryBaseMs * 2^(attempt-1)
  MaxTime,       \* the model's horizon: instants saturate here
  MaxFaults      \* bound on process crashes and aborted flushes

ASSUME OutboxBounds ==
  /\ MaxAttempts \in Nat \ {0}
  /\ BatchSize \in Nat \ {0}
  /\ LeaseLen \in Nat \ {0}
  /\ MaxTime \in Nat
  /\ MaxFaults \in Nat
  /\ Backoff \in [1..MaxAttempts -> Nat]

ASSUME OutboxNone == None \notin Alerts /\ None \notin Procs

VARIABLES
  \* the Alert table
  status,      \* AlertStatus ("ABSENT" before the row is written)
  attempts,    \* attemptCount
  nextAt,      \* nextAttemptAt (0 stands for null: both are due at any instant)
  lease,       \* dispatchLeaseId: the process whose latest claim drew the UUID
  leaseExp,    \* dispatchLeaseExpiresAt (0 with a null lease)
  \* process memory: the flush of each process
  pc,          \* where it is
  scannedAt,   \* `now` of its scan
  todo,        \* candidates not claimed yet, with the attempt count read
  claimed,     \* records claimed and not taken up, with their attempt number
  cur,         \* the record in hand,
  att,         \* and its attempt number
  \* the environment
  published,   \* alerts that were handed to the publisher and accepted by it
  now,
  faults

rowVars == <<status, attempts, nextAt, lease, leaseExp>>
flushVars == <<pc, scannedAt, todo, claimed, cur, att>>
vars == <<rowVars, flushVars, published, now, faults>>

AlertStatus == {"ABSENT", "PENDING", "DELIVERED", "FAILED"}
Settled == {"DELIVERED", "FAILED"}

\* The instant d ticks after t, saturating at the horizon.
Later(t, d) == IF t + d <= MaxTime THEN t + d ELSE MaxTime

Control == {"idle", "claiming", "delivering", "publishing", "published", "failing"}

TypeOK ==
  /\ status \in [Alerts -> AlertStatus]
  /\ attempts \in [Alerts -> 0..MaxAttempts]
  /\ nextAt \in [Alerts -> Nat]
  /\ lease \in [Alerts -> Procs \cup {None}]
  /\ leaseExp \in [Alerts -> Nat]
  /\ pc \in [Procs -> Control]
  /\ scannedAt \in [Procs -> Nat]
  /\ todo \in [Procs -> SUBSET (Alerts \X (0..MaxAttempts - 1))]
  /\ claimed \in [Procs -> SUBSET (Alerts \X (1..MaxAttempts))]
  /\ cur \in [Procs -> Alerts \cup {None}]
  /\ att \in [Procs -> 0..MaxAttempts]
  /\ published \in SUBSET Alerts
  /\ now \in Nat
  /\ faults \in Nat

Init ==
  /\ status = [a \in Alerts |-> "ABSENT"]
  /\ attempts = [a \in Alerts |-> 0]
  /\ nextAt = [a \in Alerts |-> 0]
  /\ lease = [a \in Alerts |-> None]
  /\ leaseExp = [a \in Alerts |-> 0]
  /\ pc = [p \in Procs |-> "idle"]
  /\ scannedAt = [p \in Procs |-> 0]
  /\ todo = [p \in Procs |-> {}]
  /\ claimed = [p \in Procs |-> {}]
  /\ cur = [p \in Procs |-> None]
  /\ att = [p \in Procs |-> 0]
  /\ published = {}
  /\ now = 0
  /\ faults = 0

-----------------------------------------------------------------------------
\* transaction.alert.create of the risk pipeline.
Enqueue(a) ==
  /\ status[a] = "ABSENT"
  /\ status' = [status EXCEPT ![a] = "PENDING"]
  /\ UNCHANGED <<attempts, nextAt, lease, leaseExp, flushVars, published, now, faults>>

-----------------------------------------------------------------------------
(* SecurityEventOutboxRepository.claimDispatchable.                        *)

\* Mutants: the comparison with the expiry is swapped; an expired lease is never
\* taken over.
MutantLeaseFreeSwapped(a, t) == lease[a] = None \/ leaseExp[a] >= t
MutantLeaseFreeOnlyNull(a, t) == lease[a] = None

LeaseFree(a, t) == lease[a] = None \/ leaseExp[a] <= t

\* Mutant: the query has no bound on the attempts.
MutantDispatchableUnbounded(a) ==
  /\ status[a] = "PENDING"
  /\ nextAt[a] <= now
  /\ LeaseFree(a, now)

Dispatchable(a) ==
  /\ status[a] = "PENDING"
  /\ attempts[a] < MaxAttempts
  /\ nextAt[a] <= now
  /\ LeaseFree(a, now)

\* findMany: a batch of candidates with the counts read.  Its order is left open,
\* which covers the order of the query.
FindCandidates(p) ==
  LET ready == {a \in Alerts : Dispatchable(a)} IN
  /\ pc[p] = "idle"
  /\ ready # {}
  /\ \E batch \in SUBSET ready :
       /\ \/ batch = ready /\ Cardinality(ready) <= BatchSize
          \/ Cardinality(batch) = BatchSize
       /\ todo' = [todo EXCEPT ![p] = {<<a, attempts[a]>> : a \in batch}]
  /\ pc' = [pc EXCEPT ![p] = "claiming"]
  /\ scannedAt' = [scannedAt EXCEPT ![p] = now]
  /\ UNCHANGED <<rowVars, claimed, cur, att, published, now, faults>>

\* Every lease of a flush expires leaseMs after its scan.
LeaseEnd(p) == Later(scannedAt[p], LeaseLen)

ClaimWins(p, a, n) ==
  /\ status[a] = "PENDING"
  /\ attempts[a] = n
  /\ LeaseFree(a, scannedAt[p])

ClaimCandidate(p, a, n) ==
  /\ pc[p] = "claiming"
  /\ <<a, n>> \in todo[p]
  /\ todo' = [todo EXCEPT ![p] = @ \ {<<a, n>>}]
  /\ IF ClaimWins(p, a, n)
     THEN /\ attempts' = [attempts EXCEPT ![a] = @ + 1]
          /\ nextAt' = [nextAt EXCEPT ![a] = 0]
          /\ lease' = [lease EXCEPT ![a] = p]
          /\ leaseExp' = [leaseExp EXCEPT ![a] = LeaseEnd(p)]
          /\ claimed' = [claimed EXCEPT ![p] = @ \cup {<<a, n + 1>>}]
     ELSE UNCHANGED <<attempts, nextAt, lease, leaseExp, claimed>>
  /\ UNCHANGED <<status, pc, scannedAt, cur, att, published, now, faults>>

ClaimsDone(p) ==
  /\ pc[p] = "claiming"
  /\ todo[p] = {}
  /\ pc' = [pc EXCEPT ![p] = "delivering"]
  /\ UNCHANGED <<rowVars, scannedAt, todo, claimed, cur, att, published, now, faults>>

-----------------------------------------------------------------------------
(* SecurityEventOutboxService.flush: the loop over the claimed records.    *)

\* toSecurityEvent: a record whose lease has run out is not converted and goes
\* straight to the catch block.
toSecurityEvent(p, a, n) ==
  /\ pc[p] = "delivering"
  /\ <<a, n>> \in claimed[p]
  /\ pc' = [pc EXCEPT ![p] = IF LeaseEnd(p) > now THEN "publishing" ELSE "failing"]
  /\ claimed' = [claimed EXCEPT ![p] = @ \ {<<a, n>>}]
  /\ cur' = [cur EXCEPT ![p] = a]
  /\ att' = [att EXCEPT ![p] = n]
  /\ UNCHANGED <<rowVars, scannedAt, todo, published, now, faults>>

\* await publisher.publish returns.
PublishReturns(p) ==
  /\ pc[p] = "publishing"
  /\ published' = published \cup {cur[p]}
  /\ pc' = [pc EXCEPT ![p] = "published"]
  /\ UNCHANGED <<rowVars, scannedAt, todo, claimed, cur, att, now, faults>>

\* Mutant: the rejection is logged and swallowed.
MutantPublishRejectsSwallowed(p) ==
  /\ pc[p] = "publishing"
  /\ pc' = [pc EXCEPT ![p] = "published"]
  /\ UNCHANGED <<rowVars, scannedAt, todo, claimed, cur, att, published, now, faults>>

\* publish rejects (an idempotency conflict) or the record does not convert.
PublishRejects(p) ==
  /\ pc[p] = "publishing"
  /\ pc' = [pc EXCEPT ![p] = "failing"]
  /\ UNCHANGED <<rowVars, scannedAt, todo, claimed, cur, att, published, now, faults>>

\* Mutant: the row is found by its id alone.
MutantOwnsRecordById(p) == TRUE

\* The row still carries this flush's claim of the record in hand.
OwnsRecord(p) ==
  LET a == cur[p] IN
  /\ status[a] = "PENDING"
  /\ attempts[a] = att[p]
  /\ lease[a] = p

\* The record in hand is done with, and the loop goes on.
NextRecord(p) ==
  /\ pc' = [pc EXCEPT ![p] = "delivering"]
  /\ cur' = [cur EXCEPT ![p] = None]
  /\ att' = [att EXCEPT ![p] = 0]
  /\ UNCHANGED <<scannedAt, todo, claimed>>

\* The flush is over, whatever it still held; `finally` resets `flushing`.
FlushOver(p) ==
  /\ pc' = [pc EXCEPT ![p] = "idle"]
  /\ scannedAt' = [scannedAt EXCEPT ![p] = 0]
  /\ todo' = [todo EXCEPT ![p] = {}]
  /\ claimed' = [claimed EXCEPT ![p] = {}]
  /\ cur' = [cur EXCEPT ![p] = None]
  /\ att' = [att EXCEPT ![p] = 0]

\* A lost lease throws, and the catch block goes on to markFailed.
markDelivered(p) ==
  LET a == cur[p] IN
  /\ pc[p] = "published"
  /\ IF OwnsRecord(p)
     THEN /\ status' = [status EXCEPT ![a] = "DELIVERED"]
          /\ nextAt' = [nextAt EXCEPT ![a] = 0]
          /\ lease' = [lease EXCEPT ![a] = None]
          /\ leaseExp' = [leaseExp EXCEPT ![a] = 0]
          /\ NextRecord(p)
     ELSE /\ pc' = [pc EXCEPT ![p] = "failing"]
          /\ UNCHANGED <<status, nextAt, lease, leaseExp, scannedAt, todo, claimed, cur, att>>
  /\ UNCHANGED <<attempts, published, now, faults>>

\* The update of markDelivered itself fails.
RecordingThrows(p) ==
  /\ pc[p] = "published"
  /\ pc' = [pc EXCEPT ![p] = "failing"]
  /\ UNCHANGED <<rowVars, scannedAt, todo, claimed, cur, att, published, now, faults>>

Exhausted(p) == att[p] >= MaxAttempts

\* A lost lease throws out of the catch block: the flush ends, and with it the
\* records it had claimed and not taken up.
markFailed(p) ==
  LET a == cur[p] IN
  /\ pc[p] = "failing"
  /\ IF OwnsRecord(p)
     THEN /\ status' = [status EXCEPT ![a] = IF Exhausted(p) THEN "FAILED" ELSE "PENDING"]
          /\ nextAt' = [nextAt EXCEPT ![a] =
                          IF Exhausted(p) THEN 0 ELSE Later(now, Backoff[att[p]])]
          /\ lease' = [lease EXCEPT ![a] = None]
          /\ leaseExp' = [leaseExp EXCEPT ![a] = 0]
          /\ NextRecord(p)
     ELSE /\ FlushOver(p)
          /\ UNCHANGED <<status, nextAt, lease, leaseExp>>
  /\ UNCHANGED <<attempts, published, now, faults>>

\* The loop is done and `flushing` is reset.
FlushEnds(p) ==
  /\ pc[p] = "delivering"
  /\ claimed[p] = {}
  /\ FlushOver(p)
  /\ UNCHANGED <<rowVars, published, now, faults>>

\* PostgreSQL refuses a claim or the update of markFailed: flush rejects,
\* flushSafely only logs.
FlushAborts(p) ==
  /\ pc[p] \in {"claiming", "failing"}
  /\ faults < MaxFaults
  /\ faults' = faults + 1
  /\ FlushOver(p)
  /\ UNCHANGED <<rowVars, published, now>>

-----------------------------------------------------------------------------
(* The environment.                                                        *)

\* A process dies and restarts: its flush is gone.
Crash(p) ==
  /\ pc[p] # "idle"
  /\ faults < MaxFaults
  /\ faults' = faults + 1
  /\ FlushOver(p)
  /\ UNCHANGED <<rowVars, published, now>>

Tick ==
  /\ now < MaxTime
  /\ now' = now + 1
  /\ UNCHANGED <<rowVars, flushVars, published, faults>>

FlushStep(p) ==
  \/ FindCandidates(p)
  \/ \E a \in Alerts, n \in 0..MaxAttempts - 1 : ClaimCandidate(p, a, n)
  \/ ClaimsDone(p)
  \/ \E a \in Alerts, n \in 1..MaxAttempts : toSecurityEvent(p, a, n)
  \/ PublishReturns(p)
  \/ PublishRejects(p)
  \/ markDelivered(p)
  \/ markFailed(p)
  \/ FlushEnds(p)

Next ==
  \/ \E a \in Alerts : Enqueue(a)
  \/ \E p \in Procs : FlushStep(p) \/ RecordingThrows(p) \/ FlushAborts(p) \/ Crash(p)
  \/ Tick

Spec == Init /\ [][Next]_vars

\* The poll timer keeps starting flushes, a started flush runs on, and time
\* passes.  Crashes, aborts and refused updates are not fair.
FairSpec ==
  /\ Spec
  /\ \A p \in Procs : WF_vars(FlushStep(p))
  /\ WF_vars(Tick)

-----------------------------------------------------------------------------
(* Safety.                                                                 *)

\* The records of a flush: those claimed and the one in hand.
Records(p) == claimed[p] \cup
              (IF cur[p] = None THEN {} ELSE {<<cur[p], att[p]>>})

\* No two processes hold the same attempt of the same alert, although each
\* claims from candidates it read before the other's claim.
AttemptHeldOnce ==
  \A p, q \in Procs : p # q => Records(p) \cap Records(q) = {}

\* A flush is overtaken on one of its records only after the lease it took has
\* run out, although a lease counts from the scan and is taken later.
LeaseFences ==
  \A p \in Procs : \A rec \in Records(p) :
    rec[2] < attempts[rec[1]] => LeaseEnd(p) <= now

\* Two processes are inside publish with the same alert only when at least one
\* of them outlived its lease there.
PublishOverlapsOnlyAfterExpiry ==
  \A p, q \in Procs :
    (p # q /\ pc[p] = "publishing" /\ pc[q] = "publishing"
       /\ cur[p] = cur[q])
      => LeaseEnd(p) <= now \/ LeaseEnd(q) <= now

\* DELIVERED is recorded only for what the publisher accepted, whichever of
\* several overlapping flushes records it.
DeliveredWasPublished ==
  \A a \in Alerts : status[a] = "DELIVERED" => a \in published

\* An attempt that is on record as the latest of a PENDING row without a lease
\* has been given up by its flush: the row is never free while somebody who
\* could still settle it is at work on it.
FreeRowHasNoLiveClaim ==
  \A a \in Alerts :
    (status[a] = "PENDING" /\ lease[a] = None)
      => \A p \in Procs : \A rec \in Records(p) : rec[1] = a => rec[2] < attempts[a]

\* A settled alert stays as it is: a slow flush that lost its lease neither
\* reopens it nor changes its verdict.
SettledIsFinal ==
  [][\A a \in Alerts : status[a] \in Settled => status'[a] = status[a]]_vars

\* The flushes implement a leased table in which every attempt is one worker's and
\* only the latest one settles the alert: fencing, at-most-once claims, the bound on
\* the attempts and the finality of verdicts at once.
Work == INSTANCE LeasedWork WITH
  Items <- Alerts,
  Workers <- Procs,
  verdict <- status,
  begun <- attempts,
  hand <- [p \in Procs |-> Records(p)],
  accepted <- [p \in Procs |-> IF pc[p] = "published" /\ cur[p] \in published
                              THEN {<<cur[p], att[p]>>} ELSE {}]

ImplementsLeasedWork == Work!Spec

-----------------------------------------------------------------------------
(* Liveness, under FairSpec.                                               *)

\* A pending alert is settled or uses up its attempts: an abandoned claim is
\* taken over once its lease has run out.
PendingIsAttempted ==
  \A a \in Alerts :
    status[a] = "PENDING" ~> (status[a] \in Settled \/ attempts[a] = MaxAttempts)

=============================================================================
