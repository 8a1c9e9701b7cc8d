------------------------ MODULE SecurityOutboxProofs ------------------------
(***************************************************************************)
(* Safety of the security-event outbox for every number of alerts and      *)
(* processes, every batch size, lease length, backoff and horizon.         *)
(***************************************************************************)
EXTENDS SecurityOutbox, TLAPS

InHand == {"publishing", "published", "failing"}

\* What a flush remembers fits its point of control; an idle flush remembers
\* nothing, and a scan never lies in the future.
MemoryFits(p) ==
  /\ scannedAt[p] <= now
  /\ pc[p] = "idle" => claimed[p] = {}
  /\ pc[p] \in InHand => /\ cur[p] \in Alerts
                         /\ att[p] \in 1..MaxAttempts
                         /\ <<cur[p], att[p]>> \notin claimed[p]
  /\ pc[p] \notin InHand => cur[p] = None
  /\ pc[p] = "published" => cur[p] \in published

FlushInv == \A p \in Procs : MemoryFits(p)

\* The attempt number of a record never exceeds the row's count, and the flush
\* that holds the latest attempt of a PENDING row is the one on its lease.
ClaimInv ==
  \A p \in Procs : \A rec \in Records(p) :
    /\ rec[2] <= attempts[rec[1]]
    /\ (rec[2] = attempts[rec[1]] /\ status[rec[1]] = "PENDING")
         => lease[rec[1]] = p /\ leaseExp[rec[1]] = LeaseEnd(p)

\* Nobody claimed a row that is not written yet.
AbsentInv == \A a \in Alerts : status[a] = "ABSENT" => attempts[a] = 0

IInv ==
  /\ TypeOK
  /\ FlushInv
  /\ AbsentInv
  /\ ClaimInv
  /\ AttemptHeldOnce
  /\ LeaseFences
  /\ DeliveredWasPublished

-----------------------------------------------------------------------------
(* Type correctness, together with what a flush remembers.                 *)

\* The bound on the attempts is a number.
LEMMA MaxAttemptsType == MaxAttempts \in Nat
BY OutboxBounds

\* An instant computed from two instants is an instant.
LEMMA LaterType == \A t, d \in Nat : Later(t, d) \in Nat
BY OutboxBounds DEF Later

\* The initial state satisfies every part of the invariant.
LEMMA InitIInv == Init => IInv
<1> SUFFICES ASSUME Init PROVE IInv
  OBVIOUS
<1> USE DEF Init, InHand
<1>1. TypeOK
  BY OutboxBounds DEF TypeOK, AlertStatus, Control
<1>2. FlushInv
  BY DEF FlushInv, MemoryFits
<1>3. \A p \in Procs : Records(p) = {}
  BY DEF Records
<1>4. ClaimInv /\ AttemptHeldOnce /\ LeaseFences
  BY <1>3 DEF ClaimInv, AttemptHeldOnce, LeaseFences
<1>5. DeliveredWasPublished
  BY DEF DeliveredWasPublished
<1>6. AbsentInv
  BY DEF AbsentInv
<1> QED
  BY <1>1, <1>2, <1>4, <1>5, <1>6 DEF IInv

\* Every step keeps the types and the shape of a flush's memory.
LEMMA TypeNext == TypeOK /\ FlushInv /\ [Next]_vars => TypeOK' /\ FlushInv'
<1> SUFFICES ASSUME TypeOK, FlushInv, [Next]_vars
             PROVE  TypeOK' /\ FlushInv'
  OBVIOUS
<1> USE DEF TypeOK, InHand, Control, AlertStatus
<1>fits. \A p \in Procs : MemoryFits(p)
  BY DEF FlushInv
\* A step of process p leaves the memory of the others alone, and now and
\* published never shrink.
<1>frame. ASSUME NEW p \in Procs, now' \in Nat, now <= now', published \subseteq published',
                 MemoryFits(p)',
                 \A q \in Procs \ {p} :
                   /\ pc'[q] = pc[q]
                   /\ scannedAt'[q] = scannedAt[q]
                   /\ claimed'[q] = claimed[q]
                   /\ cur'[q] = cur[q]
                   /\ att'[q] = att[q]
          PROVE  FlushInv'
  <2> SUFFICES ASSUME NEW q \in Procs, q # p
               PROVE  MemoryFits(q)'
    BY <1>frame DEF FlushInv
  <2> QED
    BY <1>fits, <1>frame DEF MemoryFits
<1>1. ASSUME NEW a \in Alerts, Enqueue(a)
      PROVE  TypeOK' /\ FlushInv'
  BY <1>1 DEF Enqueue, flushVars, FlushInv, MemoryFits
<1>2. ASSUME NEW p \in Procs, FindCandidates(p)
      PROVE  TypeOK' /\ FlushInv'
  <2>1. PICK batch \in SUBSET {a \in Alerts : Dispatchable(a)} :
          todo' = [todo EXCEPT ![p] = {<<a, attempts[a]>> : a \in batch}]
    BY <1>2 DEF FindCandidates
  <2>2. {<<a, attempts[a]>> : a \in batch} \in SUBSET (Alerts \X (0..MaxAttempts - 1))
    BY MaxAttemptsType DEF Dispatchable
  <2>3. /\ pc[p] = "idle"
        /\ pc' = [pc EXCEPT ![p] = "claiming"]
        /\ scannedAt' = [scannedAt EXCEPT ![p] = now]
        /\ UNCHANGED <<rowVars, claimed, cur, att, published, now, faults>>
    BY <1>2 DEF FindCandidates
  <2>4. TypeOK'
    BY <2>1, <2>2, <2>3 DEF rowVars
  <2>5. MemoryFits(p)'
    <3>1. MemoryFits(p)
      BY <1>fits
    <3> QED
      BY <2>3, <3>1 DEF MemoryFits
  <2> QED
    BY <1>frame, <2>3, <2>4, <2>5
<1>3. ASSUME NEW p \in Procs, NEW a \in Alerts, NEW n \in 0..MaxAttempts - 1,
             ClaimCandidate(p, a, n)
      PROVE  TypeOK' /\ FlushInv'
  <2>1. LeaseEnd(p) \in Nat
    BY LaterType, OutboxBounds DEF LeaseEnd
  <2>2. CASE ClaimWins(p, a, n)
    <3>1. TypeOK'
      BY <1>3, <2>1, <2>2, MaxAttemptsType, SMTT(30) DEF ClaimCandidate, ClaimWins
    <3>2. MemoryFits(p)'
      BY <1>3, <2>2, <1>fits DEF ClaimCandidate, MemoryFits
    <3> QED
      BY <1>3, <2>2, <1>frame, <3>1, <3>2 DEF ClaimCandidate
  <2>3. CASE ~ClaimWins(p, a, n)
    BY <1>3, <2>3 DEF ClaimCandidate, FlushInv, MemoryFits
  <2> QED
    BY <2>2, <2>3
<1>4. ASSUME NEW p \in Procs, ClaimsDone(p)
      PROVE  TypeOK' /\ FlushInv'
  BY <1>4 DEF ClaimsDone, rowVars, FlushInv, MemoryFits
<1>5. ASSUME NEW p \in Procs, NEW a \in Alerts, NEW n \in 1..MaxAttempts,
             toSecurityEvent(p, a, n)
      PROVE  TypeOK' /\ FlushInv'
  <2>1. TypeOK'
    BY <1>5 DEF toSecurityEvent, rowVars
  <2>2. MemoryFits(p)'
    BY <1>5, <1>fits DEF toSecurityEvent, MemoryFits
  <2> QED
    BY <1>5, <1>frame, <2>1, <2>2 DEF toSecurityEvent
<1>6. ASSUME NEW p \in Procs, PublishReturns(p)
      PROVE  TypeOK' /\ FlushInv'
  BY <1>6 DEF PublishReturns, rowVars, FlushInv, MemoryFits
<1>7. ASSUME NEW p \in Procs, PublishRejects(p) \/ RecordingThrows(p)
      PROVE  TypeOK' /\ FlushInv'
  BY <1>7 DEF PublishRejects, RecordingThrows, rowVars, FlushInv, MemoryFits
<1>next. ASSUME NEW p \in Procs, NextRecord(p), UNCHANGED <<published, now>>
         PROVE  FlushInv'
  <2>1. MemoryFits(p)'
    BY <1>fits, <1>next DEF NextRecord, MemoryFits
  <2> QED
    BY <1>frame, <1>next, <2>1 DEF NextRecord
<1>over. ASSUME NEW p \in Procs, FlushOver(p), UNCHANGED <<published, now>>
         PROVE  FlushInv'
  <2>1. MemoryFits(p)'
    BY <1>over DEF FlushOver, MemoryFits
  <2> QED
    BY <1>frame, <1>over, <2>1 DEF FlushOver
<1>8. ASSUME NEW p \in Procs, markDelivered(p)
      PROVE  TypeOK' /\ FlushInv'
  <2>1. CASE OwnsRecord(p)
    <3>1. TypeOK'
      BY <1>8, <2>1, MaxAttemptsType, SMTT(30) DEF markDelivered, NextRecord
    <3> QED
      BY <1>8, <2>1, <3>1, <1>next DEF markDelivered
  <2>2. CASE ~OwnsRecord(p)
    BY <1>8, <2>2 DEF markDelivered, FlushInv, MemoryFits
  <2> QED
    BY <2>1, <2>2
<1>9. ASSUME NEW p \in Procs, markFailed(p)
      PROVE  TypeOK' /\ FlushInv'
  <2>1. Later(now, Backoff[att[p]]) \in Nat
    BY <1>9, <1>fits, LaterType, OutboxBounds DEF markFailed, MemoryFits
  <2>2. CASE OwnsRecord(p)
    <3>1. TypeOK'
      BY <1>9, <2>1, <2>2, MaxAttemptsType DEF markFailed, NextRecord
    <3> QED
      BY <1>9, <2>2, <3>1, <1>next DEF markFailed
  <2>3. CASE ~OwnsRecord(p)
    <3>1. TypeOK'
      BY <1>9, <2>3, MaxAttemptsType DEF markFailed, FlushOver
    <3> QED
      BY <1>9, <2>3, <3>1, <1>over DEF markFailed
  <2> QED
    BY <2>2, <2>3
<1>10. ASSUME NEW p \in Procs, FlushEnds(p) \/ FlushAborts(p) \/ Crash(p)
       PROVE  TypeOK' /\ FlushInv'
  <2>1. FlushOver(p) /\ faults' \in Nat /\ UNCHANGED <<rowVars, published, now>>
    BY <1>10 DEF FlushEnds, FlushAborts, Crash
  <2>2. TypeOK'
    BY <2>1, MaxAttemptsType DEF FlushOver, rowVars
  <2> QED
    BY <2>1, <2>2, <1>over
<1>11. CASE Tick
  BY <1>11 DEF Tick, rowVars, flushVars, FlushInv, MemoryFits
<1>12. CASE UNCHANGED vars
  BY <1>12 DEF vars, rowVars, flushVars, FlushInv, MemoryFits
<1> QED
  BY <1>1, <1>2, <1>3, <1>4, <1>5, <1>6, <1>7, <1>8, <1>9, <1>10, <1>11, <1>12
     DEF Next, FlushStep

-----------------------------------------------------------------------------
(* Claims, leases and fencing.                                             *)

Fencing == ClaimInv /\ AttemptHeldOnce /\ LeaseFences

\* The records of a flush are pairs of an alert and an attempt number.
LEMMA RecordsType ==
  ASSUME TypeOK, FlushInv, NEW p \in Procs
  PROVE  Records(p) \subseteq Alerts \X (1..MaxAttempts)
<1>1. cur[p] # None => cur[p] \in Alerts /\ att[p] \in 1..MaxAttempts
  BY DEF FlushInv, MemoryFits
<1>2. claimed[p] \subseteq Alerts \X (1..MaxAttempts)
  BY DEF TypeOK
<1> QED
  BY <1>1, <1>2 DEF Records

\* A step that takes no row and only drops records preserves the fencing, also
\* when it settles or frees rows of which it drops the latest attempt.
LEMMA DropsRecords ==
  ASSUME TypeOK, FlushInv, TypeOK', Fencing,
         attempts' = attempts, now <= now',
         \A q \in Procs : Records(q)' \subseteq Records(q),
         \A q \in Procs : Records(q)' # {} => scannedAt'[q] = scannedAt[q],
         \A q \in Procs : \A rec \in Records(q)' :
           (rec[2] = attempts[rec[1]] /\ status'[rec[1]] = "PENDING")
             => /\ status[rec[1]] = "PENDING"
                /\ lease'[rec[1]] = lease[rec[1]]
                /\ leaseExp'[rec[1]] = leaseExp[rec[1]]
  PROVE  Fencing'
<1>1. \A q \in Procs : Records(q)' # {} => LeaseEnd(q)' = LeaseEnd(q)
  BY DEF LeaseEnd, Later
<1>2. ClaimInv'
  BY <1>1 DEF Fencing, ClaimInv
<1>3. AttemptHeldOnce'
  BY DEF Fencing, AttemptHeldOnce
<1>4. LeaseFences'
  <2> SUFFICES ASSUME NEW q \in Procs, NEW rec \in Records(q)', rec[2] < attempts[rec[1]]
               PROVE  LeaseEnd(q) <= now'
    BY <1>1 DEF LeaseFences
  <2>1. LeaseEnd(q) <= now
    BY DEF Fencing, LeaseFences
  <2>2. LeaseEnd(q) \in Nat
    BY LaterType, OutboxBounds DEF LeaseEnd, TypeOK
  <2> QED
    BY <2>1, <2>2 DEF TypeOK
<1> QED
  BY <1>2, <1>3, <1>4 DEF Fencing

\* The claim: a flush takes the next attempt of a row that nobody holds under a
\* lease that still runs.
LEMMA ClaimFences ==
  ASSUME TypeOK, FlushInv, TypeOK', FlushInv', Fencing,
         NEW p \in Procs, NEW a \in Alerts, NEW n \in 0..MaxAttempts - 1,
         ClaimCandidate(p, a, n), ClaimWins(p, a, n)
  PROVE  Fencing'
<1>1. /\ attempts' = [attempts EXCEPT ![a] = n + 1]
      /\ lease' = [lease EXCEPT ![a] = p]
      /\ leaseExp' = [leaseExp EXCEPT ![a] = LeaseEnd(p)]
      /\ claimed' = [claimed EXCEPT ![p] = @ \cup {<<a, n + 1>>}]
      /\ UNCHANGED <<status, pc, scannedAt, cur, att, now>>
  BY DEF ClaimCandidate, ClaimWins
<1>2. attempts[a] = n /\ status[a] = "PENDING" /\ LeaseFree(a, scannedAt[p])
  BY DEF ClaimWins
<1>3. \A q \in Procs : LeaseEnd(q)' = LeaseEnd(q)
  BY <1>1 DEF LeaseEnd, Later
<1>4. Records(p)' = Records(p) \cup {<<a, n + 1>>}
  BY <1>1 DEF Records, TypeOK
<1>5. \A q \in Procs : q # p => Records(q)' = Records(q)
  BY <1>1 DEF Records, TypeOK
<1>6. \A q \in Procs : \A rec \in Records(q) :
        rec[1] \in Alerts /\ rec[2] \in Nat /\ rec[2] <= attempts[rec[1]]
  BY RecordsType DEF Fencing, ClaimInv
<1>7. \A q \in Procs : \A rec \in Records(q) : rec[1] = a => rec[2] <= n
  BY <1>2, <1>6
<1>8. ClaimInv'
  <2> SUFFICES ASSUME NEW q \in Procs, NEW rec \in Records(q)'
               PROVE  /\ rec[2] <= attempts'[rec[1]]
                      /\ (rec[2] = attempts'[rec[1]] /\ status'[rec[1]] = "PENDING")
                           => lease'[rec[1]] = q /\ leaseExp'[rec[1]] = LeaseEnd(q)
    BY <1>3 DEF ClaimInv
  <2>1. CASE q = p /\ rec = <<a, n + 1>>
    BY <2>1, <1>1 DEF TypeOK
  <2>2. CASE rec \in Records(q)
    <3>1. CASE rec[1] = a
      BY <1>1, <1>7, <2>2, <1>6, <3>1 DEF TypeOK
    <3>2. CASE rec[1] # a
      BY <1>1, <1>6, <2>2, <3>2 DEF TypeOK, Fencing, ClaimInv
    <3> QED
      BY <3>1, <3>2
  <2> QED
    BY <2>1, <2>2, <1>4, <1>5
<1>9. AttemptHeldOnce'
  <2>1. \A q \in Procs : <<a, n + 1>> \notin Records(q)
    BY <1>7
  <2> QED
    BY <2>1, <1>4, <1>5 DEF Fencing, AttemptHeldOnce
<1>10. LeaseFences'
  <2> SUFFICES ASSUME NEW q \in Procs, NEW rec \in Records(q)',
                      rec[2] < attempts'[rec[1]]
               PROVE  LeaseEnd(q) <= now
    BY <1>1, <1>3 DEF LeaseFences
  <2>1. rec \in Records(q)
    BY <1>1, <1>4, <1>5 DEF TypeOK
  <2>2. CASE rec[2] < attempts[rec[1]]
    BY <2>1, <2>2 DEF Fencing, LeaseFences
  <2>3. CASE rec[2] = attempts[rec[1]]
    <3>1. rec[1] = a
      BY <1>1, <1>6, <2>1, <2>3 DEF TypeOK
    <3>2. lease[a] = q /\ leaseExp[a] = LeaseEnd(q)
      BY <1>2, <2>1, <2>3, <3>1 DEF Fencing, ClaimInv
    <3>3. LeaseEnd(q) <= scannedAt[p]
      BY <1>2, <3>2, OutboxNone DEF LeaseFree
    <3>4. scannedAt[p] <= now
      BY DEF FlushInv, MemoryFits
    <3>5. LeaseEnd(q) \in Nat
      BY LaterType, OutboxBounds DEF LeaseEnd, TypeOK
    <3> QED
      BY <3>3, <3>4, <3>5 DEF TypeOK
  <2>4. rec[2] \in Nat /\ attempts[rec[1]] \in Nat /\ rec[2] <= attempts[rec[1]]
    BY <2>1, <1>6, MaxAttemptsType DEF TypeOK
  <2> QED
    BY <2>2, <2>3, <2>4
<1> QED
  BY <1>8, <1>9, <1>10 DEF Fencing

\* Every step preserves the fencing: a claim as above, every other step because
\* it drops records or leaves them alone.
LEMMA FencingNext ==
  ASSUME TypeOK, FlushInv, AbsentInv, TypeOK', FlushInv', Fencing, [Next]_vars
  PROVE  Fencing'
<1> USE DEF TypeOK
<1>pc. ASSUME UNCHANGED <<status, attempts, lease, leaseExp, scannedAt, claimed, cur, att, now>>
       PROVE  Fencing'
  <2>1. \A q \in Procs : Records(q)' = Records(q)
    BY <1>pc DEF Records
  <2> QED
    BY <1>pc, <2>1, DropsRecords
<1>over. ASSUME NEW p \in Procs, FlushOver(p),
                UNCHANGED <<status, attempts, lease, leaseExp, now>>
         PROVE  Fencing'
  <2>1. Records(p)' = {}
    BY <1>over DEF Records, FlushOver
  <2>2. \A q \in Procs : q # p => Records(q)' = Records(q) /\ scannedAt'[q] = scannedAt[q]
    BY <1>over DEF Records, FlushOver
  <2> QED
    BY <1>over, <2>1, <2>2, DropsRecords
<1>next. ASSUME NEW p \in Procs, OwnsRecord(p), NextRecord(p), pc[p] \in InHand,
                status' = [status EXCEPT ![cur[p]] = status'[cur[p]]],
                lease' = [lease EXCEPT ![cur[p]] = None],
                leaseExp' = [leaseExp EXCEPT ![cur[p]] = 0],
                UNCHANGED <<attempts, now>>
         PROVE  Fencing'
  <2>1. cur[p] \in Alerts /\ <<cur[p], att[p]>> \notin claimed[p]
    BY <1>next DEF FlushInv, MemoryFits
  <2>2. Records(p)' = claimed[p] /\ claimed[p] \subseteq Records(p)
    BY <1>next DEF Records, NextRecord
  <2>3. \A q \in Procs : q # p => Records(q)' = Records(q)
    BY <1>next DEF Records, NextRecord
  <2>4. <<cur[p], att[p]>> \in Records(p) /\ attempts[cur[p]] = att[p]
    BY <1>next, <2>1, OutboxNone DEF Records, OwnsRecord
  <2>5. ASSUME NEW q \in Procs, NEW rec \in Records(q)', rec[2] = attempts[rec[1]]
        PROVE  rec[1] # cur[p]
    <3>1. SUFFICES ASSUME rec[1] = cur[p] PROVE FALSE
      OBVIOUS
    <3>2. rec \in Records(q)
      BY <2>2, <2>3
    <3>3. rec = <<cur[p], att[p]>>
      BY <2>4, <2>5, <3>1, <3>2, RecordsType
    <3>4. CASE q = p
      BY <2>1, <2>2, <2>5, <3>3, <3>4
    <3>5. CASE q # p
      BY <2>4, <3>2, <3>3, <3>5 DEF Fencing, AttemptHeldOnce
    <3> QED
      BY <3>4, <3>5
  <2>6. \A q \in Procs : Records(q)' \subseteq Records(q) /\ scannedAt'[q] = scannedAt[q]
    BY <1>next, <2>2, <2>3 DEF NextRecord
  <2>7. \A q \in Procs : \A rec \in Records(q)' : rec[1] \in Alerts
    BY <2>6, RecordsType
  <2>8. \A q \in Procs : \A rec \in Records(q)' :
          (rec[2] = attempts[rec[1]] /\ status'[rec[1]] = "PENDING")
            => /\ status[rec[1]] = "PENDING"
               /\ lease'[rec[1]] = lease[rec[1]]
               /\ leaseExp'[rec[1]] = leaseExp[rec[1]]
    BY <1>next, <2>5, <2>7
  <2> QED
    BY <1>next, <2>6, <2>8, DropsRecords
<1>1. ASSUME NEW a \in Alerts, Enqueue(a)
      PROVE  Fencing'
  <2>1. /\ status' = [status EXCEPT ![a] = "PENDING"]
        /\ UNCHANGED <<attempts, lease, leaseExp, scannedAt, claimed, cur, att, now>>
    BY <1>1 DEF Enqueue, flushVars
  <2>2. \A q \in Procs : Records(q)' = Records(q)
    BY <2>1 DEF Records
  <2>3. attempts[a] = 0
    BY <1>1 DEF Enqueue, AbsentInv
  <2>4. \A q \in Procs : \A rec \in Records(q) : rec[1] \in Alerts /\ rec[2] # 0
    BY RecordsType
  <2> QED
    BY <2>1, <2>2, <2>3, <2>4, DropsRecords
<1>2. ASSUME NEW p \in Procs, FindCandidates(p)
      PROVE  Fencing'
  <2>1. UNCHANGED <<status, attempts, lease, leaseExp, claimed, cur, att, now>>
    BY <1>2 DEF FindCandidates, rowVars
  <2>2. Records(p) = {}
    BY <1>2 DEF FindCandidates, FlushInv, MemoryFits, InHand, Records
  <2>3. \A q \in Procs : Records(q)' = Records(q)
    BY <2>1 DEF Records
  <2>4. \A q \in Procs : q # p => scannedAt'[q] = scannedAt[q]
    BY <1>2 DEF FindCandidates
  <2> QED
    BY <2>1, <2>2, <2>3, <2>4, DropsRecords
<1>3. ASSUME NEW p \in Procs, NEW a \in Alerts, NEW n \in 0..MaxAttempts - 1,
             ClaimCandidate(p, a, n)
      PROVE  Fencing'
  <2>1. CASE ClaimWins(p, a, n)
    BY <1>3, <2>1, ClaimFences
  <2>2. CASE ~ClaimWins(p, a, n)
    BY <1>3, <2>2, <1>pc DEF ClaimCandidate
  <2> QED
    BY <2>1, <2>2
<1>4. ASSUME NEW p \in Procs,
             \/ ClaimsDone(p) \/ PublishReturns(p) \/ PublishRejects(p)
             \/ RecordingThrows(p)
      PROVE  Fencing'
  BY <1>4, <1>pc DEF ClaimsDone, PublishReturns, PublishRejects, RecordingThrows, rowVars
<1>5. ASSUME NEW p \in Procs, NEW a \in Alerts, NEW n \in 1..MaxAttempts,
             toSecurityEvent(p, a, n)
      PROVE  Fencing'
  <2>1. UNCHANGED <<status, attempts, lease, leaseExp, scannedAt, now>>
    BY <1>5 DEF toSecurityEvent, rowVars
  <2>2. Records(p)' \subseteq Records(p)
    BY <1>5 DEF toSecurityEvent, Records
  <2>3. \A q \in Procs : q # p => Records(q)' = Records(q)
    BY <1>5 DEF toSecurityEvent, Records
  <2>4. \A q \in Procs : Records(q)' \subseteq Records(q)
    BY <2>2, <2>3
  <2>5. now <= now' /\ \A q \in Procs : scannedAt'[q] = scannedAt[q]
    BY <2>1 DEF TypeOK
  <2> QED
    BY <2>1, <2>4, <2>5, DropsRecords
<1>6. ASSUME NEW p \in Procs, markDelivered(p)
      PROVE  Fencing'
  <2>1. CASE OwnsRecord(p)
    BY <1>6, <2>1, <1>next DEF markDelivered, InHand
  <2>2. CASE ~OwnsRecord(p)
    BY <1>6, <2>2, <1>pc DEF markDelivered
  <2> QED
    BY <2>1, <2>2
<1>7. ASSUME NEW p \in Procs, markFailed(p)
      PROVE  Fencing'
  <2>1. CASE OwnsRecord(p)
    BY <1>7, <2>1, <1>next DEF markFailed, InHand
  <2>2. CASE ~OwnsRecord(p)
    BY <1>7, <2>2, <1>over DEF markFailed
  <2> QED
    BY <2>1, <2>2
<1>8. ASSUME NEW p \in Procs, FlushEnds(p) \/ FlushAborts(p) \/ Crash(p)
      PROVE  Fencing'
  BY <1>8, <1>over DEF FlushEnds, FlushAborts, Crash, rowVars
<1>9. CASE Tick
  <2>1. UNCHANGED <<status, attempts, lease, leaseExp, scannedAt, claimed, cur, att>>
    BY <1>9 DEF Tick, rowVars, flushVars
  <2>2. \A q \in Procs : Records(q)' = Records(q)
    BY <2>1 DEF Records
  <2>3. now <= now'
    BY <1>9 DEF Tick
  <2> QED
    BY <2>1, <2>2, <2>3, DropsRecords
<1>10. CASE UNCHANGED vars
  BY <1>10, <1>pc DEF vars, rowVars, flushVars
<1> QED
  BY <1>1, <1>2, <1>3, <1>4, <1>5, <1>6, <1>7, <1>8, <1>9, <1>10 DEF Next, FlushStep

\* A row that is not written yet stays untouched, and DELIVERED is only written
\* by a flush whose publisher call returned.
LEMMA RowsNext ==
  ASSUME TypeOK, FlushInv, AbsentInv, DeliveredWasPublished, [Next]_vars
  PROVE  AbsentInv' /\ DeliveredWasPublished'
<1> USE DEF TypeOK, AbsentInv, DeliveredWasPublished
<1>1. ASSUME NEW a \in Alerts, Enqueue(a)
      PROVE  AbsentInv' /\ DeliveredWasPublished'
  BY <1>1 DEF Enqueue
<1>2. ASSUME NEW p \in Procs, NEW a \in Alerts, NEW n \in 0..MaxAttempts - 1,
             ClaimCandidate(p, a, n)
      PROVE  AbsentInv' /\ DeliveredWasPublished'
  BY <1>2 DEF ClaimCandidate, ClaimWins
<1>3. ASSUME NEW p \in Procs, markDelivered(p)
      PROVE  AbsentInv' /\ DeliveredWasPublished'
  <2>1. cur[p] \in published /\ cur[p] \in Alerts
    BY <1>3 DEF markDelivered, FlushInv, MemoryFits, InHand
  <2> QED
    BY <1>3, <2>1 DEF markDelivered, OwnsRecord
<1>4. ASSUME NEW p \in Procs, markFailed(p)
      PROVE  AbsentInv' /\ DeliveredWasPublished'
  <2>1. cur[p] \in Alerts
    BY <1>4 DEF markFailed, FlushInv, MemoryFits, InHand
  <2> QED
    BY <1>4, <2>1 DEF markFailed, OwnsRecord
<1>5. ASSUME UNCHANGED <<status, attempts>>, published \subseteq published'
      PROVE  AbsentInv' /\ DeliveredWasPublished'
  BY <1>5
<1>6. ASSUME NEW p \in Procs,
             \/ FindCandidates(p) \/ ClaimsDone(p) \/ PublishReturns(p) \/ PublishRejects(p)
             \/ RecordingThrows(p) \/ FlushEnds(p) \/ FlushAborts(p) \/ Crash(p)
             \/ \E a \in Alerts, n \in 1..MaxAttempts : toSecurityEvent(p, a, n)
      PROVE  AbsentInv' /\ DeliveredWasPublished'
  BY <1>5, <1>6 DEF FindCandidates, ClaimsDone, PublishReturns, PublishRejects,
     RecordingThrows, FlushEnds, FlushAborts, Crash, toSecurityEvent, rowVars
<1>7. CASE Tick \/ UNCHANGED vars
  BY <1>5, <1>7 DEF Tick, vars, rowVars
<1> QED
  BY <1>1, <1>2, <1>3, <1>4, <1>6, <1>7 DEF Next, FlushStep

-----------------------------------------------------------------------------
(* The theorems.                                                           *)

\* The invariant holds of every reachable state.
THEOREM OutboxInvariant == Spec => []IInv
<1>1. IInv /\ [Next]_vars => IInv'
  BY TypeNext, FencingNext, RowsNext DEF IInv, Fencing
<1> QED
  BY InitIInv, <1>1, PTL DEF Spec

\* The outbox rows and the flushes' memories keep their types; in particular a
\* row's attempt count never exceeds securityOutboxMaximumAttempts.
THEOREM OutboxTypeCorrect == Spec => []TypeOK
BY OutboxInvariant, PTL DEF IInv

\* claimDispatchable hands an attempt of an alert to one process only, for any
\* number of processes.
THEOREM OutboxAttemptHeldOnce == Spec => []AttemptHeldOnce
BY OutboxInvariant, PTL DEF IInv

\* A flush is overtaken only after its lease ran out.
THEOREM OutboxLeaseFences == Spec => []LeaseFences
BY OutboxInvariant, PTL DEF IInv

\* No alert is on record as DELIVERED that no publisher accepted.
THEOREM OutboxDeliveredWasPublished == Spec => []DeliveredWasPublished
BY OutboxInvariant, PTL DEF IInv

\* Two flushes are inside publish with the same alert only when one of them
\* outlived its lease there: their attempts differ, so the lower one was
\* overtaken.
THEOREM OutboxPublishOverlap == Spec => []PublishOverlapsOnlyAfterExpiry
<1>1. IInv => PublishOverlapsOnlyAfterExpiry
  <2> SUFFICES ASSUME IInv, NEW p \in Procs, NEW q \in Procs, p # q,
                      pc[p] = "publishing", pc[q] = "publishing", cur[p] = cur[q]
               PROVE  LeaseEnd(p) <= now \/ LeaseEnd(q) <= now
    BY DEF PublishOverlapsOnlyAfterExpiry
  <2>1. <<cur[p], att[p]>> \in Records(p) /\ <<cur[q], att[q]>> \in Records(q)
    BY OutboxNone DEF IInv, FlushInv, MemoryFits, InHand, Records
  <2>2. att[p] # att[q]
    BY <2>1 DEF IInv, AttemptHeldOnce
  <2>3. att[p] <= attempts[cur[p]] /\ att[q] <= attempts[cur[p]]
    BY <2>1 DEF IInv, ClaimInv
  <2>4. att[p] \in Nat /\ att[q] \in Nat /\ cur[p] \in Alerts
    <3>1. MemoryFits(p) /\ MemoryFits(q)
      BY DEF IInv, FlushInv
    <3> QED
      BY <3>1, MaxAttemptsType DEF MemoryFits, InHand
  <2>5. attempts[cur[p]] \in Nat
    BY <2>4 DEF IInv, TypeOK
  <2>6. att[p] < attempts[cur[p]] \/ att[q] < attempts[cur[q]]
    BY <2>2, <2>3, <2>4, <2>5
  <2> QED
    BY <2>1, <2>6 DEF IInv, LeaseFences
<1> QED
  BY OutboxInvariant, <1>1, PTL

\* A free PENDING row has no flush at work on its latest attempt: the holder of
\* the latest attempt would be on the lease.
THEOREM OutboxFreeRow == Spec => []FreeRowHasNoLiveClaim
<1>1. IInv => FreeRowHasNoLiveClaim
  <2> SUFFICES ASSUME IInv, NEW a \in Alerts, status[a] = "PENDING", lease[a] = None,
                      NEW p \in Procs, NEW rec \in Records(p), rec[1] = a
               PROVE  rec[2] < attempts[a]
    BY DEF FreeRowHasNoLiveClaim
  <2>1. rec[2] \in Nat /\ attempts[a] \in Nat
    BY RecordsType DEF IInv, TypeOK
  <2>2. rec[2] <= attempts[a] /\ rec[2] # attempts[a]
    BY OutboxNone DEF IInv, ClaimInv
  <2> QED
    BY <2>1, <2>2
<1> QED
  BY OutboxInvariant, <1>1, PTL

\* The verdict on an alert is final: markDelivered and markFailed both test the
\* status in the update itself.
THEOREM OutboxSettledIsFinal == Spec => SettledIsFinal
<1>1. IInv /\ [Next]_vars
        => [\A a \in Alerts : status[a] \in Settled => status'[a] = status[a]]_vars
  <2> SUFFICES ASSUME IInv, [Next]_vars, NEW a \in Alerts, status[a] \in Settled
               PROVE  status'[a] = status[a]
    OBVIOUS
  <2> USE DEF IInv, TypeOK, Settled
  <2>1. ASSUME NEW b \in Alerts, Enqueue(b)
        PROVE  status'[a] = status[a]
    BY <2>1 DEF Enqueue
  <2>2. ASSUME NEW p \in Procs, markDelivered(p) \/ markFailed(p)
        PROVE  status'[a] = status[a]
    BY <2>2 DEF markDelivered, markFailed, OwnsRecord
  <2>3. ASSUME NEW p \in Procs,
               \/ FindCandidates(p) \/ ClaimsDone(p) \/ PublishReturns(p) \/ PublishRejects(p)
               \/ RecordingThrows(p) \/ FlushEnds(p) \/ FlushAborts(p) \/ Crash(p)
               \/ \E b \in Alerts, n \in 1..MaxAttempts : toSecurityEvent(p, b, n)
               \/ \E b \in Alerts, n \in 0..MaxAttempts - 1 : ClaimCandidate(p, b, n)
        PROVE  status'[a] = status[a]
    BY <2>3 DEF FindCandidates, ClaimsDone, PublishReturns, PublishRejects,
       RecordingThrows, FlushEnds, FlushAborts, Crash, toSecurityEvent, ClaimCandidate,
       rowVars
  <2>4. CASE Tick \/ UNCHANGED vars
    BY <2>4 DEF Tick, vars, rowVars
  <2> QED
    BY <2>1, <2>2, <2>3, <2>4 DEF Next, FlushStep
<1> QED
  BY OutboxInvariant, <1>1, PTL DEF Spec, SettledIsFinal

-----------------------------------------------------------------------------
(* The flushes implement LeasedWork.                                       *)

\* What the refinement mapping gives a process: its records, and the one that was
\* accepted and is not settled yet.
Handed == [p \in Procs |-> Records(p)]
Granted == [p \in Procs |-> IF pc[p] = "published" /\ cur[p] \in published
                              THEN {<<cur[p], att[p]>>} ELSE {}]

\* A record that was published is in published: Granted follows from pc alone.
LEMMA GrantedByControl ==
  ASSUME FlushInv
  PROVE  Granted = [p \in Procs |-> IF pc[p] = "published" THEN {<<cur[p], att[p]>>} ELSE {}]
BY DEF FlushInv, MemoryFits, Granted

\* A step in which one process forgets and no row changes is Lose, or stutters.
LEMMA LoseStep ==
  ASSUME NEW p \in Procs,
         UNCHANGED <<status, attempts>>,
         Records(p)' \subseteq Records(p),
         Granted'[p] \subseteq Granted[p],
         \A q \in Procs \ {p} : Records(q)' = Records(q) /\ Granted'[q] = Granted[q]
  PROVE  Work!Next
<1>1. Handed' = [Handed EXCEPT ![p] = Handed'[p]] /\ Handed'[p] \subseteq Handed[p]
  BY DEF Handed
<1>2. Granted' = [Granted EXCEPT ![p] = Granted'[p]]
  BY DEF Granted
<1>3. Work!Lose(p)
  BY <1>1, <1>2 DEF Work!Lose, Handed, Granted
<1> QED
  BY <1>3 DEF Work!Next

\* The flush of the latest attempt that settles the alert in hand closes it.
LEMMA CloseStep ==
  ASSUME TypeOK, FlushInv, FlushInv', NEW p \in Procs, OwnsRecord(p), NextRecord(p),
         pc[p] \in InHand, NEW verdict,
         status' = [status EXCEPT ![cur[p]] = verdict],
         UNCHANGED <<attempts, published>>
  PROVE  /\ cur[p] \in Alerts
         /\ Work!Latest(cur[p]) \in Records(p)
         /\ pc[p] = "published" => Work!Latest(cur[p]) \in Granted[p]
         /\ Work!Close(p, cur[p], verdict)
<1>1. /\ cur[p] \in Alerts
      /\ <<cur[p], att[p]>> \notin claimed[p]
      /\ pc[p] = "published" => cur[p] \in published
  BY DEF FlushInv, MemoryFits
<1>2. status[cur[p]] = "PENDING" /\ attempts[cur[p]] = att[p]
  BY DEF OwnsRecord
<1>3. Records(p) = claimed[p] \cup {<<cur[p], att[p]>>}
  BY <1>1, OutboxNone DEF Records
<1>4. Records(p)' = Records(p) \ {<<cur[p], att[p]>>}
  BY <1>1, <1>3 DEF NextRecord, Records, TypeOK
<1>5. \A q \in Procs \ {p} : Records(q)' = Records(q)
  BY DEF NextRecord, Records, TypeOK
<1>6. Handed' = [Handed EXCEPT ![p] = @ \ {<<cur[p], att[p]>>}]
  BY <1>4, <1>5 DEF Handed
<1>7. Granted' = [Granted EXCEPT ![p] = @ \ {<<cur[p], att[p]>>}]
  <2>1. Granted'[p] = Granted[p] \ {<<cur[p], att[p]>>}
    BY DEF NextRecord, Granted, TypeOK
  <2>2. \A q \in Procs \ {p} : Granted'[q] = Granted[q]
    BY DEF NextRecord, Granted, TypeOK
  <2> QED
    BY <2>1, <2>2 DEF Granted
<1>8. Work!Latest(cur[p]) = <<cur[p], att[p]>>
  BY <1>2 DEF Work!Latest
<1>9. Work!Close(p, cur[p], verdict)
  BY <1>2, <1>6, <1>7, <1>8 DEF Work!Close, Handed, Granted
<1> QED
  BY <1>1, <1>3, <1>8, <1>9 DEF Granted

\* Every step of the flushes is a step of LeasedWork, or changes nothing in it.
LEMMA StepImplements ==
  ASSUME IInv, IInv', [Next]_vars
  PROVE  [Work!Next]_(Work!workVars)
<1> USE DEF IInv, TypeOK
<1>same. ASSUME UNCHANGED <<status, attempts, claimed, cur, att>>,
                \A p \in Procs : (pc[p] = "published") = (pc'[p] = "published")
         PROVE  UNCHANGED Work!workVars
  <2>1. Handed' = Handed
    BY <1>same DEF Handed, Records
  <2>2. Granted' = Granted
    BY <1>same, GrantedByControl DEF FlushInv, MemoryFits, Granted
  <2> QED
    BY <1>same, <2>1, <2>2 DEF Work!workVars, Handed, Granted
<1>1. ASSUME NEW a \in Alerts, Enqueue(a)
      PROVE  Work!Next
  <2>1. Handed' = Handed /\ Granted' = Granted
    BY <1>1 DEF Enqueue, flushVars, Handed, Records, Granted
  <2>2. Work!Offer(a)
    BY <1>1, <2>1 DEF Enqueue, Work!Offer, Handed, Granted
  <2> QED
    BY <2>2 DEF Work!Next
<1>2. ASSUME NEW p \in Procs, FindCandidates(p) \/ ClaimsDone(p)
      PROVE  UNCHANGED Work!workVars
  BY <1>2, <1>same DEF FindCandidates, ClaimsDone, rowVars
<1>3. ASSUME NEW p \in Procs, NEW a \in Alerts, NEW n \in 0..MaxAttempts - 1,
             ClaimCandidate(p, a, n)
      PROVE  [Work!Next]_(Work!workVars)
  <2>1. CASE ClaimWins(p, a, n)
    <3>1. /\ status[a] = "PENDING" /\ attempts[a] = n /\ n < MaxAttempts
          /\ attempts' = [attempts EXCEPT ![a] = @ + 1]
          /\ claimed' = [claimed EXCEPT ![p] = @ \cup {<<a, n + 1>>}]
          /\ UNCHANGED <<status, pc, cur, att, published>>
      BY <1>3, <2>1, MaxAttemptsType DEF ClaimCandidate, ClaimWins
    <3>2. Handed' = [Handed EXCEPT ![p] = @ \cup {<<a, n + 1>>}]
      BY <3>1 DEF Handed, Records
    <3>3. Granted' = Granted
      BY <3>1 DEF Granted
    <3>4. Work!Begin(p, a)
      BY <3>1, <3>2, <3>3 DEF Work!Begin, Handed, Granted
    <3> QED
      BY <3>4 DEF Work!Next
  <2>2. CASE ~ClaimWins(p, a, n)
    BY <1>3, <2>2, <1>same DEF ClaimCandidate
  <2> QED
    BY <2>1, <2>2
<1>4. ASSUME NEW p \in Procs, NEW a \in Alerts, NEW n \in 1..MaxAttempts,
             toSecurityEvent(p, a, n)
      PROVE  Work!Next
  <2>1. Records(p)' \subseteq Records(p) /\ Granted'[p] \subseteq Granted[p]
    BY <1>4 DEF toSecurityEvent, Records, Granted
  <2>2. \A q \in Procs \ {p} : Records(q)' = Records(q) /\ Granted'[q] = Granted[q]
    BY <1>4 DEF toSecurityEvent, Records, Granted
  <2> QED
    BY <1>4, <2>1, <2>2, LoseStep DEF toSecurityEvent, rowVars
<1>5. ASSUME NEW p \in Procs, PublishReturns(p)
      PROVE  Work!Next
  <2>1. /\ cur[p] \in Alerts
        /\ <<cur[p], att[p]>> \in Records(p)
    BY <1>5, OutboxNone DEF PublishReturns, FlushInv, MemoryFits, InHand, Records
  <2>2. Granted' = [Granted EXCEPT ![p] = @ \cup {<<cur[p], att[p]>>}]
    <3>1. Granted'[p] = Granted[p] \cup {<<cur[p], att[p]>>}
      BY <1>5 DEF PublishReturns, Granted
    <3>2. \A q \in Procs \ {p} : Granted'[q] = Granted[q]
      BY <1>5, GrantedByControl DEF PublishReturns, Granted, FlushInv, MemoryFits
    <3> QED
      BY <3>1, <3>2 DEF Granted
  <2>3. Handed' = Handed
    BY <1>5 DEF PublishReturns, Handed, Records
  <2>4. PICK a \in Alerts : a = cur[p]
    BY <2>1
  <2>5. Work!Accept(p, a)
    BY <1>5, <2>1, <2>2, <2>3, <2>4 DEF PublishReturns, rowVars, Work!Accept, Handed, Granted
  <2> QED
    BY <2>5 DEF Work!Next
<1>6. ASSUME NEW p \in Procs, PublishRejects(p)
      PROVE  UNCHANGED Work!workVars
  BY <1>6, <1>same DEF PublishRejects, rowVars
<1>7. ASSUME NEW p \in Procs, pc[p] = "published", pc' = [pc EXCEPT ![p] = "failing"],
             UNCHANGED <<status, attempts, claimed, cur, att, published>>
      PROVE  Work!Next
  <2>1. Records(p)' = Records(p) /\ Granted'[p] \subseteq Granted[p]
    BY <1>7 DEF Records, Granted
  <2>2. \A q \in Procs \ {p} : Records(q)' = Records(q) /\ Granted'[q] = Granted[q]
    BY <1>7 DEF Records, Granted
  <2> QED
    BY <1>7, <2>1, <2>2, LoseStep
<1>8. ASSUME NEW p \in Procs, markDelivered(p)
      PROVE  Work!Next
  <2>1. CASE OwnsRecord(p)
    <3>1. /\ NextRecord(p) /\ pc[p] = "published"
          /\ status' = [status EXCEPT ![cur[p]] = "DELIVERED"]
          /\ UNCHANGED <<attempts, published>>
      BY <1>8, <2>1 DEF markDelivered
    <3>2. /\ cur[p] \in Alerts
          /\ Work!Latest(cur[p]) \in Granted[p]
          /\ Work!Close(p, cur[p], "DELIVERED")
      BY <2>1, <3>1, CloseStep DEF InHand
    <3>3. Work!Deliver(p, cur[p])
      BY <3>2 DEF Work!Deliver, Granted
    <3> QED
      BY <3>2, <3>3 DEF Work!Next
  <2>2. CASE ~OwnsRecord(p)
    BY <1>8, <2>2, <1>7 DEF markDelivered
  <2> QED
    BY <2>1, <2>2
<1>over. ASSUME NEW p \in Procs, FlushOver(p), UNCHANGED <<status, attempts, published>>
         PROVE  Work!Next
  <2>1. Records(p)' = {} /\ Granted'[p] = {}
    BY <1>over DEF FlushOver, Records, Granted
  <2>2. \A q \in Procs \ {p} : Records(q)' = Records(q) /\ Granted'[q] = Granted[q]
    BY <1>over DEF FlushOver, Records, Granted
  <2> QED
    BY <1>over, <2>1, <2>2, LoseStep
<1>9. ASSUME NEW p \in Procs, markFailed(p)
      PROVE  Work!Next
  <2>1. CASE OwnsRecord(p) /\ Exhausted(p)
    <3>1. /\ NextRecord(p) /\ pc[p] = "failing"
          /\ status' = [status EXCEPT ![cur[p]] = "FAILED"]
          /\ UNCHANGED <<attempts, published>>
      BY <1>9, <2>1 DEF markFailed
    <3>2. /\ cur[p] \in Alerts
          /\ Work!Latest(cur[p]) \in Records(p)
          /\ Work!Close(p, cur[p], "FAILED")
      BY <2>1, <3>1, CloseStep DEF InHand
    <3>3. attempts[cur[p]] = MaxAttempts
      <4>1. att[p] \in 0..MaxAttempts
        OBVIOUS
      <4>2. attempts[cur[p]] = att[p] /\ att[p] >= MaxAttempts
        BY <2>1 DEF OwnsRecord, Exhausted
      <4>3. \A n \in 0..MaxAttempts : n >= MaxAttempts => n = MaxAttempts
        BY MaxAttemptsType
      <4> QED
        BY <4>1, <4>2, <4>3, Zenon
    <3>4. Work!GiveUp(p, cur[p])
      BY <3>2, <3>3 DEF Work!GiveUp
    <3> QED
      BY <3>2, <3>4 DEF Work!Next
  <2>2. CASE OwnsRecord(p) /\ ~Exhausted(p)
    <3>1. /\ NextRecord(p)
          /\ status' = status
          /\ UNCHANGED <<attempts, published>>
      BY <1>9, <2>2 DEF markFailed, OwnsRecord
    <3>2. Records(p)' \subseteq Records(p) /\ Granted'[p] = {}
      BY <3>1 DEF NextRecord, Records, Granted
    <3>3. \A q \in Procs \ {p} : Records(q)' = Records(q) /\ Granted'[q] = Granted[q]
      BY <3>1 DEF NextRecord, Records, Granted
    <3> QED
      BY <3>1, <3>2, <3>3, LoseStep
  <2>3. CASE ~OwnsRecord(p)
    BY <1>9, <2>3, <1>over DEF markFailed
  <2> QED
    BY <2>1, <2>2, <2>3
<1>10. ASSUME NEW p \in Procs, RecordingThrows(p)
       PROVE  Work!Next
  BY <1>10, <1>7 DEF RecordingThrows, rowVars
<1>11. ASSUME NEW p \in Procs, FlushEnds(p) \/ FlushAborts(p) \/ Crash(p)
       PROVE  Work!Next
  BY <1>11, <1>over DEF FlushEnds, FlushAborts, Crash, rowVars
<1>12. CASE Tick \/ UNCHANGED vars
  BY <1>12, <1>same DEF Tick, vars, rowVars, flushVars
<1> QED
  BY <1>1, <1>2, <1>3, <1>4, <1>5, <1>6, <1>8, <1>9, <1>10, <1>11, <1>12
     DEF Next, FlushStep

\* The flushes keep the promise of a leased table, for any number of alerts, processes
\* and attempts: the attempts of an alert are begun one by one, each by one process,
\* and only the latest one settles it, for good.
THEOREM OutboxImplementsLeasedWork == Spec => ImplementsLeasedWork
<1>1. Init => Work!Init
  <2> SUFFICES ASSUME Init PROVE Work!Init
    OBVIOUS
  <2>1. Handed = [p \in Procs |-> {}] /\ Granted = [p \in Procs |-> {}]
    BY DEF Init, Handed, Records, Granted
  <2> QED
    BY <2>1 DEF Init, Work!Init, Handed, Granted
<1>2. IInv /\ IInv' /\ [Next]_vars => [Work!Next]_(Work!workVars)
  BY StepImplements
<1> QED
  BY <1>1, <1>2, OutboxInvariant, PTL DEF Spec, ImplementsLeasedWork, Work!Spec
=============================================================================
