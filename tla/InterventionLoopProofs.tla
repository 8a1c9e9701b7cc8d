----------------------- MODULE InterventionLoopProofs -----------------------
(***************************************************************************)
(* Safety of the intervention loop for every number of rows, processes,    *)
(* operator requests, challenges and keys, and for all its time bounds.    *)
(***************************************************************************)
EXTENDS InterventionLoop, TLAPS

\* What a pass remembers fits its point of control, and a scan never lies in
\* the future.
PassFits(p) ==
  /\ scannedAt[p] <= now
  /\ Working(p) => cur[p] \in Interventions /\ att[p] \in 1..MaxAttempts
PassInv == \A p \in Procs : PassFits(p)

\* The attempt of a claim never exceeds the row's count, and the pass that
\* holds the latest attempt of a REQUIRED row is the one on its lease.
ClaimFits(p) ==
  Working(p) =>
    /\ att[p] <= attempts[cur[p]]
    /\ (att[p] = attempts[cur[p]] /\ status[cur[p]] = "REQUIRED")
         => lease[cur[p]] = p /\ leaseExp[cur[p]] = exp[p]
ClaimInv == \A p \in Procs : ClaimFits(p)

Held(i) == <<i, "HELD">> \in effects
Passed(i) == \E c \in Challenges : chal[c].iv = i /\ chal[c].status = "PASSED"

\* A request in flight: its operation is allowed from the status it read, only
\* holds are held or released, and what it relies on has happened.
RequestFits(r) ==
  req[r].pc # "free" =>
    /\ req[r].iv \in Interventions
    /\ Exists(req[r].iv)
    /\ req[r].proc \in Procs
    /\ req[r].op # "none"
    /\ assertTransition(req[r].seen, NextStatus(req[r].op))
    /\ req[r].pc = "call" => req[r].key \in Keys /\ req[r].op \in {"hold", "release"}
    /\ req[r].op \in {"hold", "release"} => IsHold(req[r].iv)
    /\ (req[r].op = "hold" /\ req[r].pc = "update") => Held(req[r].iv)
    /\ req[r].op = "release" => Held(req[r].iv) /\ Passed(req[r].iv)
RequestInv == \A r \in Requests : RequestFits(r)

\* What an adapter remembers did happen; the executor's own keys stand for the
\* effect the executor wants, an operator's key for a hold or a release.
ReceiptFits(x) ==
  /\ <<x.iv, x.did>> \in effects
  /\ Exists(x.iv)
  /\ x.key[1] = "demo-dispatch" => x.key[2] = x.iv /\ x.did = ExecutorEffect(x.iv)
  /\ x.key[1] = "api" => x.did \in {"HELD", "RELEASED"}
ReceiptInv == \A x \in receipts : ReceiptFits(x)

\* A pass that reports a dispatch of a hold has held; nothing is released that
\* was not held and verified.
EffectInv ==
  /\ \A p \in Procs : pc[p] = "dispatched" => <<cur[p], ExecutorEffect(cur[p])>> \in effects
  /\ \A p \in Procs : Working(p) => Exists(cur[p])
  /\ \A i \in Interventions : <<i, "RELEASED">> \in effects => Held(i) /\ Passed(i)

\* A row that is not created yet is in its initial status.
AbsentInv == \A i \in Interventions : ~Exists(i) => status[i] = "REQUIRED"

IInv ==
  /\ TypeOK
  /\ PassInv
  /\ ClaimInv
  /\ AttemptClaimedOnce
  /\ LeaseExcludes
  /\ ResolvedIsQuiescent
  /\ RequestInv
  /\ ReceiptInv
  /\ EffectInv
  /\ AbsentInv
  /\ HoldBeforeInProgress
  /\ ReleaseNeedsVerification

-----------------------------------------------------------------------------
(* Small facts.                                                            *)

\* The bound on the attempts is a number.
LEMMA MaxAttemptsType == MaxAttempts \in Nat
BY BoundsAssumption

\* An instant computed from now is an instant.
LEMMA AfterType == ASSUME now \in Nat, NEW d \in Nat PROVE After(d) \in Nat
BY BoundsAssumption DEF After

\* Moving a request on to its update keeps everything it remembers.
LEMMA RequestPc ==
  ASSUME NEW x \in RequestState
  PROVE  LET y == [x EXCEPT !.pc = "update"] IN
         /\ y \in RequestState
         /\ y.pc = "update" /\ y.proc = x.proc /\ y.op = x.op
         /\ y.iv = x.iv /\ y.key = x.key /\ y.seen = x.seen
BY DEF RequestState

\* Settling a challenge keeps what it is about.
LEMMA ChallengeStatus ==
  ASSUME NEW x \in ChallengeState, NEW st \in {"NONE", "PENDING", "PASSED", "FAILED", "EXPIRED"}
  PROVE  LET y == [x EXCEPT !.status = st] IN
         y \in ChallengeState /\ y.status = st /\ y.iv = x.iv /\ y.exp = x.exp
BY DEF ChallengeState

\* What a call of an adapter leaves behind: at most one receipt and its effect
\* are new, and the key is remembered.
Performed(p, key, i, what) ==
  /\ receipts' \in SUBSET Receipt
  /\ effects' \in SUBSET Effect
  /\ effects' \subseteq effects \cup {<<i, what>>}
  /\ \A x \in receipts' :
       \/ x \in receipts
       \/ x.key = key /\ x.iv = i /\ x.did = what /\ <<i, what>> \in effects'
  /\ <<i, what>> \in effects' \/ \E x \in receipts : x.proc = p /\ x.key = key

\* Perform does that.
LEMMA PerformEffect ==
  ASSUME receipts \in SUBSET Receipt, effects \in SUBSET Effect,
         NEW p \in Procs, NEW key \in AdapterKey, NEW i \in Interventions,
         NEW what \in {"HELD", "RELEASED", "RECORDED"}, Perform(p, key, i, what)
  PROVE  Performed(p, key, i, what)
<1> DEFINE new == [proc |-> p, key |-> key, iv |-> i, did |-> what]
<1>1. new \in Receipt /\ new.key = key /\ new.iv = i /\ new.did = what
  BY DEF Receipt
<1>2. <<i, what>> \in Effect
  BY DEF Effect
<1>3. CASE Remembered(p, key) = {}
  <2>1. receipts' = receipts \cup {new} /\ effects' = effects \cup {<<i, what>>}
    BY <1>3 DEF Perform
  <2> QED
    BY <1>1, <1>2, <2>1 DEF Performed
<1>4. CASE Remembered(p, key) # {}
  BY <1>4 DEF Perform, Remembered, Performed
<1> QED
  BY <1>3, <1>4

-----------------------------------------------------------------------------
(* Type correctness, together with what passes and requests remember.      *)

\* Every step of an executor keeps the types and the shape of its memory.
LEMMA ExecutorType ==
  ASSUME TypeOK, PassInv, NEW p \in Procs,
         ExecutorStep(p) \/ RecordingThrows(p) \/ PassAborts(p)
  PROVE  TypeOK' /\ PassInv' /\ req' = req
<1> USE DEF TypeOK, Control
<1>fits. \A q \in Procs : PassFits(q)
  BY DEF PassInv
\* A step of process p leaves the memory of the others alone.
<1>frame. ASSUME PassFits(p)', now' = now,
                 \A q \in Procs \ {p} : /\ pc'[q] = pc[q]
                                       /\ scannedAt'[q] = scannedAt[q]
                                       /\ cur'[q] = cur[q]
                                       /\ att'[q] = att[q]
          PROVE  PassInv'
  BY <1>fits, <1>frame DEF PassInv, PassFits, Working
<1>1. CASE Scan(p)
  <2>1. PICK batch \in SUBSET {i \in Interventions : Dispatchable(i)} :
          todo' = [todo EXCEPT ![p] = {<<i, attempts[i]>> : i \in batch}]
    BY <1>1 DEF Scan
  <2>2. {<<i, attempts[i]>> : i \in batch} \in SUBSET (Interventions \X (0..MaxAttempts - 1))
    BY MaxAttemptsType DEF Dispatchable
  <2>3. /\ pc' = [pc EXCEPT ![p] = "loop"]
        /\ scannedAt' = [scannedAt EXCEPT ![p] = now]
        /\ UNCHANGED <<rowVars, chal, cur, att, exp, req, receipts, effects, now, faults>>
    BY <1>1 DEF Scan
  <2>4. TypeOK'
    BY <2>1, <2>2, <2>3 DEF rowVars
  <2>5. PassFits(p)'
    BY <2>3 DEF PassFits, Working
  <2> QED
    BY <1>frame, <2>3, <2>4, <2>5
<1>2. ASSUME NEW i \in Interventions, NEW n \in 0..MaxAttempts - 1, Claim(p, i, n)
      PROVE  TypeOK' /\ PassInv' /\ req' = req
  <2>1. CASE ClaimWins(p, i, n)
    <3>1. After(LeaseLen) \in Nat
      BY AfterType, BoundsAssumption
    <3>2. TypeOK'
      <4>1. n + 1 \in 0..MaxAttempts /\ attempts[i] = n
        BY <2>1, MaxAttemptsType DEF ClaimWins
      <4>2. /\ attempts' = [attempts EXCEPT ![i] = n + 1]
            /\ att' = [att EXCEPT ![p] = n + 1]
        BY <1>2, <2>1, <4>1 DEF Claim
      <4>3. /\ nextAt' = [nextAt EXCEPT ![i] = 0]
            /\ lease' = [lease EXCEPT ![i] = p]
            /\ leaseExp' = [leaseExp EXCEPT ![i] = After(LeaseLen)]
            /\ todo' = [todo EXCEPT ![p] = @ \ {<<i, n>>}]
            /\ pc' = [pc EXCEPT ![p] = "claimed"]
            /\ cur' = [cur EXCEPT ![p] = i]
            /\ exp' = [exp EXCEPT ![p] = After(LeaseLen)]
            /\ UNCHANGED <<kind, status, expiresAt, resolved, deadLettered, scannedAt, chal,
                           req, receipts, effects, now, faults>>
        BY <1>2, <2>1 DEF Claim
      <4> QED
        BY <3>1, <4>1, <4>2, <4>3
    <3>3. PassFits(p)'
      BY <1>2, <2>1, <1>fits, MaxAttemptsType DEF Claim, PassFits, Working
    <3> QED
      BY <1>2, <2>1, <1>frame, <3>2, <3>3 DEF Claim
  <2>2. CASE ~ClaimWins(p, i, n)
    BY <1>2, <2>2 DEF Claim, PassInv, PassFits, Working
  <2> QED
    BY <2>1, <2>2
<1>next. ASSUME NextCandidate(p), now' = now
         PROVE  PassInv'
  <2>1. PassFits(p)'
    BY <1>next, <1>fits DEF NextCandidate, PassFits, Working
  <2> QED
    BY <1>frame, <1>next, <2>1 DEF NextCandidate
<1>over. ASSUME PassOver(p), now' = now
         PROVE  PassInv'
  <2>1. PassFits(p)'
    BY <1>over DEF PassOver, PassFits, Working
  <2> QED
    BY <1>frame, <1>over, <2>1 DEF PassOver
<1>call. ASSUME pc[p] = "claimed", Perform(p, <<"demo-dispatch", cur[p]>>, cur[p], ExecutorEffect(cur[p]))
         PROVE  receipts' \in SUBSET Receipt /\ effects' \in SUBSET Effect
  <2>1. cur[p] \in Interventions
    BY <1>call, <1>fits DEF PassFits, Working
  <2>2. <<"demo-dispatch", cur[p]>> \in AdapterKey
    BY <2>1 DEF AdapterKey
  <2>3. ExecutorEffect(cur[p]) \in {"HELD", "RELEASED", "RECORDED"}
    BY DEF ExecutorEffect
  <2> QED
    <3>1. receipts \in SUBSET Receipt /\ effects \in SUBSET Effect
      OBVIOUS
    <3> HIDE DEF TypeOK
    <3> QED
      BY <1>call, <2>1, <2>2, <2>3, <3>1, PerformEffect DEF Performed
<1>pc. ASSUME NEW at \in Control, pc' = [pc EXCEPT ![p] = at], Working(p),
              UNCHANGED <<scannedAt, cur, att, now>>
       PROVE  PassInv'
  BY <1>pc, <1>fits DEF PassInv, PassFits, Working
<1>3. CASE Dispatch(p)
  BY <1>3, <1>call, <1>pc DEF Dispatch, rowVars, Working
<1>4. CASE DispatchRejects(p)
  BY <1>4, <1>call, <1>pc DEF DispatchRejects, rowVars, Working
<1>5. CASE Complete(p)
  <2>1. TypeOK'
    BY <1>5, SMTT(30) DEF Complete, Status
  <2> QED
    BY <1>5, <2>1, <1>pc DEF Complete, Working
<1>6. CASE AuditDispatched(p)
  <2>1. TypeOK'
    BY <1>6, MaxAttemptsType DEF AuditDispatched, NextCandidate, rowVars
  <2> QED
    BY <1>6, <2>1, <1>next DEF AuditDispatched
<1>7. CASE RecordingThrows(p)
  BY <1>7, <1>pc DEF RecordingThrows, rowVars, Working
<1>8. CASE FailAttempt(p)
  <2>1. After(Backoff[att[p]]) \in Nat
    BY <1>8, <1>fits, AfterType, BoundsAssumption DEF FailAttempt, PassFits, Working
  <2>2. CASE PassOver(p) /\ UNCHANGED <<status, nextAt, lease, leaseExp, deadLettered>>
    <3>1. TypeOK'
      BY <1>8, <2>2, MaxAttemptsType DEF FailAttempt, PassOver
    <3> QED
      BY <1>8, <2>2, <3>1, <1>over DEF FailAttempt
  <2>3. CASE NextCandidate(p)
    <3>1. TypeOK'
      <4>1. /\ pc' \in [Procs -> Control]
            /\ cur' \in [Procs -> Interventions \cup {None}]
            /\ att' \in [Procs -> 0..MaxAttempts]
            /\ exp' \in [Procs -> Nat]
            /\ UNCHANGED <<scannedAt, todo>>
        BY <2>3, MaxAttemptsType DEF NextCandidate
      <4>2. /\ status' \in [Interventions -> Status]
            /\ nextAt' \in [Interventions -> Nat]
            /\ lease' \in [Interventions -> Procs \cup {None}]
            /\ leaseExp' \in [Interventions -> Nat]
            /\ deadLettered' \in [Interventions -> BOOLEAN]
        <5>1. Exhausted(p) \in BOOLEAN
          BY DEF Exhausted
        <5> DEFINE st == IF Exhausted(p) THEN "FAILED" ELSE "REQUIRED"
                   t == IF Exhausted(p) THEN 0 ELSE After(Backoff[att[p]])
        <5>2. st \in Status /\ t \in Nat
          BY <2>1 DEF Status
        <5>3. \/ UNCHANGED <<status, nextAt, lease, leaseExp, deadLettered>>
              \/ /\ status' = [status EXCEPT ![cur[p]] = st]
                 /\ nextAt' = [nextAt EXCEPT ![cur[p]] = t]
                 /\ lease' = [lease EXCEPT ![cur[p]] = None]
                 /\ leaseExp' = [leaseExp EXCEPT ![cur[p]] = 0]
                 /\ deadLettered' = [deadLettered EXCEPT ![cur[p]] = Exhausted(p)]
          BY <1>8, Zenon DEF FailAttempt
        <5> HIDE DEF st, t
        <5> QED
          BY <5>1, <5>2, <5>3, SMTT(30)
      <4> QED
        BY <1>8, <4>1, <4>2 DEF FailAttempt
    <3> QED
      BY <1>8, <2>3, <3>1, <1>next DEF FailAttempt
  <2> QED
    BY <1>8, <2>2, <2>3 DEF FailAttempt
<1>9. CASE EndPass(p) \/ PassAborts(p)
  <2>1. /\ PassOver(p) /\ faults' \in Nat
        /\ UNCHANGED <<rowVars, chal, req, receipts, effects, now>>
    BY <1>9 DEF EndPass, PassAborts
  <2>2. TypeOK'
    BY <2>1, MaxAttemptsType DEF PassOver, rowVars
  <2> QED
    BY <2>1, <2>2, <1>over
<1> QED
  BY <1>1, <1>2, <1>3, <1>4, <1>5, <1>6, <1>7, <1>8, <1>9 DEF ExecutorStep

\* The operator requests: every read opens a request of the right type.
LEMMA OpenedType ==
  ASSUME TypeOK, NEW r \in Requests, NEW p \in Procs, NEW i \in Interventions,
         NEW op \in {"acknowledge", "cancel", "hold", "release"},
         NEW key \in Keys \cup {None}, NEW at \in {"call", "update"},
         Opened(r, p, op, i, key, at)
  PROVE  req' \in [Requests -> RequestState]
<1> DEFINE new == [pc |-> at, proc |-> p, op |-> op, iv |-> i, key |-> key,
                   seen |-> status[i]]
<1>1. new \in RequestState
  BY DEF RequestState, TypeOK
<1>2. req' = [req EXCEPT ![r] = new]
  BY DEF Opened
<1> QED
  BY <1>1, <1>2 DEF TypeOK

\* A request that ends leaves its slot free.
LEMMA FreeType ==
  ASSUME TypeOK, NEW r \in Requests, req' = [req EXCEPT ![r] = Free]
  PROVE  /\ req' \in [Requests -> RequestState]
         /\ \A q \in Requests \ {r} : req'[q] = req[q]
         /\ req'[r].pc = "free"
<1>1. Free \in RequestState /\ Free.pc = "free"
  BY DEF Free, RequestState, Status
<1> QED
  BY <1>1 DEF TypeOK

\* A request whose adapter call returned goes on to its update.
LEMMA MoveType ==
  ASSUME TypeOK, NEW r \in Requests, req' = [req EXCEPT ![r].pc = "update"]
  PROVE  /\ req' \in [Requests -> RequestState]
         /\ \A q \in Requests \ {r} : req'[q] = req[q]
         /\ req'[r].pc = "update" /\ req'[r].proc = req[r].proc /\ req'[r].op = req[r].op
         /\ req'[r].iv = req[r].iv /\ req'[r].key = req[r].key /\ req'[r].seen = req[r].seen
<1>1. req[r] \in RequestState
  BY DEF TypeOK
<1> DEFINE y == [req[r] EXCEPT !.pc = "update"]
<1>2. /\ y \in RequestState
      /\ y.pc = "update" /\ y.proc = req[r].proc /\ y.op = req[r].op
      /\ y.iv = req[r].iv /\ y.key = req[r].key /\ y.seen = req[r].seen
  BY <1>1, RequestPc
<1>3. req' = [req EXCEPT ![r] = y]
  OBVIOUS
<1> HIDE DEF y
<1> QED
  BY <1>2, <1>3 DEF TypeOK

\* The adapter call of a request.
LEMMA CallType ==
  ASSUME TypeOK, RequestInv, NEW r \in Requests, req[r].pc = "call",
         Perform(req[r].proc, <<"api", req[r].key>>, req[r].iv,
                 IF req[r].op = "hold" THEN "HELD" ELSE "RELEASED")
  PROVE  receipts' \in SUBSET Receipt /\ effects' \in SUBSET Effect
<1>1. req[r].proc \in Procs /\ req[r].key \in Keys /\ req[r].iv \in Interventions
  BY DEF RequestInv, RequestFits
<1>2. <<"api", req[r].key>> \in AdapterKey
  BY <1>1 DEF AdapterKey
<1>3. (IF req[r].op = "hold" THEN "HELD" ELSE "RELEASED") \in {"HELD", "RELEASED", "RECORDED"}
  OBVIOUS
<1>4. receipts \in SUBSET Receipt /\ effects \in SUBSET Effect
  BY DEF TypeOK
<1> QED
  BY <1>1, <1>2, <1>3, <1>4, PerformEffect DEF Performed

\* Every other step keeps the types, and leaves the passes alone or ends one.
LEMMA RequestType ==
  ASSUME TypeOK, PassInv, RequestInv, NEW r \in Requests, RequestStep(r)
  PROVE  TypeOK' /\ UNCHANGED <<passVars, now>>
<1>1. ASSUME NEW p \in Procs, NEW i \in Interventions, ReadAcknowledge(r, p, i)
      PROVE  TypeOK' /\ UNCHANGED <<passVars, now>>
  <2>1. req' \in [Requests -> RequestState]
    BY <1>1, OpenedType DEF ReadAcknowledge
  <2> QED
    BY <1>1, <2>1 DEF ReadAcknowledge, TypeOK, rowVars, passVars
<1>2. ASSUME NEW p \in Procs, NEW i \in Interventions, ReadCancel(r, p, i)
      PROVE  TypeOK' /\ UNCHANGED <<passVars, now>>
  <2>1. req' \in [Requests -> RequestState]
    BY <1>2, OpenedType DEF ReadCancel
  <2> QED
    BY <1>2, <2>1 DEF ReadCancel, TypeOK, rowVars, passVars
<1>3. ASSUME NEW p \in Procs, NEW i \in Interventions, NEW k \in Keys, ReadHold(r, p, i, k)
      PROVE  TypeOK' /\ UNCHANGED <<passVars, now>>
  <2>1. req' \in [Requests -> RequestState]
    BY <1>3, OpenedType DEF ReadHold
  <2> QED
    BY <1>3, <2>1 DEF ReadHold, TypeOK, rowVars, passVars
<1>4. ASSUME NEW p \in Procs, NEW i \in Interventions, NEW k \in Keys,
             NEW c \in Challenges, ReadRelease(r, p, i, k, c)
      PROVE  TypeOK' /\ UNCHANGED <<passVars, now>>
  <2>1. req' \in [Requests -> RequestState]
    BY <1>4, OpenedType DEF ReadRelease
  <2> QED
    BY <1>4, <2>1 DEF ReadRelease, TypeOK, rowVars, passVars
<1>5. CASE ProviderCall(r)
  <2>1. req' \in [Requests -> RequestState]
    BY <1>5, MoveType DEF ProviderCall
  <2>2. receipts' \in SUBSET Receipt /\ effects' \in SUBSET Effect
    BY <1>5, CallType DEF ProviderCall
  <2> QED
    BY <1>5, <2>1, <2>2 DEF ProviderCall, TypeOK, rowVars, passVars
<1>6. CASE ProviderRejects(r)
  <2>1. req' \in [Requests -> RequestState]
    BY <1>6, FreeType DEF ProviderRejects
  <2>2. receipts' \in SUBSET Receipt /\ effects' \in SUBSET Effect
    BY <1>6, CallType DEF ProviderRejects, TypeOK
  <2> QED
    BY <1>6, <2>1, <2>2 DEF ProviderRejects, TypeOK, rowVars, passVars
<1>7. CASE updateInterventionStatus(r)
  <2>1. req' \in [Requests -> RequestState]
    BY <1>7, FreeType DEF updateInterventionStatus
  <2>2. req[r].iv \in Interventions
    BY <1>7 DEF updateInterventionStatus, RequestInv, RequestFits
  <2>3. NextStatus(req[r].op) \in Status
    BY DEF NextStatus, Status
  <2>4. UNCHANGED <<kind, attempts, expiresAt, deadLettered, chal, passVars, receipts,
                    effects, now, faults>>
    BY <1>7 DEF updateInterventionStatus
  <2>5. CASE UNCHANGED <<status, resolved, lease, leaseExp, nextAt>>
    BY <2>1, <2>4, <2>5 DEF TypeOK, passVars
  <2>6. CASE /\ status' = [status EXCEPT ![req[r].iv] = NextStatus(req[r].op)]
             /\ UNCHANGED <<resolved, lease, leaseExp, nextAt>>
    BY <2>1, <2>2, <2>3, <2>4, <2>6 DEF TypeOK, passVars
  <2>7. CASE /\ status' = [status EXCEPT ![req[r].iv] = NextStatus(req[r].op)]
             /\ resolved' = [resolved EXCEPT ![req[r].iv] = TRUE]
             /\ lease' = [lease EXCEPT ![req[r].iv] = None]
             /\ leaseExp' = [leaseExp EXCEPT ![req[r].iv] = 0]
             /\ nextAt' = [nextAt EXCEPT ![req[r].iv] = 0]
    BY <2>1, <2>2, <2>3, <2>4, <2>7 DEF TypeOK, passVars
  <2> QED
    BY <1>7, <2>4, <2>5, <2>6, <2>7 DEF updateInterventionStatus
<1> QED
  BY <1>1, <1>2, <1>3, <1>4, <1>5, <1>6, <1>7 DEF RequestStep

\* Creation, challenges, maintenance, crash and time keep the types.
LEMMA EnvironmentType ==
  ASSUME TypeOK, PassInv,
         \/ \E i \in Interventions, k \in Kinds : Require(i, k)
         \/ \E p \in Procs : Crash(p)
         \/ \E c \in Challenges :
              \/ \E i \in Interventions : RequestChallenge(c, i)
              \/ \E result \in {"PASSED", "FAILED"} : CompleteChallenge(c, result)
         \/ expireStaleRecords
         \/ Tick
         \/ UNCHANGED vars
  PROVE  TypeOK' /\ PassInv'
<1>same. ASSUME UNCHANGED passVars, now' \in Nat, now <= now'
         PROVE  PassInv'
  BY <1>same DEF PassInv, PassFits, Working, passVars, TypeOK
<1>now. now \in Nat /\ now <= now
  BY DEF TypeOK
<1>1. ASSUME NEW i \in Interventions, NEW k \in Kinds, Require(i, k)
      PROVE  TypeOK' /\ PassInv'
  <2>1. After(Ttl) \in Nat
    BY AfterType, BoundsAssumption DEF TypeOK
  <2>2. PICK t \in Nat : expiresAt' = [expiresAt EXCEPT ![i] = t]
    BY <1>1, <2>1 DEF Require
  <2>3. TypeOK'
    BY <1>1, <2>2 DEF Require, TypeOK, passVars
  <2> QED
    BY <1>1, <2>3, <1>same, <1>now DEF Require
<1>2. ASSUME NEW p \in Procs, Crash(p)
      PROVE  TypeOK' /\ PassInv'
  <2>1. PassOver(p) /\ UNCHANGED <<rowVars, chal, effects, now>>
    BY <1>2 DEF Crash
  <2>2. /\ pc' \in [Procs -> Control] /\ scannedAt' \in [Procs -> Nat]
        /\ todo' \in [Procs -> SUBSET (Interventions \X (0..MaxAttempts - 1))]
        /\ cur' \in [Procs -> Interventions \cup {None}]
        /\ att' \in [Procs -> 0..MaxAttempts] /\ exp' \in [Procs -> Nat]
    BY <2>1, MaxAttemptsType DEF PassOver, TypeOK, Control
  <2>3. Free \in RequestState
    BY DEF Free, RequestState, Status
  <2>4. /\ req' \in [Requests -> RequestState]
        /\ receipts' \in SUBSET Receipt
        /\ faults' \in Nat
    BY <1>2, <2>3 DEF Crash, TypeOK
  <2>5. TypeOK'
    BY <2>1, <2>2, <2>4 DEF TypeOK, rowVars
  <2>6. PassInv'
    BY <2>1 DEF PassOver, PassInv, PassFits, Working, TypeOK
  <2> QED
    BY <2>5, <2>6
<1>3. ASSUME NEW c \in Challenges, NEW i \in Interventions, RequestChallenge(c, i)
      PROVE  TypeOK' /\ PassInv'
  <2>1. After(ChallengeTtl) \in Nat
    BY AfterType, BoundsAssumption DEF TypeOK
  <2>2. [status |-> "PENDING", iv |-> i, exp |-> After(ChallengeTtl)] \in ChallengeState
    BY <2>1 DEF ChallengeState
  <2>3. TypeOK'
    BY <1>3, <2>2 DEF RequestChallenge, TypeOK, rowVars, passVars
  <2> QED
    BY <1>3, <2>3, <1>same, <1>now DEF RequestChallenge
<1>4. ASSUME NEW c \in Challenges, NEW result \in {"PASSED", "FAILED"},
             CompleteChallenge(c, result)
      PROVE  TypeOK' /\ PassInv'
  <2>1. [chal[c] EXCEPT !.status = result] \in ChallengeState
    BY ChallengeStatus DEF TypeOK
  <2>2. chal' \in [Challenges -> ChallengeState]
    BY <1>4, <2>1 DEF CompleteChallenge, TypeOK
  <2>3. TypeOK'
    BY <1>4, <2>2 DEF CompleteChallenge, TypeOK, rowVars, passVars
  <2> QED
    BY <1>4, <2>3, <1>same, <1>now DEF CompleteChallenge
<1>5. CASE expireStaleRecords
  <2>1. \A c \in Challenges : [chal[c] EXCEPT !.status = "EXPIRED"] \in ChallengeState
    BY ChallengeStatus DEF TypeOK
  <2>2. chal' \in [Challenges -> ChallengeState]
    BY <1>5, <2>1 DEF expireStaleRecords, TypeOK
  <2>3. /\ status' \in [Interventions -> Status]
        /\ lease' \in [Interventions -> Procs \cup {None}]
        /\ leaseExp' \in [Interventions -> Nat]
        /\ nextAt' \in [Interventions -> Nat]
    BY <1>5 DEF expireStaleRecords, TypeOK, Status
  <2>4. \A i \in Interventions : StaleRow(i) \in BOOLEAN
    BY DEF StaleRow, Exists
  <2>5. resolved' \in [Interventions -> BOOLEAN]
    BY <1>5, <2>4 DEF expireStaleRecords, TypeOK
  <2>6. TypeOK'
    BY <1>5, <2>2, <2>3, <2>5 DEF expireStaleRecords, TypeOK, passVars
  <2> QED
    BY <1>5, <2>6, <1>same, <1>now DEF expireStaleRecords
<1>6. CASE Tick
  <2>1. TypeOK'
    BY <1>6 DEF Tick, TypeOK, rowVars, passVars
  <2> QED
    BY <1>6, <2>1, <1>same DEF Tick, TypeOK
<1>7. CASE UNCHANGED vars
  <2>1. TypeOK'
    BY <1>7 DEF vars, TypeOK, rowVars, passVars
  <2> QED
    BY <1>7, <2>1, <1>same, <1>now DEF vars
<1> QED
  BY <1>1, <1>2, <1>3, <1>4, <1>5, <1>6, <1>7

\* Every step keeps the types and the shape of the passes' memories.
LEMMA TypeNext ==
  ASSUME TypeOK, PassInv, RequestInv, [Next]_vars
  PROVE  TypeOK' /\ PassInv'
<1>1. ASSUME NEW r \in Requests, RequestStep(r)
      PROVE  TypeOK' /\ PassInv'
  BY <1>1, RequestType DEF PassInv, PassFits, Working, passVars
<1> QED
  BY <1>1, ExecutorType, EnvironmentType DEF Next

-----------------------------------------------------------------------------
(* What no step undoes.                                                    *)

\* A row keeps its kind once it has one, an effect stays, a passed challenge
\* stays passed, and only the creation of a row changes kinds.
Lasting ==
  /\ effects \subseteq effects'
  /\ \A i \in Interventions : Exists(i) => kind'[i] = kind[i]
  /\ \A c \in Challenges :
       chal[c].status = "PASSED" => chal'[c].status = "PASSED" /\ chal'[c].iv = chal[c].iv

\* No step of the loop undoes an effect, a kind or a passed challenge.
LEMMA LastingNext ==
  ASSUME TypeOK, PassInv, RequestInv, [Next]_vars
  PROVE  Lasting
<1>same. ASSUME UNCHANGED <<kind, chal>>, effects \subseteq effects'
         PROVE  Lasting
  BY <1>same DEF Lasting
<1>perform. ASSUME NEW p, NEW key, NEW i, NEW what, Perform(p, key, i, what)
            PROVE  effects \subseteq effects'
  BY <1>perform DEF Perform
<1>1. ASSUME NEW i \in Interventions, NEW k \in Kinds, Require(i, k)
      PROVE  Lasting
  BY <1>1 DEF Require, Lasting, Exists, TypeOK
<1>2. ASSUME NEW p \in Procs, Crash(p) \/ RecordingThrows(p) \/ PassAborts(p)
      PROVE  Lasting
  BY <1>2, <1>same DEF Crash, RecordingThrows, PassAborts, rowVars
<1>3. ASSUME NEW p \in Procs, ExecutorStep(p)
      PROVE  Lasting
  <2>1. UNCHANGED <<kind, chal>>
    BY <1>3 DEF ExecutorStep, Scan, Claim, EndPass, Dispatch, DispatchRejects, Complete,
       AuditDispatched, FailAttempt, rowVars
  <2>2. effects \subseteq effects'
    BY <1>3, <1>perform DEF ExecutorStep, Scan, Claim, EndPass, Dispatch, DispatchRejects,
       Complete, AuditDispatched, FailAttempt
  <2> QED
    BY <2>1, <2>2, <1>same
<1>4. ASSUME NEW r \in Requests, RequestStep(r)
      PROVE  Lasting
  <2>1. UNCHANGED <<kind, chal>>
    BY <1>4 DEF RequestStep, ReadAcknowledge, ReadCancel, ReadHold, ReadRelease,
       ProviderCall, ProviderRejects, updateInterventionStatus, rowVars
  <2>2. effects \subseteq effects'
    BY <1>4, <1>perform DEF RequestStep, ReadAcknowledge, ReadCancel, ReadHold, ReadRelease,
       ProviderCall, ProviderRejects, updateInterventionStatus
  <2> QED
    BY <2>1, <2>2, <1>same
<1>5. ASSUME NEW c \in Challenges, NEW i \in Interventions, RequestChallenge(c, i)
      PROVE  Lasting
  BY <1>5 DEF RequestChallenge, Lasting, TypeOK, rowVars
<1>6. ASSUME NEW c \in Challenges, NEW result \in {"PASSED", "FAILED"},
             CompleteChallenge(c, result)
      PROVE  Lasting
  <2>1. UNCHANGED <<kind, effects>>
    BY <1>6 DEF CompleteChallenge, rowVars
  <2>2. \A d \in Challenges : d # c => chal'[d] = chal[d]
    BY <1>6 DEF CompleteChallenge, TypeOK
  <2>3. chal[c].status # "PASSED"
    BY <1>6 DEF CompleteChallenge
  <2> QED
    BY <2>1, <2>2, <2>3 DEF Lasting
<1>7. CASE expireStaleRecords
  <2>1. UNCHANGED <<kind, effects>>
    BY <1>7 DEF expireStaleRecords
  <2>2. \A d \in Challenges : chal[d].status # "PENDING" => chal'[d] = chal[d]
    BY <1>7 DEF expireStaleRecords, StaleChallenge
  <2> QED
    BY <2>1, <2>2 DEF Lasting
<1>8. CASE Tick \/ UNCHANGED vars
  BY <1>8, <1>same DEF Tick, vars, rowVars
<1> QED
  BY <1>1, <1>2, <1>3, <1>4, <1>5, <1>6, <1>7, <1>8 DEF Next

-----------------------------------------------------------------------------
(* Claims, leases and fencing.                                             *)

Fencing == ClaimInv /\ AttemptClaimedOnce /\ LeaseExcludes

\* A step that takes no row and starts no work preserves the fencing, also when
\* it moves a row out of REQUIRED under a pass that is still at work on it.
LEMMA KeepsClaims ==
  ASSUME TypeOK, PassInv, TypeOK', Fencing,
         attempts' = attempts, now <= now',
         \A q \in Procs : Working(q)' =>
           /\ Working(q)
           /\ cur'[q] = cur[q] /\ att'[q] = att[q] /\ exp'[q] = exp[q]
           /\ (att[q] = attempts[cur[q]] /\ status'[cur[q]] = "REQUIRED")
                => /\ status[cur[q]] = "REQUIRED"
                   /\ lease'[cur[q]] = lease[cur[q]]
                   /\ leaseExp'[cur[q]] = leaseExp[cur[q]]
  PROVE  Fencing'
<1>1. ClaimInv'
  BY DEF Fencing, ClaimInv, ClaimFits
<1>2. AttemptClaimedOnce'
  BY DEF Fencing, AttemptClaimedOnce
<1>3. LeaseExcludes'
  <2> SUFFICES ASSUME NEW q \in Procs, Working(q)', att'[q] < attempts'[cur'[q]]
               PROVE  exp'[q] <= now'
    BY DEF LeaseExcludes
  <2>1. exp[q] <= now
    BY DEF Fencing, LeaseExcludes
  <2> QED
    BY <2>1 DEF TypeOK
<1> QED
  BY <1>1, <1>2, <1>3 DEF Fencing

\* The claim: a pass takes the next attempt of a row that nobody holds under a
\* lease that still runs.
LEMMA ClaimFences ==
  ASSUME TypeOK, PassInv, TypeOK', PassInv', Fencing,
         NEW p \in Procs, NEW i \in Interventions, NEW n \in 0..MaxAttempts - 1,
         Claim(p, i, n), ClaimWins(p, i, n)
  PROVE  Fencing'
<1>1. /\ pc[p] = "loop"
      /\ attempts' = [attempts EXCEPT ![i] = n + 1]
      /\ lease' = [lease EXCEPT ![i] = p]
      /\ leaseExp' = [leaseExp EXCEPT ![i] = After(LeaseLen)]
      /\ pc' = [pc EXCEPT ![p] = "claimed"]
      /\ cur' = [cur EXCEPT ![p] = i]
      /\ att' = [att EXCEPT ![p] = n + 1]
      /\ exp' = [exp EXCEPT ![p] = After(LeaseLen)]
      /\ UNCHANGED <<status, scannedAt, now>>
  BY DEF Claim, ClaimWins
<1>2. attempts[i] = n /\ status[i] = "REQUIRED" /\ LeaseFree(i, scannedAt[p])
  BY DEF ClaimWins
<1>3. \A q \in Procs : q # p =>
        /\ pc'[q] = pc[q] /\ cur'[q] = cur[q] /\ att'[q] = att[q] /\ exp'[q] = exp[q]
        /\ Working(q)' = Working(q)
  BY <1>1 DEF TypeOK, Working
<1>4. cur'[p] = i /\ att'[p] = n + 1 /\ exp'[p] = After(LeaseLen)
  BY <1>1 DEF TypeOK
<1>5. \A q \in Procs : Working(q) =>
        cur[q] \in Interventions /\ att[q] \in Nat /\ att[q] <= attempts[cur[q]]
  BY MaxAttemptsType DEF PassInv, PassFits, Fencing, ClaimInv, ClaimFits
<1>6. \A q \in Procs : (Working(q) /\ cur[q] = i) => att[q] <= n
  BY <1>2, <1>5
<1>7. ClaimInv'
  <2> SUFFICES ASSUME NEW q \in Procs, Working(q)'
               PROVE  /\ att'[q] <= attempts'[cur'[q]]
                      /\ (att'[q] = attempts'[cur'[q]] /\ status'[cur'[q]] = "REQUIRED")
                           => lease'[cur'[q]] = q /\ leaseExp'[cur'[q]] = exp'[q]
    BY DEF ClaimInv, ClaimFits
  <2>1. CASE q = p
    BY <2>1, <1>1, <1>4 DEF TypeOK
  <2>2. CASE q # p /\ cur[q] = i
    BY <2>2, <1>1, <1>3, <1>6, <1>5 DEF TypeOK
  <2>3. CASE q # p /\ cur[q] # i
    BY <2>3, <1>1, <1>3, <1>5 DEF TypeOK, Fencing, ClaimInv, ClaimFits
  <2> QED
    BY <2>1, <2>2, <2>3
<1>8. AttemptClaimedOnce'
  <2> SUFFICES ASSUME NEW q \in Procs, NEW r \in Procs, q # r, Working(q)', Working(r)',
                      cur'[q] = cur'[r]
               PROVE  att'[q] # att'[r]
    BY DEF AttemptClaimedOnce
  <2>1. CASE q = p
    BY <2>1, <1>3, <1>4, <1>5, <1>6
  <2>2. CASE r = p
    BY <2>2, <1>3, <1>4, <1>5, <1>6
  <2>3. CASE q # p /\ r # p
    BY <2>3, <1>3 DEF Fencing, AttemptClaimedOnce
  <2> QED
    BY <2>1, <2>2, <2>3
<1>9. LeaseExcludes'
  <2> SUFFICES ASSUME NEW q \in Procs, Working(q)', att'[q] < attempts'[cur'[q]]
               PROVE  exp'[q] <= now
    BY <1>1 DEF LeaseExcludes
  <2>1. q # p
    BY <1>1, <1>4 DEF TypeOK
  <2>2. exp'[q] = exp[q] /\ Working(q) /\ att'[q] = att[q] /\ cur'[q] = cur[q]
    BY <2>1, <1>3
  <2>3. CASE att[q] < attempts[cur[q]]
    BY <2>2, <2>3 DEF Fencing, LeaseExcludes
  <2>4. CASE att[q] = attempts[cur[q]]
    <3>1. cur[q] = i
      BY <1>1, <1>5, <2>2, <2>4 DEF TypeOK
    <3>2. lease[i] = q /\ leaseExp[i] = exp[q]
      BY <1>2, <2>2, <2>4, <3>1 DEF Fencing, ClaimInv, ClaimFits
    <3>3. exp[q] <= scannedAt[p] /\ scannedAt[p] <= now
      BY <1>2, <3>2, NoneAssumption DEF LeaseFree, PassInv, PassFits
    <3> QED
      BY <2>2, <3>3 DEF TypeOK
  <2>5. attempts[cur[q]] \in Nat /\ att[q] \in Nat /\ att[q] <= attempts[cur[q]]
    BY <2>2, <1>5, MaxAttemptsType DEF TypeOK
  <2> QED
    BY <2>3, <2>4, <2>5
<1> QED
  BY <1>7, <1>8, <1>9 DEF Fencing

\* Every step preserves the fencing.
LEMMA FencingNext ==
  ASSUME TypeOK, PassInv, RequestInv, TypeOK', PassInv', Fencing, [Next]_vars
  PROVE  Fencing'
<1>now. now \in Nat /\ now <= now
  BY DEF TypeOK
\* The passes go on or stop, and no row changes under a pass at work on it
\* unless the row leaves REQUIRED.
<1>rows. ASSUME UNCHANGED <<attempts, passVars, now>>,
                \A i \in Interventions :
                  \/ status'[i] # "REQUIRED"
                  \/ /\ status'[i] = status[i]
                     /\ lease'[i] = lease[i]
                     /\ leaseExp'[i] = leaseExp[i]
         PROVE  Fencing'
  <2>1. \A q \in Procs : Working(q) => cur[q] \in Interventions
    BY DEF PassInv, PassFits
  <2>2. \A q \in Procs : Working(q)' = Working(q)
    BY <1>rows DEF Working, passVars
  <2> QED
    BY <1>rows, <1>now, <2>1, <2>2, KeepsClaims DEF passVars
<1>stop. ASSUME NEW p \in Procs, NextCandidate(p) \/ PassOver(p),
                UNCHANGED <<status, attempts, lease, leaseExp, now>>
         PROVE  Fencing'
  <2>1. ~Working(p)'
    BY <1>stop DEF NextCandidate, PassOver, Working, TypeOK
  <2>2. \A q \in Procs : q # p => /\ Working(q)' = Working(q)
                                 /\ cur'[q] = cur[q] /\ att'[q] = att[q] /\ exp'[q] = exp[q]
    BY <1>stop DEF NextCandidate, PassOver, Working, TypeOK
  <2> QED
    BY <1>stop, <1>now, <2>1, <2>2, KeepsClaims
<1>go. ASSUME NEW p \in Procs, NEW at, pc' = [pc EXCEPT ![p] = at],
              Working(p) \/ at = "loop",
              UNCHANGED <<status, attempts, lease, leaseExp, cur, att, exp, now>>
       PROVE  Fencing'
  <2>1. \A q \in Procs : Working(q)' => Working(q)
    BY <1>go DEF Working, TypeOK
  <2> QED
    BY <1>go, <1>now, <2>1, KeepsClaims
\* Only one pass is at work on the latest attempt of the row it still owns.
<1>own. ASSUME NEW p \in Procs, NEW q \in Procs, Working(p), Working(q), OwnsClaim(p),
               cur[q] = cur[p], att[q] = attempts[cur[q]]
        PROVE  q = p
  BY <1>own DEF OwnsClaim, Fencing, AttemptClaimedOnce
<1>1. ASSUME NEW i \in Interventions, NEW k \in Kinds, Require(i, k)
      PROVE  Fencing'
  BY <1>1, <1>rows DEF Require
<1>2. ASSUME NEW p \in Procs, Scan(p)
      PROVE  Fencing'
  BY <1>2, <1>go DEF Scan, rowVars
<1>3. ASSUME NEW p \in Procs, NEW i \in Interventions, NEW n \in 0..MaxAttempts - 1,
             Claim(p, i, n)
      PROVE  Fencing'
  <2>1. CASE ClaimWins(p, i, n)
    BY <1>3, <2>1, ClaimFences
  <2>2. CASE ~ClaimWins(p, i, n)
    <3>1. UNCHANGED <<status, attempts, lease, leaseExp, pc, cur, att, exp, now>>
      BY <1>3, <2>2 DEF Claim
    <3>2. \A q \in Procs : Working(q)' = Working(q)
      BY <3>1 DEF Working
    <3> QED
      BY <1>now, <3>1, <3>2, KeepsClaims
  <2> QED
    BY <2>1, <2>2
<1>4. ASSUME NEW p \in Procs, Dispatch(p) \/ DispatchRejects(p) \/ RecordingThrows(p)
      PROVE  Fencing'
  <2>1. PICK at : pc' = [pc EXCEPT ![p] = at]
    BY <1>4 DEF Dispatch, DispatchRejects, RecordingThrows
  <2>2. Working(p)
    BY <1>4 DEF Dispatch, DispatchRejects, RecordingThrows, Working
  <2>3. UNCHANGED <<status, attempts, lease, leaseExp, cur, att, exp, now>>
    BY <1>4 DEF Dispatch, DispatchRejects, RecordingThrows, rowVars
  <2> QED
    BY <2>1, <2>2, <2>3, <1>go
<1>5. ASSUME NEW p \in Procs, EndPass(p) \/ AuditDispatched(p) \/ PassAborts(p) \/ Crash(p)
      PROVE  Fencing'
  BY <1>5, <1>stop DEF EndPass, AuditDispatched, PassAborts, Crash, rowVars
<1>6. ASSUME NEW p \in Procs, Complete(p)
      PROVE  Fencing'
  <2>1. pc[p] = "dispatched" /\ pc' = [pc EXCEPT ![p] = "recorded"]
        /\ UNCHANGED <<attempts, cur, att, exp, now>>
    BY <1>6 DEF Complete
  <2>2. CASE OwnsClaim(p)
    <3>1. /\ status' = [status EXCEPT ![cur[p]] = "IN_PROGRESS"]
          /\ lease' = [lease EXCEPT ![cur[p]] = None]
          /\ leaseExp' = [leaseExp EXCEPT ![cur[p]] = 0]
      BY <1>6, <2>2 DEF Complete
    <3>2. \A q \in Procs : Working(q)' => Working(q) /\ cur[q] \in Interventions
      BY <2>1 DEF Working, TypeOK, PassInv, PassFits
    <3> QED
      BY <1>now, <2>1, <3>1, <3>2, KeepsClaims DEF TypeOK
  <2>3. CASE ~OwnsClaim(p)
    BY <1>6, <2>1, <2>3, <1>go DEF Complete, Working
  <2> QED
    BY <2>2, <2>3
<1>7. ASSUME NEW p \in Procs, FailAttempt(p)
      PROVE  Fencing'
  <2>1. CASE UNCHANGED <<status, lease, leaseExp>>
    BY <1>7, <2>1, <1>stop DEF FailAttempt
  <2>2. CASE /\ OwnsClaim(p) /\ NextCandidate(p)
             /\ \E st : status' = [status EXCEPT ![cur[p]] = st]
             /\ lease' = [lease EXCEPT ![cur[p]] = None]
             /\ leaseExp' = [leaseExp EXCEPT ![cur[p]] = 0]
    <3>1. ~Working(p)' /\ Working(p)
      BY <1>7, <2>2 DEF FailAttempt, NextCandidate, Working, TypeOK
    <3>2. \A q \in Procs : q # p => /\ Working(q)' = Working(q)
                                   /\ cur'[q] = cur[q] /\ att'[q] = att[q] /\ exp'[q] = exp[q]
      BY <2>2 DEF NextCandidate, Working, TypeOK
    <3>3. UNCHANGED <<attempts, now>>
      BY <1>7 DEF FailAttempt
    <3>4. \A q \in Procs : (q # p /\ Working(q)) =>
            /\ cur[q] \in Interventions
            /\ cur[q] = cur[p] => att[q] # attempts[cur[q]]
      BY <2>2, <3>1, <1>own DEF PassInv, PassFits
    <3>5. ASSUME NEW q \in Procs, Working(q)'
          PROVE  /\ Working(q)
                 /\ cur'[q] = cur[q] /\ att'[q] = att[q] /\ exp'[q] = exp[q]
                 /\ (att[q] = attempts[cur[q]] /\ status'[cur[q]] = "REQUIRED")
                      => /\ status[cur[q]] = "REQUIRED"
                         /\ lease'[cur[q]] = lease[cur[q]]
                         /\ leaseExp'[cur[q]] = leaseExp[cur[q]]
      BY <2>2, <3>1, <3>2, <3>4, <3>5 DEF TypeOK
    <3> QED
      BY <1>now, <3>3, <3>5, KeepsClaims
  <2> QED
    BY <1>7, <2>1, <2>2 DEF FailAttempt
<1>8. ASSUME NEW r \in Requests, RequestStep(r)
      PROVE  Fencing'
  <2>1. CASE updateInterventionStatus(r)
    <3>1. req[r].iv \in Interventions /\ NextStatus(req[r].op) # "REQUIRED"
      BY <2>1 DEF updateInterventionStatus, RequestInv, RequestFits, NextStatus
    <3>2. UNCHANGED <<attempts, passVars, now>>
      BY <2>1 DEF updateInterventionStatus
    <3> QED
      BY <2>1, <3>1, <3>2, <1>rows DEF updateInterventionStatus, TypeOK
  <2>2. CASE ~updateInterventionStatus(r)
    <3>1. UNCHANGED <<status, attempts, lease, leaseExp, passVars, now>>
      BY <1>8, <2>2 DEF RequestStep, ReadAcknowledge, ReadCancel, ReadHold, ReadRelease,
         ProviderCall, ProviderRejects, rowVars
    <3> QED
      BY <3>1, <1>rows
  <2> QED
    BY <2>1, <2>2
<1>9. ASSUME NEW c \in Challenges,
             \/ \E i \in Interventions : RequestChallenge(c, i)
             \/ \E result \in {"PASSED", "FAILED"} : CompleteChallenge(c, result)
      PROVE  Fencing'
  BY <1>9, <1>rows DEF RequestChallenge, CompleteChallenge, rowVars
<1>10. CASE expireStaleRecords
  BY <1>10, <1>rows DEF expireStaleRecords
<1>11. CASE Tick
  <2>1. UNCHANGED <<status, attempts, lease, leaseExp, pc, cur, att, exp>> /\ now <= now'
    BY <1>11 DEF Tick, rowVars, passVars, TypeOK
  <2>2. \A q \in Procs : Working(q)' = Working(q)
    BY <2>1 DEF Working
  <2> QED
    BY <2>1, <2>2, KeepsClaims
<1>12. CASE UNCHANGED vars
  BY <1>12, <1>rows DEF vars, rowVars
<1> QED
  BY <1>1, <1>2, <1>3, <1>4, <1>5, <1>6, <1>7, <1>8, <1>9, <1>10, <1>11, <1>12
     DEF Next, ExecutorStep

-----------------------------------------------------------------------------
(* Causes: why a status changes, and what a request relies on.             *)

\* What the requests, the adapters and the passes rely on.
Grounds == RequestInv /\ ReceiptInv /\ EffectInv /\ AbsentInv
           /\ HoldBeforeInProgress /\ ReleaseNeedsVerification

\* The writers of a row's status: a completing pass, an exhausted pass, an
\* operator request whose read is still current, the maintenance worker.
Cause(i) ==
  \/ /\ status[i] = "REQUIRED" /\ status'[i] = "IN_PROGRESS"
     /\ Exists(i) /\ <<i, ExecutorEffect(i)>> \in effects
  \/ Exists(i) /\ status[i] = "REQUIRED" /\ status'[i] = "FAILED"
  \/ \E r \in Requests :
       /\ req[r].pc = "update" /\ req[r].iv = i
       /\ status[i] = req[r].seen /\ status'[i] = NextStatus(req[r].op)
  \/ /\ Exists(i) /\ status[i] \in {"REQUIRED", "ACKNOWLEDGED"} /\ status'[i] = "EXPIRED"

\* Every change of a status has one of these causes.
LEMMA StatusCause ==
  ASSUME TypeOK, PassInv, RequestInv, EffectInv, [Next]_vars,
         NEW i \in Interventions, status'[i] # status[i]
  PROVE  Cause(i)
<1>1. ASSUME NEW p \in Procs, Complete(p)
      PROVE  Cause(i)
  <2>1. OwnsClaim(p) /\ cur[p] = i /\ status'[i] = "IN_PROGRESS"
    BY <1>1 DEF Complete, TypeOK
  <2>2. <<i, ExecutorEffect(i)>> \in effects
    BY <1>1, <2>1 DEF Complete, EffectInv
  <2> QED
    BY <2>1, <2>2 DEF Cause, OwnsClaim, IsDemo
<1>2. ASSUME NEW p \in Procs, FailAttempt(p)
      PROVE  Cause(i)
  <2>1. OwnsClaim(p) /\ cur[p] = i
    BY <1>2 DEF FailAttempt, TypeOK
  <2>2. status'[i] = "FAILED" \/ status'[i] = "REQUIRED"
    BY <1>2, <2>1 DEF FailAttempt, TypeOK
  <2> QED
    BY <2>1, <2>2 DEF Cause, OwnsClaim, IsDemo
<1>3. ASSUME NEW r \in Requests, updateInterventionStatus(r)
      PROVE  Cause(i)
  BY <1>3 DEF updateInterventionStatus, Cause, TypeOK
<1>4. CASE expireStaleRecords
  BY <1>4 DEF expireStaleRecords, StaleRow, Cause
<1>5. ASSUME UNCHANGED status
      PROVE  Cause(i)
  BY <1>5
<1>6. ASSUME NEW p \in Procs,
             \/ Scan(p) \/ EndPass(p) \/ Dispatch(p) \/ DispatchRejects(p)
             \/ AuditDispatched(p) \/ RecordingThrows(p) \/ PassAborts(p) \/ Crash(p)
             \/ \E j \in Interventions, n \in 0..MaxAttempts - 1 : Claim(p, j, n)
      PROVE  Cause(i)
  BY <1>5, <1>6 DEF Scan, EndPass, Dispatch, DispatchRejects, AuditDispatched,
     RecordingThrows, PassAborts, Crash, Claim, rowVars
<1>7. ASSUME NEW r \in Requests, RequestStep(r), ~updateInterventionStatus(r)
      PROVE  Cause(i)
  BY <1>5, <1>7 DEF RequestStep, ReadAcknowledge, ReadCancel, ReadHold, ReadRelease,
     ProviderCall, ProviderRejects, rowVars
<1>8. CASE \/ \E j \in Interventions, k \in Kinds : Require(j, k)
           \/ \E c \in Challenges :
                \/ \E j \in Interventions : RequestChallenge(c, j)
                \/ \E result \in {"PASSED", "FAILED"} : CompleteChallenge(c, result)
           \/ Tick \/ UNCHANGED vars
  BY <1>5, <1>8 DEF Require, RequestChallenge, CompleteChallenge, Tick, vars, rowVars
<1> QED
  BY <1>1, <1>2, <1>3, <1>4, <1>6, <1>7, <1>8 DEF Next, ExecutorStep

\* What has happened to a row stays true of it.
LEMMA StaysTrue ==
  ASSUME Lasting, NEW i \in Interventions
  PROVE  /\ Exists(i) => Exists(i)' /\ kind'[i] = kind[i]
         /\ IsHold(i) => IsHold(i)'
         /\ Exists(i) => ExecutorEffect(i)' = ExecutorEffect(i)
         /\ Held(i) => Held(i)'
         /\ Passed(i) => Passed(i)'
BY DEF Lasting, Exists, IsHold, ExecutorEffect, Held, Passed

\* A request that a step does not touch keeps its grounds.
LEMMA RequestStays ==
  ASSUME Lasting, NEW r \in Requests, RequestFits(r), req'[r] = req[r]
  PROVE  RequestFits(r)'
BY StaysTrue DEF RequestFits, assertTransition, NextStatus, interventionTransitions

\* A call of an adapter leaves what the adapters remember true.
LEMMA ReceiptsStay ==
  ASSUME TypeOK, Lasting, ReceiptInv, NEW key, NEW i \in Interventions, NEW what,
         \A x \in receipts' :
           \/ x \in receipts
           \/ x.key = key /\ x.iv = i /\ x.did = what /\ <<i, what>> \in effects',
         Exists(i),
         key[1] = "demo-dispatch" => key[2] = i /\ what = ExecutorEffect(i),
         key[1] = "api" => what \in {"HELD", "RELEASED"}
  PROVE  ReceiptInv'
<1> SUFFICES ASSUME NEW x \in receipts'
             PROVE  ReceiptFits(x)'
  BY DEF ReceiptInv
<1>1. CASE x \in receipts
  <2>1. ReceiptFits(x) /\ x.iv \in Interventions
    BY <1>1 DEF ReceiptInv, Receipt, TypeOK
  <2> QED
    BY <2>1, StaysTrue DEF ReceiptFits, Lasting
<1>2. CASE x.key = key /\ x.iv = i /\ x.did = what /\ <<i, what>> \in effects'
  BY <1>2, StaysTrue DEF ReceiptFits
<1> QED
  BY <1>1, <1>2

\* The executor's adapter call: afterwards the effect it stands for has
\* happened, now or under the same key before.
LEMMA DispatchGrounds ==
  ASSUME TypeOK, PassInv, Lasting, ReceiptInv, EffectInv, NEW p \in Procs, pc[p] = "claimed",
         Perform(p, <<"demo-dispatch", cur[p]>>, cur[p], ExecutorEffect(cur[p]))
  PROVE  /\ ReceiptInv'
         /\ <<cur[p], ExecutorEffect(cur[p])>> \in effects'
         /\ effects' \subseteq effects \cup {<<cur[p], ExecutorEffect(cur[p])>>}
<1> DEFINE key == <<"demo-dispatch", cur[p]>>
           what == ExecutorEffect(cur[p])
<1>1. cur[p] \in Interventions /\ Exists(cur[p])
  BY DEF PassInv, PassFits, EffectInv, Working
<1>2. key \in AdapterKey
  BY <1>1 DEF AdapterKey
<1>3. what \in {"HELD", "RELEASED", "RECORDED"}
  BY DEF ExecutorEffect
<1>4. receipts \in SUBSET Receipt /\ effects \in SUBSET Effect
  BY DEF TypeOK
<1>6. key[1] = "demo-dispatch" /\ key[2] = cur[p] /\ what = ExecutorEffect(cur[p])
  OBVIOUS
<1>9. Perform(p, key, cur[p], what)
  OBVIOUS
<1> HIDE DEF key, what
<1>5. Performed(p, key, cur[p], what)
  BY <1>1, <1>2, <1>3, <1>4, <1>9, PerformEffect
<1>7. ReceiptInv'
  BY <1>1, <1>5, <1>6, ReceiptsStay DEF Performed
<1>8. <<cur[p], what>> \in effects'
  <2>1. CASE \E x \in receipts : x.proc = p /\ x.key = key
    <3>1. PICK x \in receipts : x.proc = p /\ x.key = key
      BY <2>1
    <3>2. x.iv = cur[p] /\ x.did = what /\ <<x.iv, x.did>> \in effects
      BY <3>1, <1>6 DEF ReceiptInv, ReceiptFits
    <3> QED
      BY <3>2 DEF Lasting
  <2> QED
    BY <1>5, <2>1 DEF Performed
<1> QED
  BY <1>5, <1>6, <1>7, <1>8 DEF Performed

\* An operator's adapter call: likewise; a key that was used to release the row
\* stands for a row that was held.
LEMMA CallGrounds ==
  ASSUME TypeOK, Lasting, RequestInv, ReceiptInv, EffectInv,
         NEW r \in Requests, req[r].pc = "call",
         ~KeyConflict(req[r].proc, <<"api", req[r].key>>, req[r].iv),
         Perform(req[r].proc, <<"api", req[r].key>>, req[r].iv,
                 IF req[r].op = "hold" THEN "HELD" ELSE "RELEASED")
  PROVE  /\ ReceiptInv'
         /\ <<req[r].iv, "HELD">> \in effects'
         /\ effects' \subseteq effects \cup
              {<<req[r].iv, IF req[r].op = "hold" THEN "HELD" ELSE "RELEASED">>}
<1> DEFINE key == <<"api", req[r].key>>
           i == req[r].iv
           what == IF req[r].op = "hold" THEN "HELD" ELSE "RELEASED"
<1>1. /\ req[r].proc \in Procs /\ req[r].key \in Keys /\ i \in Interventions /\ Exists(i)
      /\ req[r].op \in {"hold", "release"}
      /\ req[r].op = "release" => Held(i)
  BY DEF RequestInv, RequestFits
<1>2. key \in AdapterKey
  BY <1>1 DEF AdapterKey
<1>3. what \in {"HELD", "RELEASED", "RECORDED"}
  OBVIOUS
<1>4. receipts \in SUBSET Receipt /\ effects \in SUBSET Effect
  BY DEF TypeOK
<1>6. /\ key[1] = "api"
      /\ what \in {"HELD", "RELEASED"}
      /\ req[r].op = "hold" => what = "HELD"
      /\ ~KeyConflict(req[r].proc, key, i)
  OBVIOUS
<1>9. Perform(req[r].proc, key, i, what)
  OBVIOUS
<1> HIDE DEF key, what, i
<1>5. Performed(req[r].proc, key, i, what)
  BY <1>1, <1>2, <1>3, <1>4, <1>9, PerformEffect
<1>7. ReceiptInv'
  BY <1>1, <1>5, <1>6, ReceiptsStay DEF Performed
<1>8. <<i, "HELD">> \in effects'
  <2>1. CASE Held(i)
    BY <2>1 DEF Held, Lasting
  <2>2. CASE req[r].op = "hold" /\ <<i, what>> \in effects'
    BY <1>6, <2>2
  <2>3. CASE \E x \in receipts : x.proc = req[r].proc /\ x.key = key
    <3>1. PICK x \in receipts : x.proc = req[r].proc /\ x.key = key
      BY <2>3
    <3>2. x.iv = i
      BY <1>6, <3>1 DEF KeyConflict, Remembered
    <3>3. <<i, x.did>> \in effects /\ x.did \in {"HELD", "RELEASED"}
      BY <3>1, <3>2, <1>6 DEF ReceiptInv, ReceiptFits
    <3>4. Held(i)
      BY <3>3, <1>1 DEF EffectInv, Held
    <3> QED
      BY <3>4, <2>1
  <2> QED
    BY <1>1, <1>5, <2>1, <2>2, <2>3 DEF Performed
<1> QED
  BY <1>5, <1>7, <1>8 DEF i, what, Performed

\* The requests keep their grounds: a read finds them, a call establishes them.
LEMMA RequestNext ==
  ASSUME TypeOK, Grounds, Lasting, NEW r \in Requests, RequestStep(r)
  PROVE  RequestInv' /\ ReceiptInv'
         /\ \A i \in Interventions :
              <<i, "RELEASED">> \in effects' => <<i, "HELD">> \in effects' /\ Passed(i)'
<1> USE DEF Grounds
<1>frame. ASSUME RequestFits(r)', \A q \in Requests \ {r} : req'[q] = req[q]
          PROVE  RequestInv'
  BY <1>frame, RequestStays DEF RequestInv
<1>calm. ASSUME UNCHANGED <<receipts, effects>>
         PROVE  /\ ReceiptInv'
                /\ \A i \in Interventions :
                     <<i, "RELEASED">> \in effects' => <<i, "HELD">> \in effects' /\ Passed(i)'
  <2>1. \A x \in receipts : x.iv \in Interventions
    BY DEF TypeOK, Receipt
  <2>2. ReceiptInv'
    BY <1>calm, <2>1, StaysTrue DEF ReceiptInv, ReceiptFits
  <2> QED
    BY <1>calm, <2>2, StaysTrue DEF EffectInv, Held
<1>call. ASSUME req[r].pc = "call",
                ~KeyConflict(req[r].proc, <<"api", req[r].key>>, req[r].iv),
                Perform(req[r].proc, <<"api", req[r].key>>, req[r].iv,
                        IF req[r].op = "hold" THEN "HELD" ELSE "RELEASED")
         PROVE  /\ ReceiptInv'
                /\ <<req[r].iv, "HELD">> \in effects'
                /\ \A i \in Interventions :
                     <<i, "RELEASED">> \in effects' => <<i, "HELD">> \in effects' /\ Passed(i)'
  <2>1. /\ ReceiptInv'
        /\ <<req[r].iv, "HELD">> \in effects'
        /\ effects' \subseteq effects \cup
             {<<req[r].iv, IF req[r].op = "hold" THEN "HELD" ELSE "RELEASED">>}
    BY <1>call, CallGrounds
  <2>2. /\ req[r].op \in {"hold", "release"}
        /\ req[r].op = "release" => Passed(req[r].iv)
    BY <1>call DEF RequestInv, RequestFits
  <2>3. ASSUME NEW i \in Interventions, <<i, "RELEASED">> \in effects'
        PROVE  <<i, "HELD">> \in effects' /\ Passed(i)'
    <3>1. CASE <<i, "RELEASED">> \in effects
      BY <3>1, StaysTrue DEF EffectInv, Held
    <3>2. CASE <<i, "RELEASED">> \notin effects
      <4>1. i = req[r].iv /\ req[r].op # "hold"
        BY <2>1, <2>3, <3>2
      <4> QED
        BY <2>1, <2>2, <4>1, StaysTrue
    <3> QED
      BY <3>1, <3>2
  <2> QED
    BY <2>1, <2>3
\* The request that a read opens.
<1>open. ASSUME NEW p \in Procs, NEW i \in Interventions,
                NEW op \in {"acknowledge", "cancel", "hold", "release"},
                NEW key \in Keys \cup {None}, NEW at \in {"call", "update"},
                Opened(r, p, op, i, key, at), UNCHANGED <<rowVars, chal, effects>>,
                Exists(i), assertTransition(status[i], NextStatus(op)),
                op \in {"hold", "release"} => IsHold(i) /\ at = "call",
                at = "call" => key \in Keys /\ op \in {"hold", "release"},
                op = "release" => Held(i) /\ Passed(i)
         PROVE  RequestInv'
  <2>1. /\ \A q \in Requests \ {r} : req'[q] = req[q]
        /\ req'[r] = [pc |-> at, proc |-> p, op |-> op, iv |-> i, key |-> key,
                      seen |-> status[i]]
    BY <1>open DEF Opened, TypeOK
  <2>2. /\ req'[r].pc = at /\ req'[r].proc = p /\ req'[r].op = op /\ req'[r].iv = i
        /\ req'[r].key = key /\ req'[r].seen = status[i]
    BY <2>1
  <2>3. /\ Exists(i)'
        /\ op \in {"hold", "release"} => IsHold(i)'
        /\ op = "release" => Held(i)' /\ Passed(i)'
    BY <1>open, StaysTrue
  <2>4. RequestFits(r)'
    BY <1>open, <2>2, <2>3 DEF RequestFits, assertTransition, NextStatus,
       interventionTransitions, Exists, IsHold, Held, Passed
  <2> QED
    BY <1>frame, <2>1, <2>4
<1>1. ASSUME NEW p \in Procs, NEW i \in Interventions, ReadAcknowledge(r, p, i)
      PROVE  RequestInv' /\ UNCHANGED <<receipts, effects>>
  BY <1>1, <1>open DEF ReadAcknowledge, NextStatus
<1>2. ASSUME NEW p \in Procs, NEW i \in Interventions, ReadCancel(r, p, i)
      PROVE  RequestInv' /\ UNCHANGED <<receipts, effects>>
  BY <1>2, <1>open DEF ReadCancel, NextStatus
<1>3. ASSUME NEW p \in Procs, NEW i \in Interventions, NEW k \in Keys, ReadHold(r, p, i, k)
      PROVE  RequestInv' /\ UNCHANGED <<receipts, effects>>
  BY <1>3, <1>open DEF ReadHold, NextStatus, IsHold
<1>4. ASSUME NEW p \in Procs, NEW i \in Interventions, NEW k \in Keys,
             NEW c \in Challenges, ReadRelease(r, p, i, k, c)
      PROVE  RequestInv' /\ UNCHANGED <<receipts, effects>>
  <2>1. Held(i) /\ Passed(i) /\ IsHold(i) /\ Exists(i)
    BY <1>4 DEF ReadRelease, Releasable, HoldBeforeInProgress, Held, Passed, IsHold
  <2> QED
    BY <1>4, <1>open, <2>1 DEF ReadRelease, NextStatus
<1>5. CASE ProviderCall(r)
  <2>1. /\ req[r].pc = "call"
        /\ ~KeyConflict(req[r].proc, <<"api", req[r].key>>, req[r].iv)
        /\ Perform(req[r].proc, <<"api", req[r].key>>, req[r].iv,
                   IF req[r].op = "hold" THEN "HELD" ELSE "RELEASED")
        /\ req' = [req EXCEPT ![r].pc = "update"]
    BY <1>5 DEF ProviderCall
  <2>2. <<req[r].iv, "HELD">> \in effects'
    BY <2>1, <1>call
  <2>3. /\ \A q \in Requests \ {r} : req'[q] = req[q]
        /\ req'[r].pc = "update" /\ req'[r].proc = req[r].proc /\ req'[r].op = req[r].op
        /\ req'[r].iv = req[r].iv /\ req'[r].key = req[r].key /\ req'[r].seen = req[r].seen
    BY <2>1, MoveType
  <2>4. RequestFits(r) /\ req[r].pc # "free" /\ req[r].iv \in Interventions
    BY <2>1 DEF RequestInv, RequestFits
  <2>5. RequestFits(r)'
    <3> DEFINE i == req[r].iv
    <3>1. i \in Interventions /\ i = req'[r].iv /\ <<i, "HELD">> \in effects'
      BY <2>2, <2>3, <2>4
    <3>2. /\ Exists(i)'
          /\ IsHold(i) => kind'[i].type = "HOLD_PROTECTED_ACTION" /\ kind'[i] # None
          /\ req[r].op = "release" =>
               \E c \in Challenges : chal'[c].iv = i /\ chal'[c].status = "PASSED"
      BY <2>1, <2>3, <2>4 DEF RequestFits, Lasting, Exists, IsHold, Passed
    <3> QED
      BY <2>3, <2>4, <3>1, <3>2 DEF RequestFits, assertTransition, NextStatus,
         interventionTransitions, Exists, IsHold, Held, Passed
  <2> QED
    BY <2>1, <2>3, <2>5, <1>frame, <1>call
<1>6. CASE ProviderRejects(r)
  <2>1. RequestInv'
    BY <1>6, <1>frame, FreeType DEF ProviderRejects, RequestFits
  <2> QED
    BY <1>6, <2>1, <1>calm, <1>call DEF ProviderRejects
<1>7. CASE updateInterventionStatus(r)
  <2>1. RequestInv'
    BY <1>7, <1>frame, FreeType DEF updateInterventionStatus, RequestFits
  <2> QED
    BY <1>7, <2>1, <1>calm DEF updateInterventionStatus
<1> QED
  BY <1>1, <1>2, <1>3, <1>4, <1>5, <1>6, <1>7, <1>calm DEF RequestStep

\* The executor keeps the grounds: its own keys stand for its own effect.
LEMMA ExecutorGrounds ==
  ASSUME TypeOK, PassInv, TypeOK', PassInv', Grounds, Lasting, NEW p \in Procs,
         ExecutorStep(p) \/ RecordingThrows(p) \/ PassAborts(p)
  PROVE  /\ RequestInv' /\ ReceiptInv'
         /\ \A q \in Procs : pc'[q] = "dispatched" =>
              /\ Working(q) /\ cur'[q] = cur[q]
              /\ <<cur[q], ExecutorEffect(cur[q])>> \in effects'
         /\ \A q \in Procs : Working(q)' => Exists(cur'[q])
         /\ \A i \in Interventions : <<i, "RELEASED">> \in effects' => <<i, "RELEASED">> \in effects
<1> USE DEF Grounds
<1>req. ASSUME req' = req
        PROVE  RequestInv'
  BY <1>req, RequestStays DEF RequestInv
<1>calm. ASSUME UNCHANGED <<receipts, effects>>
         PROVE  ReceiptInv'
  <2>1. \A x \in receipts : x.iv \in Interventions
    BY DEF TypeOK, Receipt
  <2> QED
    BY <1>calm, <2>1, StaysTrue DEF ReceiptInv, ReceiptFits
<1>was. \A q \in Procs : pc[q] = "dispatched" =>
          Working(q) /\ <<cur[q], ExecutorEffect(cur[q])>> \in effects'
  BY DEF EffectInv, Lasting, Working
<1>work. \A q \in Procs : Working(q) => Exists(cur[q])
  BY DEF EffectInv
<1>1. CASE Dispatch(p) \/ DispatchRejects(p)
  <2>1. /\ pc[p] = "claimed"
        /\ \/ UNCHANGED <<receipts, effects>> /\ pc' = [pc EXCEPT ![p] = "failed"]
           \/ /\ Perform(p, <<"demo-dispatch", cur[p]>>, cur[p], ExecutorEffect(cur[p]))
              /\ \E at \in {"dispatched", "failed"} : pc' = [pc EXCEPT ![p] = at]
        /\ UNCHANGED <<req, cur>>
    BY <1>1 DEF Dispatch, DispatchRejects
  <2>2. Working(p) /\ ExecutorEffect(cur[p]) # "RELEASED"
    BY <2>1 DEF Working, ExecutorEffect
  <2>3. \A q \in Procs : Working(q)' => Exists(cur'[q])
    BY <1>work, <2>1, <2>2 DEF Working, TypeOK
  <2>4. CASE UNCHANGED <<receipts, effects>> /\ pc' = [pc EXCEPT ![p] = "failed"]
    BY <2>1, <2>3, <2>4, <1>req, <1>calm, <1>was DEF TypeOK
  <2>5. CASE Perform(p, <<"demo-dispatch", cur[p]>>, cur[p], ExecutorEffect(cur[p]))
    <3>1. /\ ReceiptInv'
          /\ <<cur[p], ExecutorEffect(cur[p])>> \in effects'
          /\ effects' \subseteq effects \cup {<<cur[p], ExecutorEffect(cur[p])>>}
      BY <2>1, <2>5, DispatchGrounds
    <3>2. \A q \in Procs : pc'[q] = "dispatched" =>
            /\ Working(q) /\ cur'[q] = cur[q]
            /\ <<cur[q], ExecutorEffect(cur[q])>> \in effects'
      BY <2>1, <2>2, <3>1, <1>was DEF TypeOK
    <3> QED
      BY <2>1, <2>2, <2>3, <3>1, <3>2, <1>req
  <2> QED
    BY <2>1, <2>4, <2>5
<1>2. ASSUME NEW i \in Interventions, NEW n \in 0..MaxAttempts - 1, Claim(p, i, n)
      PROVE  /\ UNCHANGED <<req, receipts, effects>>
             /\ \A q \in Procs : pc'[q] = "dispatched" => pc[q] = "dispatched" /\ cur'[q] = cur[q]
             /\ \A q \in Procs : Working(q)' => Exists(cur'[q])
  <2>1. CASE ClaimWins(p, i, n)
    <3>1. /\ pc' = [pc EXCEPT ![p] = "claimed"]
          /\ cur' = [cur EXCEPT ![p] = i]
          /\ Exists(i)
          /\ UNCHANGED <<req, receipts, effects>>
      BY <1>2, <2>1 DEF Claim, ClaimWins, IsDemo
    <3> QED
      BY <3>1, <1>work DEF TypeOK, Working
  <2>2. CASE ~ClaimWins(p, i, n)
    BY <1>2, <2>2, <1>work DEF Claim, Working
  <2> QED
    BY <2>1, <2>2
<1>3. CASE \/ Scan(p) \/ EndPass(p) \/ AuditDispatched(p) \/ FailAttempt(p) \/ PassAborts(p)
  <2>1. /\ UNCHANGED <<req, receipts, effects>>
        /\ \E at \in {"idle", "loop"} : pc' = [pc EXCEPT ![p] = at]
        /\ \A q \in Procs : q # p => cur'[q] = cur[q]
    <3>1. /\ UNCHANGED <<req, receipts, effects>>
          /\ \/ NextCandidate(p)
             \/ PassOver(p)
             \/ pc' = [pc EXCEPT ![p] = "loop"] /\ cur' = cur
      BY <1>3 DEF Scan, EndPass, AuditDispatched, FailAttempt, PassAborts
    <3>2. \E at \in {"idle", "loop"} : pc' = [pc EXCEPT ![p] = at]
      BY <3>1 DEF NextCandidate, PassOver
    <3>3. \A q \in Procs : q # p => cur'[q] = cur[q]
      BY <3>1 DEF NextCandidate, PassOver, TypeOK
    <3> QED
      BY <3>1, <3>2, <3>3
  <2>2. \A q \in Procs : (pc'[q] = "dispatched" \/ Working(q)') => q # p /\ pc'[q] = pc[q]
    BY <2>1 DEF TypeOK, Working
  <2>3. \A q \in Procs : Working(q)' => Exists(cur'[q])
    BY <2>1, <2>2, <1>work DEF Working
  <2> QED
    BY <2>1, <2>2, <2>3, <1>req, <1>calm, <1>was
<1>4. CASE Complete(p) \/ RecordingThrows(p)
  <2>1. /\ UNCHANGED <<req, receipts, effects, cur>>
        /\ \E at \in {"recorded", "failed"} : pc' = [pc EXCEPT ![p] = at]
        /\ Working(p)
    BY <1>4 DEF Complete, RecordingThrows, Working
  <2>2. \A q \in Procs : /\ pc'[q] = "dispatched" => pc[q] = "dispatched"
                         /\ Working(q)' => Working(q)
    BY <2>1 DEF TypeOK, Working
  <2> QED
    BY <2>1, <2>2, <1>req, <1>calm, <1>was, <1>work
<1>5. CASE \E i \in Interventions, n \in 0..MaxAttempts - 1 : Claim(p, i, n)
  BY <1>2, <1>5, <1>req, <1>calm, <1>was
<1> QED
  BY <1>1, <1>3, <1>4, <1>5 DEF ExecutorStep

\* Crash, creation, challenges, maintenance and time keep the grounds.
LEMMA EnvironmentGrounds ==
  ASSUME TypeOK, PassInv, TypeOK', Grounds, Lasting,
         \/ \E i \in Interventions, k \in Kinds : Require(i, k)
         \/ \E p \in Procs : Crash(p)
         \/ \E c \in Challenges :
              \/ \E i \in Interventions : RequestChallenge(c, i)
              \/ \E result \in {"PASSED", "FAILED"} : CompleteChallenge(c, result)
         \/ expireStaleRecords
         \/ Tick
         \/ UNCHANGED vars
  PROVE  /\ RequestInv' /\ ReceiptInv' /\ UNCHANGED effects
         /\ \A q \in Procs : Working(q)' => Working(q) /\ pc'[q] = pc[q] /\ cur'[q] = cur[q]
<1> USE DEF Grounds
<1>1. /\ UNCHANGED effects
      /\ receipts' \subseteq receipts
      /\ \A r \in Requests : req'[r] = req[r] \/ req'[r] = Free
  BY DEF Require, Crash, RequestChallenge, CompleteChallenge, expireStaleRecords, Tick, vars, TypeOK
<1>2. \/ UNCHANGED passVars
      \/ \E p \in Procs : PassOver(p)
  BY DEF Require, Crash, RequestChallenge, CompleteChallenge, expireStaleRecords, Tick, vars
<1>3. \A q \in Procs : Working(q)' => Working(q) /\ pc'[q] = pc[q] /\ cur'[q] = cur[q]
  BY <1>2 DEF passVars, PassOver, Working, TypeOK
<1>4. RequestInv'
  <2> SUFFICES ASSUME NEW r \in Requests
               PROVE  RequestFits(r)'
    BY DEF RequestInv
  <2>1. CASE req'[r] = req[r]
    BY <2>1, RequestStays DEF RequestInv
  <2>2. CASE req'[r] = Free
    <3>1. req'[r].pc = "free"
      BY <2>2 DEF Free
    <3> QED
      BY <3>1 DEF RequestFits
  <2> QED
    BY <1>1, <2>1, <2>2
<1>5. ReceiptInv'
  <2>1. \A x \in receipts : x.iv \in Interventions
    BY DEF TypeOK, Receipt
  <2> QED
    BY <1>1, <2>1, StaysTrue DEF ReceiptInv, ReceiptFits
<1> QED
  BY <1>1, <1>3, <1>4, <1>5

\* Every step keeps the grounds.
LEMMA GroundsNext ==
  ASSUME TypeOK, PassInv, TypeOK', PassInv', Grounds, Lasting, [Next]_vars
  PROVE  Grounds'
<1> USE DEF Grounds
<1> DEFINE Kept ==
      /\ RequestInv' /\ ReceiptInv'
      /\ \A q \in Procs : pc'[q] = "dispatched" =>
           /\ Working(q) /\ cur'[q] = cur[q]
           /\ <<cur[q], ExecutorEffect(cur[q])>> \in effects'
      /\ \A q \in Procs : Working(q)' => Exists(cur'[q])
      /\ \A i \in Interventions :
           <<i, "RELEASED">> \in effects' => <<i, "HELD">> \in effects' /\ Passed(i)'
<1>1. Kept
  <2>was. /\ \A q \in Procs : pc[q] = "dispatched" =>
               Working(q) /\ <<cur[q], ExecutorEffect(cur[q])>> \in effects'
          /\ \A q \in Procs : Working(q) => Exists(cur[q])
          /\ \A i \in Interventions :
               <<i, "RELEASED">> \in effects => <<i, "HELD">> \in effects' /\ Passed(i)'
    BY StaysTrue DEF EffectInv, Lasting, Working, Held
  <2>1. ASSUME NEW p \in Procs, ExecutorStep(p) \/ RecordingThrows(p) \/ PassAborts(p)
        PROVE  Kept
    BY <2>1, <2>was, ExecutorGrounds
  <2>2. ASSUME NEW r \in Requests, RequestStep(r)
        PROVE  Kept
    <3>1. UNCHANGED passVars
      BY <2>2 DEF RequestStep, ReadAcknowledge, ReadCancel, ReadHold, ReadRelease,
         ProviderCall, ProviderRejects, updateInterventionStatus
    <3>2. \A q \in Procs : Working(q)' = Working(q) /\ pc'[q] = pc[q] /\ cur'[q] = cur[q]
      BY <3>1 DEF passVars, Working
    <3> QED
      BY <2>2, <2>was, <3>2, RequestNext
  <2>3. CASE \/ \E i \in Interventions, k \in Kinds : Require(i, k)
             \/ \E p \in Procs : Crash(p)
             \/ \E c \in Challenges :
                  \/ \E i \in Interventions : RequestChallenge(c, i)
                  \/ \E result \in {"PASSED", "FAILED"} : CompleteChallenge(c, result)
             \/ expireStaleRecords
             \/ Tick
             \/ UNCHANGED vars
    <3>1. \A q \in Procs : pc'[q] = "dispatched" => Working(q)'
      BY DEF Working
    <3> QED
      BY <2>3, <2>was, <3>1, EnvironmentGrounds
  <2> HIDE DEF Kept
  <2> QED
    BY <2>1, <2>2, <2>3 DEF Next
<1>2. EffectInv'
  <2>1. ASSUME NEW q \in Procs, pc'[q] = "dispatched"
        PROVE  <<cur'[q], ExecutorEffect(cur[q])'>> \in effects'
    <3>1. Working(q) /\ cur'[q] = cur[q] /\ <<cur[q], ExecutorEffect(cur[q])>> \in effects'
      BY <1>1, <2>1
    <3>2. cur[q] \in Interventions /\ Exists(cur[q])
      BY <3>1 DEF PassInv, PassFits, EffectInv
    <3>3. kind'[cur[q]] = kind[cur[q]]
      BY <3>2 DEF Lasting
    <3>4. ExecutorEffect(cur[q])' = ExecutorEffect(cur[q])
      BY <3>1, <3>3 DEF ExecutorEffect, IsHold, Exists
    <3> QED
      BY <3>1, <3>4
  <2>2. ASSUME NEW q \in Procs, Working(q)'
        PROVE  Exists(cur[q])'
    <3>1. cur'[q] \in Interventions /\ Exists(cur'[q])
      BY <1>1, <2>2 DEF PassInv, PassFits
    <3> QED
      BY <3>1 DEF Lasting, Exists
  <2>3. \A i \in Interventions : <<i, "RELEASED">> \in effects' => Held(i)' /\ Passed(i)'
    BY <1>1 DEF Held
  <2> QED
    BY <2>1, <2>2, <2>3 DEF EffectInv
<1>3. ASSUME NEW i \in Interventions, status'[i] # status[i]
      PROVE  /\ Exists(i)
             /\ (IsHold(i) /\ status'[i] \in {"IN_PROGRESS", "SATISFIED"}) => Held(i)
             /\ status'[i] = "SATISFIED" => Passed(i)
  <2>1. CASE \E r \in Requests :
               /\ req[r].pc = "update" /\ req[r].iv = i
               /\ status[i] = req[r].seen /\ status'[i] = NextStatus(req[r].op)
    <3>1. PICK r \in Requests :
               /\ req[r].pc = "update" /\ req[r].iv = i
               /\ status[i] = req[r].seen /\ status'[i] = NextStatus(req[r].op)
      BY <2>1
    <3>2. RequestFits(r) /\ req[r] \in RequestState
      BY DEF RequestInv, TypeOK
    <3> QED
      BY <3>1, <3>2 DEF RequestFits, NextStatus, RequestState
  <2>2. CASE /\ status[i] = "REQUIRED" /\ status'[i] = "IN_PROGRESS"
             /\ Exists(i) /\ <<i, ExecutorEffect(i)>> \in effects
    BY <2>2 DEF ExecutorEffect, Held
  <2>3. Cause(i)
    BY <1>3, StatusCause
  <2> QED
    BY <2>1, <2>2, <2>3 DEF Cause
<1>4. AbsentInv'
  BY <1>3 DEF AbsentInv, Lasting, Exists
<1>5. HoldBeforeInProgress'
  <2> SUFFICES ASSUME NEW i \in Interventions, IsHold(i)', status'[i] \in {"IN_PROGRESS", "SATISFIED"}
               PROVE  <<i, "HELD">> \in effects'
    BY DEF HoldBeforeInProgress
  <2>1. Exists(i)
    BY <1>3 DEF AbsentInv
  <2>2. IsHold(i)
    BY <2>1 DEF IsHold, Exists, Lasting
  <2>3. Held(i)
    BY <1>3, <2>2 DEF HoldBeforeInProgress, Held
  <2> QED
    BY <2>3 DEF Held, Lasting
<1>6. ReleaseNeedsVerification'
  <2> SUFFICES ASSUME NEW i \in Interventions,
                      status'[i] = "SATISFIED" \/ <<i, "RELEASED">> \in effects'
               PROVE  Passed(i)'
    BY DEF ReleaseNeedsVerification, Passed
  <2>1. CASE <<i, "RELEASED">> \in effects'
    BY <1>1, <2>1
  <2>2. CASE status'[i] = "SATISFIED"
    <3>1. Passed(i)
      BY <1>3, <2>2 DEF ReleaseNeedsVerification, Passed
    <3> QED
      BY <3>1, StaysTrue
  <2> QED
    BY <2>1, <2>2
<1> QED
  BY <1>1, <1>2, <1>4, <1>5, <1>6

-----------------------------------------------------------------------------
(* The invariant and what follows from it.                                 *)

\* A resolved row stays quiescent: a claim takes only a REQUIRED row, and every
\* write of a resolved status clears the lease and the retry time with it.
LEMMA QuiescentNext ==
  ASSUME TypeOK, PassInv, RequestInv, ResolvedIsQuiescent, [Next]_vars
  PROVE  ResolvedIsQuiescent'
<1> DEFINE Quiet(i) == status[i] \in Resolved => resolved[i] /\ lease[i] = None /\ nextAt[i] = 0
<1>was. \A i \in Interventions : Quiet(i)
  BY DEF ResolvedIsQuiescent
<1> SUFFICES ASSUME NEW i \in Interventions
             PROVE  status'[i] \in Resolved => resolved'[i] /\ lease'[i] = None /\ nextAt'[i] = 0
  BY DEF ResolvedIsQuiescent
<1> DEFINE Goal == status'[i] \in Resolved => resolved'[i] /\ lease'[i] = None /\ nextAt'[i] = 0
<1>same. ASSUME UNCHANGED <<status, resolved, lease, nextAt>>
         PROVE  Goal
  BY <1>same, <1>was
<1>1. ASSUME NEW p \in Procs, NEW j \in Interventions, NEW n \in 0..MaxAttempts - 1, Claim(p, j, n)
      PROVE  Goal
  <2>1. CASE ClaimWins(p, j, n)
    BY <1>1, <2>1, <1>was DEF Claim, ClaimWins, TypeOK, Resolved
  <2>2. CASE ~ClaimWins(p, j, n)
    BY <1>1, <2>2, <1>was DEF Claim
  <2> QED
    BY <2>1, <2>2
<1>2. ASSUME NEW p \in Procs, Complete(p)
      PROVE  Goal
  BY <1>2, <1>was DEF Complete, OwnsClaim, TypeOK, Resolved
<1>3. ASSUME NEW p \in Procs, FailAttempt(p)
      PROVE  Goal
  <2>1. CASE UNCHANGED <<status, nextAt, lease>>
    BY <1>3, <2>1, <1>same DEF FailAttempt
  <2>2. CASE ~UNCHANGED <<status, nextAt, lease>>
    <3> DEFINE st == IF Exhausted(p) THEN "FAILED" ELSE "REQUIRED"
               t == IF Exhausted(p) THEN 0 ELSE After(Backoff[att[p]])
    <3>1. /\ OwnsClaim(p) /\ LifecycleCheck(st, resolved[cur[p]])
          /\ status' = [status EXCEPT ![cur[p]] = st]
          /\ nextAt' = [nextAt EXCEPT ![cur[p]] = t]
          /\ lease' = [lease EXCEPT ![cur[p]] = None]
          /\ UNCHANGED resolved
      BY <1>3, <2>2, Zenon DEF FailAttempt
    <3>2. CASE Exhausted(p)
      <4>1. st = "FAILED" /\ t = 0
        BY <3>2
      <4> HIDE DEF st, t
      <4> QED
        BY <3>1, <4>1, <1>was DEF LifecycleCheck, Resolved, TypeOK
    <3>3. CASE ~Exhausted(p)
      <4>1. st = "REQUIRED"
        BY <3>3
      <4> HIDE DEF st, t
      <4> QED
        BY <3>1, <4>1, <1>was DEF Resolved, TypeOK
    <3> QED
      BY <3>2, <3>3
  <2> QED
    BY <2>1, <2>2
<1>4. ASSUME NEW r \in Requests, updateInterventionStatus(r)
      PROVE  Goal
  <2> DEFINE j == req[r].iv
             st == NextStatus(req[r].op)
  <2>1. CASE UNCHANGED <<status, resolved, lease, nextAt>>
    BY <2>1, <1>same
  <2>2. CASE /\ status' = [status EXCEPT ![j] = st] /\ st \in Resolved
             /\ resolved' = [resolved EXCEPT ![j] = TRUE]
             /\ lease' = [lease EXCEPT ![j] = None]
             /\ nextAt' = [nextAt EXCEPT ![j] = 0]
    <3> HIDE DEF j, st
    <3> QED
      BY <2>2, <1>was DEF TypeOK
  <2>3. CASE /\ status' = [status EXCEPT ![j] = st] /\ st \notin Resolved
             /\ UNCHANGED <<resolved, lease, nextAt>>
    <3> HIDE DEF j, st
    <3> QED
      BY <2>3, <1>was DEF TypeOK
  <2> QED
    BY <1>4, <2>1, <2>2, <2>3 DEF updateInterventionStatus
<1>5. ASSUME expireStaleRecords
      PROVE  Goal
  BY <1>5, <1>was DEF expireStaleRecords, TypeOK, Resolved
<1>6. ASSUME NEW p \in Procs,
             \/ Scan(p) \/ EndPass(p) \/ Dispatch(p) \/ DispatchRejects(p)
             \/ AuditDispatched(p) \/ RecordingThrows(p) \/ PassAborts(p) \/ Crash(p)
      PROVE  Goal
  BY <1>6, <1>same DEF Scan, EndPass, Dispatch, DispatchRejects, AuditDispatched,
     RecordingThrows, PassAborts, Crash, rowVars
<1>7. ASSUME NEW r \in Requests,
             \/ \E p \in Procs, j \in Interventions :
                  \/ ReadAcknowledge(r, p, j)
                  \/ ReadCancel(r, p, j)
                  \/ \E k \in Keys :
                       \/ ReadHold(r, p, j, k)
                       \/ \E c \in Challenges : ReadRelease(r, p, j, k, c)
             \/ ProviderCall(r)
             \/ ProviderRejects(r)
      PROVE  Goal
  BY <1>7, <1>same DEF ReadAcknowledge, ReadCancel, ReadHold, ReadRelease, ProviderCall,
     ProviderRejects, rowVars
<1>8. ASSUME \/ \E j \in Interventions, k \in Kinds : Require(j, k)
             \/ \E c \in Challenges :
                  \/ \E j \in Interventions : RequestChallenge(c, j)
                  \/ \E result \in {"PASSED", "FAILED"} : CompleteChallenge(c, result)
             \/ Tick
             \/ UNCHANGED vars
      PROVE  Goal
  BY <1>8, <1>same DEF Require, RequestChallenge, CompleteChallenge, Tick, vars, rowVars
<1> HIDE DEF Goal
<1>9. ASSUME NEW p \in Procs, ExecutorStep(p)
      PROVE  Goal
  BY <1>9, <1>1, <1>2, <1>3, <1>6 DEF ExecutorStep
<1>10. ASSUME NEW r \in Requests, RequestStep(r)
       PROVE  Goal
  BY <1>10, <1>4, <1>7 DEF RequestStep
<1>11. Goal
  BY <1>5, <1>6, <1>8, <1>9, <1>10 DEF Next
<1> QED
  BY <1>11 DEF Goal

\* The initial state: no row exists, no pass and no request is at work.
LEMMA InitIInv == Init => IInv
<1> SUFFICES ASSUME Init
             PROVE  IInv
  OBVIOUS
<1>1. TypeOK
  <2>1. Free \in RequestState /\ Unrequested \in ChallengeState
    BY DEF Free, RequestState, Unrequested, ChallengeState, Status
  <2> QED
    BY <2>1, MaxAttemptsType DEF Init, TypeOK, Status, Control
<1>2. \A p \in Procs : ~Working(p) /\ pc[p] # "dispatched"
  BY DEF Init, Working
<1>3. PassInv /\ ClaimInv /\ AttemptClaimedOnce /\ LeaseExcludes
  <2>1. PassInv
    BY <1>2 DEF Init, PassInv, PassFits
  <2> QED
    BY <1>2, <2>1 DEF ClaimInv, ClaimFits, AttemptClaimedOnce, LeaseExcludes
<1>4. \A i \in Interventions : status[i] = "REQUIRED"
  BY DEF Init
<1>5. ResolvedIsQuiescent /\ HoldBeforeInProgress /\ AbsentInv
  BY <1>4 DEF ResolvedIsQuiescent, HoldBeforeInProgress, AbsentInv, Resolved
<1>6. RequestInv /\ ReceiptInv
  BY DEF Init, RequestInv, RequestFits, ReceiptInv, Free
<1>7. EffectInv /\ ReleaseNeedsVerification
  BY <1>2, <1>4 DEF Init, EffectInv, ReleaseNeedsVerification
<1> QED
  BY <1>1, <1>3, <1>5, <1>6, <1>7 DEF IInv

\* Every step keeps the invariant.
LEMMA NextIInv == IInv /\ [Next]_vars => IInv'
<1> SUFFICES ASSUME IInv, [Next]_vars
             PROVE  IInv'
  OBVIOUS
<1>1. /\ TypeOK /\ PassInv /\ RequestInv /\ EffectInv /\ ResolvedIsQuiescent
      /\ Fencing /\ Grounds
  BY DEF IInv, Fencing, Grounds
<1>2. TypeOK' /\ PassInv'
  BY <1>1, TypeNext
<1>3. Lasting
  BY <1>1, LastingNext
<1>4. Fencing'
  BY <1>1, <1>2, FencingNext
<1>5. Grounds'
  BY <1>1, <1>2, <1>3, GroundsNext
<1>6. ResolvedIsQuiescent'
  BY <1>1, QuiescentNext
<1> QED
  BY <1>2, <1>4, <1>5, <1>6 DEF IInv, Fencing, Grounds

\* The inductive invariant holds in every reachable state.
THEOREM LoopInvariant == Spec => []IInv
BY InitIInv, NextIInv, PTL DEF Spec

\* Every variable keeps its type; in particular no row is attempted more often
\* than the configured maximum, because the scan that starts an attempt bounds
\* the count and the claim compares it.
THEOREM LoopTypeCorrect == Spec => []TypeOK
<1>1. IInv => TypeOK
  BY DEF IInv
<1> QED
  BY LoopInvariant, <1>1, PTL

\* No attempt of a row is in the hands of two executors: the claiming update
\* compares the attempt count that was read.
THEOREM LoopAttemptClaimedOnce == Spec => []AttemptClaimedOnce
<1>1. IInv => AttemptClaimedOnce
  BY DEF IInv
<1> QED
  BY LoopInvariant, <1>1, PTL

\* An executor is overtaken on its row only after its lease ran out, though the
\* claim tests the lease against the earlier instant of the scan.
THEOREM LoopLeaseExcludes == Spec => []LeaseExcludes
<1>1. IInv => LeaseExcludes
  BY DEF IInv
<1> QED
  BY LoopInvariant, <1>1, PTL

\* A resolved row carries resolvedAt and neither a lease nor a retry time.
THEOREM LoopResolvedIsQuiescent == Spec => []ResolvedIsQuiescent
<1>1. IInv => ResolvedIsQuiescent
  BY DEF IInv
<1> QED
  BY LoopInvariant, <1>1, PTL

\* A hold that the row reports active or satisfied was placed at the provider.
THEOREM LoopHoldBeforeInProgress == Spec => []HoldBeforeInProgress
<1>1. IInv => HoldBeforeInProgress
  BY DEF IInv
<1> QED
  BY LoopInvariant, <1>1, PTL

\* Nothing is released, on the row or at the provider, without a challenge of
\* this intervention that an independent verifier passed.
THEOREM LoopReleaseNeedsVerification == Spec => []ReleaseNeedsVerification
<1>1. IInv => ReleaseNeedsVerification
  BY DEF IInv
<1> QED
  BY LoopInvariant, <1>1, PTL

\* Every change of a status is one of the transition map, whichever of the
\* four writers made it.
THEOREM LoopStatusFollowsDomain == Spec => StatusFollowsDomain
<1>1. IInv /\ [Next]_vars
        => [\A i \in Interventions :
              status'[i] # status[i] => assertTransition(status[i], status'[i])]_vars
  <2> SUFFICES ASSUME IInv, [Next]_vars, NEW i \in Interventions, status'[i] # status[i]
               PROVE  assertTransition(status[i], status'[i])
    OBVIOUS
  <2>1. Cause(i)
    BY StatusCause DEF IInv
  <2>2. ASSUME NEW r \in Requests, req[r].pc = "update", status[i] = req[r].seen,
               status'[i] = NextStatus(req[r].op)
        PROVE  assertTransition(status[i], status'[i])
    BY <2>2 DEF IInv, RequestInv, RequestFits
  <2>3. ASSUME \/ status[i] = "REQUIRED" /\ status'[i] \in {"IN_PROGRESS", "FAILED"}
               \/ status[i] \in {"REQUIRED", "ACKNOWLEDGED"} /\ status'[i] = "EXPIRED"
        PROVE  assertTransition(status[i], status'[i])
    BY <2>3 DEF assertTransition, interventionTransitions, Status
  <2> QED
    BY <2>1, <2>2, <2>3 DEF Cause
<1> QED
  BY LoopInvariant, <1>1, PTL DEF Spec, StatusFollowsDomain

\* Nothing but a verified release ends an active hold: of the four writers only
\* an operator's update can move a row that is IN_PROGRESS, and from there the
\* transition map and the four operations leave only SATISFIED.
THEOREM LoopActiveHoldOnlySatisfied == Spec => ActiveHoldOnlySatisfied
<1>1. IInv /\ [Next]_vars
        => [\A i \in Interventions :
              (IsHold(i) /\ status[i] = "IN_PROGRESS")
                => status'[i] \in {"IN_PROGRESS", "SATISFIED"}]_vars
  <2> SUFFICES ASSUME IInv, [Next]_vars, NEW i \in Interventions,
                      status[i] = "IN_PROGRESS", status'[i] # status[i]
               PROVE  status'[i] = "SATISFIED"
    OBVIOUS
  <2>1. Cause(i)
    BY StatusCause DEF IInv
  <2>2. PICK r \in Requests : /\ req[r].pc = "update" /\ status[i] = req[r].seen
                              /\ status'[i] = NextStatus(req[r].op)
    BY <2>1 DEF Cause
  <2>3. assertTransition("IN_PROGRESS", NextStatus(req[r].op))
    BY <2>2 DEF IInv, RequestInv, RequestFits
  <2>4. NextStatus(req[r].op) \in {"SATISFIED", "DECLINED", "EXPIRED", "FAILED"}
    BY <2>3 DEF assertTransition, interventionTransitions, Status
  <2> QED
    BY <2>2, <2>4 DEF NextStatus
<1> QED
  BY LoopInvariant, <1>1, PTL DEF Spec, ActiveHoldOnlySatisfied
=============================================================================
