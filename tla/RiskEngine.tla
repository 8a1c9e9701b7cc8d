----------------------------- MODULE RiskEngine -----------------------------
(***************************************************************************)
(* evaluateRiskEvidence: the pure function from the accepted evidence of   *)
(* an analysis session to its effective risk state.                        *)
(*                                                                         *)
(* Scores are integers 0..Scale for the reals 0..1 of the code, so that    *)
(* the rounding of the weighted sum is the one thing left out.  The reason *)
(* codes and instants of the result are left out; the several reasons for  *)
(* which a window decides nothing are one outcome.                         *)
(***************************************************************************)
EXTENDS Integers, FiniteSets

CONSTANTS
  Scale,                            \* the score 1.0
  LastWindow,                       \* windowSequence runs over 0..LastWindow
  identityEnter, identityClear,     \* policy.thresholds
  spoofEnter, spoofClear,
  fastWeight, deepWeight,           \* policy.fusion, of sum Scale
  entryConsecutiveWindows,          \* policy.hysteresis
  clearConsecutiveWindows,
  maximumWindowGap,
  highRisk, critical                \* policy.interventions

EvidenceType == {"IDENTITY", "SPOOF_FAST", "SPOOF_DEEP",
                 "INSUFFICIENT_EVIDENCE", "PIPELINE_ERROR"}
RiskState == {"VERIFIED", "UNVERIFIED", "HIGH_RISK", "CRITICAL"}
InterventionType == {"WARN", "HOLD_PROTECTED_ACTION", "REQUIRE_STEP_UP",
                     "REQUIRE_CALLBACK", "SUPERVISOR_ESCALATION", "END_CALL"}

\* What parseRiskPolicyDocument demands.  It does not demand that a clear
\* threshold lies below its enter threshold.
ASSUME PolicyAssumption ==
  /\ Scale \in Nat \ {0}
  /\ LastWindow \in Nat
  /\ {identityEnter, identityClear, spoofEnter, spoofClear} \subseteq 0..Scale
  /\ fastWeight \in 0..Scale
  /\ deepWeight \in 0..Scale
  /\ fastWeight + deepWeight = Scale
  /\ entryConsecutiveWindows \in Nat \ {0}
  /\ clearConsecutiveWindows \in Nat \ {0}
  /\ maximumWindowGap \in Nat
  /\ highRisk \subseteq InterventionType
  /\ critical \subseteq InterventionType

NoScore == -1
NoState == "NONE"
NoWindow == -1

\* What an event says: whether it passes the quality gate, its score, what the
\* score means (direction from the event, target from the model's row; a score
\* outside 0..1 is of as little use as one without target), and whether it is
\* calibrated for the policy and traced to an active model.
Content == [good: BOOLEAN, eligible: BOOLEAN, score: 0..Scale,
            direction: {"HIGHER_MEANS_MORE", "LOWER_MEANS_MORE"},
            target: {"EXPECTED_SPEAKER", "BONAFIDE", "SPOOF", "NONE"}]
Evidence == [window: 0..LastWindow, type: EvidenceType, revision: Nat,
             content: Content]

\* Ties are broken by eventSequence in the code; the unique index on (session,
\* window, type, revision) leaves none.
selectLatest(events) ==
  {e \in events : \A f \in events :
     (f.window = e.window /\ f.type = e.type) => f.revision <= e.revision}

\* Mutant: the direction of the score is ignored.
MutantTargetScoreUndirected(e, desired) ==
  IF e.content.target = desired THEN e.content.score ELSE NoScore

targetScore(e, desired) ==
  LET more == IF e.content.direction = "HIGHER_MEANS_MORE" THEN e.content.score
              ELSE Scale - e.content.score IN
  IF e.content.target = desired THEN more
  ELSE IF {e.content.target, desired} = {"BONAFIDE", "SPOOF"} THEN Scale - more
  ELSE NoScore

Scored(group) == {e \in group : e.type \in {"IDENTITY", "SPOOF_FAST", "SPOOF_DEEP"}}

\* The score the window's event of a type gives for the desired target.
ScoreOf(group, type, desired) ==
  IF \E e \in group : e.type = type
  THEN targetScore(CHOOSE e \in group : e.type = type, desired) ELSE NoScore
IdentityScore(group) == ScoreOf(group, "IDENTITY", "EXPECTED_SPEAKER")
FastScore(group) == ScoreOf(group, "SPOOF_FAST", "SPOOF")
DeepScore(group) == ScoreOf(group, "SPOOF_DEEP", "SPOOF")

\* None of the early returns of evaluateWindow applies.
Sufficient(group) ==
  /\ \A e \in group : e.type \notin {"INSUFFICIENT_EVIDENCE", "PIPELINE_ERROR"}
  /\ \A e \in Scored(group) : e.content.good
  /\ IdentityScore(group) # NoScore
  /\ FastScore(group) # NoScore \/ DeepScore(group) # NoScore

\* The fused spoof score, times Scale.
SpoofScore(group) ==
  IF FastScore(group) # NoScore /\ DeepScore(group) # NoScore
  THEN FastScore(group) * fastWeight + DeepScore(group) * deepWeight
  ELSE IF FastScore(group) # NoScore THEN FastScore(group) * Scale
  ELSE DeepScore(group) * Scale

\* Mutant: leaving VERIFIED needs identity below the enter threshold.
MutantIdentityThresholdPlain(current) ==
  IF current = "CRITICAL" THEN identityClear ELSE identityEnter

identityThreshold(current) ==
  IF current \in {"VERIFIED", "CRITICAL"} THEN identityClear ELSE identityEnter
spoofThreshold(current) ==
  IF current \in {"HIGH_RISK", "CRITICAL"} THEN spoofClear ELSE spoofEnter

matrix(identityHigh, spoofHigh) ==
  IF identityHigh THEN (IF spoofHigh THEN "CRITICAL" ELSE "VERIFIED")
  ELSE (IF spoofHigh THEN "HIGH_RISK" ELSE "UNVERIFIED")

evaluateWindow(group, current) ==
  IF Sufficient(group)
  THEN matrix(IdentityScore(group) >= identityThreshold(current),
              SpoofScore(group) >= spoofThreshold(current) * Scale)
  ELSE "INSUFFICIENT_EVIDENCE"

\* A window that decides for a state decides for it again once the state is
\* entered.
Stable(group) ==
  \A from \in RiskState :
    LET decided == evaluateWindow(group, from) IN
    decided # "INSUFFICIENT_EVIDENCE" => evaluateWindow(group, decided) = decided

-----------------------------------------------------------------------------
(* The loop over the windows, in the order of their sequence numbers.      *)

stateSeverity ==
  [s \in RiskState |-> CASE s = "VERIFIED" -> 0 [] s = "UNVERIFIED" -> 1
                         [] s = "HIGH_RISK" -> 2 [] OTHER -> 3]

\* How many windows in a row it takes to move from one state to another.
Required(from, to) ==
  IF from \in {"HIGH_RISK", "CRITICAL"} /\ stateSeverity[to] < stateSeverity[from]
  THEN clearConsecutiveWindows ELSE entryConsecutiveWindows

Contiguous(previous, window) ==
  previous = NoWindow \/ window - previous <= maximumWindowGap + 1

\* The local variables of the loop before the first window.
Start == [effective |-> "UNVERIFIED", pending |-> NoState, count |-> 0,
          previous |-> NoWindow, outcome |-> "INSUFFICIENT_EVIDENCE"]

\* Mutant: a window without a decision leaves the pending count alone.
MutantAdvanceKeepsPending(acc, window, group) ==
  LET decided == evaluateWindow(group, acc.effective)
      count == IF acc.pending = decided /\ Contiguous(acc.previous, window)
               THEN acc.count + 1 ELSE 1 IN
  IF decided = "INSUFFICIENT_EVIDENCE" THEN [acc EXCEPT !.outcome = decided]
  ELSE IF decided = acc.effective \/ count >= Required(acc.effective, decided)
  THEN [effective |-> decided, pending |-> NoState, count |-> 0,
        previous |-> window, outcome |-> decided]
  ELSE [effective |-> acc.effective, pending |-> decided, count |-> count,
        previous |-> window, outcome |-> decided]

Advance(acc, window, group) ==
  LET decided == evaluateWindow(group, acc.effective)
      count == IF acc.pending = decided /\ Contiguous(acc.previous, window)
               THEN acc.count + 1 ELSE 1 IN
  IF decided = "INSUFFICIENT_EVIDENCE"
  THEN [acc EXCEPT !.pending = NoState, !.count = 0, !.outcome = decided]
  ELSE IF decided = acc.effective \/ count >= Required(acc.effective, decided)
  THEN [effective |-> decided, pending |-> NoState, count |-> 0,
        previous |-> window, outcome |-> decided]
  ELSE [effective |-> acc.effective, pending |-> decided, count |-> count,
        previous |-> window, outcome |-> decided]

\* Loop(events)[n]: the local variables after the windows below n.
Loop(events) ==
  LET selected == selectLatest(events)
      group(w) == {e \in selected : e.window = w}
      L[n \in 0..LastWindow + 1] ==
        IF n = 0 THEN Start
        ELSE IF group(n - 1) = {} THEN L[n - 1]
        ELSE Advance(L[n - 1], n - 1, group(n - 1))
  IN L

\* The result, from the local variables after the loop.
Result(end) ==
  [outcome |-> end.outcome,
   effectiveState |-> end.effective,
   proposedInterventions |->
     CASE end.effective = "CRITICAL" -> critical
       [] end.effective = "HIGH_RISK" -> highRisk
       [] OTHER -> {}]

\* The selected events are the evidence it rests on.
evaluateRiskEvidence(events) == Result(Loop(events)[LastWindow + 1])
=============================================================================
