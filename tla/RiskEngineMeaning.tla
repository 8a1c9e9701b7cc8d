-------------------------- MODULE RiskEngineMeaning --------------------------
(***************************************************************************)
(* What the loop of RiskEngine is meant to compute, as invariants of a     *)
(* session whose evidence arrives window by window, in any order.          *)
(***************************************************************************)
EXTENDS RiskEngine

CONSTANTS Groups   \* window -> what its events may be

\* The unique index on (session, window, type, revision).
ASSUME GroupsAssumption ==
  /\ Groups \in [0..LastWindow -> SUBSET SUBSET Evidence]
  /\ \A w \in 0..LastWindow : \A g \in Groups[w] :
       /\ \A e \in g : e.window = w
       /\ \A e, f \in g : (e.type = f.type /\ e.revision = f.revision) => e = f

VARIABLE evidence  \* the evidence the engine is called with

EngineInit == evidence = {}

Arrive(w) ==
  /\ \A e \in evidence : e.window # w
  /\ \E g \in Groups[w] : evidence' = evidence \cup g

EngineNext == \E w \in 0..LastWindow : Arrive(w)

EngineSpec == EngineInit /\ [][EngineNext]_evidence
-----------------------------------------------------------------------------
GroupOf(w) == {e \in selectLatest(evidence) : e.window = w}
Present == {e.window : e \in selectLatest(evidence)}

\* What the local variables of the loop may be.
Outcome == RiskState \cup {"INSUFFICIENT_EVIDENCE"}
Acc == [effective: RiskState, pending: RiskState \cup {NoState}, count: Nat,
        previous: -1..LastWindow, outcome: Outcome]

\* The windows of run are consecutive ones of the evidence, end in w, follow
\* each other closely enough, and each decided `to` while the state was `from`;
\* loop holds the state before (u) and after (u + 1) every window u.
Persists(loop, run, w, from, to) ==
  /\ \A u \in Present, v \in run : (v <= u /\ u <= w) => u \in run
  /\ \A u \in run \ {w} : \E v \in run : u < v /\ v - u <= maximumWindowGap + 1
  /\ \A u \in run : /\ loop[u].effective = from
                    /\ u # w => loop[u + 1].effective = from
                    /\ evaluateWindow(GroupOf(u), from) = to

\* The effective state moves at a window exactly when the last windows, as many
\* as the policy requires for that move, all decided for the new state without
\* an undecided window or too large a gap between them: the meaning of the
\* pending counter of evaluateRiskEvidence, which it keeps incrementally.
HysteresisReference ==
  LET loop == Loop(evidence) IN
  /\ loop \in [0..LastWindow + 1 -> Acc]
  /\ \A w \in Present : \A to \in RiskState \ {loop[w].effective} :
       loop[w + 1].effective = to <=>
         \E run \in {r \cup {w} : r \in SUBSET {u \in Present : u < w}} :
           /\ Cardinality(run) = Required(loop[w].effective, to)
           /\ Persists(loop, run, w, loop[w].effective, to)

\* A window that decides for a state decides for it again once the state is
\* entered: the clear thresholds only ever hold a state, and no single window
\* makes the engine oscillate.
ConfirmedStateIsStable == \A w \in Present : Stable(GroupOf(w))

Opposite(direction) ==
  IF direction = "HIGHER_MEANS_MORE" THEN "LOWER_MEANS_MORE" ELSE "HIGHER_MEANS_MORE"
Mirrored(e) ==
  [e EXCEPT !.content.score = Scale - @, !.content.direction = Opposite(@)]
Inverted(e) ==
  IF e.content.target = "SPOOF"
  THEN [e EXCEPT !.content.score = Scale - @, !.content.target = "BONAFIDE"] ELSE e

\* A model that reports the same fact with the opposite direction, or for the
\* opposite target, leads to the same result.
ScoreMeaningOnly ==
  /\ evaluateRiskEvidence({Mirrored(e) : e \in evidence}) = evaluateRiskEvidence(evidence)
  /\ evaluateRiskEvidence({Inverted(e) : e \in evidence}) = evaluateRiskEvidence(evidence)
=============================================================================
