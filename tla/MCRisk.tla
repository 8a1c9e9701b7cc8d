------------------------------- MODULE MCRisk -------------------------------
(***************************************************************************)
(* RiskPipeline and RiskEngineMeaning for TLC, under one policy.           *)
(*                                                                         *)
(* The pipeline calls the engine with the evidence it has accepted; the    *)
(* engine alone is called with every combination of windows.  The two have *)
(* no variable in common, and no property looks at both, so one runs while *)
(* the other one has not started: an interleaving of their steps would     *)
(* show nothing more.                                                      *)
(***************************************************************************)
EXTENDS RiskPipeline, RiskEngineMeaning, TLC

Id(w, type, revision) == [window |-> w, type |-> type, revision |-> revision]
Says(level, target, traced) ==
  [good |-> TRUE, eligible |-> traced, score |-> level,
   direction |-> "HIGHER_MEANS_MORE", target |-> target]

-----------------------------------------------------------------------------
(* The engine.                                                             *)

Untraced(w, type, level, target) ==
  [window |-> w, type |-> type, revision |-> 0, content |-> Says(level, target, FALSE)]

\* The identity and spoof scores of the windows that decide.
Pairs == {<<8, 8>>, <<6, 5>>, <<8, 6>>, <<5, 8>>, <<5, 5>>}

\* A window that decides, a failed one, and one whose identity is missing.
FixtureGroups ==
  [w \in 0..LastWindow |->
     {{Untraced(w, "IDENTITY", p[1], "EXPECTED_SPEAKER"),
       Untraced(w, "SPOOF_FAST", p[2], "SPOOF")} : p \in Pairs}
     \cup {{Untraced(w, "PIPELINE_ERROR", 0, "NONE")},
           {Untraced(w, "SPOOF_DEEP", Scale, "BONAFIDE")}}]

-----------------------------------------------------------------------------
(* The pipeline.                                                           *)

High == 8
Low == 2

\* Two windows, and two revisions of the second identity.
RevisedIds ==
  {Id(w, type, 0) : w \in {0, 1}, type \in {"IDENTITY", "SPOOF_FAST"}}
    \cup {Id(1, "IDENTITY", 1)}

\* The revision lowers the identity.  With a high identity in the first window the two
\* are CRITICAL before the revision, with a low one, which lacks calibration or trace,
\* they are HIGH_RISK after it.
RevisedPayload ==
  [i \in RevisedIds |->
     CASE i.type = "SPOOF_FAST" -> {Says(High, "SPOOF", TRUE)}
       [] i.type = "IDENTITY" /\ i.window = 0 ->
            {Says(High, "EXPECTED_SPEAKER", TRUE), Says(Low, "EXPECTED_SPEAKER", FALSE)}
       [] OTHER -> {Says(IF i.revision = 1 THEN Low ELSE High, "EXPECTED_SPEAKER", TRUE)}]

-----------------------------------------------------------------------------
SomeContent == [i \in Ids |-> CHOOSE c \in Payload[i] : TRUE]

PipelineRests ==
  /\ content = SomeContent
  /\ policyValid
  /\ acceptance = [i \in Ids |-> "NONE"]
  /\ ~terminal
  /\ request = [r \in Requests |-> Idle("none")]

\* Under a policy that does not parse nothing looks at what the events say.
RiskInit == Init /\ EngineInit /\ (policyValid \/ content = SomeContent)
RiskNext ==
  \/ Next /\ evidence = {} /\ UNCHANGED evidence
  \/ EngineNext /\ PipelineRests /\ UNCHANGED vars
RiskSpec == RiskInit /\ [][RiskNext]_<<vars, evidence>>

Symmetry == Permutations(Requests)
=============================================================================
