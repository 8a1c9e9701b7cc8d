------------------------- MODULE RiskPipelineProofs -------------------------
(***************************************************************************)
(* Proofs about RiskEngine and RiskPipeline, for every policy, set of      *)
(* events and number of concurrent requests.                               *)
(*                                                                         *)
(* The engine is a loop over the windows.  What holds of it after every    *)
(* window is proved by induction, for a set of naturals that holds 0 and   *)
(* is closed under the successor.  The argument about the tables uses only *)
(* the values the engine can give and what it gives for no evidence.       *)
(***************************************************************************)
EXTENDS RiskPipeline, RiskEngineMeaning, SequenceTheorems, FiniteSetTheorems,
        WellFoundedInduction, TLAPS

-----------------------------------------------------------------------------
(* Induction over the naturals.                                            *)

\* A well-founded order that agrees with < on the naturals has a least element
\* in every set of them.
LEMMA LeastElement ==
  ASSUME NEW R, IsWellFoundedOn(R, Nat),
         \A x, y \in Nat : (<<y, x>> \in R) <=> y < x,
         NEW T, T \subseteq Nat, T # {}
  PROVE  \E x \in T : \A y \in T : x =< y
<1>1. PICK x \in T : \A y \in T : ~ (<<y, x>> \in R)
  BY WFMin
<1>2. ASSUME NEW y \in T
      PROVE  x =< y
  <2>1. x \in Nat /\ y \in Nat
    OBVIOUS
  <2>2. ~(y < x)
    BY <1>1, <2>1, Zenon
  <2> QED BY <2>1, <2>2
<1> QED BY <1>2

\* The naturals have a well-founded order that is <.
LEMMA LessThanNat ==
  \E R : /\ IsWellFoundedOn(R, Nat)
         /\ \A x, y \in Nat : (<<y, x>> \in R) <=> y < x
<1>1. IsWellFoundedOn(OpToRel(<, Nat), Nat)
  BY NatLessThanWellFounded
<1>2. \A x, y \in Nat : (<<y, x>> \in OpToRel(<, Nat)) <=> y < x
  BY DEF OpToRel
<1> QED BY <1>1, <1>2, Zenon

\* A set of naturals that is not empty has a least element.
LEMMA LeastNat ==
  ASSUME NEW T, T \subseteq Nat, T # {}
  PROVE  \E x \in T : \A y \in T : x =< y
BY LessThanNat, LeastElement, Zenon

\* Induction over the naturals, for a set of them.
LEMMA Inducts ==
  ASSUME NEW T, T \subseteq Nat, 0 \in T, \A n \in Nat : n \in T => n + 1 \in T
  PROVE  T = Nat
<1> SUFFICES ASSUME Nat \ T # {}
             PROVE  FALSE
  BY Zenon
<1>1. PICK x \in Nat \ T : \A y \in Nat \ T : x =< y
  BY LeastNat
<1>2. x # 0 /\ x - 1 \in Nat /\ x - 1 \notin Nat \ T
  BY <1>1
<1> QED BY <1>1, <1>2

\* A bounded set of naturals has a greatest element.
LEMMA GreatestNat ==
  ASSUME NEW n \in Nat, NEW T, T \subseteq 0..n, T # {}
  PROVE  \E x \in T : \A y \in T : y <= x
<1> DEFINE D == {n - y : y \in T}
<1>1. D \subseteq Nat /\ D # {}
  <2>1. \A y \in T : n - y \in Nat
    OBVIOUS
  <2> QED BY <2>1
<1>2. PICK d \in D : \A c \in D : d =< c
  BY <1>1, LeastNat
<1>3. PICK x \in T : d = n - x
  BY <1>2
<1>4. ASSUME NEW y \in T
      PROVE  y <= x
  <2>1. n - y \in D
    OBVIOUS
  <2>2. n - x =< n - y /\ x \in 0..n /\ y \in 0..n
    BY <1>2, <1>3, <2>1
  <2> QED BY <2>2
<1> QED BY <1>4

-----------------------------------------------------------------------------
(* The loop over the windows.                                              *)

\* The group the loop sees of a window, and what it does with it.
Selected(events, w) == {e \in selectLatest(events) : e.window = w}
StepOf(events, acc, w) ==
  IF Selected(events, w) = {} THEN acc ELSE Advance(acc, w, Selected(events, w))
Follows(events, loop) ==
  /\ loop \in [0..LastWindow + 1 -> Acc]
  /\ loop[0] = Start
  /\ \A n \in 0..LastWindow : loop[n + 1] = StepOf(events, loop[n], n)

\* evaluateWindow gives a state or INSUFFICIENT_EVIDENCE.
LEMMA WindowDecision ==
  ASSUME NEW group, NEW current
  PROVE  evaluateWindow(group, current) \in Outcome
BY DEF evaluateWindow, matrix, RiskState, Outcome

\* What a window does to the loop's variables.
Counted(acc, w, decided) ==
  IF acc.pending = decided /\ Contiguous(acc.previous, w) THEN acc.count + 1 ELSE 1
Undecided(acc) ==
  [acc EXCEPT !.pending = NoState, !.count = 0, !.outcome = "INSUFFICIENT_EVIDENCE"]
Entered(decided, w) ==
  [effective |-> decided, pending |-> NoState, count |-> 0, previous |-> w, outcome |-> decided]
Pended(acc, w, decided) ==
  [effective |-> acc.effective, pending |-> decided, count |-> Counted(acc, w, decided),
   previous |-> w, outcome |-> decided]

\* An undecided window clears what is pending.
LEMMA AdvanceUndecided ==
  ASSUME NEW acc, NEW w, NEW group,
         evaluateWindow(group, acc.effective) = "INSUFFICIENT_EVIDENCE"
  PROVE  Advance(acc, w, group) = Undecided(acc)
BY DEF Advance, Undecided

\* A window that confirms the state, or completes the count, enters the state.
LEMMA AdvanceEntered ==
  ASSUME NEW acc, NEW w, NEW group, NEW decided,
         decided = evaluateWindow(group, acc.effective),
         decided # "INSUFFICIENT_EVIDENCE",
         \/ decided = acc.effective
         \/ Counted(acc, w, decided) >= Required(acc.effective, decided)
  PROVE  Advance(acc, w, group) = Entered(decided, w)
BY DEF Advance, Entered, Counted

\* A window that decides for another state, too early, is counted.
LEMMA AdvancePended ==
  ASSUME NEW acc, NEW w, NEW group, NEW decided,
         decided = evaluateWindow(group, acc.effective),
         decided # "INSUFFICIENT_EVIDENCE",
         decided # acc.effective,
         ~(Counted(acc, w, decided) >= Required(acc.effective, decided))
  PROVE  Advance(acc, w, group) = Pended(acc, w, decided)
BY DEF Advance, Pended, Counted

\* The loop's variables keep their types.
LEMMA AdvanceType ==
  ASSUME NEW acc \in Acc, NEW w \in 0..LastWindow, NEW group
  PROVE  Advance(acc, w, group) \in Acc
<1>1. PICK decided \in Outcome : decided = evaluateWindow(group, acc.effective)
  BY WindowDecision
<1>2. w \in -1..LastWindow
  BY PolicyAssumption
<1>3. Counted(acc, w, decided) \in Nat
  BY DEF Acc, Counted
<1>4. Undecided(acc) \in Acc
  BY DEF Acc, Undecided, Outcome
<1>5. decided \in RiskState => Entered(decided, w) \in Acc
  BY <1>2 DEF Acc, Entered, Outcome
<1>6. decided \in RiskState => Pended(acc, w, decided) \in Acc
  BY <1>2, <1>3 DEF Acc, Pended, Outcome
<1> QED BY <1>1, <1>4, <1>5, <1>6, AdvanceUndecided, AdvanceEntered, AdvancePended DEF Outcome

\* A step of the loop keeps the types of its variables.
LEMMA StepType ==
  ASSUME NEW events, NEW acc \in Acc, NEW w \in 0..LastWindow
  PROVE  StepOf(events, acc, w) \in Acc
BY AdvanceType DEF StepOf

\* The loop starts with variables of their types.
LEMMA StartType == Start \in Acc
BY PolicyAssumption DEF Start, Acc, RiskState, Outcome, NoWindow

\* There is a function that computes the loop, so that Loop(events) is one.
LEMMA LoopExists ==
  ASSUME NEW events
  PROVE  \E loop : Follows(events, loop)
<1> DEFINE Computes(f, m) ==
             /\ f[0] = Start
             /\ \A n \in 0..m - 1 : f[n + 1] = StepOf(events, f[n], n)
           T == {m \in Nat : m <= LastWindow + 1 =>
                   \E f \in [0..m -> Acc] : Computes(f, m)}
<1>1. 0 \in T
  <2>1. [n \in 0..0 |-> Start] \in [0..0 -> Acc]
    BY StartType
  <2>2. Computes([n \in 0..0 |-> Start], 0)
    OBVIOUS
  <2> QED BY <2>1, <2>2
<1>2. ASSUME NEW m \in Nat, m \in T
      PROVE  m + 1 \in T
  <2> SUFFICES ASSUME m + 1 <= LastWindow + 1
               PROVE  \E f \in [0..m + 1 -> Acc] : Computes(f, m + 1)
    OBVIOUS
  <2>1. m \in 0..LastWindow /\ m <= LastWindow + 1
    BY PolicyAssumption
  <2>2. PICK f \in [0..m -> Acc] : Computes(f, m)
    BY <1>2, <2>1
  <2> HIDE DEF Computes
  <2> DEFINE g == [n \in 0..m + 1 |-> IF n <= m THEN f[n] ELSE StepOf(events, f[m], m)]
  <2>3. f[m] \in Acc /\ StepOf(events, f[m], m) \in Acc
    BY <2>1, StepType
  <2>4. g \in [0..m + 1 -> Acc]
    BY <2>3
  <2>5. g[0] = Start
    BY <2>2 DEF Computes
  <2>6. ASSUME NEW n \in 0..m
        PROVE  g[n + 1] = StepOf(events, g[n], n)
    <3>1. CASE n < m
      <4>1. n \in 0..m - 1 /\ n + 1 \in 0..m
        BY <3>1
      <4>2. g[n] = f[n] /\ g[n + 1] = f[n + 1]
        BY <4>1
      <4> HIDE DEF g
      <4> QED BY <2>2, <4>1, <4>2 DEF Computes
    <3>2. CASE n = m
      <4>1. g[n] = f[m] /\ g[n + 1] = StepOf(events, f[m], m)
        BY <3>2
      <4> HIDE DEF g
      <4> QED BY <3>2, <4>1
    <3> QED BY <3>1, <3>2
  <2> HIDE DEF g
  <2>7. (m + 1) - 1 = m
    OBVIOUS
  <2>8. Computes(g, m + 1)
    BY <2>5, <2>6, <2>7 DEF Computes
  <2> QED BY <2>4, <2>8
<1> HIDE DEF Computes
<1>3. T \subseteq Nat
  OBVIOUS
<1> HIDE DEF T
<1>4. T = Nat
  BY <1>1, <1>2, <1>3, Inducts
<1>5. LastWindow + 1 \in Nat /\ (LastWindow + 1) - 1 = LastWindow
  BY PolicyAssumption
<1>6. PICK f \in [0..LastWindow + 1 -> Acc] : Computes(f, LastWindow + 1)
  BY <1>4, <1>5 DEF T
<1>7. f \in [0..LastWindow + 1 -> Acc]
  BY <1>6
<1>8. f[0] = Start /\ \A n \in 0..(LastWindow + 1) - 1 : f[n + 1] = StepOf(events, f[n], n)
  BY <1>6, Zenon DEF Computes
<1> QED BY <1>5, <1>7, <1>8 DEF Follows

\* The recursion of Loop, written with Follows.
IsLoop(events, f) ==
  f = [n \in 0..LastWindow + 1 |->
         IF n = 0 THEN Start ELSE StepOf(events, f[n - 1], n - 1)]

\* Loop is the function that IsLoop describes.
LEMMA LoopIsChosen ==
  ASSUME NEW events
  PROVE  Loop(events) = CHOOSE f : IsLoop(events, f)
BY DEF Loop, IsLoop, StepOf, Selected

\* Loop goes from window to window by StepOf.
LEMMA LoopFollows ==
  ASSUME NEW events
  PROVE  Follows(events, Loop(events))
<1>1. PICK loop : Follows(events, loop)
  BY LoopExists
<1>2. IsLoop(events, loop)
  <2>1. loop = [n \in 0..LastWindow + 1 |-> loop[n]]
    BY <1>1 DEF Follows
  <2>2. ASSUME NEW n \in 0..LastWindow + 1
        PROVE  loop[n] = IF n = 0 THEN Start ELSE StepOf(events, loop[n - 1], n - 1)
    <3>1. CASE n = 0
      BY <1>1, <3>1 DEF Follows
    <3>2. CASE n # 0
      <4>1. n - 1 \in 0..LastWindow /\ (n - 1) + 1 = n
        BY <3>2, PolicyAssumption
      <4> QED BY <1>1, <3>2, <4>1 DEF Follows
    <3> QED BY <3>1, <3>2
  <2> QED BY <2>1, <2>2 DEF IsLoop
<1>3. IsLoop(events, Loop(events))
  BY <1>2, LoopIsChosen
<1> DEFINE L == Loop(events)
<1> HIDE DEF L
<1>4. L = [n \in 0..LastWindow + 1 |->
             IF n = 0 THEN Start ELSE StepOf(events, L[n - 1], n - 1)]
  BY <1>3 DEF IsLoop, L
<1>12. \A n \in 0..LastWindow + 1 :
          L[n] = IF n = 0 THEN Start ELSE StepOf(events, L[n - 1], n - 1)
  BY <1>4, Zenon
<1>5. LastWindow \in Nat /\ 0 \in 0..LastWindow + 1
  BY PolicyAssumption
<1>6. DOMAIN L = 0..LastWindow + 1 /\ L[0] = Start
  BY <1>4, <1>5
<1>7. ASSUME NEW n \in 0..LastWindow
      PROVE  L[n + 1] = StepOf(events, L[n], n)
  <2>1. n + 1 \in 0..LastWindow + 1 /\ n + 1 # 0 /\ n + 1 - 1 = n
    BY <1>5
  <2>2. L[n + 1] = IF n + 1 = 0 THEN Start ELSE StepOf(events, L[n + 1 - 1], n + 1 - 1)
    BY <1>12, <2>1
  <2> QED BY <2>1, <2>2
<1> DEFINE T == {n \in Nat : n <= LastWindow + 1 => L[n] \in Acc}
<1>8. T = Nat
  <2>1. 0 \in T
    BY <1>6, StartType
  <2>2. ASSUME NEW n \in Nat, n \in T
        PROVE  n + 1 \in T
    <3> SUFFICES ASSUME n + 1 <= LastWindow + 1
                 PROVE  L[n + 1] \in Acc
      OBVIOUS
    <3>1. n \in 0..LastWindow /\ n <= LastWindow + 1
      BY <1>5
    <3>2. L[n] \in Acc
      BY <2>2, <3>1
    <3> QED BY <1>7, <3>1, <3>2, StepType
  <2>3. T \subseteq Nat
    OBVIOUS
  <2> HIDE DEF T
  <2> QED BY <2>1, <2>2, <2>3, Inducts
<1>9. \A n \in 0..LastWindow + 1 : L[n] \in Acc
  BY <1>5, <1>8
<1>10. L = [n \in 0..LastWindow + 1 |-> L[n]]
  BY <1>4
<1>11. L \in [0..LastWindow + 1 -> Acc]
  BY <1>9, <1>10
<1> QED BY <1>6, <1>7, <1>11 DEF Follows, L

-----------------------------------------------------------------------------
(* The evidence of a session.                                              *)

Keyed(events) ==
  \A e, f \in events :
    (e.window = f.window /\ e.type = f.type /\ e.revision = f.revision) => e = f

EvidenceInv == evidence \in SUBSET Evidence /\ Keyed(evidence)

\* The evidence of a session keeps the unique index, whatever arrives.
LEMMA EvidenceIsKeyed == EngineSpec => []EvidenceInv
<1>1. EngineInit => EvidenceInv
  BY DEF EngineInit, EvidenceInv, Keyed
<1>2. EvidenceInv /\ [EngineNext]_evidence => EvidenceInv'
  <2> SUFFICES ASSUME EvidenceInv, [EngineNext]_evidence
               PROVE  EvidenceInv'
    OBVIOUS
  <2>1. ASSUME NEW w \in 0..LastWindow, Arrive(w)
        PROVE  EvidenceInv'
    <3>1. PICK g \in Groups[w] : evidence' = evidence \cup g
      BY <2>1 DEF Arrive
    <3>2. /\ g \in SUBSET Evidence
          /\ \A e \in g : e.window = w
          /\ \A e, f \in g : (e.type = f.type /\ e.revision = f.revision) => e = f
      BY <3>1, GroupsAssumption
    <3>3. \A e \in evidence : e.window # w
      BY <2>1 DEF Arrive
    <3> QED BY <3>1, <3>2, <3>3 DEF EvidenceInv, Keyed
  <2>2. CASE UNCHANGED evidence
    BY <2>2 DEF EvidenceInv, Keyed
  <2> QED BY <2>1, <2>2 DEF EngineNext
<1> QED BY <1>1, <1>2, PTL DEF EngineSpec

-----------------------------------------------------------------------------
(* One window.                                                             *)

\* The score of a window for a target is an integer, NoScore included.
LEMMA ScoreIsInt ==
  ASSUME NEW group \in SUBSET Evidence, NEW type, NEW desired
  PROVE  ScoreOf(group, type, desired) \in Int
<1>1. CASE \E e \in group : e.type = type
  <2> DEFINE e == CHOOSE x \in group : x.type = type
  <2>1. e \in Evidence
    BY <1>1
  <2>2. e.content.score \in Int
    BY <2>1 DEF Evidence, Content
  <2>3. targetScore(e, desired) \in Int
    <3> HIDE DEF e
    <3> QED BY <2>2, PolicyAssumption DEF targetScore, NoScore
  <2> QED BY <1>1, <2>3 DEF ScoreOf
<1>2. CASE ~ \E e \in group : e.type = type
  BY <1>2 DEF ScoreOf, NoScore
<1> QED BY <1>1, <1>2

\* With clear thresholds no higher than the enter thresholds, no single window
\* makes the engine oscillate: what evaluateWindow decides in one state it
\* decides again in the state decided for.
THEOREM DecisionIsStable ==
  ASSUME identityClear <= identityEnter, spoofClear <= spoofEnter,
         NEW group \in SUBSET Evidence
  PROVE  Stable(group)
<1> SUFFICES ASSUME NEW from \in RiskState, Sufficient(group)
             PROVE  evaluateWindow(group, evaluateWindow(group, from))
                      = evaluateWindow(group, from)
  BY DEF Stable, evaluateWindow
<1> DEFINE id == IdentityScore(group)
           sp == SpoofScore(group)
           lo == spoofClear * Scale
           hi == spoofEnter * Scale
<1>1. id \in Int
  BY ScoreIsInt DEF IdentityScore
<1>2. sp \in Int
  BY ScoreIsInt, PolicyAssumption DEF SpoofScore, FastScore, DeepScore
<1>3. lo \in Int /\ hi \in Int /\ lo <= hi
  BY PolicyAssumption
<1>4. \A s \in RiskState : evaluateWindow(group, s) =
        matrix(id >= identityThreshold(s),
               sp >= (IF s \in {"HIGH_RISK", "CRITICAL"} THEN lo ELSE hi))
  BY DEF evaluateWindow, spoofThreshold
<1>5. identityClear \in Int /\ identityEnter \in Int
  BY PolicyAssumption
<1> HIDE DEF id, sp, lo, hi
<1>6. evaluateWindow(group, from) \in RiskState
  BY <1>4 DEF matrix, RiskState
<1> QED BY <1>1, <1>2, <1>3, <1>4, <1>5, <1>6 DEF matrix, identityThreshold, RiskState

\* In a session whose policy has its clear thresholds below its enter thresholds
\* no window makes the engine oscillate.
THEOREM ConfirmedStatesAreStable ==
  ASSUME identityClear <= identityEnter, spoofClear <= spoofEnter
  PROVE  EngineSpec => []ConfirmedStateIsStable
<1>1. EvidenceInv => ConfirmedStateIsStable
  <2> SUFFICES ASSUME EvidenceInv, NEW w \in Present
               PROVE  Stable(GroupOf(w))
    BY DEF ConfirmedStateIsStable
  <2>1. GroupOf(w) \in SUBSET Evidence
    BY DEF EvidenceInv, GroupOf, selectLatest
  <2> QED BY <2>1, DecisionIsStable
<1> QED BY <1>1, EvidenceIsKeyed, PTL

-----------------------------------------------------------------------------
(* What a score means.                                                     *)

ScoreType == {"EXPECTED_SPEAKER", "SPOOF"}

\* Two events say the same to the engine.
SameMeaning(e, f) ==
  /\ f.window = e.window
  /\ f.type = e.type
  /\ f.revision = e.revision
  /\ f.content.good = e.content.good
  /\ \A desired \in ScoreType : targetScore(f, desired) = targetScore(e, desired)
\* Every event of one set has its like in the other.
Alike(events, others) ==
  /\ \A e \in events : \E f \in others : SameMeaning(e, f)
  /\ \A f \in others : \E e \in events : SameMeaning(e, f)

\* selectLatest keeps that two sets say the same.
LEMMA LatestAlike ==
  ASSUME NEW events, NEW others, Alike(events, others)
  PROVE  Alike(selectLatest(events), selectLatest(others))
<1>1. ASSUME NEW e \in selectLatest(events)
      PROVE  \E f \in selectLatest(others) : SameMeaning(e, f)
  <2>1. e \in events /\ \A x \in events :
          (x.window = e.window /\ x.type = e.type) => x.revision <= e.revision
    BY DEF selectLatest
  <2>2. PICK f \in others : SameMeaning(e, f)
    BY <2>1 DEF Alike
  <2>3. ASSUME NEW g \in others, g.window = f.window, g.type = f.type
        PROVE  g.revision <= f.revision
    <3>1. PICK x \in events : SameMeaning(x, g)
      BY DEF Alike
    <3> QED BY <2>1, <2>2, <2>3, <3>1 DEF SameMeaning
  <2>4. f \in selectLatest(others)
    BY <2>3 DEF selectLatest
  <2> QED BY <2>2, <2>4
<1>2. ASSUME NEW f \in selectLatest(others)
      PROVE  \E e \in selectLatest(events) : SameMeaning(e, f)
  <2>1. f \in others /\ \A x \in others :
          (x.window = f.window /\ x.type = f.type) => x.revision <= f.revision
    BY DEF selectLatest
  <2>2. PICK e \in events : SameMeaning(e, f)
    BY <2>1 DEF Alike
  <2>3. ASSUME NEW g \in events, g.window = e.window, g.type = e.type
        PROVE  g.revision <= e.revision
    <3>1. PICK x \in others : SameMeaning(g, x)
      BY DEF Alike
    <3> QED BY <2>1, <2>2, <2>3, <3>1 DEF SameMeaning
  <2>4. e \in selectLatest(events)
    BY <2>3 DEF selectLatest
  <2> QED BY <2>2, <2>4
<1> QED BY <1>1, <1>2 DEF Alike

\* Of a window and type one event is the latest.
LEMMA OneLatest ==
  ASSUME NEW events \in SUBSET Evidence, Keyed(events),
         NEW e \in selectLatest(events), NEW f \in selectLatest(events),
         e.window = f.window, e.type = f.type
  PROVE  e = f
<1>1. e \in events /\ f \in events
  BY DEF selectLatest
<1>2. e.revision <= f.revision /\ f.revision <= e.revision
  BY <1>1 DEF selectLatest
<1>3. e.revision \in Nat /\ f.revision \in Nat
  BY <1>1 DEF Evidence
<1>4. e.revision = f.revision
  BY <1>2, <1>3
<1> QED BY <1>1, <1>4 DEF Keyed

OnePerType(group) == \A e, f \in group : e.type = f.type => e = f

\* Groups that say the same have the same scores.
LEMMA SameScore ==
  ASSUME NEW group, NEW other, OnePerType(group), Alike(group, other),
         NEW type, NEW desired \in ScoreType
  PROVE  ScoreOf(group, type, desired) = ScoreOf(other, type, desired)
<1>1. (\E e \in group : e.type = type) <=> (\E f \in other : f.type = type)
  BY DEF Alike, SameMeaning
<1>2. CASE \E e \in group : e.type = type
  <2>1. PICK a : a = CHOOSE e \in group : e.type = type
    OBVIOUS
  <2>2. PICK b : b = CHOOSE f \in other : f.type = type
    OBVIOUS
  <2>3. a \in group /\ a.type = type /\ b \in other /\ b.type = type
    BY <1>1, <1>2, <2>1, <2>2
  <2>4. PICK c \in group : SameMeaning(c, b)
    BY <2>3 DEF Alike
  <2>5. c = a
    BY <2>3, <2>4 DEF SameMeaning, OnePerType
  <2>6. targetScore(b, desired) = targetScore(a, desired)
    BY <2>4, <2>5 DEF SameMeaning
  <2> QED BY <1>1, <1>2, <2>1, <2>2, <2>6 DEF ScoreOf
<1>3. CASE ~ \E e \in group : e.type = type
  BY <1>1, <1>3 DEF ScoreOf
<1> QED BY <1>2, <1>3

\* Groups that say the same decide the same.
LEMMA SameDecision ==
  ASSUME NEW group, NEW other, OnePerType(group), Alike(group, other), NEW current
  PROVE  evaluateWindow(other, current) = evaluateWindow(group, current)
<1>1. IdentityScore(group) = IdentityScore(other)
  BY SameScore DEF IdentityScore, ScoreType
<1>2. FastScore(group) = FastScore(other)
  BY SameScore DEF FastScore, ScoreType
<1>3. DeepScore(group) = DeepScore(other)
  BY SameScore DEF DeepScore, ScoreType
<1>4. SpoofScore(group) = SpoofScore(other)
  BY <1>2, <1>3 DEF SpoofScore
<1>5. (\A e \in group : e.type \notin {"INSUFFICIENT_EVIDENCE", "PIPELINE_ERROR"})
        <=> \A f \in other : f.type \notin {"INSUFFICIENT_EVIDENCE", "PIPELINE_ERROR"}
  BY DEF Alike, SameMeaning
<1>6. (\A e \in Scored(group) : e.content.good) <=> \A f \in Scored(other) : f.content.good
  BY DEF Scored, Alike, SameMeaning
<1>7. Sufficient(group) <=> Sufficient(other)
  BY <1>1, <1>2, <1>3, <1>5, <1>6 DEF Sufficient
<1> QED BY <1>1, <1>4, <1>7 DEF evaluateWindow

\* Sets that say the same make the loop take the same step.
LEMMA SameStep ==
  ASSUME NEW events \in SUBSET Evidence, NEW others, Keyed(events), Alike(events, others),
         NEW acc, NEW w
  PROVE  StepOf(others, acc, w) = StepOf(events, acc, w)
<1> DEFINE group == Selected(events, w)
           other == Selected(others, w)
<1>1. Alike(selectLatest(events), selectLatest(others))
  BY LatestAlike
<1>2. Alike(group, other)
  BY <1>1 DEF Selected, Alike, SameMeaning
<1>3. OnePerType(group)
  BY OneLatest DEF Selected, OnePerType
<1>4. group = {} <=> other = {}
  BY <1>2 DEF Alike
<1> HIDE DEF group, other
<1>5. evaluateWindow(other, acc.effective) = evaluateWindow(group, acc.effective)
  BY <1>2, <1>3, SameDecision
<1>6. Advance(acc, w, other) = Advance(acc, w, group)
  BY <1>5 DEF Advance
<1> QED BY <1>4, <1>6 DEF StepOf, group, other

\* Events that say the same lead to the same result.
LEMMA MeaningDecides ==
  ASSUME NEW events \in SUBSET Evidence, NEW others, Keyed(events), Alike(events, others)
  PROVE  evaluateRiskEvidence(others) = evaluateRiskEvidence(events)
<1> DEFINE L == Loop(events)
           M == Loop(others)
           T == {n \in Nat : n <= LastWindow + 1 => M[n] = L[n]}
<1>1. Follows(events, L) /\ Follows(others, M)
  BY LoopFollows
<1> HIDE DEF L, M
<1>2. 0 \in T
  BY <1>1 DEF Follows
<1>3. ASSUME NEW n \in Nat, n \in T
      PROVE  n + 1 \in T
  <2> SUFFICES ASSUME n + 1 <= LastWindow + 1
               PROVE  M[n + 1] = L[n + 1]
    OBVIOUS
  <2>1. n \in 0..LastWindow /\ n <= LastWindow + 1
    BY PolicyAssumption
  <2>2. M[n] = L[n]
    BY <1>3, <2>1
  <2>3. M[n + 1] = StepOf(others, M[n], n) /\ L[n + 1] = StepOf(events, L[n], n)
    BY <1>1, <2>1 DEF Follows
  <2> QED BY <2>2, <2>3, SameStep
<1>4. T \subseteq Nat
  OBVIOUS
<1> HIDE DEF T
<1>5. T = Nat
  BY <1>2, <1>3, <1>4, Inducts
<1>6. M[LastWindow + 1] = L[LastWindow + 1]
  BY <1>5, PolicyAssumption DEF T
<1> QED BY <1>6 DEF evaluateRiskEvidence, Result, L, M

\* A mirrored event says the same as the event.
LEMMA MirroredAlike ==
  ASSUME NEW e \in Evidence
  PROVE  SameMeaning(e, Mirrored(e))
<1> DEFINE c == e.content
           s == c.score
           d == c.direction
<1>1. /\ s \in 0..Scale /\ Scale \in Nat
      /\ d \in {"HIGHER_MEANS_MORE", "LOWER_MEANS_MORE"}
  BY PolicyAssumption DEF Evidence, Content
<1>2. /\ Mirrored(e).window = e.window /\ Mirrored(e).type = e.type
      /\ Mirrored(e).revision = e.revision
      /\ Mirrored(e).content.good = c.good
      /\ Mirrored(e).content.target = c.target
      /\ Mirrored(e).content.score = Scale - s
      /\ Mirrored(e).content.direction = Opposite(d)
  BY DEF Mirrored, Evidence, Content
<1> DEFINE f == Mirrored(e)
<1> HIDE DEF f
<1>3. (IF f.content.direction = "HIGHER_MEANS_MORE" THEN f.content.score
       ELSE Scale - f.content.score)
        = IF d = "HIGHER_MEANS_MORE" THEN s ELSE Scale - s
  BY <1>1, <1>2 DEF f, Opposite
<1>4. \A desired \in ScoreType : targetScore(f, desired) = targetScore(e, desired)
  BY <1>2, <1>3 DEF f, targetScore
<1> QED BY <1>2, <1>4 DEF f, SameMeaning

\* An inverted event says the same as the event.
LEMMA InvertedAlike ==
  ASSUME NEW e \in Evidence
  PROVE  SameMeaning(e, Inverted(e))
<1>1. CASE e.content.target # "SPOOF"
  BY <1>1 DEF Inverted, SameMeaning
<1>2. CASE e.content.target = "SPOOF"
  <2> DEFINE c == e.content
             s == c.score
             d == c.direction
             f == Inverted(e)
  <2>1. s \in 0..Scale /\ Scale \in Nat
    BY PolicyAssumption DEF Evidence, Content
  <2>2. /\ f.window = e.window /\ f.type = e.type /\ f.revision = e.revision
        /\ f.content.good = c.good
        /\ f.content.target = "BONAFIDE"
        /\ f.content.score = Scale - s
        /\ f.content.direction = d
    BY <1>2 DEF Inverted, Evidence, Content
  <2> HIDE DEF f
  <2> DEFINE more == IF d = "HIGHER_MEANS_MORE" THEN s ELSE Scale - s
             more2 == IF f.content.direction = "HIGHER_MEANS_MORE" THEN f.content.score
                      ELSE Scale - f.content.score
  <2>3. more \in Int /\ more2 = Scale - more
    BY <2>1, <2>2
  <2> HIDE DEF more, more2
  <2>4. targetScore(f, "SPOOF") = Scale - more2 /\ targetScore(e, "SPOOF") = more
    BY <1>2, <2>2 DEF targetScore, more, more2
  <2>5. targetScore(f, "SPOOF") = targetScore(e, "SPOOF")
    BY <2>1, <2>3, <2>4
  <2>6. /\ targetScore(f, "EXPECTED_SPEAKER") = NoScore
        /\ targetScore(e, "EXPECTED_SPEAKER") = NoScore
    BY <1>2, <2>2 DEF targetScore
  <2> QED BY <2>2, <2>5, <2>6 DEF f, SameMeaning, ScoreType
<1> QED BY <1>1, <1>2

\* What a model reports with the opposite direction or for the opposite target
\* leads to the same result.
THEOREM OnlyMeaningCounts == EngineSpec => []ScoreMeaningOnly
<1>1. EvidenceInv => ScoreMeaningOnly
  <2> SUFFICES ASSUME EvidenceInv
               PROVE  ScoreMeaningOnly
    OBVIOUS
  <2>1. Alike(evidence, {Mirrored(e) : e \in evidence})
    BY MirroredAlike DEF Alike, EvidenceInv
  <2>2. Alike(evidence, {Inverted(e) : e \in evidence})
    BY InvertedAlike DEF Alike, EvidenceInv
  <2> QED BY <2>1, <2>2, MeaningDecides DEF EvidenceInv, ScoreMeaningOnly
<1> QED BY <1>1, EvidenceIsKeyed, PTL

-----------------------------------------------------------------------------
(* The counter and the run of windows it counts.                           *)

\* The windows of the evidence below n; a run of them that ends in l, the last
\* one, decides for `to` in state `from` and has not moved the state.
Before(n) == {u \in Present : u < n}
IsRun(loop, run, l, n, from, to) ==
  /\ run \subseteq Before(n)
  /\ l \in run
  /\ \A u \in Before(n) : u <= l
  /\ Persists(loop, run, l, from, to)
  /\ loop[l + 1].effective = from

\* What is pending is what a run decides for that is shorter than required.
Explained(loop, n) ==
  loop[n].pending # NoState =>
    /\ loop[n].pending # loop[n].effective
    /\ loop[n].count < Required(loop[n].effective, loop[n].pending)
    /\ \E run \in SUBSET Before(n) :
         /\ IsRun(loop, run, loop[n].previous, n, loop[n].effective, loop[n].pending)
         /\ Cardinality(run) = loop[n].count
\* No run is longer than what is pending.
Longest(loop, n) ==
  \A run \in SUBSET Before(n), l \in Before(n), to \in RiskState \ {loop[n].effective} :
    IsRun(loop, run, l, n, loop[n].effective, to) =>
      /\ loop[n].pending = to
      /\ loop[n].previous = l
      /\ Cardinality(run) <= loop[n].count

\* Every move takes at least one window.
LEMMA RequiredType ==
  ASSUME NEW from, NEW to
  PROVE  Required(from, to) \in Nat \ {0}
BY PolicyAssumption DEF Required

\* The windows the loop sees are those with evidence, and it sees their groups.
LEMMA PresentWindows ==
  ASSUME EvidenceInv
  PROVE  /\ Present \subseteq 0..LastWindow
         /\ Present \subseteq Nat
         /\ \A w \in Present : Selected(evidence, w) # {} /\ Selected(evidence, w) = GroupOf(w)
         /\ \A w \in (0..LastWindow) \ Present : Selected(evidence, w) = {}
BY DEF EvidenceInv, Present, selectLatest, Evidence, Selected, GroupOf

\* A run of windows can be counted.
LEMMA RunIsFinite ==
  ASSUME EvidenceInv, NEW run \in SUBSET Present
  PROVE  IsFiniteSet(run) /\ Cardinality(run) \in Nat
<1>1. IsFiniteSet(0..LastWindow)
  BY PolicyAssumption, FS_Interval
<1>2. run \subseteq 0..LastWindow
  BY PresentWindows
<1>3. IsFiniteSet(run)
  BY <1>1, <1>2, FS_Subset
<1> QED BY <1>3, FS_CardinalityType

\* The loop's variables have their types after every window.
LEMMA LoopTypes ==
  ASSUME NEW loop, Follows(evidence, loop), NEW n \in 0..LastWindow + 1
  PROVE  /\ loop[n] \in Acc
         /\ loop[n].effective \in RiskState
         /\ loop[n].pending \in RiskState \cup {NoState}
         /\ loop[n].count \in Nat
         /\ loop[n].previous \in Int
<1>1. loop[n] \in Acc
  BY DEF Follows
<1> QED BY <1>1 DEF Acc

\* A window of the evidence is one step of the loop.
LEMMA PresentStep ==
  ASSUME EvidenceInv, NEW loop, Follows(evidence, loop), NEW w \in Present
  PROVE  loop[w + 1] = Advance(loop[w], w, GroupOf(w))
<1>1. w \in 0..LastWindow /\ Selected(evidence, w) # {} /\ Selected(evidence, w) = GroupOf(w)
  BY PresentWindows
<1> QED BY <1>1 DEF Follows, StepOf

\* The pending run and one more window that decides alike.
LEMMA RunGrows ==
  ASSUME EvidenceInv, NEW loop, Follows(evidence, loop), NEW w \in Present,
         Explained(loop, w),
         NEW to \in RiskState \ {loop[w].effective},
         evaluateWindow(GroupOf(w), loop[w].effective) = to
  PROVE  \E r \in SUBSET Before(w) :
           /\ Persists(loop, r \cup {w}, w, loop[w].effective, to)
           /\ Cardinality(r \cup {w}) = Counted(loop[w], w, to)
<1> DEFINE from == loop[w].effective
<1>1. w \in 0..LastWindow /\ w \in 0..LastWindow + 1 /\ Present \subseteq Nat
  BY PresentWindows, PolicyAssumption
<1>2. CASE loop[w].pending = to /\ Contiguous(loop[w].previous, w)
  <2> DEFINE l == loop[w].previous
  <2>1. loop[w].pending # NoState
    BY <1>2 DEF RiskState, NoState
  <2>2. PICK r \in SUBSET Before(w) : IsRun(loop, r, l, w, from, to) /\ Cardinality(r) = loop[w].count
    BY <1>2, <2>1 DEF Explained
  <2>3. /\ l \in r /\ r \subseteq Present /\ \A u \in r : u \in Nat /\ u < w
        /\ \A u \in Present : u < w => u <= l
        /\ loop[l + 1].effective = from
    BY <1>1, <2>2 DEF IsRun, Before
  <2>4. Persists(loop, r, l, from, to)
    BY <2>2 DEF IsRun
  <2>5. l \in Nat /\ w - l <= maximumWindowGap + 1
    BY <1>2, <2>3 DEF Contiguous, NoWindow
  <2> HIDE DEF l
  <2> DEFINE run == r \cup {w}
  <2>6. \A u \in Present, v \in run : (v <= u /\ u <= w) => u \in run
    <3> SUFFICES ASSUME NEW u \in Present, NEW v \in run, v <= u, u <= w
                 PROVE  u \in run
      OBVIOUS
    <3>1. u \in Nat /\ w \in Nat
      BY <1>1
    <3>2. CASE u = w
      BY <3>2
    <3>3. CASE u # w
      <4>1. u < w /\ u <= l
        BY <2>3, <3>1, <3>3
      <4>2. v \in r
        BY <3>1, <4>1
      <4> QED BY <2>4, <4>1, <4>2 DEF Persists
    <3> QED BY <3>2, <3>3
  <2>7. \A u \in run \ {w} : \E v \in run : u < v /\ v - u <= maximumWindowGap + 1
    <3> SUFFICES ASSUME NEW u \in run \ {w}
                 PROVE  \E v \in run : u < v /\ v - u <= maximumWindowGap + 1
      OBVIOUS
    <3>1. CASE u = l
      BY <2>3, <2>5, <3>1
    <3>2. CASE u # l
      BY <2>4, <3>2 DEF Persists
    <3> QED BY <3>1, <3>2
  <2>8. \A u \in run : /\ loop[u].effective = from
                       /\ u # w => loop[u + 1].effective = from
                       /\ evaluateWindow(GroupOf(u), from) = to
    <3> SUFFICES ASSUME NEW u \in run
                 PROVE  /\ loop[u].effective = from
                        /\ u # w => loop[u + 1].effective = from
                        /\ evaluateWindow(GroupOf(u), from) = to
      OBVIOUS
    <3>1. CASE u = w
      BY <3>1
    <3>2. CASE u = l /\ u # w
      BY <2>3, <2>4, <3>2 DEF Persists
    <3>3. CASE u # l /\ u # w
      BY <2>4, <3>3 DEF Persists
    <3> QED BY <3>1, <3>2, <3>3
  <2>9. Persists(loop, run, w, from, to)
    <3> HIDE DEF run, from
    <3> QED BY <2>6, <2>7, <2>8 DEF Persists
  <2>10. IsFiniteSet(r) /\ w \notin r
    BY <1>1, <2>3, RunIsFinite
  <2>11. Cardinality(run) = Cardinality(r) + 1
    BY <2>10, FS_AddElement
  <2>12. Counted(loop[w], w, to) = loop[w].count + 1
    BY <1>2 DEF Counted
  <2> QED BY <2>2, <2>9, <2>11, <2>12
<1>3. CASE ~(loop[w].pending = to /\ Contiguous(loop[w].previous, w))
  <2>1. Counted(loop[w], w, to) = 1
    BY <1>3 DEF Counted
  <2>2. {} \cup {w} = {w} /\ Cardinality({w}) = 1
    BY FS_Singleton
  <2>3. Persists(loop, {w}, w, from, to)
    BY <1>1 DEF Persists
  <2> QED BY <2>1, <2>2, <2>3
<1> QED BY <1>2, <1>3

\* A run that ends in w is a run that ends in the window of the evidence before
\* w and w, close to it.
LEMMA RunShrinks ==
  ASSUME EvidenceInv, NEW loop, NEW w \in Present, NEW run \in SUBSET Present,
         w \in run, \A u \in run : u <= w, run # {w},
         NEW from, NEW to, Persists(loop, run, w, from, to)
  PROVE  \E l \in Before(w) : /\ IsRun(loop, run \ {w}, l, w, from, to)
                              /\ w - l <= maximumWindowGap + 1
<1> DEFINE r == run \ {w}
<1>1. /\ r # {} /\ w \in Nat /\ Present \subseteq Nat /\ r \subseteq 0..w
      /\ \A u \in r : u < w /\ u \in Nat
  BY PresentWindows
<1>2. PICK l \in r : \A u \in r : u <= l
  BY <1>1, GreatestNat
<1>3. r \subseteq Before(w) /\ l \in Before(w) /\ l \in Nat /\ l < w
  BY <1>1, <1>2 DEF Before
<1>4. \A u \in Before(w) : u <= l
  <2> SUFFICES ASSUME NEW u \in Present, u < w, l < u
               PROVE  FALSE
    BY <1>1, <1>3 DEF Before
  <2>1. u \in Nat /\ l <= u /\ u <= w
    BY <1>1, <1>3
  <2>2. u \in run
    BY <1>2, <2>1 DEF Persists
  <2>3. u \in r
    BY <1>1, <2>1, <2>2
  <2> QED BY <1>2, <1>3, <2>1, <2>3
<1>5. Persists(loop, r, l, from, to)
  <2>1. \A u \in Present, v \in r : (v <= u /\ u <= l) => u \in r
    <3> SUFFICES ASSUME NEW u \in Present, NEW v \in r, v <= u, u <= l
                 PROVE  u \in r
      OBVIOUS
    <3>1. u \in Nat /\ u <= w /\ u # w
      BY <1>1, <1>3
    <3> QED BY <3>1 DEF Persists
  <2>2. \A u \in r \ {l} : \E v \in r : u < v /\ v - u <= maximumWindowGap + 1
    <3> SUFFICES ASSUME NEW u \in r \ {l}
                 PROVE  \E v \in r : u < v /\ v - u <= maximumWindowGap + 1
      OBVIOUS
    <3>1. PICK v \in run : u < v /\ v - u <= maximumWindowGap + 1
      BY DEF Persists
    <3>2. CASE v # w
      BY <3>1, <3>2
    <3>3. CASE v = w
      <4>1. u \in Nat /\ u < l /\ l - u <= w - u
        BY <1>1, <1>2, <1>3
      <4>2. maximumWindowGap \in Nat
        BY PolicyAssumption
      <4>3. l - u <= maximumWindowGap + 1
        BY <1>1, <1>3, <3>1, <3>3, <4>1, <4>2
      <4> QED BY <4>1, <4>3
    <3> QED BY <3>2, <3>3
  <2>3. \A u \in r : /\ loop[u].effective = from
                     /\ u # l => loop[u + 1].effective = from
                     /\ evaluateWindow(GroupOf(u), from) = to
    BY DEF Persists
  <2> HIDE DEF r
  <2> QED BY <2>1, <2>2, <2>3 DEF Persists
<1>6. loop[l + 1].effective = from
  BY <1>3 DEF Persists
<1>7. w - l <= maximumWindowGap + 1
  <2>1. PICK v \in run : l < v /\ v - l <= maximumWindowGap + 1
    BY <1>2, <1>3 DEF Persists
  <2>2. v = w
    BY <1>1, <1>2, <1>3, <2>1
  <2> QED BY <2>1, <2>2
<1> QED BY <1>2, <1>3, <1>4, <1>5, <1>6, <1>7 DEF IsRun

\* The counter is at least as long as any run that ends in the window.
LEMMA RunIsCounted ==
  ASSUME EvidenceInv, NEW loop, Follows(evidence, loop), NEW w \in Present,
         Longest(loop, w), NEW run \in SUBSET Present, w \in run, \A u \in run : u <= w,
         NEW to \in RiskState \ {loop[w].effective},
         Persists(loop, run, w, loop[w].effective, to)
  PROVE  Cardinality(run) <= Counted(loop[w], w, to)
<1>1. w \in Nat /\ w \in 0..LastWindow + 1
  BY PresentWindows, PolicyAssumption
<1>2. loop[w].count \in Nat /\ Counted(loop[w], w, to) \in Nat \ {0}
  BY <1>1, LoopTypes DEF Counted
<1>3. CASE run = {w}
  <2>1. Cardinality(run) = 1
    BY <1>3, FS_Singleton
  <2> QED BY <1>2, <2>1
<1>4. CASE run # {w}
  <2>1. PICK l \in Before(w) : /\ IsRun(loop, run \ {w}, l, w, loop[w].effective, to)
                               /\ w - l <= maximumWindowGap + 1
    BY <1>4, RunShrinks
  <2>2. run \ {w} \in SUBSET Before(w)
    BY <2>1 DEF IsRun
  <2>3. /\ loop[w].pending = to /\ loop[w].previous = l
        /\ Cardinality(run \ {w}) <= loop[w].count
    BY <2>1, <2>2 DEF Longest
  <2>4. Counted(loop[w], w, to) = loop[w].count + 1
    BY <2>1, <2>3 DEF Counted, Contiguous
  <2>5. IsFiniteSet(run) /\ Cardinality(run) \in Nat
    BY RunIsFinite
  <2>6. Cardinality(run \ {w}) = Cardinality(run) - 1
    BY <2>5, FS_RemoveElement
  <2> QED BY <1>2, <2>3, <2>4, <2>5, <2>6
<1> QED BY <1>3, <1>4

\* An undecided window leaves the effective state alone.
LEMMA UndecidedKeepsState ==
  ASSUME NEW acc \in Acc
  PROVE  Undecided(acc).effective = acc.effective /\ Undecided(acc).pending = NoState
BY DEF Undecided, Acc

\* What a step of the loop does to the effective state: it moves where the
\* counter has reached what the move takes, and nowhere else.
LEMMA StateMoves ==
  ASSUME EvidenceInv, NEW loop, Follows(evidence, loop), NEW w \in Present,
         NEW to \in RiskState \ {loop[w].effective}
  PROVE  loop[w + 1].effective = to <=>
           /\ evaluateWindow(GroupOf(w), loop[w].effective) = to
           /\ Counted(loop[w], w, to) >= Required(loop[w].effective, to)
<1>1. w \in 0..LastWindow + 1
  BY PresentWindows, PolicyAssumption
<1>2. loop[w] \in Acc
  BY <1>1, LoopTypes
<1>3. PICK decided : decided = evaluateWindow(GroupOf(w), loop[w].effective)
  OBVIOUS
<1>4. loop[w + 1] = Advance(loop[w], w, GroupOf(w))
  BY PresentStep
<1>5. decided = "INSUFFICIENT_EVIDENCE" => loop[w + 1].effective = loop[w].effective
  <2>1. decided = "INSUFFICIENT_EVIDENCE" => loop[w + 1] = Undecided(loop[w])
    BY <1>3, <1>4, AdvanceUndecided
  <2> QED BY <1>2, <2>1, UndecidedKeepsState
<1>6. (decided # "INSUFFICIENT_EVIDENCE"
         /\ (decided = loop[w].effective
               \/ Counted(loop[w], w, decided) >= Required(loop[w].effective, decided)))
        => loop[w + 1].effective = decided
  BY <1>3, <1>4, AdvanceEntered DEF Entered
<1>7. (decided # "INSUFFICIENT_EVIDENCE" /\ decided # loop[w].effective
         /\ ~(Counted(loop[w], w, decided) >= Required(loop[w].effective, decided)))
        => loop[w + 1].effective = loop[w].effective
  BY <1>3, <1>4, AdvancePended DEF Pended
<1>8. to # "INSUFFICIENT_EVIDENCE"
  BY DEF RiskState
<1> QED BY <1>3, <1>5, <1>6, <1>7, <1>8

\* What is pending stays explained from window to window.
LEMMA ExplainedGoesOn ==
  ASSUME EvidenceInv, NEW loop, Follows(evidence, loop), NEW n \in 0..LastWindow,
         Explained(loop, n)
  PROVE  Explained(loop, n + 1)
<1>1. Present \subseteq Nat /\ n \in 0..LastWindow + 1 /\ n + 1 \in 0..LastWindow + 1
  BY PresentWindows, PolicyAssumption
<1>2. loop[n] \in Acc
  BY <1>1, LoopTypes
<1>3. CASE n \notin Present
  <2>1. loop[n + 1] = loop[n]
    BY <1>3, PresentWindows DEF Follows, StepOf
  <2>2. Before(n + 1) = Before(n)
    <3>1. \A u \in Present : u < n + 1 <=> u < n
      BY <1>1, <1>3
    <3> QED BY <3>1, Zenon DEF Before
  <2> QED BY <2>1, <2>2 DEF Explained, IsRun
<1>4. CASE n \in Present
  <2>1. PICK decided \in Outcome : decided = evaluateWindow(GroupOf(n), loop[n].effective)
    BY WindowDecision
  <2>2. loop[n + 1] = Advance(loop[n], n, GroupOf(n))
    BY <1>4, PresentStep
  <2>3. CASE decided = "INSUFFICIENT_EVIDENCE"
    <3>1. loop[n + 1].pending = NoState
      <4>1. loop[n + 1] = Undecided(loop[n])
        BY <2>1, <2>2, <2>3, AdvanceUndecided
      <4> QED BY <1>2, <4>1, UndecidedKeepsState
    <3> QED BY <3>1 DEF Explained
  <2>4. CASE decided # "INSUFFICIENT_EVIDENCE"
              /\ (decided = loop[n].effective
                    \/ Counted(loop[n], n, decided) >= Required(loop[n].effective, decided))
    <3>1. loop[n + 1].pending = NoState
      BY <2>1, <2>2, <2>4, AdvanceEntered DEF Entered
    <3> QED BY <3>1 DEF Explained
  <2>5. CASE decided # "INSUFFICIENT_EVIDENCE" /\ decided # loop[n].effective
              /\ ~(Counted(loop[n], n, decided) >= Required(loop[n].effective, decided))
    <3>1. decided \in RiskState \ {loop[n].effective}
      BY <2>1, <2>5 DEF Outcome
    <3>2. loop[n + 1] = Pended(loop[n], n, decided)
      BY <2>1, <2>2, <2>5, AdvancePended
    <3>3. /\ loop[n + 1].effective = loop[n].effective
          /\ loop[n + 1].pending = decided
          /\ loop[n + 1].count = Counted(loop[n], n, decided)
          /\ loop[n + 1].previous = n
      BY <3>2 DEF Pended
    <3>4. PICK r \in SUBSET Before(n) :
            /\ Persists(loop, r \cup {n}, n, loop[n].effective, decided)
            /\ Cardinality(r \cup {n}) = Counted(loop[n], n, decided)
      BY <1>4, <2>1, <3>1, RunGrows
    <3>5. /\ r \cup {n} \in SUBSET Before(n + 1)
          /\ \A u \in Before(n + 1) : u <= n
      BY <1>1, <1>4 DEF Before
    <3>6. IsRun(loop, r \cup {n}, n, n + 1, loop[n].effective, decided)
      BY <3>3, <3>4, <3>5 DEF IsRun
    <3>7. loop[n + 1].count < Required(loop[n].effective, decided)
      <4>1. Counted(loop[n], n, decided) \in Nat
        BY <1>2 DEF Counted, Acc
      <4>2. Required(loop[n].effective, decided) \in Nat
        BY RequiredType
      <4> QED BY <2>5, <3>3, <4>1, <4>2
    <3> QED BY <3>1, <3>3, <3>4, <3>5, <3>6, <3>7 DEF Explained
  <2> QED BY <2>3, <2>4, <2>5
<1> QED BY <1>3, <1>4

\* The counter goes on counting the longest run.
LEMMA LongestGoesOn ==
  ASSUME EvidenceInv, NEW loop, Follows(evidence, loop), NEW n \in 0..LastWindow,
         Longest(loop, n)
  PROVE  Longest(loop, n + 1)
<1>1. Present \subseteq Nat /\ n \in 0..LastWindow + 1 /\ n + 1 \in 0..LastWindow + 1
  BY PresentWindows, PolicyAssumption
<1>2. CASE n \notin Present
  <2>1. loop[n + 1] = loop[n]
    BY <1>2, PresentWindows DEF Follows, StepOf
  <2>2. Before(n + 1) = Before(n)
    <3>1. \A u \in Present : u < n + 1 <=> u < n
      BY <1>1, <1>2
    <3> QED BY <3>1, Zenon DEF Before
  <2> QED BY <2>1, <2>2 DEF Longest, IsRun
<1>3. CASE n \in Present
  <2> SUFFICES ASSUME NEW run \in SUBSET Before(n + 1), NEW l \in Before(n + 1),
                      NEW to \in RiskState \ {loop[n + 1].effective},
                      IsRun(loop, run, l, n + 1, loop[n + 1].effective, to)
               PROVE  /\ loop[n + 1].pending = to
                      /\ loop[n + 1].previous = l
                      /\ Cardinality(run) <= loop[n + 1].count
    BY DEF Longest
  <2>1. l = n
    <3>1. n \in Before(n + 1)
      BY <1>1, <1>3 DEF Before
    <3> QED BY <1>1, <3>1 DEF IsRun, Before
  <2>2. /\ n \in run /\ run \in SUBSET Present /\ \A u \in run : u <= n
        /\ Persists(loop, run, n, loop[n + 1].effective, to)
    BY <1>1, <2>1 DEF IsRun, Before
  <2>3. /\ loop[n].effective = loop[n + 1].effective
        /\ evaluateWindow(GroupOf(n), loop[n].effective) = to
    BY <2>2 DEF Persists
  <2>4. Cardinality(run) <= Counted(loop[n], n, to)
    BY <1>3, <2>2, <2>3, RunIsCounted
  <2>5. to # "INSUFFICIENT_EVIDENCE" /\ to # loop[n].effective
    BY <2>3 DEF RiskState
  <2>6. loop[n + 1] = Advance(loop[n], n, GroupOf(n))
    BY <1>3, PresentStep
  <2>7. ~(Counted(loop[n], n, to) >= Required(loop[n].effective, to))
    BY <1>3, <2>3, <2>5, StateMoves
  <2>8. loop[n + 1] = Pended(loop[n], n, to)
    BY <2>3, <2>5, <2>6, <2>7, AdvancePended
  <2> QED BY <2>1, <2>4, <2>8 DEF Pended
<1> QED BY <1>2, <1>3

\* Both hold after every window.
LEMMA CounterIsRun ==
  ASSUME EvidenceInv, NEW loop, Follows(evidence, loop), NEW n \in 0..LastWindow + 1
  PROVE  Explained(loop, n) /\ Longest(loop, n)
<1> DEFINE T == {m \in Nat : m <= LastWindow + 1 => Explained(loop, m) /\ Longest(loop, m)}
<1>1. 0 \in T
  <2>1. loop[0].pending = NoState
    BY DEF Follows, Start
  <2>2. Before(0) = {}
    BY PresentWindows DEF Before
  <2>3. Explained(loop, 0)
    BY <2>1 DEF Explained
  <2>4. Longest(loop, 0)
    BY <2>2 DEF Longest
  <2> QED BY <2>3, <2>4
<1>2. ASSUME NEW m \in Nat, m \in T
      PROVE  m + 1 \in T
  <2> SUFFICES ASSUME m + 1 <= LastWindow + 1
               PROVE  Explained(loop, m + 1) /\ Longest(loop, m + 1)
    OBVIOUS
  <2>1. m \in 0..LastWindow /\ m <= LastWindow + 1
    BY PolicyAssumption
  <2>2. Explained(loop, m) /\ Longest(loop, m)
    BY <1>2, <2>1
  <2> QED BY <2>1, <2>2, ExplainedGoesOn, LongestGoesOn
<1>3. T \subseteq Nat
  OBVIOUS
<1> HIDE DEF T
<1>4. T = Nat
  BY <1>1, <1>2, <1>3, Inducts
<1>5. n \in Nat /\ n <= LastWindow + 1
  BY PolicyAssumption
<1> QED BY <1>4, <1>5 DEF T

\* The window the state moves at ends a run of the required length, and no
\* other window does.
LEMMA MovesAfterRun ==
  ASSUME EvidenceInv
  PROVE  HysteresisReference
<1> DEFINE loop == Loop(evidence)
<1>1. Follows(evidence, loop)
  BY LoopFollows
<1> HIDE DEF loop
<1> SUFFICES ASSUME NEW w \in Present, NEW to \in RiskState \ {loop[w].effective}
             PROVE  loop[w + 1].effective = to <=>
                      \E run \in {r \cup {w} : r \in SUBSET {u \in Present : u < w}} :
                        /\ Cardinality(run) = Required(loop[w].effective, to)
                        /\ Persists(loop, run, w, loop[w].effective, to)
  BY <1>1 DEF HysteresisReference, Follows, loop
<1>2. w \in 0..LastWindow + 1 /\ w \in Nat /\ Present \subseteq Nat
  BY PresentWindows, PolicyAssumption
<1>3. Explained(loop, w) /\ Longest(loop, w)
  BY <1>1, <1>2, CounterIsRun
<1>4. /\ loop[w].count \in Nat
      /\ Counted(loop[w], w, to) \in Nat \ {0}
      /\ Required(loop[w].effective, to) \in Nat \ {0}
  BY <1>1, <1>2, LoopTypes, RequiredType DEF Counted
<1>5. {u \in Present : u < w} = Before(w)
  BY DEF Before
<1>6. ASSUME loop[w + 1].effective = to
      PROVE  \E run \in {r \cup {w} : r \in SUBSET Before(w)} :
               /\ Cardinality(run) = Required(loop[w].effective, to)
               /\ Persists(loop, run, w, loop[w].effective, to)
  <2>1. /\ evaluateWindow(GroupOf(w), loop[w].effective) = to
        /\ Counted(loop[w], w, to) >= Required(loop[w].effective, to)
    BY <1>1, <1>6, StateMoves
  <2>2. PICK r \in SUBSET Before(w) :
          /\ Persists(loop, r \cup {w}, w, loop[w].effective, to)
          /\ Cardinality(r \cup {w}) = Counted(loop[w], w, to)
    BY <1>1, <1>3, <2>1, RunGrows
  <2>3. Counted(loop[w], w, to) <= Required(loop[w].effective, to)
    <3>1. CASE loop[w].pending = to /\ Contiguous(loop[w].previous, w)
      <4>1. loop[w].count < Required(loop[w].effective, to)
        BY <1>3, <3>1 DEF Explained, RiskState, NoState
      <4>2. Counted(loop[w], w, to) = loop[w].count + 1
        BY <3>1 DEF Counted
      <4> QED BY <1>4, <4>1, <4>2
    <3>2. CASE ~(loop[w].pending = to /\ Contiguous(loop[w].previous, w))
      BY <1>4, <3>2 DEF Counted
    <3> QED BY <3>1, <3>2
  <2>4. Counted(loop[w], w, to) = Required(loop[w].effective, to)
    BY <1>4, <2>1, <2>3
  <2> QED BY <2>2, <2>4
<1>7. ASSUME NEW r \in SUBSET Before(w),
             Cardinality(r \cup {w}) = Required(loop[w].effective, to),
             Persists(loop, r \cup {w}, w, loop[w].effective, to)
      PROVE  loop[w + 1].effective = to
  <2>1. r \cup {w} \in SUBSET Present /\ w \in r \cup {w} /\ \A u \in r \cup {w} : u <= w
    BY <1>2 DEF Before
  <2>2. Cardinality(r \cup {w}) <= Counted(loop[w], w, to)
    BY <1>1, <1>3, <1>7, <2>1, RunIsCounted
  <2>3. evaluateWindow(GroupOf(w), loop[w].effective) = to
    BY <1>7 DEF Persists
  <2>4. Counted(loop[w], w, to) >= Required(loop[w].effective, to)
    BY <1>4, <1>7, <2>2
  <2> QED BY <1>1, <2>3, <2>4, StateMoves
<1> QED BY <1>5, <1>6, <1>7

\* The state moves exactly when the last windows, as many as the policy requires
\* for the move, decided for the new state without an interruption.
THEOREM StateMovesAfterRun == EngineSpec => []HysteresisReference
<1>1. EvidenceInv => HysteresisReference
  BY MovesAfterRun
<1> QED BY <1>1, EvidenceIsKeyed, PTL

-----------------------------------------------------------------------------
(* What the engine gives.                                                  *)

\* The result of the engine is a state, an outcome and interventions of the policy.
LEMMA EngineResult ==
  ASSUME NEW events
  PROVE  /\ evaluateRiskEvidence(events).effectiveState \in RiskState
         /\ evaluateRiskEvidence(events).outcome \in Outcome
         /\ evaluateRiskEvidence(events).proposedInterventions \subseteq highRisk \cup critical
<1>1. Loop(events)[LastWindow + 1] \in Acc
  BY LoopFollows, PolicyAssumption DEF Follows
<1> DEFINE last == Loop(events)[LastWindow + 1]
<1>2. last.effective \in RiskState /\ last.outcome \in Outcome
  BY <1>1 DEF Acc
<1> HIDE DEF last
<1>3. /\ evaluateRiskEvidence(events).effectiveState = last.effective
      /\ evaluateRiskEvidence(events).outcome = last.outcome
      /\ evaluateRiskEvidence(events).proposedInterventions \subseteq highRisk \cup critical
  BY DEF evaluateRiskEvidence, Result, last
<1> QED BY <1>2, <1>3

\* Without evidence the state is the one the loop starts with.
LEMMA NoEvidenceNoChange ==
  evaluateRiskEvidence({}).effectiveState = "UNVERIFIED"
<1> DEFINE L == Loop({})
           T == {n \in Nat : n <= LastWindow + 1 => L[n] = Start}
<1>1. Follows({}, L)
  BY LoopFollows
<1> HIDE DEF L
<1>2. 0 \in T
  BY <1>1 DEF Follows
<1>3. ASSUME NEW n \in Nat, n \in T
      PROVE  n + 1 \in T
  <2> SUFFICES ASSUME n + 1 <= LastWindow + 1
               PROVE  L[n + 1] = Start
    OBVIOUS
  <2>1. n \in 0..LastWindow /\ n <= LastWindow + 1
    BY PolicyAssumption
  <2>2. L[n] = Start
    BY <1>3, <2>1
  <2>3. Selected({}, n) = {}
    BY DEF Selected, selectLatest
  <2> QED BY <1>1, <2>1, <2>2, <2>3 DEF Follows, StepOf
<1>4. T \subseteq Nat
  OBVIOUS
<1> HIDE DEF T
<1>5. T = Nat
  BY <1>2, <1>3, <1>4, Inducts
<1>6. L[LastWindow + 1] = Start
  BY <1>5, PolicyAssumption DEF T
<1> QED BY <1>6 DEF evaluateRiskEvidence, Result, Start, L

-----------------------------------------------------------------------------
(* The tables.                                                             *)

\* The types the argument needs.
ShapeInv ==
  /\ \A i \in Ids : content[i] \in Content
  /\ policyValid \in BOOLEAN
  /\ acceptance \in [Ids -> Acceptance]
  /\ assessments \in Seq(Assessment)
  /\ \A r \in Requests : request[r].pc = "granted" =>
       request[r].id \in Ids /\ request[r].accept \in BOOLEAN
  /\ DOMAIN request = Requests

\* No assessment rests on an event that is not on record.
EvidenceOnRecord ==
  \A n \in DOMAIN assessments : \A i \in Ids :
    i \in assessments[n].evidence => acceptance[i] # "NONE"

IInv == ShapeInv /\ EvidenceOnRecord /\ SlotKeepsHighestRevision /\ LatestAssessmentIsCurrent

\* The initial states, in which no event is on record.
LEMMA InitIInv == Init => IInv
<1> SUFFICES ASSUME Init PROVE IInv
  OBVIOUS
<1>1. ShapeInv
  <2>1. \A i \in Ids : content[i] \in Content
    BY PipelineAssumption DEF Init
  <2>2. assessments \in Seq(Assessment)
    BY DEF Init
  <2> QED BY <2>1, <2>2 DEF Init, ShapeInv, Acceptance, Idle
<1>2. EvidenceOnRecord
  BY DEF Init, EvidenceOnRecord
<1>3. SlotKeepsHighestRevision
  BY DEF Init, SlotKeepsHighestRevision
<1>4. LatestAssessmentIsCurrent
  BY DEF Init, LatestAssessmentIsCurrent, Accepted
<1> QED BY <1>1, <1>2, <1>3, <1>4 DEF IInv

\* The state a decision compares with is one the engine can give.
LEMMA PriorStateType ==
  ASSUME assessments \in Seq(Assessment)
  PROVE  PriorState \in RiskState
<1>1. CASE assessments = <<>>
  BY <1>1 DEF PriorState, RiskState
<1>2. CASE assessments # <<>>
  <2>1. Len(assessments) \in 1..Len(assessments)
    BY <1>2, EmptySeq, LenProperties
  <2>2. assessments[Len(assessments)] \in Assessment
    BY <2>1, ElementOfSeq
  <2> QED BY <1>2, <2>2 DEF PriorState, Assessment
<1> QED BY <1>1, <1>2

\* What recordDecision does to the assessments: nothing when the policy is
\* invalid or the set was assessed before, and one more row for it otherwise.
LEMMA DecisionAppends ==
  ASSUME ShapeInv, NEW ids \in SUBSET Ids, recordDecision(ids)
  PROVE  \/ /\ ~policyValid \/ Assessed(ids)
            /\ UNCHANGED <<assessments, riskEvents, interventions, alerts>>
         \/ /\ ~Assessed(ids)
            /\ \E row \in Assessment : row.evidence = ids /\ assessments' = Append(assessments, row)
<1>1. CASE ~policyValid \/ Assessed(ids)
  BY <1>1 DEF recordDecision
<1>2. CASE ~(~policyValid \/ Assessed(ids))
  <2> DEFINE result == evaluateRiskEvidence(engineEvidence(ids))
             eligible == ProductionEligible(ids, result.outcome)
             row == [evidence |-> ids, prior |-> PriorState,
                     effective |-> result.effectiveState,
                     outcome |-> result.outcome, eligible |-> eligible]
  <2>1. assessments' = Append(assessments, row)
    BY <1>2 DEF recordDecision
  <2>3. result.effectiveState \in RiskState /\ result.outcome \in Outcome
    BY EngineResult
  <2>4. PriorState \in RiskState
    BY PriorStateType DEF ShapeInv
  <2>5. eligible \in BOOLEAN
    BY DEF ProductionEligible
  <2> HIDE DEF result, eligible
  <2>6. row \in Assessment
    BY <2>3, <2>4, <2>5 DEF Assessment, Outcome
  <2> QED BY <1>2, <2>1, <2>6
<1> QED BY <1>1, <1>2

\* A replay leaves every table alone: the accepted set was assessed when the
\* last of its events was recorded.
LEMMA ReplayLeavesTables ==
  ASSUME IInv, NEW r \in Requests, Replay(r)
  PROVE  UNCHANGED tables
<1> DEFINE i == request[r].id
           ids == Accepted(acceptance)
<1>1. CASE isEquivalent(i, request[r].accept) /\ request[r].accept
  <2>1. i \in Ids /\ acceptance[i] = "ACCEPTED"
    BY <1>1 DEF Replay, isEquivalent, IInv, ShapeInv
  <2>2. ids # {} /\ ids \in SUBSET Ids
    BY <2>1 DEF Accepted
  <2>3. recordDecision(ids)
    BY <1>1 DEF Replay
  <2>4. ~policyValid \/ Assessed(ids)
    <3> SUFFICES ASSUME policyValid PROVE Assessed(ids)
      BY DEF IInv, ShapeInv
    <3>1. assessments # <<>> /\ assessments[Len(assessments)].evidence = ids
      BY <2>2 DEF IInv, LatestAssessmentIsCurrent
    <3>2. Len(assessments) \in DOMAIN assessments
      BY <3>1, EmptySeq, LenProperties DEF IInv, ShapeInv
    <3> QED BY <3>1, <3>2 DEF Assessed
  <2> HIDE DEF i, ids
  <2>5. UNCHANGED <<assessments, riskEvents, interventions, alerts>>
    BY <2>3, <2>4 DEF recordDecision
  <2> QED BY <2>5 DEF Replay, tables
<1>2. CASE ~(isEquivalent(i, request[r].accept) /\ request[r].accept)
  BY <1>2 DEF Replay, tables
<1> QED BY <1>1, <1>2

\* A new event is accepted above every accepted one of its slot, or is stale.
LEMMA RecordedKeepsSlots ==
  ASSUME ShapeInv, SlotKeepsHighestRevision,
         NEW i \in Ids, acceptance[i] = "NONE", NEW accept \in BOOLEAN,
         acceptance' = Recorded(i, accept)
  PROVE  SlotKeepsHighestRevision'
<1>1. \A j \in Ids : j.revision \in Nat
  BY PipelineAssumption
<1>2. CASE Classify(i, accept) = "STALE"
  <2>1. \A j \in Ids : acceptance'[j] = IF j = i THEN "STALE" ELSE acceptance[j]
    BY <1>2 DEF Recorded
  <2> QED BY <2>1 DEF SlotKeepsHighestRevision
<1>3. CASE Classify(i, accept) = "ACCEPTED"
  <2>1. \A j \in Ids : acceptance'[j] =
          IF j = i THEN "ACCEPTED"
          ELSE IF SameSlot(i, j) /\ acceptance[j] = "ACCEPTED" THEN "SUPERSEDED"
          ELSE acceptance[j]
    BY <1>3 DEF Recorded
  <2>2. \A j \in Ids : (SameSlot(i, j) /\ acceptance[j] = "ACCEPTED") => j.revision < i.revision
    BY <1>3 DEF Classify
  <2>3. \A j \in Ids : (SameSlot(i, j) /\ acceptance[j] = "SUPERSEDED") => j.revision < i.revision
    <3> SUFFICES ASSUME NEW j \in Ids, SameSlot(i, j), acceptance[j] = "SUPERSEDED"
                 PROVE  j.revision < i.revision
      OBVIOUS
    <3>1. PICK k \in Ids : SameSlot(j, k) /\ acceptance[k] = "ACCEPTED"
      BY DEF SlotKeepsHighestRevision, SameSlot
    <3>2. j.revision < k.revision
      BY <3>1 DEF SlotKeepsHighestRevision, SameSlot
    <3>3. k.revision < i.revision
      BY <2>2, <3>1 DEF SameSlot
    <3> QED BY <1>1, <3>2, <3>3
  <2>4. SUFFICES ASSUME NEW a \in Ids, NEW b \in Ids, SameSlot(a, b)
                 PROVE  /\ (a # b /\ acceptance'[a] = "ACCEPTED") => acceptance'[b] # "ACCEPTED"
                        /\ (acceptance'[a] = "ACCEPTED" /\ acceptance'[b] = "SUPERSEDED")
                             => b.revision < a.revision
                        /\ acceptance'[a] = "SUPERSEDED"
                             => \E k \in Ids : SameSlot(a, k) /\ acceptance'[k] = "ACCEPTED"
    BY DEF SlotKeepsHighestRevision
  <2>5. (a # b /\ acceptance'[a] = "ACCEPTED") => acceptance'[b] # "ACCEPTED"
    BY <2>1, <2>4 DEF SlotKeepsHighestRevision, SameSlot
  <2>6. (acceptance'[a] = "ACCEPTED" /\ acceptance'[b] = "SUPERSEDED") => b.revision < a.revision
    BY <2>1, <2>2, <2>3, <2>4 DEF SlotKeepsHighestRevision, SameSlot
  <2>7. acceptance'[a] = "SUPERSEDED"
          => \E k \in Ids : SameSlot(a, k) /\ acceptance'[k] = "ACCEPTED"
    <3> SUFFICES ASSUME acceptance'[a] = "SUPERSEDED"
                 PROVE  \E k \in Ids : SameSlot(a, k) /\ acceptance'[k] = "ACCEPTED"
      OBVIOUS
    <3>1. CASE SameSlot(i, a)
      BY <2>1, <3>1 DEF SameSlot
    <3>2. CASE ~SameSlot(i, a)
      <4>1. acceptance[a] = "SUPERSEDED"
        BY <2>1, <3>2
      <4>2. PICK k \in Ids : SameSlot(a, k) /\ acceptance[k] = "ACCEPTED"
        BY <4>1 DEF SlotKeepsHighestRevision, SameSlot
      <4>3. acceptance'[k] = "ACCEPTED"
        BY <2>1, <3>2, <4>2 DEF SameSlot
      <4> QED BY <4>2, <4>3
    <3> QED BY <3>1, <3>2
  <2> QED BY <2>5, <2>6, <2>7
<1> QED BY <1>2, <1>3 DEF Classify

\* A new event enters the record, and what it decides rests on the record.
LEMMA RecordKeepsIInv ==
  ASSUME IInv, NEW r \in Requests, Record(r)
  PROVE  IInv'
<1> DEFINE i == request[r].id
           accept == request[r].accept
           rows == Recorded(i, accept)
           ids == Accepted(rows)
<1>1. i \in Ids /\ accept \in BOOLEAN /\ acceptance[i] = "NONE" /\ acceptance' = rows
  BY DEF IInv, ShapeInv, Record
<1>2. \A j \in Ids : /\ rows[j] \in Acceptance
                     /\ rows[j] # "NONE" <=> (j = i \/ acceptance[j] # "NONE")
  BY <1>1 DEF IInv, ShapeInv, Recorded, Classify, Acceptance
<1>3. rows \in [Ids -> Acceptance]
  BY <1>2 DEF Recorded
<1>4. SlotKeepsHighestRevision'
  BY <1>1, RecordedKeepsSlots DEF IInv
<1>5. UNCHANGED <<content, policyValid>> /\ request' = [request EXCEPT ![r] = Idle(request'[r].answer)]
  BY DEF Record, Idle, IInv, ShapeInv
<1>6. \A q \in Requests : request'[q].pc = "granted" => q # r /\ request'[q] = request[q]
  BY <1>5 DEF Idle, IInv, ShapeInv
<1>7. DOMAIN request' = Requests
  BY <1>5 DEF IInv, ShapeInv
<1>8. CASE rows[i] = "ACCEPTED"
  <2>1. recordDecision(ids) /\ i \in ids /\ ids \in SUBSET Ids
    BY <1>1, <1>8 DEF Record, Accepted
  <2>2. ~Assessed(ids)
    BY <1>1, <2>1 DEF IInv, EvidenceOnRecord, Assessed
  <2>3. \A j \in ids : rows[j] # "NONE"
    BY DEF Accepted
  <2> HIDE DEF rows, ids
  <2>4. \/ ~policyValid /\ assessments' = assessments
        \/ \E row \in Assessment : row.evidence = ids /\ assessments' = Append(assessments, row)
    BY <2>1, <2>2, DecisionAppends DEF IInv
  <2>5. CASE ~policyValid /\ assessments' = assessments
    <3>1. ShapeInv'
      BY <1>1, <1>3, <1>5, <1>6, <1>7, <2>5 DEF IInv, ShapeInv
    <3>2. EvidenceOnRecord'
      BY <1>1, <1>2, <2>5 DEF IInv, EvidenceOnRecord
    <3>3. LatestAssessmentIsCurrent'
      BY <1>5, <2>5 DEF LatestAssessmentIsCurrent
    <3> QED BY <1>4, <3>1, <3>2, <3>3 DEF IInv
  <2>6. ASSUME NEW row \in Assessment, row.evidence = ids, assessments' = Append(assessments, row)
        PROVE  IInv'
    <3>1. /\ assessments \in Seq(Assessment) /\ assessments' \in Seq(Assessment)
          /\ Len(assessments') = Len(assessments) + 1 /\ Len(assessments) \in Nat
          /\ assessments'[Len(assessments')] = row
          /\ \A n \in 1..Len(assessments) : assessments'[n] = assessments[n]
      BY <2>6, AppendProperties DEF IInv, ShapeInv
    <3>2. ShapeInv'
      BY <1>1, <1>3, <1>5, <1>6, <1>7, <3>1 DEF IInv, ShapeInv
    <3>3. EvidenceOnRecord'
      <4> SUFFICES ASSUME NEW n \in DOMAIN assessments', NEW j \in Ids,
                          j \in assessments'[n].evidence
                   PROVE  acceptance'[j] # "NONE"
        BY DEF EvidenceOnRecord
      <4>1. CASE n = Len(assessments')
        BY <1>1, <2>3, <2>6, <3>1, <4>1
      <4>2. CASE n # Len(assessments')
        <5>1. n \in 1..Len(assessments)
          BY <3>1, <4>2, LenProperties
        <5>2. j \in assessments[n].evidence /\ n \in DOMAIN assessments
          BY <3>1, <5>1, LenProperties
        <5> QED BY <1>1, <1>2, <5>2 DEF IInv, EvidenceOnRecord
      <4> QED BY <4>1, <4>2
    <3>4. LatestAssessmentIsCurrent'
      <4>1. assessments' # <<>>
        BY <3>1, EmptySeq
      <4>2. ids = Accepted(acceptance')
        BY <1>1 DEF ids, rows
      <4> QED BY <2>6, <3>1, <4>1, <4>2 DEF LatestAssessmentIsCurrent, Accepted
    <3> QED BY <1>4, <3>2, <3>3, <3>4 DEF IInv
  <2> QED BY <2>4, <2>5, <2>6
<1>9. CASE rows[i] # "ACCEPTED"
  <2>1. assessments' = assessments
    BY <1>9 DEF Record
  <2>2. Accepted(acceptance') = Accepted(acceptance)
    BY <1>1, <1>9 DEF Recorded, Accepted
  <2> HIDE DEF rows
  <2>3. ShapeInv'
    BY <1>1, <1>3, <1>5, <1>6, <1>7, <2>1 DEF IInv, ShapeInv
  <2>4. EvidenceOnRecord'
    BY <1>1, <1>2, <2>1 DEF IInv, EvidenceOnRecord
  <2>5. LatestAssessmentIsCurrent'
    BY <1>5, <2>1, <2>2 DEF IInv, LatestAssessmentIsCurrent, Accepted
  <2> QED BY <1>4, <2>3, <2>4, <2>5 DEF IInv
<1> QED BY <1>8, <1>9

\* The other steps leave the tables alone.
LEMMA TablesKeepIInv ==
  ASSUME IInv, UNCHANGED <<content, policyValid, tables>>,
         DOMAIN request' = Requests,
         \A r \in Requests : request'[r].pc = "granted" =>
           request'[r].id \in Ids /\ request'[r].accept \in BOOLEAN
  PROVE  IInv'
BY DEF IInv, ShapeInv, EvidenceOnRecord, SlotKeepsHighestRevision,
       LatestAssessmentIsCurrent, Accepted, tables

\* Every step keeps the invariant.
LEMMA StepKeepsIInv ==
  ASSUME IInv, [Next]_vars
  PROVE  IInv'
<1>1. ASSUME NEW r \in Requests, NEW i \in Ids, Ingest(r, i)
      PROVE  IInv'
  <2>1. DOMAIN request' = Requests
    BY <1>1 DEF Ingest, IInv, ShapeInv
  <2>2. \A q \in Requests : request'[q].pc = "granted" =>
          request'[q].id \in Ids /\ request'[q].accept \in BOOLEAN
    BY <1>1 DEF Ingest, IInv, ShapeInv
  <2> QED BY <1>1, <2>1, <2>2, TablesKeepIInv DEF Ingest
<1>2. ASSUME NEW r \in Requests, Abandon(r)
      PROVE  IInv'
  <2>1. DOMAIN request' = Requests
    BY <1>2 DEF Abandon, IInv, ShapeInv
  <2>2. \A q \in Requests : request'[q].pc = "granted" =>
          request'[q].id \in Ids /\ request'[q].accept \in BOOLEAN
    BY <1>2 DEF Abandon, Idle, IInv, ShapeInv
  <2> QED BY <1>2, <2>1, <2>2, TablesKeepIInv DEF Abandon
<1>3. ASSUME NEW r \in Requests, Replay(r)
      PROVE  IInv'
  <2>1. UNCHANGED tables
    BY <1>3, ReplayLeavesTables
  <2>2. DOMAIN request' = Requests
    BY <1>3 DEF Replay, IInv, ShapeInv
  <2>3. \A q \in Requests : request'[q].pc = "granted" => request'[q] = request[q]
    BY <1>3 DEF Replay, Idle, IInv, ShapeInv
  <2>4. \A q \in Requests : request'[q].pc = "granted" =>
          request'[q].id \in Ids /\ request'[q].accept \in BOOLEAN
    BY <2>3 DEF IInv, ShapeInv
  <2>5. UNCHANGED <<content, policyValid>>
    BY <1>3 DEF Replay
  <2> QED BY <2>1, <2>2, <2>4, <2>5, TablesKeepIInv
<1>4. ASSUME NEW r \in Requests, Record(r)
      PROVE  IInv'
  BY <1>4, RecordKeepsIInv
<1>5. CASE Terminate
  BY <1>5, TablesKeepIInv DEF Terminate, IInv, ShapeInv
<1>6. CASE UNCHANGED vars
  BY <1>6, TablesKeepIInv DEF vars, IInv, ShapeInv
<1> QED BY <1>1, <1>2, <1>3, <1>4, <1>5, <1>6 DEF Next

\* The invariant holds in every reachable state, whatever the policy, the
\* events and the number of requests.
THEOREM PipelineInvariant == Spec => []IInv
<1>1. IInv /\ [Next]_vars => IInv'
  BY StepKeepsIInv
<1> QED BY InitIInv, <1>1, PTL DEF Spec

\* Of the events of a window and type the highest revision that was accepted
\* stays the accepted one.
THEOREM HighestRevisionWins == Spec => []SlotKeepsHighestRevision
<1>1. IInv => SlotKeepsHighestRevision
  BY DEF IInv
<1> QED BY PipelineInvariant, <1>1, PTL

\* The latest assessment is the one of the evidence that is accepted now.
THEOREM AssessmentFollowsEvidence == Spec => []LatestAssessmentIsCurrent
<1>1. IInv => LatestAssessmentIsCurrent
  BY DEF IInv
<1> QED BY PipelineInvariant, <1>1, PTL

\* A delivery of an event that is on record changes no table.
THEOREM RedeliveryIsIdempotent == Spec => RedeliveryChangesNothing
<1>1. ASSUME IInv, [Next]_vars, NEW r \in Requests,
             request[r].pc = "granted", request'[r].pc = "idle",
             acceptance[request[r].id] # "NONE"
      PROVE  UNCHANGED tables
  <2>1. ASSUME NEW q \in Requests, Record(q)
        PROVE  UNCHANGED tables
    <3>1. q # r
      BY <1>1, <2>1 DEF Record
    <3> QED BY <1>1, <2>1, <3>1 DEF Record, IInv, ShapeInv
  <2>2. ASSUME NEW q \in Requests, Replay(q)
        PROVE  UNCHANGED tables
    BY <1>1, <2>2, ReplayLeavesTables
  <2> QED BY <1>1, <2>1, <2>2 DEF Next, Ingest, Abandon, Terminate, vars
<1>2. IInv /\ [Next]_vars =>
        [\A r \in Requests :
           (request[r].pc = "granted" /\ request'[r].pc = "idle"
              /\ acceptance[request[r].id] # "NONE")
             => UNCHANGED tables]_vars
  BY <1>1
<1> QED BY PipelineInvariant, <1>2, PTL DEF Spec, RedeliveryChangesNothing

-----------------------------------------------------------------------------
(* What the tables say of each other.                                      *)

\* engineEvidence and ProductionEligible with the contents c as a parameter.
EvidenceOf(c, ids) ==
  {[window |-> i.window, type |-> i.type, revision |-> i.revision, content |-> c[i]] : i \in ids}
EligibleOf(c, ids, outcome) ==
  LET scored == {i \in ids : i.type \in {"IDENTITY", "SPOOF_FAST", "SPOOF_DEEP"}} IN
  /\ Promoted
  /\ EvidenceMode = "CALIBRATED"
  /\ outcome # "INSUFFICIENT_EVIDENCE"
  /\ scored # {}
  /\ \A i \in scored : c[i].eligible

\* The parameterised forms are those of the model at the contents of the session.
LEMMA ContentsDecide ==
  ASSUME NEW ids, NEW outcome
  PROVE  /\ engineEvidence(ids) = EvidenceOf(content, ids)
         /\ ProductionEligible(ids, outcome) = EligibleOf(content, ids, outcome)
BY DEF engineEvidence, EvidenceOf, ProductionEligible, EligibleOf

\* An assessment is the engine's result on its evidence, and is eligible when
\* that evidence and outcome are.
Holds(c, row) ==
  /\ row.evidence # {}
  /\ row.effective = evaluateRiskEvidence(EvidenceOf(c, row.evidence)).effectiveState
  /\ row.eligible = EligibleOf(c, row.evidence, row.outcome)
AssessmentsHold == \A n \in DOMAIN assessments : Holds(content, assessments[n])

\* Every risk event has the mode its assessment is eligible for, and none of mode
\* SHADOW has a control.
ControlsRest ==
  /\ \A n \in DOMAIN riskEvents :
       /\ riskEvents[n].assessment \in DOMAIN assessments
       /\ riskEvents[n].mode = controlMode(assessments[riskEvents[n].assessment].eligible)
  /\ \A v \in interventions : riskEvents[v.event].mode # "SHADOW"

\* While the session runs no request takes it for over, and a stale event is one
\* that a higher revision has overtaken.
StaleIsOvertaken ==
  ~terminal =>
    /\ \A r \in Requests : request[r].pc = "granted" => request[r].accept
    /\ \A i \in Ids : acceptance[i] = "STALE" =>
         \E k \in Ids : SameSlot(i, k) /\ acceptance[k] = "ACCEPTED" /\ i.revision < k.revision

TablesInv == TypeOK /\ AssessmentsHold /\ ControlsRest /\ StaleIsOvertaken

\* Empty tables say nothing wrong of each other.
LEMMA InitTablesInv == Init => TablesInv
<1> SUFFICES ASSUME Init PROVE TablesInv
  OBVIOUS
<1>1. TypeOK
  <2>1. request \in [Requests -> RequestState]
    BY DEF Init, Idle, RequestState
  <2>2. assessments \in Seq(Assessment) /\ riskEvents \in Seq(RiskEvent)
    BY DEF Init
  <2> QED BY <2>1, <2>2 DEF Init, TypeOK, Acceptance
<1>2. AssessmentsHold /\ ControlsRest
  BY DEF Init, AssessmentsHold, ControlsRest
<1>3. StaleIsOvertaken
  BY DEF Init, StaleIsOvertaken, Idle
<1> QED BY <1>1, <1>2, <1>3 DEF TablesInv

\* What a decision adds to the tables, if anything: an assessment, and a risk
\* event with its controls when the state has changed.
Adds(ids, row) ==
  /\ row \in Assessment
  /\ row.evidence = ids
  /\ row.effective = evaluateRiskEvidence(EvidenceOf(content, ids)).effectiveState
  /\ row.eligible = EligibleOf(content, ids, row.outcome)
Controls(event, types) ==
  /\ event \in RiskEvent
  /\ types \subseteq highRisk \cup critical
  /\ event.mode = "SHADOW" => types = {}

\* controlMode gives one of the three modes.
LEMMA ControlModeType ==
  ASSUME NEW eligible
  PROVE  controlMode(eligible) \in Mode
BY DEF controlMode, Mode

\* What recordDecision writes, read together: nothing; or one assessment; or an
\* assessment, the risk event of its transition and the interventions of that event.
LEMMA DecisionEffect ==
  ASSUME TypeOK, NEW ids \in SUBSET Ids, recordDecision(ids)
  PROVE  \/ UNCHANGED <<assessments, riskEvents, interventions, alerts>>
         \/ \E row : Adds(ids, row) /\ assessments' = Append(assessments, row) /\
              \/ UNCHANGED <<riskEvents, interventions, alerts>>
              \/ \E event, types :
                   /\ Controls(event, types)
                   /\ event.assessment = Len(assessments) + 1
                   /\ event.mode = controlMode(row.eligible)
                   /\ riskEvents' = Append(riskEvents, event)
                   /\ interventions' = interventions \cup
                        {[event |-> Len(riskEvents) + 1, type |-> t] : t \in types}
                   /\ \A a \in alerts' : a \in alerts \/ a.event = Len(riskEvents) + 1
<1> DEFINE result == evaluateRiskEvidence(engineEvidence(ids))
           eligible == ProductionEligible(ids, result.outcome)
           row == [evidence |-> ids, prior |-> PriorState,
                   effective |-> result.effectiveState,
                   outcome |-> result.outcome, eligible |-> eligible]
           mode == controlMode(eligible)
           types == InterventionInputs(mode, result.proposedInterventions)
           n == Len(riskEvents) + 1
           event == [assessment |-> Len(assessments) + 1, prior |-> PriorState,
                     state |-> result.effectiveState, mode |-> mode]
<1>1. CASE ~policyValid \/ Assessed(ids)
  BY <1>1 DEF recordDecision
<1>2. CASE ~(~policyValid \/ Assessed(ids))
  <2>1. /\ assessments' = Append(assessments, row)
        /\ IF PriorState = result.effectiveState \/ result.outcome = "INSUFFICIENT_EVIDENCE"
           THEN UNCHANGED <<riskEvents, interventions, alerts>>
           ELSE /\ riskEvents' = Append(riskEvents, event)
                /\ interventions' = interventions \cup {[event |-> n, type |-> t] : t \in types}
                /\ alerts' = alerts \cup OutboxRows(n, mode, types)
    BY <1>2 DEF recordDecision, RecordTransition
  <2>2. /\ result.effectiveState \in RiskState /\ result.outcome \in Outcome
        /\ result.proposedInterventions \subseteq highRisk \cup critical
    BY EngineResult
  <2>3. PriorState \in RiskState
    BY PriorStateType DEF TypeOK
  <2>4. eligible \in BOOLEAN
    BY DEF ProductionEligible
  <2>5. mode \in Mode
    BY ControlModeType
  <2>6. Len(assessments) \in Nat
    BY LenProperties DEF TypeOK
  <2>7. types \subseteq result.proposedInterventions /\ (mode = "SHADOW" => types = {})
    BY DEF InterventionInputs
  <2>8. /\ row.evidence = ids /\ row.effective = result.effectiveState
        /\ row.outcome = result.outcome /\ row.eligible = eligible
    OBVIOUS
  <2>9. row \in Assessment
    <3> HIDE DEF result, eligible
    <3> QED BY <2>2, <2>3, <2>4 DEF Assessment, Outcome
  <2>10. Adds(ids, row)
    <3> HIDE DEF row
    <3> QED BY <2>8, <2>9, ContentsDecide DEF Adds, result, eligible
  <2>11. event.assessment = Len(assessments) + 1 /\ event.mode = mode
    OBVIOUS
  <2>12. event \in RiskEvent
    <3> HIDE DEF result, mode
    <3> QED BY <2>2, <2>3, <2>5, <2>6 DEF RiskEvent
  <2>13. Controls(event, types)
    <3> HIDE DEF event, types, result
    <3> QED BY <2>2, <2>7, <2>11, <2>12 DEF Controls
  <2>14. \A a \in OutboxRows(n, mode, types) : a.event = n
    BY DEF OutboxRows
  <2> HIDE DEF result, eligible, row, mode, types, n, event
  <2>15. CASE PriorState = result.effectiveState \/ result.outcome = "INSUFFICIENT_EVIDENCE"
    BY <2>1, <2>10, <2>15
  <2>16. CASE ~(PriorState = result.effectiveState \/ result.outcome = "INSUFFICIENT_EVIDENCE")
    <3>1. /\ riskEvents' = Append(riskEvents, event)
          /\ interventions' = interventions \cup {[event |-> n, type |-> t] : t \in types}
          /\ \A a \in alerts' : a \in alerts \/ a.event = n
      BY <2>1, <2>14, <2>16
    <3>2. event.mode = controlMode(row.eligible)
      BY <2>8, <2>11 DEF mode
    <3> QED BY <2>1, <2>10, <2>11, <2>13, <3>1, <3>2 DEF n
  <2> QED BY <2>15, <2>16
<1> QED BY <1>1, <1>2

\* The part of TypeOK that a decision can disturb.
TablesTyped ==
  /\ assessments \in Seq(Assessment)
  /\ riskEvents \in Seq(RiskEvent)
  /\ \A v \in interventions :
       v.event \in DOMAIN riskEvents /\ v.type \in highRisk \cup critical
  /\ \A a \in alerts : a.event \in DOMAIN riskEvents

\* What appending does to a table.
Longer(old, new, row) ==
  /\ Len(old) \in Nat
  /\ DOMAIN old = 1..Len(old)
  /\ DOMAIN new = 1..Len(old) + 1
  /\ new[Len(old) + 1] = row
  /\ \A n \in 1..Len(old) : new[n] = old[n]

\* Append makes a sequence longer by its last row.
LEMMA AppendIsLonger ==
  ASSUME NEW S, NEW old \in Seq(S), NEW row \in S
  PROVE  Append(old, row) \in Seq(S) /\ Longer(old, Append(old, row), row)
BY AppendProperties, LenProperties DEF Longer

\* A decision keeps the tables consistent with each other.
LEMMA DecisionKeepsTables ==
  ASSUME TypeOK, AssessmentsHold, ControlsRest, UNCHANGED content,
         NEW ids \in SUBSET Ids, ids # {}, recordDecision(ids)
  PROVE  TablesTyped' /\ AssessmentsHold' /\ ControlsRest'
<1>1. CASE UNCHANGED <<assessments, riskEvents, interventions, alerts>>
  BY <1>1 DEF TypeOK, TablesTyped, AssessmentsHold, ControlsRest
<1>2. ASSUME NEW row, Adds(ids, row), assessments' = Append(assessments, row)
      PROVE  assessments' \in Seq(Assessment) /\ Longer(assessments, assessments', row)
  BY <1>2, AppendIsLonger DEF TypeOK, Adds
<1>3. ASSUME NEW row, Adds(ids, row), Longer(assessments, assessments', row)
      PROVE  AssessmentsHold'
  <2>1. Holds(content', row)
    BY <1>3 DEF Adds, Holds
  <2>2. \A n \in 1..Len(assessments) : Holds(content', assessments[n])
    BY <1>3 DEF AssessmentsHold, Longer
  <2>3. \A n \in 1..Len(assessments) + 1 : n \in 1..Len(assessments) \/ n = Len(assessments) + 1
    BY <1>3 DEF Longer
  <2> QED BY <1>3, <2>1, <2>2, <2>3 DEF AssessmentsHold, Longer
<1>4. ASSUME NEW row, assessments' \in Seq(Assessment), Longer(assessments, assessments', row),
             UNCHANGED <<riskEvents, interventions, alerts>>
      PROVE  TablesTyped' /\ ControlsRest'
  <2>1. TablesTyped'
    BY <1>4 DEF TypeOK, TablesTyped
  <2>2. ControlsRest'
    BY <1>4 DEF ControlsRest, Longer
  <2> QED BY <2>1, <2>2
<1>5. ASSUME NEW row, assessments' \in Seq(Assessment), Longer(assessments, assessments', row),
             NEW event, NEW types, Controls(event, types),
             event.assessment = Len(assessments) + 1,
             event.mode = controlMode(row.eligible),
             riskEvents' = Append(riskEvents, event),
             interventions' = interventions \cup
               {[event |-> Len(riskEvents) + 1, type |-> t] : t \in types},
             \A a \in alerts' : a \in alerts \/ a.event = Len(riskEvents) + 1
      PROVE  TablesTyped' /\ ControlsRest'
  <2>1. riskEvents' \in Seq(RiskEvent) /\ Longer(riskEvents, riskEvents', event)
    BY <1>5, AppendIsLonger DEF TypeOK, Controls
  <2>2. \A v \in interventions' :
          \/ v \in interventions
          \/ v.event = Len(riskEvents) + 1 /\ v.type \in types
    BY <1>5
  <2>3. \A n \in DOMAIN riskEvents : n \in DOMAIN riskEvents' /\ riskEvents'[n] = riskEvents[n]
    BY <2>1 DEF Longer
  <2>4. /\ Len(riskEvents) + 1 \in DOMAIN riskEvents'
        /\ riskEvents'[Len(riskEvents) + 1] = event
    BY <2>1 DEF Longer
  <2>5. TablesTyped'
    BY <1>5, <2>1, <2>2, <2>3, <2>4 DEF TypeOK, TablesTyped, Controls
  <2>6. ASSUME NEW n \in DOMAIN riskEvents'
        PROVE  /\ riskEvents'[n].assessment \in DOMAIN assessments'
               /\ riskEvents'[n].mode
                    = controlMode(assessments'[riskEvents'[n].assessment].eligible)
    <3>1. CASE n = Len(riskEvents) + 1
      BY <1>5, <2>4, <3>1 DEF Longer
    <3>2. CASE n # Len(riskEvents) + 1
      <4>1. n \in DOMAIN riskEvents /\ riskEvents'[n] = riskEvents[n]
        BY <2>1, <3>2 DEF Longer
      <4>2. /\ riskEvents[n].assessment \in DOMAIN assessments
            /\ riskEvents[n].mode = controlMode(assessments[riskEvents[n].assessment].eligible)
        BY <4>1 DEF ControlsRest
      <4>3. \A m \in DOMAIN assessments : m \in DOMAIN assessments' /\ assessments'[m] = assessments[m]
        BY <1>5 DEF Longer
      <4> QED BY <4>1, <4>2, <4>3
    <3> QED BY <3>1, <3>2
  <2>7. \A v \in interventions' : riskEvents'[v.event].mode # "SHADOW"
    <3> SUFFICES ASSUME NEW v \in interventions'
                 PROVE  riskEvents'[v.event].mode # "SHADOW"
      OBVIOUS
    <3>1. CASE v \in interventions
      BY <2>3, <3>1 DEF TypeOK, ControlsRest
    <3>2. CASE v \notin interventions
      BY <1>5, <2>2, <2>4, <3>2 DEF Controls
    <3> QED BY <3>1, <3>2
  <2>8. ControlsRest'
    BY <2>6, <2>7 DEF ControlsRest
  <2> QED BY <2>5, <2>8
<1> QED BY <1>1, <1>2, <1>3, <1>4, <1>5, DecisionEffect

\* TypeOK, for a step whose tables are typed and whose other variables are.
LEMMA ElsewhereTypeOK ==
  ASSUME TypeOK, TablesTyped', UNCHANGED <<content, policyValid>>,
         acceptance' \in [Ids -> Acceptance], terminal' \in BOOLEAN,
         request' \in [Requests -> RequestState]
  PROVE  TypeOK'
BY DEF TypeOK, TablesTyped

\* The steps that leave the tables alone.
LEMMA TablesKeepTablesInv ==
  ASSUME TablesInv, UNCHANGED <<content, policyValid, tables>>,
         terminal' \in BOOLEAN, terminal => terminal',
         request' \in [Requests -> RequestState],
         \A r \in Requests : (~terminal' /\ request'[r].pc = "granted") => request'[r].accept
  PROVE  TablesInv'
<1>1. TypeOK'
  BY DEF TablesInv, TypeOK, tables
<1>2. AssessmentsHold' /\ ControlsRest'
  BY DEF TablesInv, AssessmentsHold, ControlsRest, tables
<1>3. StaleIsOvertaken'
  BY DEF TablesInv, StaleIsOvertaken, tables, TypeOK
<1> QED BY <1>1, <1>2, <1>3 DEF TablesInv

\* A new event is above every accepted one of its slot, or one of them is above it.
LEMMA RecordedOvertakes ==
  ASSUME TypeOK, ~terminal, StaleIsOvertaken, NEW i \in Ids, acceptance[i] = "NONE",
         acceptance' = Recorded(i, TRUE)
  PROVE  \A j \in Ids : acceptance'[j] = "STALE" =>
           \E k \in Ids : SameSlot(j, k) /\ acceptance'[k] = "ACCEPTED"
                            /\ j.revision < k.revision
<1>1. \A j, k \in Ids : /\ j.revision \in Nat
                        /\ (SameSlot(j, k) /\ j.revision = k.revision) => j = k
  BY PipelineAssumption DEF SameSlot
<1>2. CASE Classify(i, TRUE) = "ACCEPTED"
  <2>1. \A j \in Ids : acceptance'[j] =
          IF j = i THEN "ACCEPTED"
          ELSE IF SameSlot(i, j) /\ acceptance[j] = "ACCEPTED" THEN "SUPERSEDED"
          ELSE acceptance[j]
    BY <1>2 DEF Recorded
  <2>2. \A j \in Ids : (SameSlot(i, j) /\ acceptance[j] = "ACCEPTED") => j.revision < i.revision
    BY <1>2 DEF Classify
  <2> SUFFICES ASSUME NEW j \in Ids, acceptance'[j] = "STALE"
               PROVE  \E k \in Ids : SameSlot(j, k) /\ acceptance'[k] = "ACCEPTED"
                                       /\ j.revision < k.revision
    OBVIOUS
  <2>3. acceptance[j] = "STALE"
    BY <2>1
  <2>4. PICK k \in Ids : SameSlot(j, k) /\ acceptance[k] = "ACCEPTED" /\ j.revision < k.revision
    BY <2>3 DEF StaleIsOvertaken
  <2>5. CASE SameSlot(i, k)
    <3>1. k.revision < i.revision /\ SameSlot(j, i)
      BY <2>2, <2>4, <2>5 DEF SameSlot
    <3>2. j.revision < i.revision
      BY <1>1, <2>4, <3>1
    <3> QED BY <2>1, <3>1, <3>2
  <2>6. CASE ~SameSlot(i, k)
    <3>1. k # i
      BY <2>6 DEF SameSlot
    <3> QED BY <2>1, <2>4, <2>6, <3>1
  <2> QED BY <2>5, <2>6
<1>3. CASE Classify(i, TRUE) = "STALE"
  <2>1. \A j \in Ids : acceptance'[j] = IF j = i THEN "STALE" ELSE acceptance[j]
    BY <1>3 DEF Recorded
  <2>2. PICK k \in Ids : SameSlot(i, k) /\ acceptance[k] = "ACCEPTED" /\ ~(k.revision < i.revision)
    BY <1>3 DEF Classify
  <2>3. k # i /\ i.revision < k.revision
    BY <1>1, <2>2
  <2> SUFFICES ASSUME NEW j \in Ids, acceptance'[j] = "STALE"
               PROVE  \E m \in Ids : SameSlot(j, m) /\ acceptance'[m] = "ACCEPTED"
                                       /\ j.revision < m.revision
    OBVIOUS
  <2>4. CASE j = i
    BY <2>1, <2>2, <2>3, <2>4
  <2>5. CASE j # i
    <3>1. PICK m \in Ids : SameSlot(j, m) /\ acceptance[m] = "ACCEPTED" /\ j.revision < m.revision
      BY <2>1, <2>5 DEF StaleIsOvertaken
    <3> QED BY <2>1, <3>1
  <2> QED BY <2>4, <2>5
<1> QED BY <1>2, <1>3 DEF Classify

\* A new event, accepted or stale, leaves the tables true of each other.
LEMMA RecordKeepsTablesInv ==
  ASSUME TablesInv, NEW r \in Requests, Record(r)
  PROVE  TablesInv'
<1> DEFINE i == request[r].id
           accept == request[r].accept
           rows == Recorded(i, accept)
           ids == Accepted(rows)
           answer == IF rows[i] = "ACCEPTED" /\ policyValid THEN "recorded" ELSE "suppressed"
<1>1. /\ i \in Ids /\ accept \in BOOLEAN /\ acceptance[i] = "NONE" /\ acceptance' = rows
      /\ UNCHANGED <<content, policyValid, terminal>>
      /\ request' = [request EXCEPT ![r] = Idle(answer)]
  BY DEF TablesInv, TypeOK, RequestState, Record
<1>2. rows \in [Ids -> Acceptance]
  <2>1. \A j \in Ids : rows[j] \in Acceptance
    BY DEF TablesInv, TypeOK, Recorded, Classify, Acceptance
  <2> QED BY <2>1 DEF Recorded
<1>3. Idle(answer) \in RequestState /\ Idle(answer).pc = "idle"
  BY DEF Idle, RequestState
<1>4. /\ request' \in [Requests -> RequestState]
      /\ \A q \in Requests : request'[q].pc = "granted" => request'[q] = request[q]
  <2> HIDE DEF answer
  <2> QED BY <1>1, <1>3 DEF TablesInv, TypeOK
<1>5. TablesTyped' /\ AssessmentsHold' /\ ControlsRest'
  <2>1. CASE rows[i] = "ACCEPTED"
    <3>1. recordDecision(ids) /\ i \in ids /\ ids \in SUBSET Ids
      BY <1>1, <2>1 DEF Record, Accepted
    <3> HIDE DEF ids
    <3> QED BY <1>1, <3>1, DecisionKeepsTables DEF TablesInv
  <2>2. CASE rows[i] # "ACCEPTED"
    <3>1. UNCHANGED <<assessments, riskEvents, interventions, alerts>>
      BY <2>2 DEF Record
    <3> QED BY <1>1, <3>1 DEF TablesInv, TypeOK, TablesTyped, AssessmentsHold, ControlsRest
  <2> QED BY <2>1, <2>2
<1>6. TypeOK'
  <2>1. terminal' \in BOOLEAN
    BY <1>1 DEF TablesInv, TypeOK
  <2> QED BY <1>1, <1>2, <1>4, <1>5, <2>1, ElsewhereTypeOK DEF TablesInv
<1>7. StaleIsOvertaken'
  <2> SUFFICES ASSUME ~terminal
               PROVE  /\ \A q \in Requests : request'[q].pc = "granted" => request'[q].accept
                      /\ \A j \in Ids : acceptance'[j] = "STALE" =>
                           \E k \in Ids : SameSlot(j, k) /\ acceptance'[k] = "ACCEPTED"
                                            /\ j.revision < k.revision
    BY <1>1 DEF StaleIsOvertaken, SameSlot
  <2>1. request[r].pc = "granted"
    BY DEF Record
  <2>2. accept = TRUE
    BY <1>1, <2>1 DEF TablesInv, StaleIsOvertaken
  <2>3. \A q \in Requests : request'[q].pc = "granted" => request'[q].accept
    BY <1>4 DEF TablesInv, StaleIsOvertaken
  <2> QED BY <1>1, <2>2, <2>3, RecordedOvertakes DEF TablesInv
<1> QED BY <1>5, <1>6, <1>7 DEF TablesInv

\* So does every step.
LEMMA StepKeepsTablesInv ==
  ASSUME IInv, TablesInv, [Next]_vars
  PROVE  TablesInv'
<1>1. terminal \in BOOLEAN /\ request \in [Requests -> RequestState]
  BY DEF TablesInv, TypeOK
<1>2. \A q \in Requests : (~terminal /\ request[q].pc = "granted") => request[q].accept
  BY DEF TablesInv, StaleIsOvertaken
<1>3. \A answer \in {"none", "original", "conflict", "failed"} :
        Idle(answer) \in RequestState /\ Idle(answer).pc = "idle"
  BY DEF Idle, RequestState
<1>4. ASSUME NEW r \in Requests, NEW i \in Ids, Ingest(r, i)
      PROVE  TablesInv'
  <2> DEFINE asked == [pc |-> "granted", accept |-> ~terminal, id |-> i]
  <2>1. asked \in RequestState /\ asked.accept = ~terminal
    BY DEF RequestState
  <2>2. request' = [request EXCEPT ![r] = asked] /\ UNCHANGED terminal
    BY <1>4 DEF Ingest
  <2> HIDE DEF asked
  <2>3. /\ request' \in [Requests -> RequestState]
        /\ \A q \in Requests : (~terminal' /\ request'[q].pc = "granted") => request'[q].accept
    BY <1>1, <1>2, <2>1, <2>2
  <2> QED BY <1>1, <1>4, <2>2, <2>3, TablesKeepTablesInv DEF Ingest
<1>5. ASSUME NEW r \in Requests, Abandon(r)
      PROVE  TablesInv'
  <2>1. request' = [request EXCEPT ![r] = Idle("none")] /\ UNCHANGED terminal
    BY <1>5 DEF Abandon
  <2>2. /\ request' \in [Requests -> RequestState]
        /\ \A q \in Requests : (~terminal' /\ request'[q].pc = "granted") => request'[q].accept
    BY <1>1, <1>2, <1>3, <2>1
  <2> QED BY <1>1, <1>5, <2>1, <2>2, TablesKeepTablesInv DEF Abandon
<1>6. ASSUME NEW r \in Requests, Replay(r)
      PROVE  TablesInv'
  <2>1. UNCHANGED tables
    BY <1>6, ReplayLeavesTables
  <2>2. PICK answer \in {"none", "original", "conflict", "failed"} :
          request' = [request EXCEPT ![r] = Idle(answer)]
    BY <1>6 DEF Replay
  <2>3. UNCHANGED <<content, policyValid, terminal>>
    BY <1>6 DEF Replay
  <2>4. /\ request' \in [Requests -> RequestState]
        /\ \A q \in Requests : (~terminal' /\ request'[q].pc = "granted") => request'[q].accept
    BY <1>1, <1>2, <1>3, <2>2, <2>3
  <2> QED BY <1>1, <2>1, <2>3, <2>4, TablesKeepTablesInv
<1>7. ASSUME NEW r \in Requests, Record(r)
      PROVE  TablesInv'
  BY <1>7, RecordKeepsTablesInv
<1>8. CASE Terminate
  BY <1>1, <1>2, <1>8, TablesKeepTablesInv DEF Terminate
<1>9. CASE UNCHANGED vars
  BY <1>1, <1>2, <1>9, TablesKeepTablesInv DEF vars
<1> QED BY <1>4, <1>5, <1>6, <1>7, <1>8, <1>9 DEF Next

\* What the tables say of each other holds in every reachable state.
THEOREM TablesInvariant == Spec => []TablesInv
<1>1. IInv /\ TablesInv /\ [Next]_vars => TablesInv'
  BY StepKeepsTablesInv
<1> QED BY InitTablesInv, PipelineInvariant, <1>1, PTL DEF Spec

\* The variables keep their types, and no control or outbox row refers to a risk
\* event that is not there.
THEOREM PipelineTypes == Spec => []TypeOK
<1>1. TablesInv => TypeOK
  BY DEF TablesInv
<1> QED BY TablesInvariant, <1>1, PTL

\* No control exists that its evidence does not license: a demo control only in a
\* simulated session, a production one only on scores that are all calibrated and
\* traced.
THEOREM EveryControlIsLicensed == Spec => []ControlsAreLicensed
<1>1. TablesInv => ControlsAreLicensed
  <2> SUFFICES ASSUME TablesInv, NEW v \in interventions
               PROVE  LET e == riskEvents[v.event]
                          ids == assessments[e.assessment].evidence IN
                      \/ e.mode = "DEMO" /\ EvidenceMode = "SIMULATED"
                      \/ /\ e.mode = "PRODUCTION"
                         /\ Promoted
                         /\ \A i \in ids : i.type \in {"IDENTITY", "SPOOF_FAST", "SPOOF_DEEP"}
                                              => content[i].eligible
    BY DEF ControlsAreLicensed
  <2> DEFINE e == riskEvents[v.event]
             row == assessments[e.assessment]
  <2>1. v.event \in DOMAIN riskEvents /\ e.mode # "SHADOW"
    BY DEF TablesInv, TypeOK, ControlsRest
  <2>2. e.assessment \in DOMAIN assessments /\ e.mode = controlMode(row.eligible)
    BY <2>1 DEF TablesInv, ControlsRest
  <2>3. row.eligible = EligibleOf(content, row.evidence, row.outcome)
    BY <2>2 DEF TablesInv, AssessmentsHold, Holds
  <2> HIDE DEF e, row
  <2>4. CASE row.eligible
    BY <2>2, <2>3, <2>4 DEF controlMode, EligibleOf, e, row
  <2>5. CASE ~row.eligible
    BY <2>1, <2>2, <2>5 DEF controlMode, e
  <2> QED BY <2>4, <2>5
<1> QED BY TablesInvariant, <1>1, PTL

\* When everything was delivered while the session ran, the state is the one of
\* the highest revisions, whatever the order of the deliveries.
THEOREM OrderDoesNotMatter == Spec => []OutcomeIndependentOfOrder
<1>1. IInv /\ TablesInv => OutcomeIndependentOfOrder
  <2> DEFINE latest == {i \in Ids : \A j \in Ids : SameSlot(i, j) => j.revision <= i.revision}
  <2> SUFFICES ASSUME IInv, TablesInv, policyValid, ~terminal,
                      \A i \in Ids : acceptance[i] # "NONE"
               PROVE  PriorState = evaluateRiskEvidence(engineEvidence(latest)).effectiveState
    BY DEF OutcomeIndependentOfOrder
  <2>1. \A i \in Ids : i.revision \in Nat
    BY PipelineAssumption
  <2>2. \A i, j \in Ids :
          (acceptance[i] = "ACCEPTED" /\ SameSlot(i, j) /\ j # i) => j.revision < i.revision
    <3> SUFFICES ASSUME NEW i \in Ids, NEW j \in Ids, acceptance[i] = "ACCEPTED",
                        SameSlot(i, j), j # i
                 PROVE  j.revision < i.revision
      OBVIOUS
    <3>1. acceptance[j] # "ACCEPTED"
      BY DEF IInv, SlotKeepsHighestRevision
    <3>2. CASE acceptance[j] = "SUPERSEDED"
      BY <3>2 DEF IInv, SlotKeepsHighestRevision
    <3>3. CASE acceptance[j] = "STALE"
      <4>1. PICK k \in Ids : SameSlot(j, k) /\ acceptance[k] = "ACCEPTED" /\ j.revision < k.revision
        BY <3>3 DEF TablesInv, StaleIsOvertaken
      <4>2. k = i
        BY <4>1 DEF IInv, SlotKeepsHighestRevision, SameSlot
      <4> QED BY <4>1, <4>2
    <3> QED BY <3>1, <3>2, <3>3 DEF TablesInv, TypeOK, Acceptance
  <2>3. \A i \in Ids : \E k \in Ids : /\ SameSlot(i, k) /\ acceptance[k] = "ACCEPTED"
                                      /\ acceptance[i] # "ACCEPTED" => i.revision < k.revision
    <3> SUFFICES ASSUME NEW i \in Ids
                 PROVE  \E k \in Ids : /\ SameSlot(i, k) /\ acceptance[k] = "ACCEPTED"
                                       /\ acceptance[i] # "ACCEPTED" => i.revision < k.revision
      OBVIOUS
    <3>1. CASE acceptance[i] = "ACCEPTED"
      BY <3>1 DEF SameSlot
    <3>2. CASE acceptance[i] = "SUPERSEDED"
      BY <3>2 DEF IInv, SlotKeepsHighestRevision, SameSlot
    <3>3. CASE acceptance[i] = "STALE"
      BY <3>3 DEF TablesInv, StaleIsOvertaken
    <3> QED BY <3>1, <3>2, <3>3 DEF TablesInv, TypeOK, Acceptance
  <2>4. latest = Accepted(acceptance)
    <3>1. \A i \in Ids : acceptance[i] = "ACCEPTED" => i \in latest
      BY <2>1, <2>2
    <3>2. \A i \in latest : acceptance[i] = "ACCEPTED"
      BY <2>1, <2>3
    <3> QED BY <3>1, <3>2 DEF Accepted
  <2> HIDE DEF latest
  <2>5. assessments \in Seq(Assessment)
    BY DEF IInv, ShapeInv
  <2>6. CASE Ids = {}
    <3>1. assessments = <<>>
      <4> SUFFICES ASSUME assessments # <<>>
                   PROVE  FALSE
        OBVIOUS
      <4>1. 1 \in DOMAIN assessments
        BY <2>5, EmptySeq, LenProperties
      <4>2. assessments[1] \in Assessment /\ assessments[1].evidence # {}
        BY <2>5, <4>1, ElementOfSeq, LenProperties DEF TablesInv, AssessmentsHold, Holds
      <4> QED BY <2>6, <4>2 DEF Assessment
    <3>2. latest = {} /\ engineEvidence({}) = {}
      BY <2>4, <2>6 DEF Accepted, engineEvidence
    <3> QED BY <3>1, <3>2, NoEvidenceNoChange DEF PriorState
  <2>7. CASE Ids # {}
    <3>1. latest # {}
      BY <2>3, <2>4, <2>7 DEF Accepted
    <3>2. assessments # <<>> /\ assessments[Len(assessments)].evidence = latest
      BY <2>4, <3>1 DEF IInv, LatestAssessmentIsCurrent
    <3>3. Len(assessments) \in DOMAIN assessments
      BY <2>5, <3>2, EmptySeq, LenProperties
    <3>4. assessments[Len(assessments)].effective
            = evaluateRiskEvidence(EvidenceOf(content, latest)).effectiveState
      BY <3>2, <3>3 DEF TablesInv, AssessmentsHold, Holds
    <3>5. engineEvidence(latest) = EvidenceOf(content, latest)
      BY ContentsDecide
    <3> QED BY <3>2, <3>4, <3>5 DEF PriorState
  <2> QED BY <2>6, <2>7
<1> QED BY PipelineInvariant, TablesInvariant, <1>1, PTL
-----------------------------------------------------------------------------
(* The environment "production".                                           *)

\* Without a sufficient window the outcome stays what it was before the loop.
LEMMA NoSufficientWindow ==
  ASSUME NEW events, \A w \in 0..LastWindow : ~Sufficient(Selected(events, w))
  PROVE  evaluateRiskEvidence(events).outcome = "INSUFFICIENT_EVIDENCE"
<1> DEFINE L == Loop(events)
           T == {n \in Nat : n <= LastWindow + 1 => L[n].outcome = "INSUFFICIENT_EVIDENCE"}
<1>1. /\ L \in [0..LastWindow + 1 -> Acc]
      /\ L[0] = Start
      /\ \A n \in 0..LastWindow : L[n + 1] = StepOf(events, L[n], n)
  BY LoopFollows DEF Follows
<1> HIDE DEF L
<1>2. LastWindow \in Nat
  BY PolicyAssumption
<1>3. 0 \in T
  BY <1>1 DEF Start
<1>4. ASSUME NEW n \in Nat, n \in T
      PROVE  n + 1 \in T
  <2> SUFFICES ASSUME n + 1 <= LastWindow + 1
               PROVE  L[n + 1].outcome = "INSUFFICIENT_EVIDENCE"
    OBVIOUS
  <2>1. n \in 0..LastWindow /\ n \in 0..LastWindow + 1 /\ L[n].outcome = "INSUFFICIENT_EVIDENCE"
    BY <1>2, <1>4
  <2>2. L[n] \in Acc /\ L[n + 1] = StepOf(events, L[n], n)
    BY <1>1, <2>1
  <2>3. evaluateWindow(Selected(events, n), L[n].effective) = "INSUFFICIENT_EVIDENCE"
    BY <2>1 DEF evaluateWindow
  <2>4. Undecided(L[n]).outcome = "INSUFFICIENT_EVIDENCE"
    BY <2>2 DEF Undecided, Acc
  <2> QED BY <2>1, <2>2, <2>3, <2>4, AdvanceUndecided DEF StepOf
<1>5. T \subseteq Nat
  OBVIOUS
<1> HIDE DEF T
<1>6. T = Nat
  BY <1>3, <1>4, <1>5, Inducts
<1>7. L[LastWindow + 1].outcome = "INSUFFICIENT_EVIDENCE"
  BY <1>2, <1>6 DEF T
<1> QED BY <1>7 DEF evaluateRiskEvidence, Result, L

\* One event decides nothing: it takes an identity and a spoof score.
LEMMA OneEventDecidesNothing ==
  ASSUME NEW i \in Ids
  PROVE  evaluateRiskEvidence(engineEvidence({i})).outcome = "INSUFFICIENT_EVIDENCE"
<1> SUFFICES ASSUME NEW w \in 0..LastWindow
             PROVE  ~Sufficient(Selected(engineEvidence({i}), w))
  BY NoSufficientWindow
<1> DEFINE group == Selected(engineEvidence({i}), w)
<1>1. \A e \in group : e.type = i.type
  BY DEF Selected, selectLatest, engineEvidence
<1> HIDE DEF group
<1>2. ASSUME NEW type, NEW desired, ScoreOf(group, type, desired) # NoScore
      PROVE  i.type = type
  BY <1>1, <1>2 DEF ScoreOf
<1> QED BY <1>2 DEF Sufficient, IdentityScore, FastScore, DeepScore, group

\* In the environment "production" no event has been accepted and nothing assessed.
ProductionRest ==
  policyValid => assessments = <<>> /\ \A i \in Ids : acceptance[i] \in {"NONE", "STALE"}

\* The first event would be assessed by itself, which is not eligible for production
\* and therefore not allowed: its transaction is never committed.
LEMMA RecordKeepsRest ==
  ASSUME InProduction, IInv, ProductionRest, NEW r \in Requests, Record(r)
  PROVE  ProductionRest'
<1> SUFFICES ASSUME policyValid
             PROVE  assessments' = <<>> /\ \A i \in Ids : acceptance'[i] \in {"NONE", "STALE"}
  BY DEF ProductionRest, Record
<1> DEFINE i == request[r].id
           rows == Recorded(i, request[r].accept)
<1>1. i \in Ids /\ acceptance' = rows
  BY DEF IInv, ShapeInv, Record
<1>2. assessments = <<>> /\ \A j \in Ids : acceptance[j] \in {"NONE", "STALE"}
  BY DEF ProductionRest
<1>3. \A j \in Ids \ {i} : rows[j] = acceptance[j]
  BY <1>2 DEF Recorded
<1>4. rows[i] \in {"ACCEPTED", "STALE"}
  BY <1>1 DEF Recorded, Classify
<1>5. CASE rows[i] = "ACCEPTED"
  <2>1. Accepted(rows) = {i}
    BY <1>1, <1>2, <1>3, <1>5 DEF Accepted
  <2>2. recordDecision({i})
    BY <1>5, <2>1 DEF Record
  <2>3. ~Assessed({i})
    BY <1>2 DEF Assessed
  <2> DEFINE outcome == evaluateRiskEvidence(engineEvidence({i})).outcome
  <2>4. assertModeAllowed(controlMode(ProductionEligible({i}, outcome)), ProductionEligible({i}, outcome))
    BY <2>2, <2>3 DEF recordDecision
  <2>5. outcome = "INSUFFICIENT_EVIDENCE"
    BY <1>1, OneEventDecidesNothing
  <2> HIDE DEF outcome
  <2>6. ~ProductionEligible({i}, outcome)
    BY <2>5 DEF ProductionEligible
  <2> QED BY <2>4, <2>6 DEF assertModeAllowed, controlMode
<1>6. CASE rows[i] = "STALE"
  <2>1. assessments' = assessments
    BY <1>6 DEF Record
  <2> QED BY <1>1, <1>2, <1>3, <1>6, <2>1
<1> QED BY <1>4, <1>5, <1>6

\* What assertModeAllowed does to a session in the environment "production" whose policy
\* parses: the first accepted event is rolled back with its assessment, and so is every
\* later one, because none finds an earlier one on record.
THEOREM ProductionAcceptsNothing ==
  ASSUME InProduction
  PROVE  Spec => []ProductionRest
<1>1. Init => ProductionRest
  BY DEF Init, ProductionRest
<1>2. IInv /\ ProductionRest /\ [Next]_vars => ProductionRest'
  <2> SUFFICES ASSUME IInv, ProductionRest, [Next]_vars
               PROVE  ProductionRest'
    OBVIOUS
  <2>1. ASSUME NEW r \in Requests, Record(r)
        PROVE  ProductionRest'
    BY <2>1, RecordKeepsRest
  <2>2. ASSUME UNCHANGED <<policyValid, assessments, acceptance>>
        PROVE  ProductionRest'
    BY <2>2 DEF ProductionRest
  <2>3. ASSUME NEW r \in Requests, Replay(r)
        PROVE  UNCHANGED <<policyValid, assessments, acceptance>>
    BY <2>3, ReplayLeavesTables DEF Replay, tables
  <2> QED BY <2>1, <2>2, <2>3 DEF Next, vars, tables, Ingest, Abandon, Terminate
<1> QED BY <1>1, <1>2, PipelineInvariant, PTL DEF Spec
=============================================================================
