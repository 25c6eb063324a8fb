-------------------------- MODULE GraphLoopProofs ---------------------------
(***************************************************************************)
(* Proofs about GraphLoop for every set of configurations, every iteration *)
(* limit and every bound on what the models report.                        *)
(***************************************************************************)
EXTENDS GraphLoop, TLAPS

(* What the decision is built from, fixed for the whole module.            *)
USE LoopConstantsAssumption, MaxIterationsAssumption, SettingsAssumption
USE DEF Nodes, Decisions, Reasons, Directions, EvalStatuses

-----------------------------------------------------------------------------
(* What the gates make of a report.                                        *)

(* Whatever the gates find, the report has its type, and a report that     *)
(* carries the mark of a duplicate has failed: no later gate lifts it.     *)
LEMMA GatesResult ==
  ASSUME settings \in Settings,
         NEW raw \in RawReports, NEW b \in Builds(raw)
  PROVE  /\ Gates(raw, b) \in ReportType
         /\ Gates(raw, b).duplicate => Gates(raw, b).status = "fail"
<1> DEFINE r1 == DuplicateGate(raw, b.duplicate)
           r2 == DowngradeGates(r1, b.flaw)
           r3 == LaneGate(r2, b.found)
           r4 == GroundingGate(r3)
           Good(r) == r \in ReportType /\ (r.duplicate => r.status = "fail")
<1>1. raw \in ReportType /\ ~raw.duplicate
  BY DEF RawReports, ReportType
<1>2. b.found \subseteq Codes
  <2>1. b.found = {} \/ \E c \in LaneCodes : b.found = {c}
    BY DEF Builds, Unseen
  <2>2. LaneCodes \subseteq Codes
    BY DEF LaneCodes, Codes, HardCodes, SoftCodes, PivotCodes
  <2>3. QED
    BY <2>1, <2>2
<1>3. Good(r1)
  BY <1>1 DEF DuplicateGate, Reviewable, ReportType
<1>4. Good(r2)
  BY <1>3 DEF DowngradeGates, Reviewable, ReportType
<1>5. Good(r3)
  BY <1>2, <1>4 DEF LaneGate, Reviewable, ReportType
<1>6. Good(r4)
  BY <1>5 DEF GroundingGate, ReportType
<1>7. Good(SpatialGate(r4, b.flat))
  BY <1>6 DEF SpatialGate, Reviewable, ReportType
<1>8. QED
  BY <1>7 DEF Gates

-----------------------------------------------------------------------------
(* What the policies make of a decision.                                   *)

(* No more retries without a browser.                                      *)
AtWeakCap ==
  settings.weakCap > 0 /\ settings.grounding # "browser" /\ iteration >= settings.weakCap

VerdictType == [decision: Decisions, reason: Reasons]

(* A verdict asks for another iteration only below both caps and not for   *)
(* want of a preview, and for staging only what staging can take: no hard  *)
(* failure, no duplicate.                                                  *)
LEMMA VerdictResult ==
  ASSUME NEW r \in ReportType, r.duplicate => r.status = "fail"
  PROVE  /\ Verdict(r) \in VerdictType
         /\ Verdict(r).decision \in {"iterate", "stage", "interrupt"}
         /\ Verdict(r).decision = "iterate" => ~AtCap /\ ~r.groundingOnly /\ ~AtWeakCap
         /\ Verdict(r).decision = "stage" => Stageable(r) /\ ~HasHard(r) /\ ~r.duplicate
<1> DEFINE v1 == compute_evaluator_decision(r.status)
           v2 == maybe_suppress_duplicate_staging(v1, r)
           v3 == apply_mixed_lane_failure_policy(v2, r)
           v4 == GroundingOverride(v3, r)
           Good(v) == /\ v \in VerdictType
                      /\ v.decision \in {"iterate", "stage", "interrupt"}
                      /\ v.decision = "iterate" => ~AtCap
           Safe(v) == v.decision \in {"iterate", "stage"} =>
                        Stageable(r) /\ ~HasHard(r) /\ ~r.duplicate
<1>1. Good(v1) /\ (v1.decision \in {"iterate", "stage"} => Stageable(r))
  BY DEF compute_evaluator_decision, VerdictType, ReportType, Stageable
<1>2. Good(v2) /\ (v2.decision \in {"iterate", "stage"} => Stageable(r))
  BY <1>1 DEF maybe_suppress_duplicate_staging, VerdictType
<1>3. r.duplicate => HasHard(r)
  BY DEF HasHard, Failing, PolicyCodes, HardCodes
<1>4. Good(v3) /\ Safe(v3)
  <2>1. CASE HasHard(r)
    <3>1. v3 = [decision |-> "interrupt", reason |-> "mixed_lane_hard_failure"]
      BY <2>1 DEF apply_mixed_lane_failure_policy, HasPivot, HasSoft
    <3>2. QED
      BY <3>1 DEF VerdictType
  <2>2. CASE ~HasHard(r) /\ HasPivot(r)
    BY <1>2, <1>3, <2>2
       DEF apply_mixed_lane_failure_policy, HasPivot, HasSoft, VerdictType, Failing, Stageable
  <2>3. CASE ~HasHard(r) /\ ~HasPivot(r) /\ HasSoft(r)
    BY <1>2, <1>3, <2>3
       DEF apply_mixed_lane_failure_policy, HasSoft, VerdictType, Failing, Stageable
  <2>4. CASE ~HasHard(r) /\ ~HasPivot(r) /\ ~HasSoft(r)
    <3>1. v3 = v2
      BY <2>4 DEF apply_mixed_lane_failure_policy
    <3>2. QED
      BY <3>1, <1>2, <1>3, <2>4
  <2>5. QED
    BY <2>1, <2>2, <2>3, <2>4
<1>5. Good(v4) /\ Safe(v4) /\ (v4.decision = "iterate" => ~r.groundingOnly)
  BY <1>4 DEF GroundingOverride, VerdictType
<1> HIDE DEF v4
<1>6. /\ Good(WeakCapOverride(v4)) /\ Safe(WeakCapOverride(v4))
      /\ WeakCapOverride(v4).decision = "iterate" => ~r.groundingOnly /\ ~AtWeakCap
  BY <1>5 DEF WeakCapOverride, VerdictType, AtWeakCap
<1>7. QED
  BY <1>6 DEF Verdict, v4

(* The retry direction is one of the five that the planner knows.          *)
LEMMA RetryDirectionResult ==
  ASSUME NEW r, NEW trend, direction \in Directions \cup {NoDirection}
  PROVE  RetryDirection(r, trend) \in Directions
<1>1. OnRegression \in Directions
  BY DEF OnRegression
<1>2. Rotation[direction] \in Directions
  BY DEF Rotation
<1>3. select_retry_direction(r, trend) \in Directions
  BY <1>1, <1>2 DEF select_retry_direction
<1>4. QED
  BY <1>3 DEF RetryDirection

-----------------------------------------------------------------------------
(* The inductive invariant: a duplicate has failed, what was staged is     *)
(* what the last report is about, and before the first retry there was no  *)
(* replan.                                                                 *)
IInv ==
  /\ TypeOK
  /\ RetriesWithinBudget
  /\ report.duplicate => report.status = "fail"
  /\ node = "staging" \/ staged => Stageable(report) /\ ~HasHard(report) /\ ~report.duplicate
  /\ staged => node = "end"
  /\ WeakCapHolds
  /\ OneStructuralReplan
  /\ iteration = 0 => replans = 0

LEMMA InitIInv == Init => IInv
<1> SUFFICES ASSUME Init
             PROVE  IInv
  OBVIOUS
<1>1. NoReport \in ReportType /\ ~NoReport.duplicate
  BY DEF NoReport, ReportType
<1>2. 0 \in 0..MaxStagnation /\ 0 \in 0..2 /\ 0 \in Nat /\ FALSE \in BOOLEAN
  OBVIOUS
<1>3. report \in ReportType
  BY <1>1 DEF Init
<1>4. TypeOK
  BY <1>2, <1>3 DEF Init, TypeOK
<1>5. RetriesWithinBudget
  BY DEF Init, RetriesWithinBudget
<1>6. QED
  BY <1>1, <1>4, <1>5, SettingsAssumption
     DEF Init, IInv, WeakCapHolds, OneStructuralReplan, SettingsType

LEMMA DecisionRouterIInv ==
  ASSUME IInv, DecisionRouter
  PROVE  IInv'
<1> DEFINE v == Verdict(report)
<1>1. report \in ReportType /\ (report.duplicate => report.status = "fail")
  BY DEF IInv, TypeOK
<1>2. /\ v \in VerdictType
      /\ v.decision \in {"iterate", "stage", "interrupt"}
      /\ v.decision = "iterate" => ~AtCap /\ ~AtWeakCap
      /\ v.decision = "stage" => Stageable(report) /\ ~HasHard(report) /\ ~report.duplicate
  BY <1>1, VerdictResult
<1> HIDE DEF v
<1>3. decision' = v.decision /\ reason' \in Reasons /\ passes' \in Nat
  BY <1>2 DEF DecisionRouter, IInv, TypeOK, VerdictType, v
<1>4. CASE v.decision = "iterate"
  <2>1. /\ iteration' = iteration + 1
        /\ node' \in {"planner", "generator"}
        /\ replans' \in Nat
        /\ direction' \in Directions
    BY <1>4, RetryDirectionResult DEF DecisionRouter, NextIndex, IInv, TypeOK, v
  <2>2. TypeOK'
    BY <1>2, <1>3, <2>1 DEF DecisionRouter, IInv, TypeOK, VerdictType
  <2>3. RetriesWithinBudget'
    BY <1>2, <1>4, <2>1 DEF DecisionRouter, Before, RetriesWithinBudget, AtCap, IInv, TypeOK
  <2>4. WeakCapHolds'
    <3>1. settings.weakCap \in Nat /\ iteration \in Nat
      BY DEF IInv, TypeOK, SettingsType
    <3>2. ~AtWeakCap /\ settings' = settings
      BY <1>2, <1>4 DEF DecisionRouter
    <3>3. QED
      BY <2>1, <3>1, <3>2 DEF WeakCapHolds, AtWeakCap
  <2>5. OneStructuralReplan' /\ (iteration' = 0 => replans' = 0)
    <3>1. iteration \in Nat /\ replans \in Nat
      BY DEF IInv, TypeOK
    <3>2. replans' = replans +
            (IF ~HardReplan(report) /\ StructuralReplan(report, iteration') THEN 1 ELSE 0)
      BY <1>4 DEF DecisionRouter, v
    <3>3. StructuralReplan(report, iteration') => iteration' <= 1
      BY DEF StructuralReplan
    <3>4. QED
      BY <2>1, <3>1, <3>2, <3>3 DEF OneStructuralReplan, IInv
  <2>6. QED
    BY <1>1, <2>1, <2>2, <2>3, <2>4, <2>5 DEF DecisionRouter, Before, IInv
<1>5. CASE v.decision # "iterate"
  <2>1. /\ node' = IF v.decision = "stage" THEN "staging" ELSE "end"
        /\ UNCHANGED <<iteration, direction, replans>>
    BY <1>5 DEF DecisionRouter, v
  <2>2. TypeOK'
    BY <1>2, <1>3, <2>1 DEF DecisionRouter, IInv, TypeOK, VerdictType
  <2>3. RetriesWithinBudget'
    BY <2>1 DEF DecisionRouter, Before, RetriesWithinBudget, IInv
  <2>4. QED
    BY <1>1, <1>2, <2>1, <2>2, <2>3
       DEF DecisionRouter, Before, IInv, Stageable, HasHard, Failing, PolicyCodes,
           WeakCapHolds, OneStructuralReplan
<1>6. QED
  BY <1>4, <1>5

LEMMA NextIInv == IInv /\ [Next]_vars => IInv'
<1> SUFFICES ASSUME IInv, [Next]_vars
             PROVE  IInv'
  OBVIOUS
<1> USE DEF IInv, TypeOK, RetriesWithinBudget, WeakCapHolds, OneStructuralReplan, Before,
            stateVars
<1>1. CASE ContextHydrator
  BY <1>1 DEF ContextHydrator, Stageable, HasHard, Failing, PolicyCodes
<1>2. CASE CheckpointPre
  BY <1>2 DEF CheckpointPre, Stageable, HasHard, Failing, PolicyCodes
<1>3. CASE Planner
  BY <1>3 DEF Planner, Stageable, HasHard, Failing, PolicyCodes
<1>4. CASE Generator
  BY <1>4 DEF Generator, MaxBuilds, Stageable, HasHard, Failing, PolicyCodes
<1>5. CASE Evaluator
  <2>1. PICK raw \in RawReports : \E b \in Builds(raw) :
          report' = Gates(raw, b) /\ twin' = b.duplicate
    BY <1>5 DEF Evaluator
  <2>2. PICK b \in Builds(raw) : report' = Gates(raw, b) /\ twin' = b.duplicate
    BY <2>1
  <2>3. twin' \in BOOLEAN
    BY <2>2 DEF Builds, Unseen
  <2>4. report' \in ReportType /\ (report'.duplicate => report'.status = "fail")
    BY <2>2, GatesResult
  <2>5. QED
    BY <1>5, <2>3, <2>4 DEF Evaluator
<1>6. CASE DecisionRouter
  BY <1>6, DecisionRouterIInv
<1>7. CASE Staging
  BY <1>7 DEF Staging, Stageable, HasHard, Failing, PolicyCodes
<1>8. CASE NodeFails
  BY <1>8 DEF NodeFails, Stageable, HasHard, Failing, PolicyCodes
<1>9. CASE RunCompletes
  BY <1>9 DEF RunCompletes, Stageable, HasHard, Failing, PolicyCodes
<1>10. CASE UNCHANGED vars
  BY <1>10 DEF vars, Stageable, HasHard, Failing, PolicyCodes
<1>11. QED
  BY <1>1, <1>2, <1>3, <1>4, <1>5, <1>6, <1>7, <1>8, <1>9, <1>10 DEF Next

LEMMA SpecIInv == Spec => []IInv
  BY InitIInv, NextIInv, PTL DEF Spec

-----------------------------------------------------------------------------
(* The loop is type correct: gates and policies never leave the sets of    *)
(* statuses, decisions and directions that the next node understands.      *)
THEOREM TypeCorrect == Spec => []TypeOK
  BY SpecIInv, PTL DEF IInv

(* No combination of caps, overrides and replans gives a run more than     *)
(* max_iterations retries, and no retry is free.                           *)
THEOREM RetriesBounded == Spec => []RetriesWithinBudget
  BY SpecIInv, PTL DEF IInv

(* Only a build with a status that staging_node accepts reaches it.        *)
THEOREM StagingInput == Spec => []StagingGetsStageable
<1>1. IInv => StagingGetsStageable
  BY DEF IInv, StagingGetsStageable
<1>2. QED
  BY <1>1, SpecIInv, PTL

(* A duplicate of an older snapshot is not staged.                         *)
THEOREM DuplicatesStayOut == Spec => []NoDuplicateStaged
<1>1. IInv => NoDuplicateStaged
  BY DEF IInv, NoDuplicateStaged
<1>2. QED
  BY <1>1, SpecIInv, PTL

(* A build that failed hard is not staged, not even at the iteration cap.  *)
THEOREM HardFailuresStayOut == Spec => []HardFailureNotStaged
<1>1. IInv => HardFailureNotStaged
  BY DEF IInv, HardFailureNotStaged, HasHard, PolicyCodes
<1>2. QED
  BY <1>1, SpecIInv, PTL

(* Without a browser there are at most kmbl_weakly_grounded_max_iterations *)
(* retries.                                                                *)
THEOREM WeakRetriesBounded == Spec => []WeakCapHolds
  BY SpecIInv, PTL DEF IInv

(* A layout that stagnates gives the planner one more opportunity at most. *)
THEOREM StructuralReplansBounded == Spec => []OneStructuralReplan
  BY SpecIInv, PTL DEF IInv

(* A missing preview alone never costs a generator call.                   *)
THEOREM GroundingGapsNotRetried == Spec => GroundingPartialNotRetried
<1>1. ASSUME IInv, [Next]_vars, node = "decision_router", report.groundingOnly
      PROVE  node' \notin {"planner", "generator"}
  <2> USE <1>1 DEF Before
  <2>1. CASE DecisionRouter
    <3>1. report \in ReportType /\ (report.duplicate => report.status = "fail")
      BY DEF IInv, TypeOK
    <3>2. Verdict(report).decision # "iterate"
      BY <3>1, VerdictResult
    <3>3. QED
      BY <2>1, <3>2 DEF DecisionRouter
  <2>2. CASE ~DecisionRouter
    BY <2>2 DEF Next, ContextHydrator, CheckpointPre, Planner, Generator, Evaluator,
       Staging, NodeFails, RunCompletes, vars
  <2>3. QED
    BY <2>1, <2>2
<1>2. ASSUME IInv, [Next]_vars
      PROVE  [node = "decision_router" /\ report.groundingOnly =>
                node' \notin {"planner", "generator"}]_vars
  BY <1>1, <1>2
<1>3. QED
  BY <1>2, SpecIInv, PTL DEF Spec, GroundingPartialNotRetried

(* The loop implements the graph that the lifecycle of a run is proved     *)
(* for: every step follows an edge and counts iterations as GraphRun does. *)
THEOREM LoopFollowsGraph == Spec => FollowsGraph
<1> DEFINE Edge == \/ /\ node' \in Successors(node, iteration)
                      /\ iteration' = NextIteration(node, node', iteration)
                   \/ node' = "end" /\ MayEnd(node) /\ iteration' = iteration
<1>1. ASSUME IInv, [Next]_vars
      PROVE  node' # node => Edge
  <2> SUFFICES ASSUME node' # node
               PROVE  Edge
    OBVIOUS
  <2> USE DEF Before, Successors, NextIteration, MayEnd
  <2>1. CASE ContextHydrator \/ CheckpointPre \/ Planner \/ Generator \/ Evaluator \/ Staging
    BY <2>1 DEF ContextHydrator, CheckpointPre, Planner, Generator, Evaluator, Staging
  <2>2. CASE DecisionRouter
    <3>1. report \in ReportType /\ (report.duplicate => report.status = "fail")
      BY <1>1 DEF IInv, TypeOK
    <3>2. Verdict(report).decision = "iterate" => ~AtCap
      BY <3>1, VerdictResult
    <3>3. iteration \in Nat
      BY <1>1 DEF IInv, TypeOK
    <3>4. QED
      BY <2>2, <3>2, <3>3 DEF DecisionRouter, AtCap, NextIndex
  <2>3. CASE NodeFails \/ RunCompletes \/ UNCHANGED vars
    BY <2>3 DEF NodeFails, RunCompletes, vars
  <2>4. QED
    BY <1>1, <2>1, <2>2, <2>3 DEF Next
<1>2. ASSUME IInv, [Next]_vars
      PROVE  [node' # node => Edge]_vars
  BY <1>1, <1>2
<1>3. QED
  BY <1>2, SpecIInv, PTL DEF Spec, FollowsGraph
=============================================================================
