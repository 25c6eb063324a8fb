----------------------------- MODULE GraphLoop ------------------------------
(***************************************************************************)
(* One execution of the LangGraph: planner, generator, evaluator and       *)
(* decision_router in a loop, then staging.  What the language models      *)
(* answer is chosen freely; what the orchestrator makes of it is not: the  *)
(* gates of evaluator_node on the report, the policies of decision_router, *)
(* the retry direction and the route back to planner or generator.         *)
(*                                                                         *)
(* A build is represented by what the gates find out about it, an issue by *)
(* its code, an alignment history by its length and its trend.             *)
(***************************************************************************)
EXTENDS GraphNodes, FiniteSets

CONSTANTS
  Settings,        \* configurations: records of SettingsType
  MaxRawIssues,    \* bound: how many issues the evaluator model reports
  MaxStagnation,   \* bound: stagnation_count the generator model reports
  NoDirection      \* retry_direction before the first retry

ASSUME LoopConstantsAssumption == MaxRawIssues \in Nat /\ MaxStagnation \in Nat

VARIABLES
  settings,     \* the configuration of this execution
  node,         \* the node that runs next, or "end"
  iteration,    \* state["iteration_index"]
  report,       \* state["evaluation_report"]
  twin,         \* the build it is about has the files of an older snapshot
  stagnation,   \* state["current_state"]["stagnation_count"]
  scores,       \* length of state["alignment_score_history"], up to 2
  decision,     \* state["decision"]
  reason,       \* state["interrupt_reason"]
  direction,    \* state["retry_direction"]
  passes,       \* state["pass_count"]
  outcome,      \* status of the run when the execution is over
  staged,       \* working staging has the build
  builds,       \* how often the generator was invoked, up to MaxBuilds
  replans       \* how often a structural issue sent the run back to the planner

stateVars == <<report, twin, stagnation, scores, decision, reason, direction, passes>>
vars == <<settings, node, iteration, report, twin, stagnation, scores, decision, reason,
          direction, passes, outcome, staged, builds, replans>>

-----------------------------------------------------------------------------
(* MIXED_LANE_FAILURE_POLICY_V1: two hard codes, two soft ones, the pivot. *)
HardCodes  == {"required_library_missing", "staging_integrity"}
SoftCodes  == {"lane_mix_mismatch", "weak_iteration_delta"}
PivotCodes == {"literal_reuse_regression"}

(* Issue types that resolve_iterate_planner_routing knows.                 *)
StructuralCodes == {"layout_stagnation"}
ReplanCodes     == {"explicit_replan_requested"}

(* Codes that the interactive lane gate itself adds.                       *)
LaneCodes == {"required_library_missing", "lane_mix_mismatch",
              "weak_iteration_delta", "literal_reuse_regression"}

Codes == HardCodes \cup SoftCodes \cup PivotCodes \cup StructuralCodes \cup ReplanCodes

EvalStatuses == {"pass", "partial", "fail", "blocked"}
Decisions    == {"none", "iterate", "stage", "interrupt"}
Reasons      == {"none", "evaluator_blocked", "unknown_eval_status",
                 "duplicate_output_after_max_iterations", "mixed_lane_hard_failure",
                 "mixed_lane_pivot_required_at_iteration_cap",
                 "mixed_lane_soft_failure_at_iteration_cap"}
Directions   == {"refine", "pivot_layout", "pivot_palette", "pivot_content", "fresh_start"}
Trends       == {"improving", "regressing", "plateau", "insufficient_data"}

SettingsType ==
  [weakCap:   Nat,      \* kmbl_weakly_grounded_max_iterations
   replan:    BOOLEAN,  \* graph_replan_on_iterate_enabled
   threshold: Nat,      \* graph_replan_stagnation_threshold
   grounding: {"browser", "artifact", "demo_gap"},
   spatial:   BOOLEAN,  \* experience_mode asks for 3D content
   static:    BOOLEAN,  \* scenario kmbl_identity_url_static_v1
   force:     BOOLEAN]  \* the operator's constraint kmbl_force_replan

ReportType ==
  [status: EvalStatuses, codes: SUBSET Codes,
   duplicate: BOOLEAN,      \* metrics.duplicate_rejection
   groundingOnly: BOOLEAN,  \* metrics.grounding_only_partial
   flawed: BOOLEAN,         \* some gate found a flaw in the build
   scored: BOOLEAN]         \* there is an alignment score

ASSUME SettingsAssumption == Settings \subseteq SettingsType

(* Every variable has its type.                                            *)
TypeOK ==
  /\ settings \in Settings
  /\ node \in Nodes \cup {"end"}
  /\ iteration \in Nat
  /\ report \in ReportType
  /\ twin \in BOOLEAN
  /\ stagnation \in 0..MaxStagnation
  /\ scores \in 0..2
  /\ decision \in Decisions
  /\ reason \in Reasons
  /\ direction \in Directions \cup {NoDirection}
  /\ passes \in Nat
  /\ outcome \in {"running", "completed", "failed"}
  /\ staged \in BOOLEAN
  /\ builds \in Nat
  /\ replans \in Nat

NoReport == [status |-> "fail", codes |-> {}, duplicate |-> FALSE,
             groundingOnly |-> FALSE, flawed |-> FALSE, scored |-> FALSE]

Init ==
  /\ settings \in Settings
  /\ node = "context_hydrator"
  /\ iteration = 0
  /\ report = NoReport
  /\ twin = FALSE
  /\ stagnation = 0
  /\ scores = 0
  /\ decision = "none"
  /\ reason = "none"
  /\ direction = NoDirection
  /\ passes = 0
  /\ outcome = "running"
  /\ staged = FALSE
  /\ builds = 0
  /\ replans = 0

-----------------------------------------------------------------------------
(* Gates of evaluator_node, in the order in which it applies them.         *)

Reviewable(r) == r.status \in {"pass", "partial"}

(* apply_duplicate_staging_rejection: it marks pass and partial only.      *)
DuplicateGate(r, duplicate) ==
  IF duplicate /\ Reviewable(r) THEN [r EXCEPT !.status = "fail", !.duplicate = TRUE] ELSE r

(* The gates that only turn pass and partial into partial: fresh habitat,  *)
(* preview surface, literal checks, motion signal and acknowledgment.      *)
DowngradeGates(r, flaw) ==
  IF flaw /\ Reviewable(r) THEN [r EXCEPT !.status = "partial", !.flawed = TRUE] ELSE r

(* apply_interactive_lane_evaluator_gate: an issue the model has already   *)
(* reported is not added again, and then does not downgrade the pass.      *)
LaneGate(r, found) ==
  IF Reviewable(r) /\ ~(found \subseteq r.codes)
  THEN [r EXCEPT !.status = "partial", !.codes = @ \cup found, !.flawed = TRUE]
  ELSE r

GroundingGate(r) ==
  IF settings.grounding = "demo_gap" /\ r.status = "pass"
  THEN [r EXCEPT !.status = "partial", !.groundingOnly = TRUE] ELSE r

(* The 3D guardrail comes after the grounding gate.                        *)
SpatialGate(r, flat) ==
  IF settings.spatial /\ flat /\ Reviewable(r)
  THEN [r EXCEPT !.status = "partial", !.flawed = TRUE] ELSE r

Gates(r, b) ==
  SpatialGate(GroundingGate(
    LaneGate(DowngradeGates(DuplicateGate(r, b.duplicate), b.flaw), b.found)), b.flat)

(* What the evaluator model may answer: its status after normalization; it *)
(* does not set the metrics that the gates set.                            *)
RawReports ==
  [status: EvalStatuses, codes: {c \in SUBSET Codes : Cardinality(c) <= MaxRawIssues},
   duplicate: {FALSE}, groundingOnly: {FALSE}, flawed: {FALSE}, scored: BOOLEAN]

(* What a build may be like.  What no gate gets to see is left out: a      *)
(* duplicate fails at once, and no gate looks at a failed report.          *)
Unseen(duplicates) == [duplicate: duplicates, flaw: {FALSE}, flat: {FALSE}, found: {{}}]

Builds(r) ==
  IF ~Reviewable(r) THEN Unseen(BOOLEAN)
  ELSE Unseen({TRUE})
         \cup [duplicate: {FALSE}, flaw: BOOLEAN, flat: {FALSE, settings.spatial},
               found: {{}} \cup {{c} : c \in LaneCodes}]

-----------------------------------------------------------------------------
(* The decision: a verdict is a decision and a reason.                     *)

AtCap == iteration >= MaxIterations

compute_evaluator_decision(status) ==
  CASE status = "pass"    -> [decision |-> "stage", reason |-> "none"]
    [] status = "blocked" -> [decision |-> "interrupt", reason |-> "evaluator_blocked"]
    [] status \in {"fail", "partial"} ->
         [decision |-> IF AtCap THEN "stage" ELSE "iterate", reason |-> "none"]
    [] OTHER -> [decision |-> "interrupt", reason |-> "unknown_eval_status"]

maybe_suppress_duplicate_staging(v, r) ==
  IF v.decision = "stage" /\ r.status = "fail" /\ r.duplicate
  THEN [decision |-> "interrupt", reason |-> "duplicate_output_after_max_iterations"]
  ELSE v

(* Mutant: a duplicate is left to maybe_suppress_duplicate_staging.        *)
PolicyCodesReported(r) == r.codes

(* Older evaluators report a duplicate in the metrics only.                *)
PolicyCodes(r) == r.codes \cup (IF r.duplicate THEN {"staging_integrity"} ELSE {})

Failing(r)  == r.status \in {"fail", "partial"}
(* Mutant: a hard failure of a partial build is overlooked.                *)
HasHardFailed(r) == r.status = "fail" /\ PolicyCodes(r) \cap HardCodes # {}

HasHard(r)  == Failing(r) /\ PolicyCodes(r) \cap HardCodes # {}
HasPivot(r) == Failing(r) /\ ~HasHard(r) /\ PolicyCodes(r) \cap PivotCodes # {}
HasSoft(r)  ==
  Failing(r) /\ ~HasHard(r) /\ ~HasPivot(r) /\ PolicyCodes(r) \cap SoftCodes # {}

apply_mixed_lane_failure_policy(v, r) ==
  CASE HasHard(r) -> [decision |-> "interrupt", reason |-> "mixed_lane_hard_failure"]
    [] HasPivot(r) /\ AtCap ->
         [decision |-> "interrupt", reason |-> "mixed_lane_pivot_required_at_iteration_cap"]
    [] HasSoft(r) /\ AtCap ->
         [decision |-> "interrupt", reason |-> "mixed_lane_soft_failure_at_iteration_cap"]
    [] (HasPivot(r) \/ HasSoft(r)) /\ ~AtCap -> [v EXCEPT !.decision = "iterate"]
    [] OTHER -> v

(* A soft failure that stagnates asks for a pivot too.                     *)
PivotRequired(r) ==
  HasPivot(r) \/ (HasSoft(r) /\ stagnation >= 2 /\ "lane_mix_mismatch" \in PolicyCodes(r))

(* Mutant: is_grounding_only_partial is not asked.                         *)
GroundingOverrideMissing(v, r) == v

(* The generator cannot repair a preview that nobody can reach.            *)
GroundingOverride(v, r) ==
  IF v.decision = "iterate" /\ r.groundingOnly THEN [v EXCEPT !.decision = "stage"] ELSE v

(* Without a browser there are at most weakCap retries.                    *)
WeakCapOverride(v) ==
  IF /\ v.decision = "iterate"
     /\ settings.weakCap > 0 /\ settings.grounding # "browser"
     /\ iteration >= settings.weakCap
  THEN [v EXCEPT !.decision = "stage"] ELSE v

Verdict(r) ==
  WeakCapOverride(GroundingOverride(
    apply_mixed_lane_failure_policy(
      maybe_suppress_duplicate_staging(compute_evaluator_decision(r.status), r), r), r))

-----------------------------------------------------------------------------
(* The retry direction and the route of a retry.                           *)

(* On a plateau the dimension that changes is rotated.                     *)
Rotation ==
  [d \in Directions \cup {NoDirection} |->
     CASE d = "pivot_layout"  -> "pivot_palette"
       [] d = "pivot_palette" -> "pivot_content"
       [] d = "pivot_content" -> "fresh_start"
       [] OTHER               -> "pivot_layout"]

OnRegression ==
  CASE direction = "pivot_palette" -> "pivot_content"
    [] direction = "pivot_layout"  -> "fresh_start"
    [] OTHER                       -> "pivot_palette"

select_retry_direction(r, trend) ==
  CASE stagnation >= 3 -> "fresh_start"
    [] stagnation < 3 /\ r.status = "fail" ->
         IF iteration = 0 THEN "pivot_layout" ELSE "fresh_start"
    [] stagnation < 3 /\ r.status # "fail" /\ r.scored /\ trend = "regressing" -> OnRegression
    [] stagnation < 3 /\ r.status # "fail" /\ r.scored /\ trend = "plateau" -> Rotation[direction]
    [] OTHER -> "refine"

RetryDirection(r, trend) ==
  IF PivotRequired(r) THEN "pivot_content" ELSE select_retry_direction(r, trend)

(* compute_hard_replan_reason.                                             *)
HardReplan(r) == settings.force \/ r.codes \cap ReplanCodes # {}

(* compute_identity_static_structural_replan_reason, with the index of the *)
(* iteration that is about to start.                                       *)
StructuralReplan(r, i) ==
  settings.static /\ i <= 1 /\ r.codes \cap StructuralCodes # {}

(* legacy_would_route_to_planner_on_iterate.                               *)
LegacyReplan(d) ==
  \/ d # "refine"
  \/ settings.threshold > 0 /\ stagnation >= settings.threshold

(* resolve_iterate_planner_routing.                                        *)
RoutesToPlanner(r, i, d) ==
  HardReplan(r) \/ StructuralReplan(r, i) \/ (settings.replan /\ LegacyReplan(d))

-----------------------------------------------------------------------------
(* The nodes.                                                              *)

Before(n) == node = n /\ outcome = "running"

ContextHydrator ==
  /\ Before("context_hydrator")
  /\ node' = "checkpoint_pre"
  /\ UNCHANGED <<settings, iteration, stateVars, outcome, staged, builds, replans>>

CheckpointPre ==
  /\ Before("checkpoint_pre")
  /\ node' = "planner"
  /\ UNCHANGED <<settings, iteration, stateVars, outcome, staged, builds, replans>>

Planner ==
  /\ Before("planner")
  /\ node' = "generator"
  /\ UNCHANGED <<settings, iteration, stateVars, outcome, staged, builds, replans>>

MaxBuilds == MaxIterations + 2   \* bound: one more build than there may be

(* The state that the generator model returns replaces the old one, when   *)
(* it returns any.                                                         *)
Generator ==
  /\ Before("generator")
  /\ node' = "evaluator"
  /\ builds' = IF builds < MaxBuilds THEN builds + 1 ELSE builds
  /\ stagnation' \in {stagnation} \cup 0..MaxStagnation
  /\ UNCHANGED <<settings, iteration, report, twin, scores, decision, reason, direction, passes,
                 outcome, staged, replans>>

Evaluator ==
  /\ Before("evaluator")
  /\ node' = "decision_router"
  /\ \E raw \in RawReports : \E b \in Builds(raw) :
       report' = Gates(raw, b) /\ twin' = b.duplicate
  /\ scores' = IF report'.scored /\ scores < 2 THEN scores + 1 ELSE scores
  /\ UNCHANGED <<settings, iteration, stagnation, decision, reason, direction, passes,
                 outcome, staged, builds, replans>>

(* Mutant: where replanning is on, a retry after the first is not counted. *)
NextIndexKept == IF settings.replan /\ iteration > 0 THEN iteration ELSE iteration + 1

NextIndex == iteration + 1

(* decision_router and the conditional edge after it, route_after_decision.*)
DecisionRouter ==
  /\ Before("decision_router")
  /\ LET v == Verdict(report) IN
       /\ decision' = v.decision
       /\ reason' = IF v.reason = "none" THEN reason ELSE v.reason
       /\ passes' = IF report.status = "pass" THEN passes + 1 ELSE 0
       /\ \/ /\ v.decision = "iterate"
             /\ iteration' = NextIndex
             /\ \E trend \in IF scores < 2 THEN {"insufficient_data"}
                               ELSE Trends \ {"insufficient_data"} :
                  direction' = RetryDirection(report, trend)
             /\ node' = IF RoutesToPlanner(report, iteration', direction')
                        THEN "planner" ELSE "generator"
             /\ replans' = replans +
                  (IF ~HardReplan(report) /\ StructuralReplan(report, iteration') THEN 1 ELSE 0)
          \/ /\ v.decision # "iterate"
             /\ node' = IF v.decision = "stage" THEN "staging" ELSE "end"
             /\ UNCHANGED <<iteration, direction, replans>>
  /\ UNCHANGED <<settings, report, twin, stagnation, scores, outcome, staged, builds>>

Stageable(r) == r.status \in {"pass", "partial", "fail"}

Staging ==
  /\ Before("staging")
  /\ Stageable(report)
  /\ node' = "end"
  /\ staged' = TRUE
  /\ UNCHANGED <<settings, iteration, stateVars, outcome, builds, replans>>

(* A node raises, a role failed or the database did, or saving the end of  *)
(* the run raises.                                                         *)
NodeFails ==
  /\ outcome = "running"
  /\ outcome' = "failed"
  /\ UNCHANGED <<settings, node, iteration, stateVars, staged, builds, replans>>

(* The end of _run_graph_inner does not look at the decision.              *)
RunCompletes ==
  /\ Before("end")
  /\ outcome' = "completed"
  /\ UNCHANGED <<settings, node, iteration, stateVars, staged, builds, replans>>

Next ==
  \/ ContextHydrator \/ CheckpointPre \/ Planner \/ Generator \/ Evaluator
  \/ DecisionRouter \/ Staging \/ NodeFails \/ RunCompletes

Spec == Init /\ [][Next]_vars

(* What every step of a running graph does: some node is left, or the run  *)
(* is over.  Only with Next can it happen; as the action of the fairness   *)
(* it says what WF_vars(Next) would, without the answers of the models.    *)
Moves ==
  /\ outcome = "running"
  /\ node' \in Nodes \cup {"end"} /\ outcome' \in {"running", "completed", "failed"}
  /\ <<node', outcome'>> # <<node, outcome>>

(* A node returns or raises: role invocations have timeouts.               *)
FairSpec == Spec /\ WF_<<node, outcome>>(Moves)

-----------------------------------------------------------------------------
(* What the loop promises.                                                 *)

(* There are at most max_iterations retries, counted in step with the      *)
(* builds: a retry is never free, not even when it replans.                *)
RetriesWithinBudget ==
  /\ iteration <= MaxIterations
  /\ builds = iteration + (IF node \in {"evaluator", "decision_router", "staging", "end"}
                           THEN 1 ELSE 0)

(* Every step follows an edge of the graph as GraphRun knows it, so that   *)
(* the lifecycle of a run is proved for everything the loop can do.        *)
FollowsGraph ==
  [][node' # node =>
       \/ /\ node' \in Successors(node, iteration)
          /\ iteration' = NextIteration(node, node', iteration)
       \/ node' = "end" /\ MayEnd(node) /\ iteration' = iteration]_vars

(* Whatever lanes, caps and overrides say, a build that was rejected as a  *)
(* duplicate of an older snapshot is not staged.                           *)
NoDuplicateStaged == node = "staging" \/ staged => ~report.duplicate

(* staging_node's integrity check never fires: what reaches it can be      *)
(* staged.                                                                 *)
StagingGetsStageable == node = "staging" => Stageable(report)

(* A hard failure of a build that did not pass is not staged.              *)
HardFailureNotStaged ==
  node = "staging" \/ staged => ~(Failing(report) /\ report.codes \cap HardCodes # {})

(* "A partial status that was produced only by the grounding gate will     *)
(* never trigger a generator retry": nor a new plan.                       *)
GroundingPartialNotRetried ==
  [][node = "decision_router" /\ report.groundingOnly =>
       node' \notin {"planner", "generator"}]_vars

(* Without a browser, at most weakCap retries begin.                       *)
WeakCapHolds ==
  settings.weakCap > 0 /\ settings.grounding # "browser" => iteration <= settings.weakCap

(* The structural trigger gives "one bounded planner replan opportunity".  *)
OneStructuralReplan == replans <= 1

(* Every execution of the graph comes to an end.                           *)
Terminates == <>(outcome # "running")

-----------------------------------------------------------------------------
(* What the repository says of the loop.  None of these holds: see README. *)

(* "Hard integrity/preview/render failures should never proceed to         *)
(* staging."                                                               *)
HardNeverStages == node = "staging" => report.codes \cap HardCodes = {}

(* A grounding-only partial was "pass on all real criteria".               *)
GroundingOnlyIsFlawless == report.groundingOnly => ~report.flawed

(* A duplicate is downgraded "so the graph iterates instead of recording   *)
(* duplicate review rows".                                                 *)
DuplicateIterates ==
  [][node = "decision_router" /\ report.duplicate /\ iteration < MaxIterations /\ node' # node =>
       decision' = "iterate"]_vars

(* Staging "fail+duplicate_rejection" after the last iteration would make  *)
(* "a useless duplicate snapshot": a duplicate is not staged.              *)
TwinNotStaged == node = "staging" => ~twin

(* "interrupt -> wait for human input": a run with that decision is not    *)
(* over.                                                                   *)
InterruptWaits == decision = "interrupt" => outcome # "completed"
=============================================================================
