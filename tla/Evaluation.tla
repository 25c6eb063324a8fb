----------------------------- MODULE Evaluation ------------------------------
(***************************************************************************)
(* evaluator_node from the answer of the evaluator model to the report     *)
(* that is saved: where the build could be seen, the drop of issues that   *)
(* local evidence disproves, and the gates, one action each, in the order  *)
(* in which the node applies them.  GraphLoop has the same gates as one    *)
(* step and decides on the result; here each gate has its own conditions.  *)
(*                                                                         *)
(* A build is what the gates find in its files, an issue is its code.      *)
(***************************************************************************)
EXTENDS Naturals, Sequences

CONSTANTS
  Configurations,  \* the settings and build specs: records of ConfigurationType
  Candidates,      \* the builds: records of CandidateType
  RawIssues        \* what the model reports: sets of issue codes

VARIABLES
  config,     \* settings, event input and evaluation contract of this evaluation
  candidate,  \* the build
  said,       \* the model's report after normalization
  report,     \* the report as far as the gates have come
  step        \* the gate that comes next

vars == <<config, candidate, said, report, step>>

Statuses == {"pass", "partial", "fail", "blocked"}
Hosts    == {"none", "private", "public"}

(* Codes of the issues that the interactive lane gate adds.                *)
LaneCodes ==
  {"interactive_lane_evidence_gap", "interactive_lane_hollow_affordances",
   "interactive_lane_module_preview_risk", "required_library_missing",
   "portfolio_shell_regression", "generic_demo_pattern", "weak_iteration_delta",
   "lane_mix_mismatch", "literal_reuse_regression", "weak_media_transformation"}

(* Issues of the model that evidence in the orchestrator can disprove.     *)
Disputable == {"missing_preview", "missing_h1"}

GateIssues ==
  {"duplicate_output", "fresh_habitat_duplicate_output", "preview_surface_not_verified",
   "literal_success_check_failed", "cool_lane_motion_signal_missing",
   "cool_lane_acknowledgment", "demo_preview_grounding_not_satisfied",
   "3d_content_missing"} \cup LaneCodes

ConfigurationType ==
  [base:     {"configured", "derived_local", "none"},  \* orchestrator_public_base_source
   baseHost: Hosts,       \* host class of that base
   allow:    BOOLEAN,     \* kmbl_evaluator_allow_private_preview_fetch
   smoke:    BOOLEAN,     \* orchestrator_smoke_contract_evaluator
   vertical: {"static", "interactive", "other"},  \* the scenario of static URLs is "static"
   cool:     BOOLEAN,     \* the cool generation lane is active
   spatial:  BOOLEAN,     \* experience_mode asks for 3D content
   fresh:    BOOLEAN]     \* first iteration on a surface that was cleared

CandidateType ==
  [previewHost: Hosts,         \* host class of the preview_url it brings
   h1:        BOOLEAN,         \* h1_text of its summary is not empty
   duplicate: {"no", "older_snapshot", "cleared_surface"},
   gallery:   BOOLEAN,         \* ui_gallery_strip_v1 is in its patch
   unhealthy: BOOLEAN,         \* the metrics say that the preview did not load
   literals:  BOOLEAN,         \* every literal_success_checks needle is in the files
   text:      BOOLEAN,         \* the files can be read
   motion:    BOOLEAN,         \* cool_lane_artifact_has_motion_signal
   ack:       {"executed", "cannot_fulfill", "silent", "invalid"},
   findings:  SUBSET LaneCodes,
   flat:      BOOLEAN]         \* no file speaks of three, webgl or 3d

ReportType ==
  [status: Statuses, issues: SUBSET (GateIssues \cup Disputable \cup {"other"}),
   groundingOnly: BOOLEAN,     \* metrics.grounding_only_partial
   harness: BOOLEAN]           \* metrics and issues of the gallery strip

Steps == <<"reconcile", "harness", "duplicate", "fresh", "surface", "literal", "motion",
           "acknowledgment", "lane", "grounding", "spatial", "save", "done">>

ASSUME EvaluationAssumption ==
  /\ Configurations \subseteq ConfigurationType
  /\ \A c \in Configurations : (c.base = "none") = (c.baseHost = "none")
  /\ \A c \in Configurations : c.base = "derived_local" => c.baseHost = "private"
  /\ Candidates \subseteq CandidateType
  /\ RawIssues \subseteq SUBSET (LaneCodes \cup Disputable \cup {"other"})

TypeOK ==
  /\ config \in Configurations
  /\ candidate \in Candidates
  /\ said \in ReportType
  /\ report \in ReportType
  /\ step \in 1..Len(Steps)

Init ==
  /\ config \in Configurations
  /\ candidate \in Candidates
  /\ \E s \in Statuses, i \in RawIssues :
       said = [status |-> s, issues |-> i, groundingOnly |-> FALSE, harness |-> FALSE]
  /\ report = said
  /\ step = 1

-----------------------------------------------------------------------------
(* Where the build can be seen.  The candidate and the staging preview of  *)
(* the orchestrator are on one base, which comes before the URL that the   *)
(* build itself brings.                                                    *)

(* preview_host_blocked_by_openclaw_default.                               *)
Blocked(host) == host = "private"

(* resolve_evaluator_preview_resolution, operator_preview_url.             *)
OperatorHost ==
  IF config.baseHost # "none" THEN config.baseHost ELSE candidate.previewHost

(* The same, preview_url: the first of the two that may be fetched.        *)
BrowserHost ==
  LET May(host) == host # "none" /\ (config.allow \/ ~Blocked(host))
  IN  CASE May(config.baseHost) -> config.baseHost
        [] ~May(config.baseHost) /\ May(candidate.previewHost) -> candidate.previewHost
        [] OTHER -> "none"

preview_grounding_mode ==
  CASE config.smoke -> "unavailable"
    [] ~config.smoke /\ BrowserHost # "none" -> "browser_reachable"
    [] ~config.smoke /\ BrowserHost = "none" /\ OperatorHost # "none" -> "operator_local_only"
    [] OTHER -> "unavailable"

(* The URL that goes to the model: nothing that its gateway would refuse.  *)
preview_url_for_payload ==
  IF config.smoke \/ Blocked(BrowserHost) THEN "none" ELSE BrowserHost

(* compute_demo_preview_grounding_state, required and not satisfied.       *)
GroundingGap ==
  ~config.smoke /\ config.base = "configured" /\ preview_grounding_mode # "browser_reachable"

-----------------------------------------------------------------------------
(* The gates.                                                              *)

Reviewable(r) == r.status \in {"pass", "partial"}

(* Most gates: the build is at best partial, and the report says why.      *)
Partial(r, why) == [r EXCEPT !.status = "partial", !.issues = @ \cup why]

(* reconcile_evaluator_false_negatives: issues go, the status stays.       *)
reconcile_evaluator_false_negatives(r) ==
  [r EXCEPT !.issues = @ \ ((IF OperatorHost # "none" THEN {"missing_preview"} ELSE {})
                              \cup (IF candidate.h1 THEN {"missing_h1"} ELSE {}))]

(* What the node calls is_static_vertical: an interactive bundle is        *)
(* assembled to one document too.                                          *)
is_preview_assembly_vertical == config.vertical \in {"static", "interactive"}

(* merge_gallery_strip_harness_checks: metrics and issues only.            *)
merge_gallery_strip_harness_checks(r) ==
  IF ~is_preview_assembly_vertical /\ candidate.gallery THEN [r EXCEPT !.harness = TRUE] ELSE r

apply_duplicate_staging_rejection(r) ==
  IF candidate.duplicate = "older_snapshot" /\ Reviewable(r)
  THEN [r EXCEPT !.status = "fail", !.issues = @ \cup {"duplicate_output"}] ELSE r

(* Mutant: only blocked reports are left alone.                            *)
apply_fresh_habitat_duplicate_output_gate_lenient(r) ==
  IF r.status # "blocked" /\ config.fresh /\ candidate.duplicate = "cleared_surface"
  THEN Partial(r, {"fresh_habitat_duplicate_output"}) ELSE r

apply_fresh_habitat_duplicate_output_gate(r) ==
  IF config.fresh /\ candidate.duplicate = "cleared_surface" /\ Reviewable(r)
  THEN Partial(r, {"fresh_habitat_duplicate_output"}) ELSE r

apply_preview_surface_gate(r) ==
  IF is_preview_assembly_vertical /\ r.status = "pass" /\ candidate.unhealthy
  THEN Partial(r, {"preview_surface_not_verified"}) ELSE r

apply_literal_success_checks(r) ==
  IF Reviewable(r) /\ ~candidate.literals
  THEN Partial(r, {"literal_success_check_failed"}) ELSE r

(* A build that says it cannot fulfil the contract is not blamed twice.    *)
apply_cool_lane_motion_signal_gate(r) ==
  IF /\ config.cool /\ Reviewable(r)
     /\ candidate.ack # "cannot_fulfill" /\ candidate.text /\ ~candidate.motion
  THEN Partial(r, {"cool_lane_motion_signal_missing"}) ELSE r

(* _kmbl_compliance, which only the cool lane's generator annotates.       *)
apply_cool_lane_execution_acknowledgment_gates(r) ==
  IF config.cool /\ Reviewable(r) /\ candidate.ack \in {"silent", "invalid"}
  THEN Partial(r, {"cool_lane_acknowledgment"}) ELSE r

(* An issue that the model has reported itself is not added again, and     *)
(* a pass that comes with it stays a pass.                                 *)
apply_interactive_lane_evaluator_gate(r) ==
  IF config.vertical = "interactive" /\ Reviewable(r) /\ candidate.findings \ r.issues # {}
  THEN Partial(r, candidate.findings) ELSE r

(* Mutant: the downgrade does not say that it is one.                      *)
GroundingGateUnflagged(r) ==
  IF GroundingGap /\ r.status = "pass"
  THEN Partial(r, {"demo_preview_grounding_not_satisfied"}) ELSE r

GroundingGate(r) ==
  IF GroundingGap /\ r.status = "pass"
  THEN [Partial(r, {"demo_preview_grounding_not_satisfied"}) EXCEPT !.groundingOnly = TRUE]
  ELSE r

SpatialGate(r) ==
  IF config.spatial /\ candidate.flat /\ Reviewable(r)
  THEN Partial(r, {"3d_content_missing"}) ELSE r

-----------------------------------------------------------------------------
(* The node, gate by gate.                                                 *)

Gate(name, after) ==
  /\ Steps[step] = name
  /\ report' = after
  /\ step' = step + 1
  /\ UNCHANGED <<config, candidate, said>>

Reconcile      == Gate("reconcile", reconcile_evaluator_false_negatives(report))
Harness        == Gate("harness", merge_gallery_strip_harness_checks(report))
Duplicate      == Gate("duplicate", apply_duplicate_staging_rejection(report))
Fresh          == Gate("fresh", apply_fresh_habitat_duplicate_output_gate(report))
Surface        == Gate("surface", apply_preview_surface_gate(report))
Literal        == Gate("literal", apply_literal_success_checks(report))
Motion         == Gate("motion", apply_cool_lane_motion_signal_gate(report))
Acknowledgment == Gate("acknowledgment", apply_cool_lane_execution_acknowledgment_gates(report))
Lane           == Gate("lane", apply_interactive_lane_evaluator_gate(report))
Grounding      == Gate("grounding", GroundingGate(report))
Spatial        == Gate("spatial", SpatialGate(report))
Save           == Gate("save", report)

Next ==
  \/ Reconcile \/ Harness \/ Duplicate \/ Fresh \/ Surface \/ Literal
  \/ Motion \/ Acknowledgment \/ Lane \/ Grounding \/ Spatial \/ Save

Spec == Init /\ [][Next]_vars

-----------------------------------------------------------------------------
(* sanitize_feedback_for_generator: what a retry gets to see of the issues.*)
sanitize_feedback_for_generator(r) == r.issues \ {"demo_preview_grounding_not_satisfied"}

-----------------------------------------------------------------------------
(* No gate makes a verdict better than the one it found: a build that the  *)
(* model or an earlier gate failed is not partial again after a later one. *)
Severity == [s \in Statuses |-> CASE s = "pass" -> 0 [] s = "partial" -> 1
                                   [] s = "fail" -> 2 [] s = "blocked" -> 3]
NeverUpgraded == [][Severity[report'.status] >= Severity[report.status]]_report

(* A pass that does not stay one gives the retry something to repair, or   *)
(* is marked as a gap in the preview, which decision_router does not retry.*)
DowngradeIsActionable ==
  Steps[step] = "done" /\ said.status = "pass" /\ report.status # "pass" =>
    \/ sanitize_feedback_for_generator(report) \cap GateIssues # {}
    \/ report.groundingOnly

(* grounding_only_partial: "downgraded to partial solely because demo      *)
(* preview grounding could not be satisfied".                              *)
GroundingOnlyIsOnlyGrounding ==
  report.groundingOnly => sanitize_feedback_for_generator(report) \cap GateIssues = {}

(* evaluator_grounding_evidence_quality "browser": "evaluator had a        *)
(* browser-reachable preview".                                             *)
BrowserEvidenceWasShown ==
  preview_grounding_mode = "browser_reachable" => preview_url_for_payload # "none"
=============================================================================
