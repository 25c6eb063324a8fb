------------------------------ MODULE Staging -------------------------------
(***************************************************************************)
(* The mutable working staging of one thread, its checkpoints, the review  *)
(* snapshots taken from it and the publications made from either.          *)
(*                                                                         *)
(* One graph run at a time writes it (the thread mutex of GraphRun), next  *)
(* to the requests of operators, each of which reads rows, decides and     *)
(* writes whole rows back.  A write that commits may lose its answer and   *)
(* is then sent again.                                                     *)
(*                                                                         *)
(* A payload is which build each of its files comes from, whether its      *)
(* metadata claims previewable HTML, and the verdict it carries.           *)
(***************************************************************************)
EXTENDS Naturals, FiniteSets, Sequences, Functions

CONSTANTS
  Paths,              \* files of a build
  Page,               \* the one of them that is HTML
  Drafts,             \* what runs bring: records of DraftType
  Policies,           \* values of staging_snapshot_policy
  Operators,          \* request handlers
  Desks,              \* how many requests may be open at a time
  MaxIssues,          \* bound: issues of an evaluation
  PatchLimit,         \* max_patches_before_rebuild_consideration
  StagnationLimit,    \* max_stagnation_iterations of pressure.py
  IssueLimit,         \* max_unresolved_issues_for_patch
  ForcedPatchLimit,   \* max_patches_before_forced_rebuild
  ForcedStagnationLimit,  \* max_stagnation_iterations of guardrails.py
  MilestoneEvery,     \* a patch at a multiple of it is checkpointed
  MaxRuns,            \* bound: graph runs
  MaxRequests,        \* bound: requests and the number that may be open at a time
  MaxAttempts,        \* how often _run sends a write
  None                \* no id

ASSUME StagingConstantsAssumption ==
  /\ Page \in Paths
  /\ Desks \subseteq Nat
  /\ MaxIssues \in Nat /\ PatchLimit \in Nat /\ StagnationLimit \in Nat
  /\ IssueLimit \in Nat /\ ForcedPatchLimit \in Nat /\ ForcedStagnationLimit \in Nat
  /\ MilestoneEvery \in Nat \ {0}
  /\ MaxRuns \in Nat /\ MaxRequests \in Nat /\ MaxAttempts \in Nat \ {0}
  /\ None \notin Nat

VARIABLES
  ws,            \* the row of working_staging, or NoSurface
  checkpoints,   \* rows of staging_checkpoint
  snapshots,     \* rows of staging_snapshot
  publications,  \* rows of publication_snapshot
  node,          \* the graph run in progress: its step and what it holds
  op,            \* the request each operator has open
  policy,        \* settings.staging_snapshot_policy
  desk,          \* how many requests may be open at a time here
  clock,         \* ids given out so far; a later id has a later created_at
  builds,        \* what each graph run so far has brought
  requests       \* requests so far

vars == <<ws, checkpoints, snapshots, publications, node, op, policy, desk, clock,
          builds, requests>>

-----------------------------------------------------------------------------
(* Payloads.                                                               *)

Verdicts  == {"pass", "partial", "fail", "blocked"}
Stageable == {"pass", "partial", "fail"}
Intents   == {"none", "append", "replace", "remove_stale", "rebuild_full"}
Modes     == {"init", "patch", "rebuild"}

DraftType ==
  [paths: SUBSET Paths,      \* artifact_refs of the build candidate
   verdict: Verdicts,        \* evaluation_report.status
   issues: 0..MaxIssues,
   nominated: {"yes", "no", "silent"},   \* marked_for_review as the evaluator says
   intent: Intents,          \* the one intent of _kmbl_mutation_intent, if any
   targets: SUBSET Paths,    \* its target_paths
   fresh: BOOLEAN,           \* habitat_strategy is not continue
   preview: BOOLEAN]         \* validate_preview_integrity accepts it

ASSUME DraftsAssumption == Drafts \subseteq DraftType

Files == UNION {[S -> 1..MaxRuns] : S \in SUBSET Paths}

PayloadType ==
  [files: Files, html: BOOLEAN, verdict: Verdicts \cup {"none"}, run: 0..MaxRuns]

Blank == [files |-> [p \in {} |-> 0], html |-> FALSE, verdict |-> "none", run |-> 0]

(* build_staging_snapshot_payload, for the build of run n.                 *)
build_staging_snapshot_payload(d, n) ==
  [files |-> [p \in d.paths |-> n], html |-> Page \in d.paths, verdict |-> d.verdict, run |-> n]

(* _payload_has_previewable_html: the metadata or a file says so.          *)
HasHtml(p) == p.html \/ Page \in DOMAIN p.files

(* The files of f, and those of g where f has none.                        *)
Over(f, g) ==
  [p \in DOMAIN f \cup DOMAIN g |-> IF p \in DOMAIN f THEN f[p] ELSE g[p]]

(* merge_artifacts_into_payload; metadata about files is replaced only by  *)
(* a build that has files.                                                 *)
merge_artifacts_into_payload(old, new) ==
  [new EXCEPT !.files = Over(new.files, old.files),
              !.html  = IF DOMAIN new.files = {} THEN old.html ELSE new.html]

(* resolve_mutation_plan and apply_mutation_plan_to_refs in patch mode,    *)
(* for a single intent without preserve_paths.  An intent that only        *)
(* removes leaves the new files out.                                       *)
PlannedFiles(d, old, new) ==
  CASE d.intent = "rebuild_full" -> new
    [] d.intent = "append"       -> Over(old, new)
    [] d.intent = "replace"      ->
         Over(IF d.targets = {} THEN new ELSE Restrict(new, DOMAIN new \cap d.targets), old)
    [] d.intent = "remove_stale" -> Restrict(old, DOMAIN old \ d.targets)
    [] OTHER                     -> Over(new, old)

PatchedPayload(d, old, new) ==
  [merge_artifacts_into_payload(old, new) EXCEPT !.files = PlannedFiles(d, old.files, new.files)]

-----------------------------------------------------------------------------
(* Rows.                                                                   *)

Ids == Nat

SurfaceType ==
  [payload: PayloadType, revision: Nat, mode: Modes,
   status: {"draft", "review_ready", "frozen"}, checkpoint: Ids \cup {None},
   run: 0..MaxRuns, rebuilt: Nat \cup {None}, stagnation: Nat, issues: 0..MaxIssues]

NoSurface ==
  [payload |-> Blank, revision |-> 0, mode |-> "init", status |-> "draft",
   checkpoint |-> None, run |-> 0, rebuilt |-> None, stagnation |-> 0, issues |-> 0]

CheckpointType == [id: Ids, payload: PayloadType, revision: Nat]

SnapshotType ==
  [id: Ids, payload: PayloadType, status: {"review_ready", "approved", "rejected"},
   prior: Ids \cup {None}]

PublicationType ==
  [id: Ids, payload: PayloadType, source: Ids, path: {"review", "live"}]

(* Insert with ignore_duplicates: a row that is sent again is not changed. *)
InsertRows(table, rows) ==
  table \cup {r \in rows : \A q \in table : q.id # r.id}

NewestId(table) ==
  IF table = {} THEN None
  ELSE CHOOSE i \in {r.id : r \in table} : \A r \in table : r.id <= i

Published(s) == \E p \in publications : p.source = s

create_staging_checkpoint(s, id) ==
  [id |-> id, payload |-> s.payload, revision |-> s.revision]

-----------------------------------------------------------------------------
(* Patch or rebuild.                                                       *)

count_patches_since_rebuild(s) ==
  IF s.rebuilt = None THEN s.revision
  ELSE IF s.revision > s.rebuilt THEN s.revision - s.rebuilt ELSE 0

(* The weights of evaluate_staging_pressure, doubled; the files of a small *)
(* build never reach the artifact limit, whose weight 2 is in the total.   *)
Pressure(s, d) ==
  (IF count_patches_since_rebuild(s) >= PatchLimit THEN 4 ELSE 0)
    + (IF s.stagnation >= StagnationLimit THEN 4 ELSE 0)
    + (IF d.issues > IssueLimit THEN 3 ELSE 0)
    + (IF ~HasHtml(s.payload) THEN 3 ELSE 0)

TotalWeight == 22

(* choose_update_mode_with_pressure, then the planner's strategy: the mode *)
(* and the reason for it.                                                  *)
UpdateMode(s, d) ==
  CASE d.fresh -> [mode |-> "rebuild", reason |-> "habitat_strategy_requires_full_replace"]
    [] ~d.fresh /\ s.revision = 0 -> [mode |-> "rebuild", reason |-> "initial_build"]
    [] ~d.fresh /\ s.revision > 0 /\ d.verdict = "fail" ->
         [mode |-> "rebuild", reason |-> "evaluator_fail_status"]
    [] OTHER ->
         IF 2 * Pressure(s, d) >= TotalWeight
         THEN [mode |-> "rebuild", reason |-> "pressure_threshold_exceeded with signals"]
         ELSE IF count_patches_since_rebuild(s) >= ForcedPatchLimit
         THEN [mode |-> "rebuild", reason |-> "max_patches_exceeded"]
         ELSE IF s.stagnation >= ForcedStagnationLimit
         THEN [mode |-> "rebuild", reason |-> "stagnation_detected"]
         ELSE [mode |-> "patch", reason |-> "incremental_improvement"]

(* The categories that RevisionModeReason accepts.  Another one is a       *)
(* ValidationError in the middle of apply_generator_to_working_staging.    *)
JournalReasons ==
  {"initial_build", "incremental_improvement", "destructive_replace",
   "habitat_strategy_requires_full_replace", "pressure_threshold_exceeded",
   "stagnation_detected", "preview_missing", "operator_rollback_recovery",
   "evaluator_fail_status", "manual_fresh_rebuild"}

(* compute_stagnation_count as it is called: with previous_status unknown. *)
compute_stagnation_count(s, d) ==
  CASE d.verdict = "pass" \/ d.issues < s.issues -> 0
    [] d.verdict # "pass" /\ d.issues > s.issues -> s.stagnation + 1
    [] OTHER -> s.stagnation

(* apply_generator_to_working_staging, for the build of run n.             *)
apply_generator_to_working_staging(s, d, mode, n) ==
  LET new     == build_staging_snapshot_payload(d, n)
      payload == IF mode = "rebuild" THEN new ELSE PatchedPayload(d, s.payload, new)
  IN  [payload    |-> payload,
       revision   |-> s.revision + 1,
       mode       |-> mode,
       status     |-> IF s.status = "draft" /\ HasHtml(payload) /\ d.verdict = "pass"
                      THEN "review_ready" ELSE s.status,
       checkpoint |-> s.checkpoint,
       run        |-> n,
       rebuilt    |-> IF mode = "rebuild" THEN s.revision + 1 ELSE s.rebuilt,
       stagnation |-> compute_stagnation_count(s, d),
       issues     |-> d.issues]

(* Mutant: the checkpoint is taken of the surface as it is afterwards.     *)
create_pre_rebuild_checkpoint_after(s, d, mode, id, n) ==
  IF mode = "rebuild" /\ s.revision > 0
  THEN {create_staging_checkpoint(apply_generator_to_working_staging(s, d, mode, n), id)}
  ELSE {}

(* create_pre_rebuild_checkpoint, when the node asks for it.               *)
create_pre_rebuild_checkpoint(s, d, mode, id, n) ==
  IF mode = "rebuild" /\ s.revision > 0
  THEN {create_staging_checkpoint(s, id)} ELSE {}

(* should_auto_checkpoint_with_policy and decide_post_update_checkpoint.   *)
decide_post_update_checkpoint(before, after, mode, id) ==
  IF \/ ~HasHtml(before.payload) /\ HasHtml(after.payload)
     \/ mode = "patch" /\ after.revision % MilestoneEvery = 0
  THEN {create_staging_checkpoint(after, id)} ELSE {}

(* extract_evaluator_nomination and should_create_staging_snapshot.        *)
should_create_staging_snapshot(d) ==
  CASE policy = "never"         -> FALSE
    [] policy = "on_nomination" -> d.nominated = "yes" \/ (d.nominated = "silent" /\ d.verdict = "pass")
    [] policy = "always"        -> d.verdict # "partial"
    [] OTHER                    -> TRUE

-----------------------------------------------------------------------------
(* Types.  A run in progress holds the surface it read and the rows it is  *)
(* about to write; so does an open request.                                *)

NodeType ==
  [pc: {"idle", "clear", "cleared", "stage", "prior", "persist"},
   surface: SurfaceType, rows: SUBSET CheckpointType, snapshot: SUBSET SnapshotType,
   tries: 0..MaxAttempts]

NodeIdle ==
  [pc |-> "idle", surface |-> NoSurface, rows |-> {}, snapshot |-> {}, tries |-> 0]

ReviewKinds == {"approve", "reject", "unapprove", "publish"}
LiveKinds   == {"rollback_to_checkpoint", "rollback_to_publication", "fresh_rebuild",
                "approve_working_staging", "materialize"}

OpType ==
  [pc: {"idle", "read", "pubs", "newest", "write"}, kind: ReviewKinds \cup LiveKinds,
   target: Ids \cup {None}, status: {"review_ready", "approved", "rejected"},
   surface: SurfaceType, payload: PayloadType, source: Ids \cup {None}, id: Ids,
   tries: 0..MaxAttempts]

OpIdle ==
  [pc |-> "idle", kind |-> "approve", target |-> None, status |-> "review_ready",
   surface |-> NoSurface, payload |-> Blank, source |-> None, id |-> 0, tries |-> 0]

(* Every variable has its type.                                            *)
TypeOK ==
  /\ ws \in SurfaceType
  /\ checkpoints \subseteq CheckpointType
  /\ snapshots \subseteq SnapshotType
  /\ publications \subseteq PublicationType
  /\ node \in NodeType
  /\ op \in [Operators -> OpType]
  /\ policy \in Policies
  /\ desk \in Desks
  /\ clock \in Nat
  /\ builds \in Seq(Drafts) /\ Len(builds) <= MaxRuns
  /\ requests \in 0..MaxRequests

Init ==
  /\ ws = NoSurface
  /\ checkpoints = {} /\ snapshots = {} /\ publications = {}
  /\ node = NodeIdle
  /\ op = [o \in Operators |-> OpIdle]
  /\ policy \in Policies
  /\ desk \in Desks
  /\ clock = 0
  /\ builds = <<>>
  /\ requests = 0

-----------------------------------------------------------------------------
(* A graph run: planner_node may clear the surface, staging_node writes it.*)

opVars  == <<op, requests>>
tables  == <<ws, checkpoints, snapshots, publications>>
setting == <<policy, desk>>

run   == Len(builds)
draft == builds[run]

(* A write whose answer is lost is sent again, MaxAttempts times in all.   *)
Answered(h, idle) ==
  {idle} \cup (IF h.tries + 1 < MaxAttempts THEN {[h EXCEPT !.tries = @ + 1]} ELSE {})

(* A run that has its build.  A fresh strategy is chosen by the planner,   *)
(* which clears the surface in the first iteration only.                   *)
StartRun ==
  /\ node.pc = "idle" /\ run < MaxRuns
  /\ \E d \in Drafts :
       /\ builds' = Append(builds, d)
       /\ \E pc \in {"stage"} \cup (IF d.fresh THEN {"clear"} ELSE {}) :
            node' = [NodeIdle EXCEPT !.pc = pc]
  /\ UNCHANGED <<tables, opVars, setting, clock>>

(* planner_node reads the surface; there may be nothing to clear.          *)
ReadForClear ==
  /\ node.pc = "clear"
  /\ node' = IF ws.payload = Blank THEN [node EXCEPT !.pc = "stage"]
             ELSE [node EXCEPT !.pc = "cleared", !.surface = ws]
  /\ UNCHANGED <<tables, opVars, setting, clock, builds>>

clear_working_staging_surface ==
  /\ node.pc = "cleared"
  /\ ws' = [NoSurface EXCEPT !.run = node.surface.run]
  /\ node' \in Answered(node, [NodeIdle EXCEPT !.pc = "stage"])
  /\ UNCHANGED <<checkpoints, snapshots, publications, opVars, setting, clock, builds>>

StageableDraft(d) == d.verdict \in Stageable /\ d.preview

(* StagingIntegrityFailed, or a ValidationError of the revision summary:   *)
(* the run ends and nothing was written.                                   *)
StagingIntegrityFailed ==
  /\ node.pc = "stage" /\ ~StageableDraft(draft)
  /\ node' = NodeIdle
  /\ UNCHANGED <<tables, opVars, setting, clock, builds>>

RevisionSummaryInvalid ==
  /\ node.pc = "stage" /\ StageableDraft(draft)
  /\ UpdateMode(ws, draft).reason \notin JournalReasons
  /\ node' = NodeIdle
  /\ UNCHANGED <<tables, opVars, setting, clock, builds>>

(* The node reads the surface, decides and applies the build.              *)
ApplyBuild ==
  LET mode  == UpdateMode(ws, draft).mode
      id    == clock + 1
      next  == apply_generator_to_working_staging(ws, draft, mode, run)
      pre   == create_pre_rebuild_checkpoint(ws, draft, mode, id, run)
      post  == decide_post_update_checkpoint(ws, next, mode, id + 1)
      kept  == IF post # {} THEN post ELSE pre
  IN  /\ node.pc = "stage" /\ StageableDraft(draft)
      /\ UpdateMode(ws, draft).reason \in JournalReasons
      /\ node' = [node EXCEPT !.pc = "prior", !.rows = pre \cup post,
                    !.surface = IF kept = {} THEN next
                                ELSE [next EXCEPT !.checkpoint = (CHOOSE c \in kept : TRUE).id]]
      /\ clock' = clock + 2
      /\ UNCHANGED <<tables, opVars, setting, builds>>

(* The node looks for the newest snapshot and takes one of its own.        *)
TakeSnapshot ==
  /\ node.pc = "prior"
  /\ node' = [node EXCEPT !.pc = "persist",
                !.snapshot = IF should_create_staging_snapshot(draft)
                             THEN {[id |-> clock + 1, status |-> "review_ready",
                                    payload |-> build_staging_snapshot_payload(draft, run),
                                    prior |-> NewestId(snapshots)]}
                             ELSE {}]
  /\ clock' = clock + 1
  /\ UNCHANGED <<tables, opVars, setting, builds>>

(* Mutant: the checkpoints are left to a later call.                       *)
atomic_persist_without_checkpoints ==
  /\ node.pc = "persist"
  /\ ws' = node.surface
  /\ snapshots' = InsertRows(snapshots, node.snapshot)
  /\ node' \in Answered(node, NodeIdle)
  /\ UNCHANGED <<checkpoints, publications, opVars, setting, clock, builds>>

(* kmbl_atomic_staging_node_persist: one transaction.                      *)
atomic_persist_staging_node_writes ==
  /\ node.pc = "persist"
  /\ checkpoints' = InsertRows(checkpoints, node.rows)
  /\ ws' = node.surface
  /\ snapshots' = InsertRows(snapshots, node.snapshot)
  /\ node' \in Answered(node, NodeIdle)
  /\ UNCHANGED <<publications, opVars, setting, clock, builds>>

(* The transport fails for good: the run fails, with or without a commit.  *)
PersistFails ==
  /\ node.pc \in {"cleared", "persist"}
  /\ node' = NodeIdle
  /\ UNCHANGED <<tables, opVars, setting, clock, builds>>

-----------------------------------------------------------------------------
(* Requests of operators.  Each reads, decides and writes in steps of its  *)
(* own; a request that is refused ends.                                    *)

nodeVars == <<node, builds>>

Ends(o) == op' = [op EXCEPT ![o] = OpIdle]

(* A snapshot, checkpoint or publication that is named exists: otherwise   *)
(* the answer is 404.                                                      *)
OpenReview(o) ==
  /\ op[o].pc = "idle" /\ requests + desk < MaxRequests
  /\ Cardinality({x \in Operators : op[x].pc # "idle"}) < desk
  /\ \E kind \in ReviewKinds, s \in snapshots :
       op' = [op EXCEPT ![o] = [OpIdle EXCEPT !.pc = "read", !.kind = kind, !.target = s.id]]
  /\ requests' = requests + 1
  /\ UNCHANGED <<tables, nodeVars, setting, clock>>

OpenLive(o) ==
  /\ op[o].pc = "idle" /\ requests + desk < MaxRequests
  /\ Cardinality({x \in Operators : op[x].pc # "idle"}) < desk
  /\ \E kind \in LiveKinds :
       \E row \in CASE kind = "rollback_to_checkpoint"  -> checkpoints
                     [] kind = "rollback_to_publication" -> publications
                     [] OTHER -> {[id |-> None, payload |-> Blank]} :
         op' = [op EXCEPT ![o] = [OpIdle EXCEPT !.pc = "read", !.kind = kind,
                                   !.target = row.id, !.payload = row.payload]]
  /\ requests' = requests + 1
  /\ UNCHANGED <<tables, nodeVars, setting, clock>>

(* approve_staging_snapshot decides on the row it reads; the others look   *)
(* at the publications next.  An approval of what is approved and a        *)
(* rejection of what is rejected are answered without a write.             *)
ReadSnapshot(o) ==
  /\ op[o].pc = "read" /\ op[o].kind \in ReviewKinds
  /\ \E s \in snapshots :
       LET held == [op[o] EXCEPT !.status = s.status, !.payload = s.payload]
       IN  /\ s.id = op[o].target
           /\ op' = [op EXCEPT ![o] =
                CASE op[o].kind = "approve" ->
                       IF s.status = "review_ready" /\ s.payload.verdict \notin {"fail", "blocked"}
                       THEN [held EXCEPT !.pc = "write"] ELSE OpIdle
                  [] op[o].kind = "reject" ->
                       IF s.status # "rejected" THEN [held EXCEPT !.pc = "pubs"] ELSE OpIdle
                  [] OTHER -> [held EXCEPT !.pc = "pubs"]]
  /\ UNCHANGED <<tables, nodeVars, setting, clock, requests>>

(* Mutant: the verdict is left to approve_staging_snapshot.                *)
validate_publication_eligibility_status(status, payload) == status \in {"approved", "review_ready"}

(* validate_publication_eligibility, of the row as it was read.            *)
validate_publication_eligibility(status, payload) ==
  status = "approved" /\ payload.verdict \notin {"fail", "blocked"}

(* What a request may do with the status that it has read.                 *)
Allowed(h) ==
  CASE h.kind = "reject"    -> h.status \in {"review_ready", "approved"}
    [] h.kind = "unapprove" -> h.status = "approved"
    [] h.kind = "publish"   -> validate_publication_eligibility(h.status, h.payload)
    [] OTHER                -> TRUE

(* list_publications_for_staging, then the checks of the row read before.  *)
ListPublications(o) ==
  /\ op[o].pc = "pubs"
  /\ IF ~Published(op[o].target) /\ Allowed(op[o])
     THEN /\ op' = [op EXCEPT ![o].pc = "write", ![o].source = op[o].target, ![o].id = clock + 1]
          /\ clock' = clock + 1
     ELSE Ends(o) /\ clock' = clock
  /\ UNCHANGED <<tables, nodeVars, setting, requests>>

(* apply_staging_status_transition: the status that a request leads to.    *)
NewStatus(kind) ==
  CASE kind = "approve" -> "approved" [] kind = "reject" -> "rejected" [] OTHER -> "review_ready"

(* update_staging_snapshot_status has no condition on the old status.      *)
update_staging_snapshot_status(o) ==
  /\ op[o].pc = "write" /\ op[o].kind \in {"approve", "reject", "unapprove"}
  /\ snapshots' = {IF s.id = op[o].target THEN [s EXCEPT !.status = NewStatus(op[o].kind)] ELSE s :
                     s \in snapshots}
  /\ \E next \in Answered(op[o], OpIdle) : op' = [op EXCEPT ![o] = next]
  /\ UNCHANGED <<ws, checkpoints, publications, nodeVars, setting, clock, requests>>

save_publication_snapshot(o) ==
  /\ op[o].pc = "write" /\ op[o].kind = "publish"
  /\ publications' = InsertRows(publications,
       {[id |-> op[o].id, payload |-> op[o].payload, source |-> op[o].source, path |-> "review"]})
  /\ \E next \in Answered(op[o], OpIdle) : op' = [op EXCEPT ![o] = next]
  /\ UNCHANGED <<ws, checkpoints, snapshots, nodeVars, setting, clock, requests>>

-----------------------------------------------------------------------------
(* Requests about the live surface.                                        *)

HasSurface == ws.run # 0

rollback_to_checkpoint(s, payload, id) ==
  [s EXCEPT !.payload = payload, !.checkpoint = id, !.revision = @ + 1, !.mode = "init"]

rollback_to_publication(s, payload) ==
  [s EXCEPT !.payload = payload, !.revision = @ + 1, !.mode = "init", !.status = "review_ready"]

fresh_rebuild(s) ==
  [s EXCEPT !.payload = Blank, !.revision = @ + 1, !.mode = "init", !.status = "draft",
            !.checkpoint = None]

(* The row that a rollback is going to write.                              *)
RolledBack(h, s) ==
  CASE h.kind = "rollback_to_checkpoint"  -> rollback_to_checkpoint(s, h.payload, h.target)
    [] h.kind = "rollback_to_publication" -> rollback_to_publication(s, h.payload)
    [] OTHER                              -> fresh_rebuild(s)

Rollbacks == {"rollback_to_checkpoint", "rollback_to_publication", "fresh_rebuild"}

ReadSurface(o) ==
  /\ op[o].pc = "read" /\ op[o].kind \in LiveKinds
  /\ op' = [op EXCEPT ![o] =
       CASE HasSurface /\ op[o].kind \in Rollbacks ->
              [op[o] EXCEPT !.pc = "write", !.surface = RolledBack(op[o], ws)]
         [] HasSurface /\ ws.revision > 0
              /\ (op[o].kind = "materialize"
                    \/ (op[o].kind = "approve_working_staging" /\ ws.status # "frozen")) ->
              [op[o] EXCEPT !.pc = "newest", !.surface = ws]
         [] OTHER -> OpIdle]
  /\ UNCHANGED <<tables, nodeVars, setting, clock, requests>>

(* The newest snapshot of the thread: the source of an approval, the       *)
(* predecessor of a snapshot.                                              *)
ReadNewest(o) ==
  /\ op[o].pc = "newest"
  /\ IF op[o].kind = "approve_working_staging" /\ snapshots = {}
     THEN Ends(o) /\ clock' = clock
     ELSE /\ op' = [op EXCEPT ![o].pc = "write", ![o].source = NewestId(snapshots),
                               ![o].id = clock + 1]
          /\ clock' = clock + 1
  /\ UNCHANGED <<tables, nodeVars, setting, requests>>

(* kmbl_atomic_upsert_working_staging: the whole row, as it was computed.  *)
save_working_staging(o) ==
  /\ op[o].pc = "write" /\ op[o].kind \in Rollbacks
  /\ ws' = op[o].surface
  /\ \E next \in Answered(op[o], OpIdle) : op' = [op EXCEPT ![o] = next]
  /\ UNCHANGED <<checkpoints, snapshots, publications, nodeVars, setting, clock, requests>>

(* materialize_review_snapshot_from_live: the payload is that of the build *)
(* of the last run, whatever the surface shows since.                      *)
MaterializedPayload(n) == build_staging_snapshot_payload(builds[n], n)

save_staging_snapshot(o) ==
  /\ op[o].pc = "write" /\ op[o].kind = "materialize"
  /\ snapshots' = InsertRows(snapshots,
       {[id |-> op[o].id, status |-> "review_ready", prior |-> op[o].source,
         payload |-> MaterializedPayload(op[o].surface.run)]})
  /\ \E next \in Answered(op[o], OpIdle) : op' = [op EXCEPT ![o] = next]
  /\ UNCHANGED <<ws, checkpoints, publications, nodeVars, setting, clock, requests>>

(* Mutant: the checkpoint is of the surface as it is now.                  *)
approve_with_checkpoint_of_now(o) ==
  LET cp == create_staging_checkpoint(ws, op[o].id)
  IN  /\ op[o].pc = "write" /\ op[o].kind = "approve_working_staging"
      /\ checkpoints' = InsertRows(checkpoints, {cp})
      /\ publications' = InsertRows(publications,
           {[id |-> op[o].id, payload |-> op[o].surface.payload, source |-> op[o].source,
             path |-> "live"]})
      /\ ws' = [op[o].surface EXCEPT !.status = "frozen", !.checkpoint = cp.id]
      /\ Ends(o)
      /\ UNCHANGED <<snapshots, nodeVars, setting, clock, requests>>

(* Mutant: frozen first, published in a later call.                        *)
approve_without_publication(o) ==
  LET cp == create_staging_checkpoint(op[o].surface, op[o].id)
  IN  /\ op[o].pc = "write" /\ op[o].kind = "approve_working_staging"
      /\ checkpoints' = InsertRows(checkpoints, {cp})
      /\ ws' = [op[o].surface EXCEPT !.status = "frozen", !.checkpoint = cp.id]
      /\ Ends(o)
      /\ UNCHANGED <<snapshots, publications, nodeVars, setting, clock, requests>>

(* approve_working_staging and kmbl_atomic_working_staging_approve: the    *)
(* checkpoint, the publication and the frozen row in one transaction.      *)
atomic_commit_working_staging_approval(o) ==
  LET cp == create_staging_checkpoint(op[o].surface, op[o].id)
  IN  /\ op[o].pc = "write" /\ op[o].kind = "approve_working_staging"
      /\ checkpoints' = InsertRows(checkpoints, {cp})
      /\ publications' = InsertRows(publications,
           {[id |-> op[o].id, payload |-> op[o].surface.payload, source |-> op[o].source,
             path |-> "live"]})
      /\ ws' = [op[o].surface EXCEPT !.status = "frozen", !.checkpoint = cp.id]
      /\ \E next \in Answered(op[o], OpIdle) : op' = [op EXCEPT ![o] = next]
      /\ UNCHANGED <<snapshots, nodeVars, setting, clock, requests>>

(* The transport fails before the commit: the request is answered 500.     *)
WriteFails(o) ==
  /\ op[o].pc = "write"
  /\ Ends(o)
  /\ UNCHANGED <<tables, nodeVars, setting, clock, requests>>

-----------------------------------------------------------------------------
NodeNext ==
  \/ StartRun \/ ReadForClear \/ clear_working_staging_surface
  \/ StagingIntegrityFailed \/ RevisionSummaryInvalid \/ ApplyBuild \/ TakeSnapshot
  \/ atomic_persist_staging_node_writes \/ PersistFails

RequestNext(o) ==
  \/ OpenReview(o) \/ ReadSnapshot(o) \/ ListPublications(o)
  \/ update_staging_snapshot_status(o) \/ save_publication_snapshot(o)
  \/ OpenLive(o) \/ ReadSurface(o) \/ ReadNewest(o) \/ save_working_staging(o)
  \/ save_staging_snapshot(o) \/ atomic_commit_working_staging_approval(o) \/ WriteFails(o)

Next == NodeNext \/ \E o \in Operators : RequestNext(o)

Spec == Init /\ [][Next]_vars

-----------------------------------------------------------------------------
(* Properties.                                                             *)

(* Every id that a row holds is the id of an older row: the checkpoint of  *)
(* the surface, the predecessor of a snapshot, the source of a publication.*)
(* The rows are read in one request and referred to in another's write.    *)
ReferencesResolve ==
  /\ ws.checkpoint # None => \E c \in checkpoints : c.id = ws.checkpoint
  /\ \A s \in snapshots :
       s.prior # None => s.prior < s.id /\ \E r \in snapshots : r.id = s.prior
  /\ \A p \in publications : \E s \in snapshots : s.id = p.source

(* A frozen surface has been published, whoever wrote it last: a graph run *)
(* that saves the row keeps the status it has read, and a planner clears   *)
(* both.                                                                   *)
FrozenIsPublished == ws.status = "frozen" => \E p \in publications : p.path = "live"

(* What a reviewed snapshot publishes has not failed, although approval,   *)
(* withdrawal and publication of it may interleave in any way.             *)
NoFailedReviewPublished ==
  \A p \in publications : p.path = "review" => p.payload.verdict \in {"pass", "partial"}

Retained ==
  {Blank} \cup {c.payload : c \in checkpoints} \cup {p.payload : p \in publications}

(* A rebuild of staging_node destroys nothing: what it replaces is in a    *)
(* checkpoint or a publication, even when operators have written the       *)
(* surface between the node's read and its write.                          *)
RebuildLosesNothing ==
  [][(node.pc = "persist" /\ node.surface.mode = "rebuild" /\ node' # node /\ ws' # ws)
       => ws.payload \in Retained']_vars

(* With one request at a time: what is rejected stays rejected, what has   *)
(* been published by review stays approved, and a review publishes once;   *)
(* also when a write is sent twice and while graph runs add snapshots.     *)
ReviewIsOrderly ==
  desk = 1 =>
    \A p \in publications : p.path = "review" =>
      /\ \A q \in publications : q.path = "review" /\ q.source = p.source => q = p
      /\ \A s \in snapshots : s.id = p.source => s.status = "approved"

RejectedIsFinal ==
  [][desk = 1 => \A s \in snapshots : s.status = "rejected" => s \in snapshots']_vars

(* What publication promises: PublishedCanon, with the publications as its *)
(* canon and the payloads of snapshots and checkpoints as its archive.     *)
Canon ==
  INSTANCE PublishedCanon
    WITH archive <- {c.payload : c \in checkpoints} \cup {s.payload : s \in snapshots},
         canon   <- publications

PublicationIsCanon == Canon!CanonSpec

(* A guardrail that forces a rebuild does: "Force rebuild to reset working *)
(* staging" (guardrails.py).  A build that can be staged is staged.        *)
StageableIsStaged ==
  [][node.pc = "stage" /\ node'.pc = "idle" => ~StageableDraft(draft)]_vars
=============================================================================
