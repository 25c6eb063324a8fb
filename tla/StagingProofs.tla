--------------------------- MODULE StagingProofs ----------------------------
(***************************************************************************)
(* Proofs about Staging for every set of operators, paths and builds, and  *)
(* every value of the bounds.                                              *)
(***************************************************************************)
EXTENDS Staging, TLAPS

-----------------------------------------------------------------------------
(* The inductive invariant.                                                *)

(* A run that is in progress has brought a build, and what a surface says  *)
(* about the run that wrote it is a run that there was.                    *)
RunsExist ==
  /\ node.pc # "idle" => run >= 1
  /\ ws.run <= run
  /\ node.surface.run <= run
  /\ \A o \in Operators :
       /\ op[o].surface.run <= run
       /\ op[o].pc \in {"newest", "write"} /\ op[o].kind = "materialize"
            => op[o].surface.run >= 1

(* Among the snapshots there is a newest one.                              *)
HasNewest ==
  snapshots # {} => \E s \in snapshots : \A r \in snapshots : r.id <= s.id

(* The requests whose write inserts a row under an id of their own.        *)
Inserts(o) ==
  op[o].pc = "write" /\ op[o].kind \in {"publish", "approve_working_staging", "materialize"}

(* No id is ahead of the clock, and no two writes insert under the same.   *)
KnownIds ==
  /\ \A c \in checkpoints : c.id <= clock
  /\ \A s \in snapshots : s.id <= clock
  /\ \A p \in publications : p.id <= clock
  /\ \A c \in node.rows : c.id <= clock
  /\ \A s \in node.snapshot : s.id <= clock
  /\ \A o \in Operators : op[o].id <= clock
  /\ \A o, q \in Operators : o # q /\ Inserts(o) /\ Inserts(q) => op[o].id # op[q].id
  /\ \A o \in Operators : Inserts(o) => \A c \in node.rows : c.id # op[o].id

LivePublished == \E p \in publications : p.path = "live"

HasCheckpoint(id) == \E c \in checkpoints : c.id = id
HasSnapshot(id)   == \E s \in snapshots : s.id = id

(* What a request that approves the surface finds under its id is what it  *)
(* has written itself, before its answer was lost.                         *)
SameRow ==
  \A o \in Operators :
    op[o].pc = "write" /\ op[o].kind = "approve_working_staging" =>
      /\ \A p \in publications : p.id = op[o].id => p.path = "live"
      /\ \A c \in checkpoints : c.id = op[o].id => c.payload = op[o].surface.payload

(* What the graph run holds may be written: its references resolve among   *)
(* the rows there are and the rows it brings.                              *)
NodeHeld ==
  /\ node.surface.status = "frozen" => LivePublished
  /\ node.surface.checkpoint # None =>
       HasCheckpoint(node.surface.checkpoint)
         \/ (node.pc \in {"prior", "persist"} /\ \E c \in node.rows : c.id = node.surface.checkpoint)
  /\ \A s \in node.snapshot : s.prior # None => s.prior < s.id /\ HasSnapshot(s.prior)
  /\ \A s, t \in node.snapshot : s = t

(* So may what the request of operator o holds.                            *)
OpHeld(o) ==
  /\ op[o].pc = "pubs" => op[o].kind \in ReviewKinds
  /\ op[o].pc = "newest" => op[o].kind \in {"approve_working_staging", "materialize"}
  /\ op[o].surface.status = "frozen" => LivePublished
  /\ op[o].surface.checkpoint # None => HasCheckpoint(op[o].surface.checkpoint)
  /\ op[o].pc = "read" /\ op[o].kind = "rollback_to_checkpoint" => HasCheckpoint(op[o].target)
  /\ op[o].pc \in {"read", "pubs", "write"} /\ op[o].kind \in ReviewKinds => HasSnapshot(op[o].target)
  /\ op[o].pc \in {"pubs", "write"} /\ op[o].kind = "publish" =>
       \E s \in snapshots : s.payload = op[o].payload
  /\ op[o].pc = "write" /\ op[o].kind = "publish" => op[o].source = op[o].target
  /\ op[o].pc = "write" /\ op[o].kind = "approve_working_staging" => op[o].source # None
  /\ op[o].pc = "write" /\ op[o].kind \in {"approve_working_staging", "materialize"}
       /\ op[o].source # None => op[o].source < op[o].id /\ HasSnapshot(op[o].source)

IInv ==
  /\ TypeOK /\ RunsExist /\ HasNewest /\ KnownIds /\ SameRow
  /\ ReferencesResolve /\ FrozenIsPublished
  /\ NodeHeld /\ \A o \in Operators : OpHeld(o)

-----------------------------------------------------------------------------
(* Lemmas about payloads and rows.                                         *)

(* What is built from files is files.                                      *)
LEMMA OverType ==
  ASSUME NEW f \in Files, NEW g \in Files
  PROVE  Over(f, g) \in Files
<1>1. PICK S \in SUBSET Paths : f \in [S -> 1..MaxRuns]
  BY DEF Files
<1>2. PICK T \in SUBSET Paths : g \in [T -> 1..MaxRuns]
  BY DEF Files
<1>3. Over(f, g) \in [S \cup T -> 1..MaxRuns]
  BY <1>1, <1>2 DEF Over
<1>4. S \cup T \in SUBSET Paths
  OBVIOUS
<1>5. QED
  BY <1>3, <1>4 DEF Files

(* So is a part of them.                                                   *)
LEMMA RestrictType ==
  ASSUME NEW f \in Files, NEW T, T \subseteq DOMAIN f
  PROVE  Restrict(f, T) \in Files
<1>1. PICK S \in SUBSET Paths : f \in [S -> 1..MaxRuns]
  BY DEF Files
<1>2. T \in SUBSET Paths
  BY <1>1
<1>3. Restrict(f, T) \in [T -> 1..MaxRuns]
  BY <1>1 DEF Restrict
<1>4. QED
  BY <1>2, <1>3 DEF Files

LEMMA BlankType == Blank \in PayloadType
<1>1. [p \in {} |-> 0] \in [{} -> 1..MaxRuns]
  OBVIOUS
<1>2. {} \in SUBSET Paths
  OBVIOUS
<1>3. [p \in {} |-> 0] \in Files
  BY <1>1, <1>2 DEF Files
<1>4. QED
  BY <1>3, StagingConstantsAssumption DEF Blank, PayloadType

(* The payload of a build.                                                 *)
LEMMA BuiltType ==
  ASSUME NEW d \in Drafts, NEW n \in 1..MaxRuns
  PROVE  build_staging_snapshot_payload(d, n) \in PayloadType
<1>1. d \in DraftType
  BY DraftsAssumption
<1>2. d.paths \in SUBSET Paths /\ d.verdict \in Verdicts
  BY <1>1 DEF DraftType
<1>3. [p \in d.paths |-> n] \in [d.paths -> 1..MaxRuns]
  OBVIOUS
<1>4. [p \in d.paths |-> n] \in Files
  BY <1>2, <1>3 DEF Files
<1>5. n \in 0..MaxRuns
  BY StagingConstantsAssumption
<1>6. QED
  BY <1>2, <1>4, <1>5 DEF build_staging_snapshot_payload, PayloadType

(* The payload of a patch.                                                 *)
LEMMA PatchedType ==
  ASSUME NEW d, NEW old \in PayloadType, NEW new \in PayloadType
  PROVE  PatchedPayload(d, old, new) \in PayloadType
<1>1. old.files \in Files /\ new.files \in Files
  BY DEF PayloadType
<1>2. Restrict(new.files, DOMAIN new.files \cap d.targets) \in Files
  BY <1>1, RestrictType
<1>3. Restrict(old.files, DOMAIN old.files \ d.targets) \in Files
  BY <1>1, RestrictType
<1>4. PlannedFiles(d, old.files, new.files) \in Files
  BY <1>1, <1>2, <1>3, OverType DEF PlannedFiles
<1>5. merge_artifacts_into_payload(old, new) \in PayloadType
  BY <1>1, OverType DEF merge_artifacts_into_payload, PayloadType
<1>6. QED
  BY <1>4, <1>5 DEF PatchedPayload, PayloadType

(* The surface after a build.                                              *)
LEMMA AppliedType ==
  ASSUME NEW s \in SurfaceType, NEW d \in Drafts, NEW n \in 1..MaxRuns,
         NEW m \in {"patch", "rebuild"}
  PROVE  apply_generator_to_working_staging(s, d, m, n) \in SurfaceType
<1> DEFINE new     == build_staging_snapshot_payload(d, n)
           payload == IF m = "rebuild" THEN new ELSE PatchedPayload(d, s.payload, new)
<1>1. payload \in PayloadType
  BY BuiltType, PatchedType DEF SurfaceType
<1>2. d.issues \in 0..MaxIssues
  BY DraftsAssumption DEF DraftType
<1>3. compute_stagnation_count(s, d) \in Nat
  BY DEF compute_stagnation_count, SurfaceType
<1>4. n \in 0..MaxRuns
  BY StagingConstantsAssumption
<1> HIDE DEF payload
<1>5. apply_generator_to_working_staging(s, d, m, n) =
        [payload |-> payload, revision |-> s.revision + 1, mode |-> m,
         status |-> IF s.status = "draft" /\ HasHtml(payload) /\ d.verdict = "pass"
                    THEN "review_ready" ELSE s.status,
         checkpoint |-> s.checkpoint, run |-> n,
         rebuilt |-> IF m = "rebuild" THEN s.revision + 1 ELSE s.rebuilt,
         stagnation |-> compute_stagnation_count(s, d), issues |-> d.issues]
  BY DEF apply_generator_to_working_staging, payload
<1>6. QED
  BY <1>1, <1>2, <1>3, <1>4, <1>5 DEF SurfaceType, Modes

LEMMA NoSurfaceType == NoSurface \in SurfaceType
  BY BlankType, StagingConstantsAssumption DEF NoSurface, SurfaceType, Modes

LEMMA IdleTypes == NodeIdle \in NodeType /\ OpIdle \in OpType
  BY NoSurfaceType, BlankType, StagingConstantsAssumption
     DEF NodeIdle, NodeType, OpIdle, OpType, ReviewKinds, LiveKinds, Ids

LEMMA CheckpointOf ==
  ASSUME NEW s \in SurfaceType, NEW id \in Nat
  PROVE  create_staging_checkpoint(s, id) \in CheckpointType
  BY DEF create_staging_checkpoint, CheckpointType, SurfaceType, Ids

(* An insertion drops nothing, brings nothing else, and afterwards there   *)
(* is a row under every id that it brings.                                 *)
LEMMA InsertedRows ==
  ASSUME NEW T, NEW R
  PROVE  /\ T \subseteq InsertRows(T, R)
         /\ InsertRows(T, R) \subseteq T \cup R
         /\ \A r \in R : \E q \in InsertRows(T, R) : q.id = r.id
  BY DEF InsertRows

(* The newest id is the id of a row.                                       *)
LEMMA NewestOf ==
  ASSUME HasNewest, snapshots # {}
  PROVE  /\ NewestId(snapshots) \in {s.id : s \in snapshots}
         /\ \A s \in snapshots : s.id <= NewestId(snapshots)
<1>1. \E i \in {s.id : s \in snapshots} : \A r \in snapshots : r.id <= i
  BY DEF HasNewest
<1>2. QED
  BY <1>1 DEF NewestId

-----------------------------------------------------------------------------
(* Type correctness.                                                       *)

(* The build of the run in progress.                                       *)
LEMMA DraftOf ==
  ASSUME TypeOK, run >= 1
  PROVE  draft \in Drafts /\ run \in 1..MaxRuns
  BY StagingConstantsAssumption DEF TypeOK, run, draft

(* What the node holds after an attempt.                                   *)
LEMMA NodeAnsweredType ==
  ASSUME NEW idle \in NodeType, node \in NodeType, node' \in Answered(node, idle)
  PROVE  node' \in NodeType
  BY StagingConstantsAssumption DEF Answered, NodeType

LEMMA OpAnsweredType ==
  ASSUME NEW o \in Operators, TypeOK, NEW next \in Answered(op[o], OpIdle)
  PROVE  next \in OpType
<1>1. op[o] \in OpType /\ OpIdle \in OpType
  BY IdleTypes DEF TypeOK
<1>2. QED
  BY <1>1, StagingConstantsAssumption DEF Answered, OpType

LEMMA ModeOf ==
  ASSUME NEW s, NEW d
  PROVE  UpdateMode(s, d).mode \in {"patch", "rebuild"}
  BY DEF UpdateMode

(* A step of the graph run keeps every variable in its type.               *)
LEMMA NodeStepType ==
  ASSUME TypeOK, RunsExist, HasNewest, NodeNext
  PROVE  TypeOK'
<1> USE DEF tables, opVars, setting
<1>a. node \in NodeType /\ NodeIdle \in NodeType /\ ws \in SurfaceType /\ clock \in Nat
  BY IdleTypes DEF TypeOK
<1>b. [NodeIdle EXCEPT !.pc = "stage"] \in NodeType /\ [NodeIdle EXCEPT !.pc = "clear"] \in NodeType
  BY <1>a DEF NodeType
<1>1. CASE StartRun
  <2>1. PICK d \in Drafts : builds' = Append(builds, d)
    BY <1>1 DEF StartRun
  <2>2. builds' \in Seq(Drafts) /\ Len(builds') <= MaxRuns
    BY <1>1, <2>1, StagingConstantsAssumption DEF StartRun, TypeOK, run
  <2>3. node' \in NodeType
    BY <1>1, <1>b DEF StartRun
  <2>4. QED
    BY <1>1, <2>2, <2>3 DEF StartRun, TypeOK
<1>2. CASE ReadForClear
  <2>1. node' \in NodeType
    BY <1>2, <1>a DEF ReadForClear, NodeType
  <2>2. QED
    BY <1>2, <2>1 DEF ReadForClear, TypeOK
<1>3. CASE clear_working_staging_surface
  <2>1. node' \in NodeType
    BY <1>3, <1>a, <1>b, NodeAnsweredType DEF clear_working_staging_surface
  <2>2. ws' \in SurfaceType
    BY <1>3, <1>a, NoSurfaceType DEF clear_working_staging_surface, NodeType, SurfaceType
  <2>3. QED
    BY <1>3, <2>1, <2>2 DEF clear_working_staging_surface, TypeOK
<1>4. CASE StagingIntegrityFailed
  BY <1>4, <1>a DEF StagingIntegrityFailed, TypeOK
<1>5. CASE RevisionSummaryInvalid
  BY <1>5, <1>a DEF RevisionSummaryInvalid, TypeOK
<1>6. CASE ApplyBuild
  <2> DEFINE mode  == UpdateMode(ws, draft).mode
             id    == clock + 1
             next  == apply_generator_to_working_staging(ws, draft, mode, run)
             pre   == create_pre_rebuild_checkpoint(ws, draft, mode, id, run)
             post  == decide_post_update_checkpoint(ws, next, mode, id + 1)
             kept  == IF post # {} THEN post ELSE pre
  <2>1. run >= 1
    BY <1>6 DEF ApplyBuild, RunsExist
  <2>2. next \in SurfaceType
    BY <2>1, <1>a, DraftOf, AppliedType, ModeOf
  <2> HIDE DEF next, mode
  <2>3. pre \subseteq CheckpointType /\ post \subseteq CheckpointType
    BY <1>a, <2>2, CheckpointOf DEF create_pre_rebuild_checkpoint, decide_post_update_checkpoint
  <2> HIDE DEF pre, post
  <2>4. kept # {} => (CHOOSE c \in kept : TRUE) \in CheckpointType
    BY <2>3
  <2> HIDE DEF kept
  <2>5. (IF kept = {} THEN next ELSE [next EXCEPT !.checkpoint = (CHOOSE c \in kept : TRUE).id])
          \in SurfaceType
    BY <2>2, <2>4 DEF CheckpointType, SurfaceType
  <2>6. node' = [node EXCEPT !.pc = "prior", !.rows = pre \cup post,
                    !.surface = IF kept = {} THEN next
                                ELSE [next EXCEPT !.checkpoint = (CHOOSE c \in kept : TRUE).id]]
    BY <1>6 DEF ApplyBuild, next, mode, pre, post, kept
  <2>7. node' \in NodeType
    BY <1>a, <2>3, <2>5, <2>6 DEF NodeType
  <2>8. clock' \in Nat
    BY <1>6, <1>a DEF ApplyBuild
  <2>9. QED
    BY <1>6, <2>7, <2>8 DEF ApplyBuild, TypeOK
<1>7. CASE TakeSnapshot
  <2> DEFINE taken == [id |-> clock + 1, status |-> "review_ready",
                       payload |-> build_staging_snapshot_payload(draft, run),
                       prior |-> NewestId(snapshots)]
  <2>1. run >= 1
    BY <1>7 DEF TakeSnapshot, RunsExist
  <2>2. build_staging_snapshot_payload(draft, run) \in PayloadType
    BY <2>1, DraftOf, BuiltType
  <2>3. NewestId(snapshots) \in Ids \cup {None}
    BY NewestOf DEF NewestId, TypeOK, SnapshotType
  <2>4. taken \in SnapshotType
    BY <1>a, <2>2, <2>3 DEF SnapshotType, Ids
  <2>5. node'.snapshot \in {{taken}, {}} /\ node' = [node EXCEPT !.pc = "persist", !.snapshot = node'.snapshot]
    BY <1>7, <1>a DEF TakeSnapshot, NodeType
  <2>6. node' \in NodeType
    BY <1>a, <2>4, <2>5 DEF NodeType
  <2>7. QED
    BY <1>7, <1>a, <2>6 DEF TakeSnapshot, TypeOK
<1>8. CASE atomic_persist_staging_node_writes
  <2>1. node' \in NodeType
    BY <1>8, <1>a, NodeAnsweredType DEF atomic_persist_staging_node_writes
  <2>2. node.surface \in SurfaceType /\ node.rows \subseteq CheckpointType
          /\ node.snapshot \subseteq SnapshotType
    BY <1>a DEF NodeType
  <2>3. checkpoints' \subseteq CheckpointType /\ snapshots' \subseteq SnapshotType
    BY <1>8, <2>2, InsertedRows DEF atomic_persist_staging_node_writes, TypeOK
  <2>4. QED
    BY <1>8, <2>1, <2>2, <2>3 DEF atomic_persist_staging_node_writes, TypeOK
<1>9. CASE PersistFails
  BY <1>9, <1>a DEF PersistFails, TypeOK
<1>10. QED
  BY <1>1, <1>2, <1>3, <1>4, <1>5, <1>6, <1>7, <1>8, <1>9 DEF NodeNext

(* What the rollbacks write is a surface.                                  *)
LEMMA RolledBackType ==
  ASSUME NEW h \in OpType, NEW s \in SurfaceType
  PROVE  RolledBack(h, s) \in SurfaceType
<1>1. h.payload \in PayloadType /\ h.target \in Ids \cup {None} /\ s.revision + 1 \in Nat
  BY DEF OpType, SurfaceType
<1>2. rollback_to_checkpoint(s, h.payload, h.target) \in SurfaceType
  BY <1>1 DEF rollback_to_checkpoint, SurfaceType, Modes
<1>3. rollback_to_publication(s, h.payload) \in SurfaceType
  BY <1>1 DEF rollback_to_publication, SurfaceType, Modes
<1>4. fresh_rebuild(s) \in SurfaceType
  BY <1>1, BlankType DEF fresh_rebuild, SurfaceType, Modes
<1>5. QED
  BY <1>2, <1>3, <1>4 DEF RolledBack

(* A request that is replaced by one of the type.                          *)
LEMMA OpReplaced ==
  ASSUME TypeOK, NEW o \in Operators, NEW h \in OpType, op' = [op EXCEPT ![o] = h]
  PROVE  op' \in [Operators -> OpType]
  BY DEF TypeOK

(* So does a step of a request.                                            *)
LEMMA RequestStepType ==
  ASSUME IInv, NEW o \in Operators, RequestNext(o)
  PROVE  TypeOK'
<1> USE DEF tables, nodeVars, setting
<1>a. TypeOK /\ op[o] \in OpType /\ OpIdle \in OpType /\ ws \in SurfaceType
        /\ clock \in Nat /\ clock + 1 \in Ids
  BY IdleTypes DEF TypeOK, IInv, Ids
<1>b. Ends(o) => op' \in [Operators -> OpType]
  BY <1>a, OpReplaced DEF Ends
<1>c. \A next \in Answered(op[o], OpIdle) : op' = [op EXCEPT ![o] = next] => op' \in [Operators -> OpType]
  BY <1>a, OpAnsweredType, OpReplaced
<1>1. CASE OpenReview(o)
  <2>1. PICK kind \in ReviewKinds, s \in snapshots :
          op' = [op EXCEPT ![o] = [OpIdle EXCEPT !.pc = "read", !.kind = kind, !.target = s.id]]
    BY <1>1 DEF OpenReview
  <2>2. s.id \in Ids
    BY <1>a DEF TypeOK, SnapshotType
  <2>3. [OpIdle EXCEPT !.pc = "read", !.kind = kind, !.target = s.id] \in OpType
    BY <1>a, <2>2 DEF OpType
  <2>4. op' \in [Operators -> OpType]
    BY <1>a, <2>1, <2>3, OpReplaced
  <2>5. requests' \in 0..MaxRequests
    BY <1>1, <1>a, StagingConstantsAssumption DEF OpenReview, TypeOK
  <2>6. QED
    BY <1>1, <1>a, <2>4, <2>5 DEF OpenReview, TypeOK
<1>2. CASE ReadSnapshot(o)
  <2>1. PICK s \in snapshots : \E h \in {OpIdle}
            \cup {[op[o] EXCEPT !.status = s.status, !.payload = s.payload, !.pc = pc] : pc \in {"write", "pubs"}} :
          op' = [op EXCEPT ![o] = h]
    <3>1. PICK s \in snapshots :
            LET held == [op[o] EXCEPT !.status = s.status, !.payload = s.payload]
            IN  op' = [op EXCEPT ![o] =
                CASE op[o].kind = "approve" ->
                       IF s.status = "review_ready" /\ s.payload.verdict \notin {"fail", "blocked"}
                       THEN [held EXCEPT !.pc = "write"] ELSE OpIdle
                  [] op[o].kind = "reject" ->
                       IF s.status # "rejected" THEN [held EXCEPT !.pc = "pubs"] ELSE OpIdle
                  [] OTHER -> [held EXCEPT !.pc = "pubs"]]
      BY <1>2 DEF ReadSnapshot
    <3>2. QED
      BY <3>1
  <2>2. s.status \in {"review_ready", "approved", "rejected"} /\ s.payload \in PayloadType
    BY <1>a DEF TypeOK, SnapshotType
  <2>3. \A pc \in {"write", "pubs"} :
          [op[o] EXCEPT !.status = s.status, !.payload = s.payload, !.pc = pc] \in OpType
    BY <1>a, <2>2 DEF OpType
  <2>4. op' \in [Operators -> OpType]
    BY <1>a, <2>1, <2>3, OpReplaced
  <2>5. QED
    BY <1>2, <1>a, <2>4 DEF ReadSnapshot, TypeOK
<1>3. CASE ListPublications(o)
  <2>1. [op[o] EXCEPT !.pc = "write", !.source = op[o].target, !.id = clock + 1] \in OpType
    BY <1>a DEF OpType, Ids
  <2>2. \/ Ends(o) /\ clock' = clock
        \/ /\ op' = [op EXCEPT ![o] = [op[o] EXCEPT !.pc = "write", !.source = op[o].target, !.id = clock + 1]]
           /\ clock' = clock + 1
    BY <1>3, <1>a DEF ListPublications, TypeOK
  <2>3. op' \in [Operators -> OpType] /\ clock' \in Nat
    BY <1>a, <1>b, <2>1, <2>2, OpReplaced
  <2>4. QED
    BY <1>3, <1>a, <2>3 DEF ListPublications, TypeOK
<1>4. CASE update_staging_snapshot_status(o)
  <2>1. NewStatus(op[o].kind) \in {"review_ready", "approved", "rejected"}
    BY DEF NewStatus
  <2>2. snapshots' \subseteq SnapshotType
    BY <1>4, <1>a, <2>1 DEF update_staging_snapshot_status, TypeOK, SnapshotType
  <2>3. op' \in [Operators -> OpType]
    BY <1>4, <1>c DEF update_staging_snapshot_status
  <2>4. QED
    BY <1>4, <1>a, <2>2, <2>3 DEF update_staging_snapshot_status, TypeOK
<1>5. CASE save_publication_snapshot(o)
  <2>1. op[o].source \in Ids
    BY <1>5 DEF save_publication_snapshot, IInv, OpHeld, HasSnapshot, TypeOK, SnapshotType, ReviewKinds
  <2>2. [id |-> op[o].id, payload |-> op[o].payload, source |-> op[o].source, path |-> "review"]
          \in PublicationType
    BY <1>a, <2>1 DEF OpType, PublicationType
  <2>3. publications' \subseteq PublicationType
    BY <1>5, <1>a, <2>2, InsertedRows DEF save_publication_snapshot, TypeOK
  <2>4. op' \in [Operators -> OpType]
    BY <1>5, <1>c DEF save_publication_snapshot
  <2>5. QED
    BY <1>5, <1>a, <2>3, <2>4 DEF save_publication_snapshot, TypeOK
<1>6. CASE OpenLive(o)
  <2>1. PICK kind \in LiveKinds : \E row \in checkpoints \cup publications \cup {[id |-> None, payload |-> Blank]} :
          op' = [op EXCEPT ![o] = [OpIdle EXCEPT !.pc = "read", !.kind = kind,
                                   !.target = row.id, !.payload = row.payload]]
    BY <1>6 DEF OpenLive
  <2>2. PICK row \in checkpoints \cup publications \cup {[id |-> None, payload |-> Blank]} :
          op' = [op EXCEPT ![o] = [OpIdle EXCEPT !.pc = "read", !.kind = kind,
                                   !.target = row.id, !.payload = row.payload]]
    BY <2>1
  <2>3. row.id \in Ids \cup {None} /\ row.payload \in PayloadType
    BY <1>a, BlankType DEF TypeOK, CheckpointType, PublicationType
  <2>4. [OpIdle EXCEPT !.pc = "read", !.kind = kind, !.target = row.id, !.payload = row.payload] \in OpType
    BY <1>a, <2>3 DEF OpType
  <2>5. op' \in [Operators -> OpType]
    BY <1>a, <2>2, <2>4, OpReplaced
  <2>6. requests' \in 0..MaxRequests
    BY <1>6, <1>a, StagingConstantsAssumption DEF OpenLive, TypeOK
  <2>7. QED
    BY <1>6, <1>a, <2>5, <2>6 DEF OpenLive, TypeOK
<1>7. CASE ReadSurface(o)
  <2>1. RolledBack(op[o], ws) \in SurfaceType
    BY <1>a, RolledBackType
  <2>2. /\ [op[o] EXCEPT !.pc = "write", !.surface = RolledBack(op[o], ws)] \in OpType
        /\ [op[o] EXCEPT !.pc = "newest", !.surface = ws] \in OpType
    BY <1>a, <2>1 DEF OpType
  <2>3. \E h \in {OpIdle, [op[o] EXCEPT !.pc = "write", !.surface = RolledBack(op[o], ws)],
                  [op[o] EXCEPT !.pc = "newest", !.surface = ws]} : op' = [op EXCEPT ![o] = h]
    <3>1. op' = [op EXCEPT ![o] =
            CASE HasSurface /\ op[o].kind \in Rollbacks ->
                   [op[o] EXCEPT !.pc = "write", !.surface = RolledBack(op[o], ws)]
              [] HasSurface /\ ws.revision > 0
                   /\ (op[o].kind = "materialize"
                         \/ (op[o].kind = "approve_working_staging" /\ ws.status # "frozen")) ->
                   [op[o] EXCEPT !.pc = "newest", !.surface = ws]
              [] OTHER -> OpIdle]
      BY <1>7 DEF ReadSurface
    <3>2. CASE HasSurface /\ op[o].kind \in Rollbacks
      BY <3>1, <3>2 DEF Rollbacks
    <3>3. CASE ~(HasSurface /\ op[o].kind \in Rollbacks)
      BY <3>1, <3>3
    <3>4. QED
      BY <3>2, <3>3
  <2>4. op' \in [Operators -> OpType]
    BY <1>a, <2>2, <2>3, OpReplaced
  <2>5. QED
    BY <1>7, <1>a, <2>4 DEF ReadSurface, TypeOK
<1>8. CASE ReadNewest(o)
  <2>1. NewestId(snapshots) \in Ids \cup {None}
    BY NewestOf DEF NewestId, IInv, TypeOK, SnapshotType
  <2>2. [op[o] EXCEPT !.pc = "write", !.source = NewestId(snapshots), !.id = clock + 1] \in OpType
    BY <1>a, <2>1 DEF OpType, Ids
  <2>3. \/ Ends(o) /\ clock' = clock
        \/ /\ op' = [op EXCEPT ![o] = [op[o] EXCEPT !.pc = "write", !.source = NewestId(snapshots), !.id = clock + 1]]
           /\ clock' = clock + 1
    BY <1>8, <1>a DEF ReadNewest, TypeOK
  <2>4. op' \in [Operators -> OpType] /\ clock' \in Nat
    BY <1>a, <1>b, <2>2, <2>3, OpReplaced
  <2>5. QED
    BY <1>8, <1>a, <2>4 DEF ReadNewest, TypeOK
<1>9. CASE save_working_staging(o)
  <2>1. op' \in [Operators -> OpType] /\ ws' \in SurfaceType
    BY <1>9, <1>a, <1>c DEF save_working_staging, OpType
  <2>2. QED
    BY <1>9, <1>a, <2>1 DEF save_working_staging, TypeOK
<1>10. CASE save_staging_snapshot(o)
  <2>0. op[o].surface \in SurfaceType
    BY <1>a DEF OpType
  <2>1. op[o].surface.run \in 1..Len(builds)
    <3>1. op[o].surface.run \in Nat
      BY <2>0, StagingConstantsAssumption DEF SurfaceType
    <3>2. op[o].surface.run >= 1 /\ op[o].surface.run <= Len(builds)
      BY <1>10 DEF save_staging_snapshot, IInv, RunsExist, run
    <3>3. Len(builds) \in Nat
      BY <1>a DEF TypeOK
    <3>4. QED
      BY <3>1, <3>2, <3>3
  <2>2. builds[op[o].surface.run] \in Drafts /\ op[o].surface.run \in 1..MaxRuns
    BY <1>a, <2>1, StagingConstantsAssumption DEF TypeOK
  <2>3. MaterializedPayload(op[o].surface.run) \in PayloadType
    BY <2>2, BuiltType DEF MaterializedPayload
  <2>4. [id |-> op[o].id, status |-> "review_ready", prior |-> op[o].source,
         payload |-> MaterializedPayload(op[o].surface.run)] \in SnapshotType
    BY <1>a, <2>3 DEF OpType, SnapshotType
  <2>5. snapshots' \subseteq SnapshotType
    BY <1>10, <1>a, <2>4, InsertedRows DEF save_staging_snapshot, TypeOK
  <2>6. op' \in [Operators -> OpType]
    BY <1>10, <1>c DEF save_staging_snapshot
  <2>7. QED
    BY <1>10, <1>a, <2>5, <2>6 DEF save_staging_snapshot, TypeOK
<1>11. CASE atomic_commit_working_staging_approval(o)
  <2> DEFINE cp == create_staging_checkpoint(op[o].surface, op[o].id)
             pub == [id |-> op[o].id, payload |-> op[o].surface.payload, source |-> op[o].source,
                     path |-> "live"]
  <2>1. op[o].surface \in SurfaceType /\ op[o].id \in Nat
    BY <1>a DEF OpType, Ids
  <2>2. cp \in CheckpointType /\ cp.id = op[o].id
    BY <2>1, CheckpointOf DEF create_staging_checkpoint
  <2>3. op[o].source \in Ids
    BY <1>11, <1>a DEF atomic_commit_working_staging_approval, IInv, OpHeld, OpType
  <2>4. pub \in PublicationType
    BY <2>1, <2>3 DEF PublicationType, SurfaceType, Ids
  <2>5. ws' = [op[o].surface EXCEPT !.status = "frozen", !.checkpoint = op[o].id]
    BY <1>11, <2>2 DEF atomic_commit_working_staging_approval
  <2>6. ws' \in SurfaceType
    BY <2>1, <2>5 DEF SurfaceType, Ids
  <2> HIDE DEF cp, pub
  <2>7. checkpoints' = InsertRows(checkpoints, {cp}) /\ publications' = InsertRows(publications, {pub})
    BY <1>11 DEF atomic_commit_working_staging_approval, cp, pub
  <2>8. checkpoints' \subseteq CheckpointType /\ publications' \subseteq PublicationType
    <3>1. checkpoints \subseteq CheckpointType /\ publications \subseteq PublicationType
      BY <1>a DEF TypeOK
    <3>2. checkpoints' \subseteq CheckpointType
      BY <3>1, <2>2, <2>7, InsertedRows
    <3>3. publications' \subseteq PublicationType
      BY <3>1, <2>4, <2>7, InsertedRows
    <3>4. QED
      BY <3>2, <3>3
  <2>9. op' \in [Operators -> OpType]
    BY <1>11, <1>c DEF atomic_commit_working_staging_approval
  <2>10. QED
    BY <1>11, <1>a, <2>6, <2>8, <2>9 DEF atomic_commit_working_staging_approval, TypeOK
<1>12. CASE WriteFails(o)
  BY <1>12, <1>a, <1>b DEF WriteFails, TypeOK
<1>13. QED
  BY <1>1, <1>2, <1>3, <1>4, <1>5, <1>6, <1>7, <1>8, <1>9, <1>10, <1>11, <1>12 DEF RequestNext

-----------------------------------------------------------------------------
(* The steps of the graph run.                                             *)

(* There is a newest snapshot also with one more.                          *)
LEMMA NewestAmong ==
  ASSUME HasNewest, snapshots \subseteq SnapshotType, NEW x \in SnapshotType,
         snapshots \subseteq snapshots', snapshots' \subseteq snapshots \cup {x}
  PROVE  HasNewest'
<1>1. x.id \in Nat /\ \A s \in snapshots : s.id \in Nat
  BY DEF SnapshotType, Ids
<1>2. CASE snapshots = {}
  BY <1>1, <1>2 DEF HasNewest
<1>3. CASE snapshots # {}
  <2>1. PICK m \in snapshots : \A r \in snapshots : r.id <= m.id
    BY <1>3 DEF HasNewest
  <2>2. CASE x \in snapshots' /\ m.id <= x.id
    <3>1. \A r \in snapshots' : r.id <= x.id
      BY <1>1, <2>1, <2>2
    <3>2. QED
      BY <2>2, <3>1 DEF HasNewest
  <2>3. CASE ~(x \in snapshots' /\ m.id <= x.id)
    <3>1. \A r \in snapshots' : r.id <= m.id
      BY <1>1, <2>1, <2>3
    <3>2. QED
      BY <2>1, <3>1 DEF HasNewest
  <2>4. QED
    BY <2>2, <2>3
<1>4. QED
  BY <1>2, <1>3

LEMMA NodeStepInv ==
  ASSUME IInv, NodeNext, TypeOK'
  PROVE  IInv'
<1> USE DEF tables, opVars, setting
<1>a. TypeOK /\ node \in NodeType /\ ws \in SurfaceType /\ clock \in Nat /\ run \in Nat
  BY DEF TypeOK, IInv, run
<1>1. CASE StartRun
  <2>1. run' = run + 1 /\ node'.surface = NoSurface /\ node'.rows = {} /\ node'.snapshot = {}
    BY <1>1, <1>a DEF StartRun, TypeOK, run, NodeIdle
  <2>2. RunsExist'
    BY <1>1, <1>a, <2>1 DEF StartRun, IInv, RunsExist, NoSurface, TypeOK, OpType, SurfaceType
  <2>3. KnownIds' /\ HasNewest' /\ SameRow'
    BY <1>1, <2>1 DEF StartRun, IInv, KnownIds, HasNewest, SameRow, Inserts
  <2>4. ReferencesResolve' /\ FrozenIsPublished'
    BY <1>1 DEF StartRun, IInv, ReferencesResolve, FrozenIsPublished
  <2>5. NodeHeld'
    BY <2>1 DEF NodeHeld, NoSurface
  <2>6. \A o \in Operators : OpHeld(o)'
    BY <1>1 DEF StartRun, IInv, OpHeld, LivePublished, HasCheckpoint, HasSnapshot
  <2>7. QED
    BY <2>2, <2>3, <2>4, <2>5, <2>6 DEF IInv
<1>2. CASE ReadForClear
  <2>1. /\ node'.surface \in {node.surface, ws} /\ node'.rows = node.rows /\ node'.snapshot = node.snapshot
        /\ node'.pc \in {"stage", "cleared"}
    BY <1>2, <1>a DEF ReadForClear, NodeType
  <2>2. RunsExist'
    BY <1>2, <1>a, <2>1 DEF ReadForClear, IInv, RunsExist, run
  <2>3. KnownIds' /\ HasNewest' /\ SameRow'
    BY <1>2, <2>1 DEF ReadForClear, IInv, KnownIds, HasNewest, SameRow, Inserts
  <2>4. ReferencesResolve' /\ FrozenIsPublished'
    BY <1>2 DEF ReadForClear, IInv, ReferencesResolve, FrozenIsPublished
  <2>5. NodeHeld'
    BY <1>2, <2>1 DEF ReadForClear, IInv, NodeHeld, ReferencesResolve, FrozenIsPublished,
       LivePublished, HasCheckpoint, HasSnapshot
  <2>6. \A o \in Operators : OpHeld(o)'
    BY <1>2 DEF ReadForClear, IInv, OpHeld, LivePublished, HasCheckpoint, HasSnapshot
  <2>7. QED
    BY <2>2, <2>3, <2>4, <2>5, <2>6 DEF IInv
<1>3. CASE clear_working_staging_surface
  <2>1. /\ node'.surface \in {node.surface, NoSurface} /\ node'.rows \subseteq node.rows
        /\ node'.snapshot \subseteq node.snapshot /\ node'.pc \in {"stage", "cleared"}
    BY <1>3, <1>a DEF clear_working_staging_surface, Answered, NodeIdle, NodeType
  <2>2. ws' = [NoSurface EXCEPT !.run = node.surface.run] /\ ws'.checkpoint = None /\ ws'.status = "draft"
          /\ ws'.run = node.surface.run
    BY <1>3 DEF clear_working_staging_surface, NoSurface
  <2>3. RunsExist'
    BY <1>3, <1>a, <2>1, <2>2 DEF clear_working_staging_surface, IInv, RunsExist, run, NoSurface
  <2>4. KnownIds' /\ HasNewest' /\ SameRow'
    BY <1>3, <2>1 DEF clear_working_staging_surface, IInv, KnownIds, HasNewest, SameRow, Inserts
  <2>5. ReferencesResolve' /\ FrozenIsPublished'
    BY <1>3, <2>2 DEF clear_working_staging_surface, IInv, ReferencesResolve, FrozenIsPublished
  <2>6. NodeHeld'
    BY <1>3, <2>1 DEF clear_working_staging_surface, IInv, NodeHeld, NoSurface,
       LivePublished, HasCheckpoint, HasSnapshot
  <2>7. \A o \in Operators : OpHeld(o)'
    BY <1>3 DEF clear_working_staging_surface, IInv, OpHeld, LivePublished, HasCheckpoint, HasSnapshot
  <2>8. QED
    BY <2>3, <2>4, <2>5, <2>6, <2>7 DEF IInv
<1>4. CASE StagingIntegrityFailed \/ RevisionSummaryInvalid \/ PersistFails
  <2>1. /\ node' = NodeIdle
        /\ UNCHANGED <<ws, checkpoints, snapshots, publications, op, requests, clock, builds>>
    BY <1>4 DEF StagingIntegrityFailed, RevisionSummaryInvalid, PersistFails
  <2>2. node'.pc = "idle" /\ node'.surface = NoSurface /\ node'.rows = {} /\ node'.snapshot = {}
    BY <2>1 DEF NodeIdle
  <2>3. RunsExist'
    BY <1>a, <2>1, <2>2 DEF IInv, RunsExist, run, NoSurface
  <2>4. KnownIds' /\ HasNewest' /\ SameRow'
    BY <2>1, <2>2 DEF IInv, KnownIds, HasNewest, SameRow, Inserts
  <2>5. ReferencesResolve' /\ FrozenIsPublished'
    BY <2>1 DEF IInv, ReferencesResolve, FrozenIsPublished
  <2>6. NodeHeld'
    BY <2>2 DEF NodeHeld, NoSurface
  <2>7. \A o \in Operators : OpHeld(o)'
    BY <2>1 DEF IInv, OpHeld, LivePublished, HasCheckpoint, HasSnapshot
  <2>8. QED
    BY <2>3, <2>4, <2>5, <2>6, <2>7 DEF IInv
<1>5. CASE ApplyBuild
  <2> DEFINE mode  == UpdateMode(ws, draft).mode
             id    == clock + 1
             next  == apply_generator_to_working_staging(ws, draft, mode, run)
             pre   == create_pre_rebuild_checkpoint(ws, draft, mode, id, run)
             post  == decide_post_update_checkpoint(ws, next, mode, id + 1)
             kept  == IF post # {} THEN post ELSE pre
             row   == CHOOSE c \in kept : TRUE
  <2>1. next.checkpoint = ws.checkpoint /\ next.run = run /\ (next.status = "frozen" => ws.status = "frozen")
    BY DEF apply_generator_to_working_staging
  <2>3. \A c \in pre \cup post : c.id \in {clock + 1, clock + 2}
    <3>1. id = clock + 1 /\ id + 1 = clock + 2
      BY <1>a
    <3>2. QED
      BY <3>1 DEF create_pre_rebuild_checkpoint, decide_post_update_checkpoint, create_staging_checkpoint
  <2>4. kept # {} => row \in pre \cup post
    OBVIOUS
  <2>5. next \in SurfaceType
    BY <1>5, <1>a, DraftOf, AppliedType, ModeOf DEF ApplyBuild, IInv, RunsExist
  <2>6. /\ node' = [node EXCEPT !.pc = "prior", !.rows = pre \cup post,
                      !.surface = IF kept = {} THEN next ELSE [next EXCEPT !.checkpoint = row.id]]
        /\ clock' = clock + 2
        /\ UNCHANGED <<ws, checkpoints, snapshots, publications, op, requests, builds>>
    BY <1>5 DEF ApplyBuild
  <2> HIDE DEF next, mode, id, pre, post, kept, row
  <2>7. /\ node'.pc = "prior" /\ node'.rows = pre \cup post /\ node'.snapshot = node.snapshot
        /\ node'.surface.run = run
        /\ (node'.surface.status = "frozen" => ws.status = "frozen")
        /\ node'.surface.checkpoint = ws.checkpoint \/ \E c \in node'.rows : c.id = node'.surface.checkpoint
    BY <1>a, <2>1, <2>4, <2>5, <2>6 DEF NodeType, SurfaceType
  <2>8. RunsExist'
    BY <1>5, <1>a, <2>6, <2>7 DEF ApplyBuild, IInv, RunsExist, run
  <2>9. KnownIds' /\ HasNewest' /\ SameRow'
    <3>1. \A n \in Nat : n <= clock => n <= clock + 2 /\ n # clock + 1 /\ n # clock + 2
      BY <1>a
    <3>2. /\ \A c \in checkpoints : c.id \in Nat
          /\ \A s \in snapshots : s.id \in Nat
          /\ \A p \in publications : p.id \in Nat
          /\ \A s \in node.snapshot : s.id \in Nat
          /\ \A o \in Operators : op[o].id \in Nat
      BY <1>a DEF TypeOK, CheckpointType, SnapshotType, PublicationType, NodeType, OpType, Ids
    <3>3. \A c \in node'.rows : c.id <= clock + 2
      BY <1>a, <2>3, <2>7
    <3>4. QED
      BY <2>3, <2>6, <2>7, <3>1, <3>2, <3>3 DEF IInv, KnownIds, HasNewest, SameRow, Inserts
  <2>10. ReferencesResolve' /\ FrozenIsPublished'
    BY <2>6 DEF IInv, ReferencesResolve, FrozenIsPublished
  <2>11. NodeHeld'
    BY <2>6, <2>7 DEF IInv, NodeHeld, ReferencesResolve, FrozenIsPublished,
       LivePublished, HasCheckpoint, HasSnapshot
  <2>12. \A o \in Operators : OpHeld(o)'
    BY <2>6 DEF IInv, OpHeld, LivePublished, HasCheckpoint, HasSnapshot
  <2>13. QED
    BY <2>8, <2>9, <2>10, <2>11, <2>12 DEF IInv
<1>6. CASE TakeSnapshot
  <2> DEFINE taken == [id |-> clock + 1, status |-> "review_ready",
                       payload |-> build_staging_snapshot_payload(draft, run),
                       prior |-> NewestId(snapshots)]
  <2>1. /\ node'.pc = "persist" /\ node'.surface = node.surface /\ node'.rows = node.rows
        /\ node'.snapshot \subseteq {taken} /\ clock' = clock + 1
        /\ UNCHANGED <<ws, checkpoints, snapshots, publications, op, requests, builds>>
    BY <1>6, <1>a DEF TakeSnapshot, NodeType
  <2>2. taken.prior # None => taken.prior < taken.id /\ HasSnapshot(taken.prior)
    <3>1. CASE snapshots = {}
      BY <3>1 DEF NewestId
    <3>2. CASE snapshots # {}
      <4>1. PICK s \in snapshots : s.id = NewestId(snapshots)
        BY <3>2, NewestOf DEF IInv
      <4>2. s.id <= clock /\ s.id \in Nat
        BY <1>a DEF IInv, KnownIds, TypeOK, SnapshotType, Ids
      <4>3. QED
        BY <1>a, <4>1, <4>2 DEF HasSnapshot
    <3>3. QED
      BY <3>1, <3>2
  <2>3. taken.id = clock + 1
    OBVIOUS
  <2> HIDE DEF taken
  <2>4. RunsExist'
    BY <1>6, <1>a, <2>1 DEF TakeSnapshot, IInv, RunsExist, run
  <2>5. KnownIds' /\ HasNewest' /\ SameRow'
    <3>1. \A n \in Nat : n <= clock => n <= clock + 1
      BY <1>a
    <3>2. /\ \A c \in checkpoints : c.id \in Nat
          /\ \A s \in snapshots : s.id \in Nat
          /\ \A p \in publications : p.id \in Nat
          /\ \A c \in node.rows : c.id \in Nat
          /\ \A o \in Operators : op[o].id \in Nat
      BY <1>a DEF TypeOK, CheckpointType, SnapshotType, PublicationType, NodeType, OpType, Ids
    <3>3. \A s \in node'.snapshot : s.id <= clock + 1
      BY <1>a, <2>1, <2>3
    <3>4. QED
      BY <2>1, <3>1, <3>2, <3>3 DEF IInv, KnownIds, HasNewest, SameRow, Inserts
  <2>6. ReferencesResolve' /\ FrozenIsPublished'
    BY <2>1 DEF IInv, ReferencesResolve, FrozenIsPublished
  <2>7. NodeHeld'
    BY <1>6, <2>1, <2>2 DEF TakeSnapshot, IInv, NodeHeld, LivePublished, HasCheckpoint, HasSnapshot
  <2>8. \A o \in Operators : OpHeld(o)'
    BY <2>1 DEF IInv, OpHeld, LivePublished, HasCheckpoint, HasSnapshot
  <2>9. QED
    BY <2>4, <2>5, <2>6, <2>7, <2>8 DEF IInv
<1>7. CASE atomic_persist_staging_node_writes
  <2>1. /\ checkpoints' = InsertRows(checkpoints, node.rows)
        /\ ws' = node.surface
        /\ snapshots' = InsertRows(snapshots, node.snapshot)
        /\ UNCHANGED <<publications, op, requests, clock, builds>>
    BY <1>7 DEF atomic_persist_staging_node_writes
  <2>2. /\ node'.surface \in {node.surface, NoSurface} /\ node'.rows \subseteq node.rows
        /\ node'.snapshot \subseteq node.snapshot /\ node'.pc \in {"idle", "persist"}
        /\ node'.pc # "idle" => node.pc # "idle"
        /\ node'.pc = "idle" => node'.surface = NoSurface
    BY <1>7, <1>a DEF atomic_persist_staging_node_writes, Answered, NodeIdle, NodeType
  <2>3. /\ checkpoints \subseteq checkpoints' /\ checkpoints' \subseteq checkpoints \cup node.rows
        /\ \A c \in node.rows : HasCheckpoint(c.id)'
    BY <2>1, InsertedRows DEF HasCheckpoint
  <2>4. /\ snapshots \subseteq snapshots' /\ snapshots' \subseteq snapshots \cup node.snapshot
    BY <2>1, InsertedRows
  <2>5. RunsExist'
    BY <1>a, <2>1, <2>2 DEF IInv, RunsExist, run, NoSurface
  <2>6. KnownIds' /\ SameRow'
    BY <2>1, <2>2, <2>3, <2>4 DEF IInv, KnownIds, SameRow, Inserts
  <2>7. HasNewest'
    <3>1. /\ snapshots \subseteq SnapshotType /\ node.snapshot \subseteq SnapshotType
          /\ \A s, t \in node.snapshot : s = t
      BY <1>a DEF TypeOK, NodeType, IInv, NodeHeld
    <3>2. CASE node.snapshot = {}
      BY <2>4, <3>2 DEF IInv, HasNewest
    <3>3. CASE node.snapshot # {}
      <4>1. PICK x \in node.snapshot : TRUE
        BY <3>3
      <4>2. node.snapshot = {x} /\ x \in SnapshotType
        BY <3>1, <4>1
      <4>3. QED
        BY <2>4, <3>1, <4>2, NewestAmong DEF IInv
    <3>4. QED
      BY <3>2, <3>3
  <2>8. ReferencesResolve' /\ FrozenIsPublished'
    BY <2>1, <2>3, <2>4 DEF IInv, NodeHeld, ReferencesResolve, FrozenIsPublished, LivePublished,
       HasCheckpoint, HasSnapshot
  <2>9. NodeHeld'
    BY <2>1, <2>2, <2>3, <2>4 DEF IInv, NodeHeld, NoSurface, LivePublished, HasCheckpoint, HasSnapshot
  <2>10. \A o \in Operators : OpHeld(o)'
    BY <2>1, <2>3, <2>4 DEF IInv, OpHeld, LivePublished, HasCheckpoint, HasSnapshot
  <2>11. QED
    BY <2>5, <2>6, <2>7, <2>8, <2>9, <2>10 DEF IInv
<1>8. QED
  BY <1>1, <1>2, <1>3, <1>4, <1>5, <1>6, <1>7 DEF NodeNext

-----------------------------------------------------------------------------
(* The steps of a request.                                                 *)

(* The request of operator o becomes h and no row changes.                 *)
Becomes(o, h) ==
  /\ h \in OpType
  /\ op' = [op EXCEPT ![o] = h]
  /\ UNCHANGED <<ws, checkpoints, snapshots, publications, node, builds>>
  /\ \/ clock' = clock /\ h.id = op[o].id
     \/ clock' = clock /\ h.id = 0
     \/ clock' = clock + 1 /\ h.id = clock + 1
  /\ h.surface.run <= run
  /\ h.pc \in {"newest", "write"} /\ h.kind = "materialize" => h.surface.run >= 1
  /\ h.pc = "write" /\ h.kind \in {"publish", "approve_working_staging", "materialize"}
       => clock' = clock + 1

(* Whatever it then may write keeps the invariant.                         *)
LEMMA RequestReads ==
  ASSUME IInv, TypeOK', NEW o \in Operators, NEW h, Becomes(o, h), OpHeld(o)'
  PROVE  IInv'
<1> USE DEF Becomes
<1>1. /\ TypeOK /\ clock \in Nat /\ op \in [Operators -> OpType]
      /\ op'[o] = h /\ \A q \in Operators \ {o} : op'[q] = op[q]
  BY DEF IInv, TypeOK
<1>2. RunsExist'
  BY <1>1 DEF IInv, RunsExist, run
<1>3. \A n \in Nat : n <= clock => n <= clock' /\ (clock' = clock + 1 => n # clock')
  BY <1>1
<1>4. /\ \A c \in checkpoints : c.id \in Nat
      /\ \A s \in snapshots : s.id \in Nat
      /\ \A p \in publications : p.id \in Nat
      /\ \A c \in node.rows : c.id \in Nat
      /\ \A s \in node.snapshot : s.id \in Nat
      /\ \A q \in Operators : op[q].id \in Nat
  BY <1>1 DEF TypeOK, CheckpointType, SnapshotType, PublicationType, NodeType, OpType, Ids
<1>5. h.id <= clock' /\ clock <= clock'
  BY <1>1, <1>4 DEF IInv, KnownIds
<1>6. KnownIds'
  <2>1. \A q, r \in Operators : q # r /\ Inserts(q)' /\ Inserts(r)' => op'[q].id # op'[r].id
    BY <1>1, <1>3, <1>4 DEF IInv, KnownIds, Inserts
  <2>2. \A q \in Operators : Inserts(q)' => \A c \in node.rows : c.id # op'[q].id
    BY <1>1, <1>3, <1>4 DEF IInv, KnownIds, Inserts
  <2>3. \A q \in Operators : op'[q].id <= clock'
    BY <1>1, <1>3, <1>4, <1>5 DEF IInv, KnownIds
  <2>4. QED
    BY <1>3, <1>4, <2>1, <2>2, <2>3 DEF IInv, KnownIds
<1>7. SameRow'
  BY <1>1, <1>3, <1>4 DEF IInv, KnownIds, SameRow
<1>8. HasNewest' /\ ReferencesResolve' /\ FrozenIsPublished' /\ NodeHeld'
  BY DEF IInv, HasNewest, ReferencesResolve, FrozenIsPublished, NodeHeld, LivePublished,
     HasCheckpoint, HasSnapshot
<1>9. \A q \in Operators \ {o} : OpHeld(q)'
  BY <1>1 DEF IInv, OpHeld, LivePublished, HasCheckpoint, HasSnapshot
<1>10. QED
  BY <1>2, <1>6, <1>7, <1>8, <1>9 DEF IInv

(* A request that ends holds nothing.                                      *)
LEMMA RequestEnds ==
  ASSUME IInv, TypeOK', NEW o \in Operators, Ends(o), clock' = clock,
         UNCHANGED <<ws, checkpoints, snapshots, publications, node, builds>>
  PROVE  IInv'
<1>1. op' = [op EXCEPT ![o] = OpIdle] /\ op'[o] = OpIdle /\ OpIdle \in OpType
  BY IdleTypes DEF Ends, IInv, TypeOK
<1>2. /\ OpIdle.pc = "idle" /\ OpIdle.id = 0 /\ OpIdle.surface.run = 0
      /\ OpIdle.surface.checkpoint = None /\ OpIdle.surface.status = "draft"
  BY DEF OpIdle, NoSurface
<1>3. OpHeld(o)'
  BY <1>1, <1>2 DEF OpHeld
<1>4. run \in Nat
  BY DEF IInv, TypeOK, run
<1>5. Becomes(o, OpIdle)
  BY <1>1, <1>2, <1>4 DEF Becomes
<1>6. QED
  BY <1>3, <1>5, RequestReads

LEMMA RequestReadInv ==
  ASSUME IInv, TypeOK', NEW o \in Operators,
         OpenReview(o) \/ ReadSnapshot(o) \/ ListPublications(o) \/ OpenLive(o)
           \/ ReadSurface(o) \/ ReadNewest(o) \/ WriteFails(o)
  PROVE  IInv'
<1> USE DEF tables, nodeVars, setting
<1>a. /\ TypeOK /\ op[o] \in OpType /\ OpIdle \in OpType /\ op'[o] \in OpType
      /\ clock \in Nat /\ run \in Nat /\ OpHeld(o)
      /\ \A h : op' = [op EXCEPT ![o] = h] => op'[o] = h
  BY IdleTypes DEF TypeOK, IInv, run
<1>b. /\ OpIdle.pc = "idle" /\ OpIdle.id = 0 /\ OpIdle.surface = NoSurface
      /\ NoSurface.run = 0 /\ NoSurface.checkpoint = None /\ NoSurface.status = "draft"
  BY DEF OpIdle, NoSurface
<1>1. CASE OpenReview(o)
  <2>1. PICK kind \in ReviewKinds, s \in snapshots :
          op' = [op EXCEPT ![o] = [OpIdle EXCEPT !.pc = "read", !.kind = kind, !.target = s.id]]
    BY <1>1 DEF OpenReview
  <2> DEFINE h == [OpIdle EXCEPT !.pc = "read", !.kind = kind, !.target = s.id]
  <2>2. h.pc = "read" /\ h.kind = kind /\ h.target = s.id /\ h.surface = NoSurface /\ h.id = 0
    BY DEF OpIdle
  <2>3. op' = [op EXCEPT ![o] = h] /\ op'[o] = h /\ h \in OpType
    BY <1>a, <2>1
  <2> HIDE DEF h
  <2>4. OpHeld(o)'
    BY <1>1, <1>b, <2>2, <2>3 DEF OpenReview, OpHeld, HasSnapshot, ReviewKinds
  <2>5. Becomes(o, h)
    <3>1. UNCHANGED <<ws, checkpoints, snapshots, publications, node, builds, clock>>
      BY <1>1 DEF OpenReview
    <3>2. QED
      BY <3>1, <1>a, <1>b, <2>2, <2>3 DEF Becomes
  <2>6. QED
    BY <2>4, <2>5, RequestReads
<1>2. CASE ReadSnapshot(o)
  <2>1. PICK s \in snapshots :
          /\ s.id = op[o].target
          /\ LET held == [op[o] EXCEPT !.status = s.status, !.payload = s.payload]
             IN  op' = [op EXCEPT ![o] =
                CASE op[o].kind = "approve" ->
                       IF s.status = "review_ready" /\ s.payload.verdict \notin {"fail", "blocked"}
                       THEN [held EXCEPT !.pc = "write"] ELSE OpIdle
                  [] op[o].kind = "reject" ->
                       IF s.status # "rejected" THEN [held EXCEPT !.pc = "pubs"] ELSE OpIdle
                  [] OTHER -> [held EXCEPT !.pc = "pubs"]]
    BY <1>2 DEF ReadSnapshot
  <2> DEFINE h(pc) == [op[o] EXCEPT !.status = s.status, !.payload = s.payload, !.pc = pc]
  <2>2. \/ Ends(o)
        \/ op[o].kind = "approve" /\ op' = [op EXCEPT ![o] = h("write")]
        \/ op' = [op EXCEPT ![o] = h("pubs")]
    BY <2>1 DEF Ends
  <2>3. CASE Ends(o)
    BY <1>2, <2>3, RequestEnds DEF ReadSnapshot
  <2>4. ASSUME NEW pc \in {"write", "pubs"}, pc = "write" => op[o].kind = "approve",
               op' = [op EXCEPT ![o] = h(pc)]
        PROVE  IInv'
    <3>1. /\ h(pc).pc = pc /\ h(pc).kind = op[o].kind /\ h(pc).target = op[o].target
          /\ h(pc).surface = op[o].surface /\ h(pc).id = op[o].id /\ h(pc).payload = s.payload
      BY <1>a DEF OpType
    <3>2. op'[o] = h(pc) /\ h(pc) \in OpType
      BY <1>a, <2>4
    <3> HIDE DEF h
    <3>3. op[o].pc = "read" /\ op[o].kind \in ReviewKinds
            /\ UNCHANGED <<ws, checkpoints, snapshots, publications, node, builds, clock>>
      BY <1>2 DEF ReadSnapshot
    <3>4. OpHeld(o)'
      BY <1>a, <2>1, <2>4, <3>1, <3>2, <3>3 DEF OpHeld, HasSnapshot, HasCheckpoint, LivePublished, ReviewKinds
    <3>5. Becomes(o, h(pc))
      BY <1>a, <2>4, <3>1, <3>2, <3>3 DEF Becomes, IInv, RunsExist, ReviewKinds
    <3>6. QED
      BY <3>4, <3>5, RequestReads
  <2>5. QED
    BY <2>2, <2>3, <2>4
<1>3. CASE ListPublications(o)
  <2> DEFINE h == [op[o] EXCEPT !.pc = "write", !.source = op[o].target, !.id = clock + 1]
  <2>1. CASE Ends(o) /\ clock' = clock
    BY <1>3, <2>1, RequestEnds DEF ListPublications
  <2>2. CASE op' = [op EXCEPT ![o] = h] /\ clock' = clock + 1
    <3>1. /\ h.pc = "write" /\ h.kind = op[o].kind /\ h.target = op[o].target /\ h.source = op[o].target
          /\ h.surface = op[o].surface /\ h.id = clock + 1 /\ h.payload = op[o].payload
      BY <1>a DEF OpType
    <3>2. op'[o] = h /\ h \in OpType
      BY <1>a, <2>2
    <3> HIDE DEF h
    <3>3. op[o].pc = "pubs" /\ UNCHANGED <<ws, checkpoints, snapshots, publications, node, builds>>
      BY <1>3 DEF ListPublications
    <3>4. OpHeld(o)'
      BY <1>a, <3>1, <3>2, <3>3 DEF OpHeld, HasSnapshot, HasCheckpoint, LivePublished, ReviewKinds
    <3>5. Becomes(o, h)
      BY <1>a, <2>2, <3>1, <3>2, <3>3 DEF Becomes, IInv, RunsExist, OpHeld, ReviewKinds
    <3>6. QED
      BY <3>4, <3>5, RequestReads
  <2>3. QED
    BY <1>3, <1>a, <2>1, <2>2 DEF ListPublications, OpType
<1>4. CASE OpenLive(o)
  <2>1. PICK kind \in LiveKinds :
          \E row \in CASE kind = "rollback_to_checkpoint"  -> checkpoints
                        [] kind = "rollback_to_publication" -> publications
                        [] OTHER -> {[id |-> None, payload |-> Blank]} :
             op' = [op EXCEPT ![o] = [OpIdle EXCEPT !.pc = "read", !.kind = kind,
                                      !.target = row.id, !.payload = row.payload]]
    BY <1>4 DEF OpenLive
  <2>2. \E row : /\ kind = "rollback_to_checkpoint" => row \in checkpoints
                 /\ op' = [op EXCEPT ![o] = [OpIdle EXCEPT !.pc = "read", !.kind = kind,
                                             !.target = row.id, !.payload = row.payload]]
    <3>1. CASE kind = "rollback_to_checkpoint"
      BY <2>1, <3>1
    <3>2. CASE kind # "rollback_to_checkpoint"
      BY <2>1, <3>2
    <3>3. QED
      BY <3>1, <3>2
  <2>3. PICK row : /\ kind = "rollback_to_checkpoint" => row \in checkpoints
                   /\ op' = [op EXCEPT ![o] = [OpIdle EXCEPT !.pc = "read", !.kind = kind,
                                               !.target = row.id, !.payload = row.payload]]
    BY <2>2
  <2> DEFINE h == [OpIdle EXCEPT !.pc = "read", !.kind = kind, !.target = row.id, !.payload = row.payload]
  <2>4. h.pc = "read" /\ h.kind = kind /\ h.target = row.id /\ h.surface = NoSurface /\ h.id = 0
    BY DEF OpIdle
  <2>5. op' = [op EXCEPT ![o] = h] /\ op'[o] = h /\ h \in OpType
    BY <1>a, <2>3
  <2> HIDE DEF h
  <2>6. UNCHANGED <<ws, checkpoints, snapshots, publications, node, builds, clock>>
    BY <1>4 DEF OpenLive
  <2>7. OpHeld(o)'
    BY <1>b, <2>3, <2>4, <2>5, <2>6 DEF OpHeld, HasCheckpoint, ReviewKinds, LiveKinds
  <2>8. Becomes(o, h)
    BY <1>a, <1>b, <2>4, <2>5, <2>6 DEF Becomes
  <2>9. QED
    BY <2>7, <2>8, RequestReads
<1>5. CASE ReadSurface(o)
  <2> DEFINE b == [op[o] EXCEPT !.pc = "write", !.surface = RolledBack(op[o], ws)]
             n == [op[o] EXCEPT !.pc = "newest", !.surface = ws]
  <2>0. op[o].pc = "read" /\ UNCHANGED <<ws, checkpoints, snapshots, publications, node, builds, clock>>
    BY <1>5 DEF ReadSurface
  <2>1. \/ Ends(o)
        \/ op[o].kind \in Rollbacks /\ op' = [op EXCEPT ![o] = b]
        \/ /\ op[o].kind \in {"materialize", "approve_working_staging"} /\ HasSurface
           /\ op' = [op EXCEPT ![o] = n]
    <3>1. op' = [op EXCEPT ![o] =
            CASE HasSurface /\ op[o].kind \in Rollbacks ->
                   [op[o] EXCEPT !.pc = "write", !.surface = RolledBack(op[o], ws)]
              [] HasSurface /\ ws.revision > 0
                   /\ (op[o].kind = "materialize"
                         \/ (op[o].kind = "approve_working_staging" /\ ws.status # "frozen")) ->
                   [op[o] EXCEPT !.pc = "newest", !.surface = ws]
              [] OTHER -> OpIdle]
      BY <1>5 DEF ReadSurface
    <3>2. CASE HasSurface /\ op[o].kind \in Rollbacks
      BY <3>1, <3>2 DEF Rollbacks
    <3>3. CASE ~(HasSurface /\ op[o].kind \in Rollbacks)
      BY <3>1, <3>3 DEF Ends
    <3>4. QED
      BY <3>2, <3>3
  <2>2. CASE Ends(o)
    BY <2>0, <2>2, RequestEnds
  <2>3. CASE op[o].kind \in Rollbacks /\ op' = [op EXCEPT ![o] = b]
    <3>1. b.pc = "write" /\ b.kind = op[o].kind /\ b.surface = RolledBack(op[o], ws) /\ b.id = op[o].id
            /\ b.target = op[o].target
      BY <1>a DEF OpType
    <3>2. op'[o] = b /\ b \in OpType
      BY <1>a, <2>3
    <3>3. ws \in SurfaceType
      BY <1>a DEF TypeOK
    <3>4. /\ RolledBack(op[o], ws).run = ws.run
          /\ RolledBack(op[o], ws).status = "frozen" => ws.status = "frozen"
          /\ RolledBack(op[o], ws).checkpoint \in
               {ws.checkpoint, None} \cup (IF op[o].kind = "rollback_to_checkpoint" THEN {op[o].target} ELSE {})
      BY <3>3 DEF RolledBack, rollback_to_checkpoint, rollback_to_publication, fresh_rebuild, SurfaceType
    <3> HIDE DEF b
    <3>5. OpHeld(o)'
      BY <1>a, <2>0, <2>3, <3>1, <3>2, <3>4 DEF OpHeld, HasCheckpoint, LivePublished, ReviewKinds, Rollbacks,
         IInv, ReferencesResolve, FrozenIsPublished
    <3>6. Becomes(o, b)
      BY <1>a, <2>0, <2>3, <3>1, <3>2, <3>4 DEF Becomes, IInv, RunsExist, Rollbacks
    <3>7. QED
      BY <3>5, <3>6, RequestReads
  <2>4. CASE /\ op[o].kind \in {"materialize", "approve_working_staging"} /\ HasSurface
             /\ op' = [op EXCEPT ![o] = n]
    <3>1. n.pc = "newest" /\ n.kind = op[o].kind /\ n.surface = ws /\ n.id = op[o].id
      BY <1>a DEF OpType
    <3>2. op'[o] = n /\ n \in OpType
      BY <1>a, <2>4
    <3> HIDE DEF n
    <3>3. OpHeld(o)'
      BY <1>a, <2>0, <2>4, <3>1, <3>2 DEF OpHeld, HasCheckpoint, LivePublished, ReviewKinds,
         IInv, ReferencesResolve, FrozenIsPublished
    <3>4. ws.run >= 1
      BY <1>a, <2>4, StagingConstantsAssumption DEF HasSurface, TypeOK, SurfaceType
    <3>5. Becomes(o, n)
      BY <1>a, <2>0, <2>4, <3>1, <3>2, <3>4 DEF Becomes, IInv, RunsExist
    <3>6. QED
      BY <3>3, <3>5, RequestReads
  <2>5. QED
    BY <2>1, <2>2, <2>3, <2>4
<1>6. CASE ReadNewest(o)
  <2> DEFINE h == [op[o] EXCEPT !.pc = "write", !.source = NewestId(snapshots), !.id = clock + 1]
  <2>0. op[o].pc = "newest" /\ UNCHANGED <<ws, checkpoints, snapshots, publications, node, builds>>
    BY <1>6 DEF ReadNewest
  <2>1. CASE Ends(o) /\ clock' = clock
    BY <2>0, <2>1, RequestEnds
  <2>2. CASE /\ ~(op[o].kind = "approve_working_staging" /\ snapshots = {})
             /\ op' = [op EXCEPT ![o] = h] /\ clock' = clock + 1
    <3>1. h.pc = "write" /\ h.kind = op[o].kind /\ h.surface = op[o].surface /\ h.id = clock + 1
            /\ h.source = NewestId(snapshots)
      BY <1>a DEF OpType
    <3>2. op'[o] = h /\ h \in OpType
      BY <1>a, <2>2
    <3> HIDE DEF h
    <3>3. h.source # None => h.source < h.id /\ HasSnapshot(h.source)
      <4>1. CASE snapshots = {}
        BY <3>1, <4>1 DEF NewestId
      <4>2. CASE snapshots # {}
        <5>1. PICK s \in snapshots : s.id = NewestId(snapshots)
          BY <4>2, NewestOf DEF IInv
        <5>2. s.id <= clock /\ s.id \in Nat
          BY <1>a DEF IInv, KnownIds, TypeOK, SnapshotType, Ids
        <5>3. QED
          BY <1>a, <3>1, <5>1, <5>2 DEF HasSnapshot
      <4>3. QED
        BY <4>1, <4>2
    <3>4. op[o].kind = "approve_working_staging" => h.source # None
      <4>1. snapshots # {} => NewestId(snapshots) \in Nat
        BY <1>a, NewestOf DEF IInv, TypeOK, SnapshotType, Ids
      <4>2. QED
        BY <2>2, <3>1, <4>1, StagingConstantsAssumption
    <3>5. OpHeld(o)'
      BY <1>a, <2>0, <2>2, <3>1, <3>2, <3>3, <3>4 DEF OpHeld, HasCheckpoint, HasSnapshot, LivePublished, ReviewKinds
    <3>6. Becomes(o, h)
      BY <1>a, <2>0, <2>2, <3>1, <3>2 DEF Becomes, IInv, RunsExist
    <3>7. QED
      BY <3>5, <3>6, RequestReads
  <2>3. QED
    BY <1>6, <1>a, <2>1, <2>2 DEF ReadNewest, OpType
<1>7. CASE WriteFails(o)
  BY <1>7, RequestEnds DEF WriteFails
<1>8. QED
  BY <1>1, <1>2, <1>3, <1>4, <1>5, <1>6, <1>7

(* After its write a request is over, or it holds what it held.            *)
Answers(o) ==
  /\ op' \in [Operators -> OpType]
  /\ \A q \in Operators \ {o} : op'[q] = op[q]
  /\ \/ op'[o] = OpIdle
     \/ /\ op'[o].pc = op[o].pc /\ op'[o].kind = op[o].kind /\ op'[o].target = op[o].target
        /\ op'[o].surface = op[o].surface /\ op'[o].payload = op[o].payload
        /\ op'[o].source = op[o].source /\ op'[o].id = op[o].id

LEMMA AfterWrite ==
  ASSUME IInv, TypeOK', NEW o \in Operators, NEW next \in Answered(op[o], OpIdle),
         op' = [op EXCEPT ![o] = next]
  PROVE  Answers(o)
<1>1. op \in [Operators -> OpType] /\ op' \in [Operators -> OpType]
  BY DEF IInv, TypeOK
<1>2. op'[o] = next /\ \A q \in Operators \ {o} : op'[q] = op[q]
  BY <1>1
<1>3. next = OpIdle \/ next = [op[o] EXCEPT !.tries = @ + 1]
  BY DEF Answered
<1>4. op[o] \in OpType
  BY <1>1
<1>5. QED
  BY <1>1, <1>2, <1>3, <1>4 DEF Answers, OpType

(* What only the requests' rows say is kept by a write of one of them.     *)
LEMMA WriteKeeps ==
  ASSUME IInv, TypeOK', NEW o \in Operators, Answers(o), UNCHANGED <<node, clock, builds>>
  PROVE  /\ \A q \in Operators : op'[q].id <= clock'
         /\ \A q, r \in Operators : q # r /\ Inserts(q)' /\ Inserts(r)' => op'[q].id # op'[r].id
         /\ \A q \in Operators : Inserts(q)' => \A c \in node'.rows : c.id # op'[q].id
         /\ \A q \in Operators :
              /\ op'[q].surface.run <= run'
              /\ op'[q].pc \in {"newest", "write"} /\ op'[q].kind = "materialize"
                   => op'[q].surface.run >= 1
<1>1. OpIdle.pc = "idle" /\ OpIdle.id = 0 /\ OpIdle.surface.run = 0
  BY DEF OpIdle, NoSurface
<1>2. run' = run /\ run \in Nat /\ clock \in Nat
  BY DEF IInv, TypeOK, run
<1>3. QED
  BY <1>1, <1>2 DEF IInv, KnownIds, RunsExist, Inserts, Answers

(* What the requests hold stays writable while rows are only added.        *)
LEMMA WriteHeld ==
  ASSUME IInv, NEW o \in Operators, Answers(o),
         checkpoints \subseteq checkpoints', publications \subseteq publications',
         \A s \in snapshots : \E t \in snapshots' : t.id = s.id /\ t.payload = s.payload
  PROVE  \A q \in Operators : OpHeld(q)'
<1>1. /\ OpIdle.pc = "idle" /\ OpIdle.surface.checkpoint = None /\ OpIdle.surface.status = "draft"
  BY DEF OpIdle, NoSurface
<1>2. \A id : HasSnapshot(id) => HasSnapshot(id)'
  BY DEF HasSnapshot
<1>3. \A id : HasCheckpoint(id) => HasCheckpoint(id)'
  BY DEF HasCheckpoint
<1>4. LivePublished => LivePublished'
  BY DEF LivePublished
<1>5. ASSUME NEW q \in Operators PROVE OpHeld(q)'
  <2>1. OpHeld(q)
    BY DEF IInv
  <2>2. CASE op'[q] = OpIdle
    BY <1>1, <2>2 DEF OpHeld
  <2>3. CASE /\ op'[q].pc = op[q].pc /\ op'[q].kind = op[q].kind /\ op'[q].target = op[q].target
             /\ op'[q].surface = op[q].surface /\ op'[q].payload = op[q].payload
             /\ op'[q].source = op[q].source /\ op'[q].id = op[q].id
    <3>1. (\E s \in snapshots : s.payload = op[q].payload)
            => \E s \in snapshots' : s.payload = op[q].payload
      OBVIOUS
    <3>2. QED
      BY <1>2, <1>3, <1>4, <2>1, <2>3, <3>1 DEF OpHeld
  <2>4. QED
    BY <2>2, <2>3 DEF Answers
<1>6. QED
  BY <1>5

LEMMA RequestWriteInv ==
  ASSUME IInv, TypeOK', NEW o \in Operators,
         update_staging_snapshot_status(o) \/ save_publication_snapshot(o)
           \/ save_working_staging(o) \/ save_staging_snapshot(o)
           \/ atomic_commit_working_staging_approval(o)
  PROVE  IInv'
<1> USE DEF tables, nodeVars, setting
<1>a. TypeOK /\ op[o] \in OpType /\ OpHeld(o) /\ ws \in SurfaceType /\ clock \in Nat /\ run \in Nat
  BY DEF TypeOK, IInv, run
<1>b. UNCHANGED <<node, builds, clock>> /\ op[o].pc = "write" /\ run' = run
  BY DEF update_staging_snapshot_status, save_publication_snapshot, save_working_staging,
     save_staging_snapshot, atomic_commit_working_staging_approval, run
<1>c. Answers(o)
  <2>1. PICK next \in Answered(op[o], OpIdle) : op' = [op EXCEPT ![o] = next]
    BY DEF update_staging_snapshot_status, save_publication_snapshot, save_working_staging,
       save_staging_snapshot, atomic_commit_working_staging_approval
  <2>2. QED
    BY <2>1, AfterWrite
<1>1. CASE update_staging_snapshot_status(o)
  <2>1. UNCHANGED <<ws, checkpoints, publications>>
    BY <1>1 DEF update_staging_snapshot_status
  <2>2. /\ \A s \in snapshots : \E t \in snapshots' :
             t.id = s.id /\ t.payload = s.payload /\ t.prior = s.prior
        /\ \A t \in snapshots' : \E s \in snapshots :
             t.id = s.id /\ t.payload = s.payload /\ t.prior = s.prior
    <3> DEFINE new(s) == IF s.id = op[o].target THEN [s EXCEPT !.status = NewStatus(op[o].kind)] ELSE s
    <3>1. snapshots' = {new(s) : s \in snapshots}
      BY <1>1 DEF update_staging_snapshot_status
    <3>2. \A s \in snapshots : new(s).id = s.id /\ new(s).payload = s.payload /\ new(s).prior = s.prior
      BY <1>a DEF TypeOK, SnapshotType
    <3> HIDE DEF new
    <3>3. QED
      BY <3>1, <3>2
  <2>3. RunsExist' /\ KnownIds'
    BY <1>b, <1>c, <2>1, <2>2, WriteKeeps DEF IInv, RunsExist, KnownIds
  <2>4. HasNewest'
    BY <2>2 DEF IInv, HasNewest
  <2>5. SameRow'
    BY <1>c, <2>1 DEF IInv, SameRow, Answers, OpIdle
  <2>6. ReferencesResolve' /\ FrozenIsPublished' /\ NodeHeld'
    BY <1>b, <2>1, <2>2 DEF IInv, ReferencesResolve, FrozenIsPublished, NodeHeld, LivePublished,
       HasCheckpoint, HasSnapshot
  <2>7. \A q \in Operators : OpHeld(q)'
    BY <1>c, <2>1, <2>2, WriteHeld
  <2>8. QED
    BY <2>3, <2>4, <2>5, <2>6, <2>7 DEF IInv
<1>2. CASE save_publication_snapshot(o)
  <2> DEFINE pub == [id |-> op[o].id, payload |-> op[o].payload, source |-> op[o].source, path |-> "review"]
  <2>1. UNCHANGED <<ws, checkpoints, snapshots>> /\ publications' = InsertRows(publications, {pub})
          /\ op[o].kind = "publish"
    BY <1>2 DEF save_publication_snapshot
  <2>2. pub.id = op[o].id /\ pub.source = op[o].source
    OBVIOUS
  <2> HIDE DEF pub
  <2>3. publications \subseteq publications' /\ publications' \subseteq publications \cup {pub}
    BY <2>1, InsertedRows
  <2>4. HasSnapshot(pub.source) /\ pub.id <= clock
    BY <1>a, <1>b, <2>1, <2>2 DEF OpHeld, ReviewKinds, IInv, KnownIds
  <2>5. RunsExist' /\ KnownIds'
    BY <1>b, <1>c, <2>1, <2>3, <2>4, WriteKeeps DEF IInv, RunsExist, KnownIds
  <2>6. HasNewest'
    BY <2>1 DEF IInv, HasNewest
  <2>7. SameRow'
    <3>1. \A q \in Operators : op[q].pc = "write" /\ op[q].kind = "approve_working_staging"
            => op[q].id # pub.id
      BY <1>b, <2>1, <2>2 DEF IInv, KnownIds, Inserts
    <3>2. \A q \in Operators : op'[q].pc = "write" => op'[q].id = op[q].id /\ op'[q].kind = op[q].kind
            /\ op'[q].surface = op[q].surface /\ op[q].pc = "write"
      BY <1>c DEF Answers, OpIdle
    <3>3. QED
      BY <2>1, <2>3, <3>1, <3>2 DEF IInv, SameRow
  <2>8. ReferencesResolve' /\ FrozenIsPublished' /\ NodeHeld'
    BY <1>b, <2>1, <2>3, <2>4 DEF IInv, ReferencesResolve, FrozenIsPublished, NodeHeld, LivePublished,
       HasCheckpoint, HasSnapshot
  <2>9. \A q \in Operators : OpHeld(q)'
    BY <1>c, <2>1, <2>3, WriteHeld
  <2>10. QED
    BY <2>5, <2>6, <2>7, <2>8, <2>9 DEF IInv
<1>3. CASE save_working_staging(o)
  <2>1. UNCHANGED <<checkpoints, snapshots, publications>> /\ ws' = op[o].surface
    BY <1>3 DEF save_working_staging
  <2>2. RunsExist' /\ KnownIds'
    BY <1>b, <1>c, <2>1, WriteKeeps DEF IInv, RunsExist, KnownIds
  <2>3. HasNewest' /\ SameRow'
    BY <1>c, <2>1 DEF IInv, HasNewest, SameRow, Answers, OpIdle
  <2>4. ReferencesResolve' /\ FrozenIsPublished' /\ NodeHeld'
    BY <1>a, <1>b, <2>1 DEF IInv, ReferencesResolve, FrozenIsPublished, NodeHeld, LivePublished,
       HasCheckpoint, HasSnapshot, OpHeld
  <2>5. \A q \in Operators : OpHeld(q)'
    BY <1>c, <2>1, WriteHeld
  <2>6. QED
    BY <2>2, <2>3, <2>4, <2>5 DEF IInv
<1>4. CASE save_staging_snapshot(o)
  <2> DEFINE row == [id |-> op[o].id, status |-> "review_ready", prior |-> op[o].source,
                     payload |-> MaterializedPayload(op[o].surface.run)]
  <2>1. UNCHANGED <<ws, checkpoints, publications>> /\ snapshots' = InsertRows(snapshots, {row})
          /\ op[o].kind = "materialize"
    BY <1>4 DEF save_staging_snapshot
  <2>2. row.id = op[o].id /\ row.prior = op[o].source
    OBVIOUS
  <2> HIDE DEF row
  <2>3. snapshots \subseteq snapshots' /\ snapshots' \subseteq snapshots \cup {row}
    BY <2>1, InsertedRows
  <2>4. row.id <= clock /\ (row.prior # None => row.prior < row.id /\ HasSnapshot(row.prior))
    BY <1>a, <1>b, <2>1, <2>2 DEF OpHeld, IInv, KnownIds
  <2>5. RunsExist' /\ KnownIds'
    BY <1>b, <1>c, <2>1, <2>3, <2>4, WriteKeeps DEF IInv, RunsExist, KnownIds
  <2>6. HasNewest'
    <3>1. CASE row \in snapshots'
      BY <1>a, <2>3, <3>1, NewestAmong DEF IInv, TypeOK
    <3>2. CASE row \notin snapshots'
      BY <2>3, <3>2 DEF IInv, HasNewest
    <3>3. QED
      BY <3>1, <3>2
  <2>7. SameRow'
    BY <1>c, <2>1 DEF IInv, SameRow, Answers, OpIdle
  <2>8. ReferencesResolve' /\ FrozenIsPublished' /\ NodeHeld'
    BY <1>b, <2>1, <2>3, <2>4 DEF IInv, ReferencesResolve, FrozenIsPublished, NodeHeld, LivePublished,
       HasCheckpoint, HasSnapshot
  <2>9. \A q \in Operators : OpHeld(q)'
    BY <1>c, <2>1, <2>3, WriteHeld
  <2>10. QED
    BY <2>5, <2>6, <2>7, <2>8, <2>9 DEF IInv
<1>5. CASE atomic_commit_working_staging_approval(o)
  <2> DEFINE cp  == create_staging_checkpoint(op[o].surface, op[o].id)
             pub == [id |-> op[o].id, payload |-> op[o].surface.payload, source |-> op[o].source,
                     path |-> "live"]
  <2>1. /\ op[o].kind = "approve_working_staging" /\ UNCHANGED snapshots
        /\ checkpoints' = InsertRows(checkpoints, {cp})
        /\ publications' = InsertRows(publications, {pub})
        /\ ws' = [op[o].surface EXCEPT !.status = "frozen", !.checkpoint = cp.id]
    BY <1>5 DEF atomic_commit_working_staging_approval
  <2>2. /\ cp.id = op[o].id /\ cp.payload = op[o].surface.payload
        /\ pub.id = op[o].id /\ pub.source = op[o].source /\ pub.path = "live"
    BY DEF create_staging_checkpoint
  <2> HIDE DEF cp, pub
  <2>3. ws'.checkpoint = op[o].id /\ ws'.run = op[o].surface.run
    <3>1. op[o].surface \in SurfaceType
      BY <1>a DEF OpType
    <3>2. QED
      BY <2>1, <2>2, <3>1 DEF SurfaceType
  <2>4. /\ checkpoints \subseteq checkpoints' /\ checkpoints' \subseteq checkpoints \cup {cp}
        /\ \E c \in checkpoints' : c.id = op[o].id
    BY <2>1, <2>2, InsertedRows
  <2>5. /\ publications \subseteq publications' /\ publications' \subseteq publications \cup {pub}
        /\ \E p \in publications' : p.id = op[o].id
    BY <2>1, <2>2, InsertedRows
  <2>6. op[o].id <= clock /\ HasSnapshot(op[o].source)
    BY <1>a, <1>b, <2>1 DEF OpHeld, IInv, KnownIds
  <2>7. LivePublished'
    BY <1>b, <2>1, <2>2, <2>5 DEF LivePublished, IInv, SameRow
  <2>8. RunsExist' /\ KnownIds'
    BY <1>b, <1>c, <2>1, <2>2, <2>3, <2>4, <2>5, <2>6, WriteKeeps DEF IInv, RunsExist, KnownIds
  <2>9. HasNewest'
    BY <2>1 DEF IInv, HasNewest
  <2>10. SameRow'
    <3>1. \A q \in Operators \ {o} : op[q].pc = "write" /\ op[q].kind = "approve_working_staging"
            => op[q].id # op[o].id
      BY <1>b, <2>1 DEF IInv, KnownIds, Inserts
    <3>2. \A q \in Operators : op'[q].pc = "write" => op'[q].id = op[q].id /\ op'[q].kind = op[q].kind
            /\ op'[q].surface = op[q].surface /\ op[q].pc = "write"
      BY <1>c DEF Answers, OpIdle
    <3>3. QED
      BY <2>2, <2>4, <2>5, <3>1, <3>2 DEF IInv, SameRow
  <2>11. ReferencesResolve' /\ FrozenIsPublished' /\ NodeHeld'
    <3>1. \A p \in publications' : HasSnapshot(p.source)
      BY <2>2, <2>5, <2>6 DEF IInv, ReferencesResolve, HasSnapshot
    <3>2. ReferencesResolve'
      BY <2>1, <2>3, <2>4, <3>1 DEF IInv, ReferencesResolve, HasCheckpoint, HasSnapshot
    <3>3. FrozenIsPublished'
      BY <2>7 DEF FrozenIsPublished, LivePublished
    <3>4. NodeHeld'
      BY <1>b, <2>1, <2>4, <2>7 DEF IInv, NodeHeld, HasCheckpoint, HasSnapshot
    <3>5. QED
      BY <3>2, <3>3, <3>4
  <2>12. \A q \in Operators : OpHeld(q)'
    BY <1>c, <2>1, <2>4, <2>5, WriteHeld
  <2>13. QED
    BY <2>8, <2>9, <2>10, <2>11, <2>12 DEF IInv
<1>6. QED
  BY <1>1, <1>2, <1>3, <1>4, <1>5

-----------------------------------------------------------------------------
(* The theorems.                                                           *)

LEMMA InitInv == Init => IInv
<1> SUFFICES ASSUME Init PROVE IInv
  OBVIOUS
<1>1. run = 0 /\ node.surface = NoSurface /\ node.pc = "idle" /\ node.rows = {} /\ node.snapshot = {}
        /\ NoSurface.run = 0 /\ NoSurface.checkpoint = None /\ NoSurface.status = "draft"
  BY DEF Init, run, NodeIdle, NoSurface
<1>2. \A o \in Operators : op[o] = OpIdle /\ OpIdle.pc = "idle" /\ OpIdle.surface = NoSurface /\ OpIdle.id = 0
  BY DEF Init, OpIdle
<1>3. TypeOK
  BY IdleTypes, NoSurfaceType, StagingConstantsAssumption DEF Init, TypeOK
<1>4. RunsExist /\ HasNewest /\ SameRow
  BY <1>1, <1>2 DEF Init, RunsExist, HasNewest, SameRow
<1>5. KnownIds
  BY <1>1, <1>2 DEF Init, KnownIds, Inserts
<1>6. ReferencesResolve /\ FrozenIsPublished /\ NodeHeld
  BY <1>1 DEF Init, ReferencesResolve, FrozenIsPublished, NodeHeld
<1>7. \A o \in Operators : OpHeld(o)
  BY <1>1, <1>2 DEF OpHeld
<1>8. QED
  BY <1>3, <1>4, <1>5, <1>6, <1>7 DEF IInv

LEMMA NextInv == IInv /\ [Next]_vars => IInv'
<1> SUFFICES ASSUME IInv, [Next]_vars PROVE IInv'
  OBVIOUS
<1>1. CASE NodeNext
  <2>1. TypeOK'
    BY <1>1, NodeStepType DEF IInv
  <2>2. QED
    BY <1>1, <2>1, NodeStepInv
<1>2. ASSUME NEW o \in Operators, RequestNext(o)
      PROVE  IInv'
  <2>1. TypeOK'
    BY <1>2, RequestStepType
  <2>2. QED
    BY <1>2, <2>1, RequestReadInv, RequestWriteInv DEF RequestNext
<1>3. CASE UNCHANGED vars
  <2>1. TypeOK'
    BY <1>3 DEF vars, IInv, TypeOK
  <2>2. RunsExist' /\ HasNewest' /\ KnownIds' /\ SameRow'
    BY <1>3 DEF vars, IInv, RunsExist, run, HasNewest, KnownIds, SameRow, Inserts
  <2>3. ReferencesResolve' /\ FrozenIsPublished' /\ NodeHeld' /\ \A o \in Operators : OpHeld(o)'
    BY <1>3 DEF vars, IInv, ReferencesResolve, FrozenIsPublished, NodeHeld, OpHeld, LivePublished,
       HasCheckpoint, HasSnapshot
  <2>4. QED
    BY <2>1, <2>2, <2>3 DEF IInv
<1>4. QED
  BY <1>1, <1>2, <1>3 DEF Next

(* Every variable has its type, whatever runs and operators do.            *)
THEOREM StagingTypeCorrect == Spec => []TypeOK
<1>1. IInv => TypeOK
  BY DEF IInv
<1>2. QED
  BY <1>1, InitInv, NextInv, PTL DEF Spec

(* No id that a row of working_staging, staging_snapshot or                *)
(* publication_snapshot holds ever dangles, although a request decides in  *)
(* one call and writes in a later one.                                     *)
THEOREM ReferencesAlwaysResolve == Spec => []ReferencesResolve
<1>1. IInv => ReferencesResolve
  BY DEF IInv
<1>2. QED
  BY <1>1, InitInv, NextInv, PTL DEF Spec

(* A frozen surface has a live publication, also when a graph run or a     *)
(* rollback wrote the row last, and when an approval is sent twice.        *)
THEOREM FrozenAlwaysPublished == Spec => []FrozenIsPublished
<1>1. IInv => FrozenIsPublished
  BY DEF IInv
<1>2. QED
  BY <1>1, InitInv, NextInv, PTL DEF Spec

(* Publication as Staging does it implements PublishedCanon: publications  *)
(* are only added, one at a time, and what is published is archived as the *)
(* payload of a snapshot or of a checkpoint that is never dropped.         *)
Archived == {c.payload : c \in checkpoints} \cup {s.payload : s \in snapshots}

LEMMA ArchiveGrows ==
  ASSUME checkpoints \subseteq checkpoints',
         \A s \in snapshots : \E t \in snapshots' : t.payload = s.payload
  PROVE  Archived \subseteq Archived'
  BY DEF Archived

LEMMA CanonStep ==
  ASSUME IInv, Next
  PROVE  /\ Archived \subseteq Archived'
         /\ \/ publications' = publications
            \/ \E c \in publications' : c.payload \in Archived' /\ publications' = publications \cup {c}
<1> USE DEF tables, opVars, setting, nodeVars
<1>1. CASE NodeNext
  <2>1. publications' = publications
    BY <1>1 DEF NodeNext, StartRun, ReadForClear, clear_working_staging_surface, StagingIntegrityFailed,
       RevisionSummaryInvalid, ApplyBuild, TakeSnapshot, atomic_persist_staging_node_writes, PersistFails
  <2>2. checkpoints \subseteq checkpoints' /\ snapshots \subseteq snapshots'
    <3>1. CASE atomic_persist_staging_node_writes
      BY <3>1, InsertedRows DEF atomic_persist_staging_node_writes
    <3>2. CASE ~atomic_persist_staging_node_writes
      BY <1>1, <3>2 DEF NodeNext, StartRun, ReadForClear, clear_working_staging_surface,
         StagingIntegrityFailed, RevisionSummaryInvalid, ApplyBuild, TakeSnapshot, PersistFails
    <3>3. QED
      BY <3>1, <3>2
  <2>3. QED
    BY <2>1, <2>2, ArchiveGrows
<1>2. ASSUME NEW o \in Operators, RequestNext(o)
      PROVE  /\ Archived \subseteq Archived'
             /\ \/ publications' = publications
                \/ \E c \in publications' : c.payload \in Archived' /\ publications' = publications \cup {c}
  <2>1. CASE update_staging_snapshot_status(o)
    <3> DEFINE new(s) == IF s.id = op[o].target THEN [s EXCEPT !.status = NewStatus(op[o].kind)] ELSE s
    <3>1. snapshots' = {new(s) : s \in snapshots} /\ UNCHANGED <<checkpoints, publications>>
      BY <2>1 DEF update_staging_snapshot_status
    <3>2. \A s \in snapshots : new(s).payload = s.payload
      BY DEF IInv, TypeOK, SnapshotType
    <3> HIDE DEF new
    <3>3. QED
      BY <3>1, <3>2, ArchiveGrows
  <2>2. CASE save_publication_snapshot(o)
    <3> DEFINE pub == [id |-> op[o].id, payload |-> op[o].payload, source |-> op[o].source, path |-> "review"]
    <3>1. publications' = InsertRows(publications, {pub}) /\ UNCHANGED <<checkpoints, snapshots>>
            /\ op[o].pc = "write" /\ op[o].kind = "publish"
      BY <2>2 DEF save_publication_snapshot
    <3>2. pub.payload = op[o].payload
      OBVIOUS
    <3> HIDE DEF pub
    <3>3. op[o].payload \in Archived /\ Archived' = Archived
      BY <3>1 DEF IInv, OpHeld, Archived
    <3>4. publications' = publications \/ publications' = publications \cup {pub}
      BY <3>1 DEF InsertRows
    <3>5. QED
      BY <3>2, <3>3, <3>4
  <2>3. CASE save_working_staging(o)
    BY <2>3, ArchiveGrows DEF save_working_staging
  <2>4. CASE save_staging_snapshot(o)
    BY <2>4, InsertedRows, ArchiveGrows DEF save_staging_snapshot
  <2>5. CASE atomic_commit_working_staging_approval(o)
    <3> DEFINE cp  == create_staging_checkpoint(op[o].surface, op[o].id)
               pub == [id |-> op[o].id, payload |-> op[o].surface.payload, source |-> op[o].source,
                       path |-> "live"]
    <3>1. /\ op[o].pc = "write" /\ op[o].kind = "approve_working_staging" /\ UNCHANGED snapshots
          /\ checkpoints' = InsertRows(checkpoints, {cp})
          /\ publications' = InsertRows(publications, {pub})
      BY <2>5 DEF atomic_commit_working_staging_approval
    <3>2. cp.id = op[o].id /\ cp.payload = op[o].surface.payload /\ pub.payload = op[o].surface.payload
      BY DEF create_staging_checkpoint
    <3> HIDE DEF cp, pub
    <3>3. Archived \subseteq Archived'
      BY <3>1, InsertedRows, ArchiveGrows
    <3>4. op[o].surface.payload \in Archived'
      <4>1. PICK c \in checkpoints' : c.id = op[o].id
        BY <3>1, <3>2, InsertedRows
      <4>2. c \in checkpoints \/ c = cp
        BY <3>1, InsertedRows
      <4>3. c.payload = op[o].surface.payload
        BY <3>1, <3>2, <4>1, <4>2 DEF IInv, SameRow
      <4>4. QED
        BY <4>1, <4>3 DEF Archived
    <3>5. publications' = publications \/ publications' = publications \cup {pub}
      BY <3>1 DEF InsertRows
    <3>6. QED
      BY <3>2, <3>3, <3>4, <3>5
  <2>6. CASE OpenReview(o) \/ ReadSnapshot(o) \/ ListPublications(o) \/ OpenLive(o)
               \/ ReadSurface(o) \/ ReadNewest(o) \/ WriteFails(o)
    <3>1. UNCHANGED <<checkpoints, snapshots, publications>>
      BY <2>6 DEF OpenReview, ReadSnapshot, ListPublications, OpenLive, ReadSurface, ReadNewest, WriteFails
    <3>2. QED
      BY <3>1, ArchiveGrows
  <2>7. QED
    BY <1>2, <2>1, <2>2, <2>3, <2>4, <2>5, <2>6 DEF RequestNext
<1>3. QED
  BY <1>1, <1>2 DEF Next

THEOREM PublicationImplementsCanon == Spec => PublicationIsCanon
<1>1. Init => Canon!CanonInit
  BY DEF Init, Canon!CanonInit
<1>2. IInv /\ [Next]_vars => [Canon!CanonNext]_<<Archived, publications>>
  <2> SUFFICES ASSUME IInv, [Next]_vars
               PROVE  [Canon!CanonNext]_<<Archived, publications>>
    OBVIOUS
  <2>1. CASE Next
    BY <2>1, CanonStep DEF Canon!CanonNext, Canon!Archive, Canon!Publish, Archived
  <2>2. CASE UNCHANGED vars
    BY <2>2 DEF vars, Archived
  <2>3. QED
    BY <2>1, <2>2
<1>3. [Canon!CanonNext]_<<Archived, publications>> => [Canon!CanonNext]_Canon!canonVars
  BY DEF Canon!canonVars, Archived
<1>4. QED
  BY <1>1, <1>2, <1>3, InitInv, NextInv, PTL DEF Spec, PublicationIsCanon, Canon!CanonSpec

-----------------------------------------------------------------------------
(* What is published by review, and what a rebuild replaces.               *)

(* Snapshots carry the verdict of a build, and a publication that is about *)
(* to be written has been found eligible.                                  *)
Reviewed ==
  /\ \A s \in snapshots : s.payload.verdict \in Verdicts
  /\ \A s \in node.snapshot : s.payload.verdict \in Verdicts
  /\ \A o \in Operators : op[o].pc = "write" /\ op[o].kind = "publish"
       => op[o].payload.verdict \notin {"fail", "blocked"}
  /\ NoFailedReviewPublished

Brought == {c.payload : c \in node.rows}

(* A surface of revision 0 is blank.  While a rebuild waits to be written, *)
(* the payload of the surface is kept somewhere, or among the rows of the  *)
(* rebuild, or the rebuild has already been written.                       *)
Replaceable ==
  /\ ws.revision = 0 => ws.payload = Blank
  /\ \A o \in Operators : op[o].surface.revision = 0 => op[o].surface.payload = Blank
  /\ \A c \in node.rows, k \in checkpoints \cup node.rows : c.id = k.id => c.payload = k.payload
  /\ node.pc \in {"prior", "persist"} => node.surface.revision > 0
  /\ node.pc \in {"prior", "persist"} /\ node.surface.mode = "rebuild" =>
       ws.payload \in Retained \cup Brought \/ ws = node.surface
  /\ \A o \in Operators :
       /\ op[o].pc = "write" /\ op[o].kind \in Rollbacks => op[o].surface.payload \in Retained
       /\ op[o].pc = "read" /\ op[o].kind \in {"rollback_to_checkpoint", "rollback_to_publication"}
            => op[o].payload \in Retained

Inv2 == IInv /\ Reviewed /\ Replaceable

LEMMA RetainedGrows ==
  ASSUME checkpoints \subseteq checkpoints', publications \subseteq publications'
  PROVE  Retained \subseteq Retained'
  BY DEF Retained

LEMMA Init2 == Init => Inv2
<1> SUFFICES ASSUME Init PROVE Inv2
  OBVIOUS
<1>1. node.pc = "idle" /\ node.rows = {} /\ node.snapshot = {} /\ NoSurface.revision = 0
        /\ NoSurface.payload = Blank
  BY DEF Init, NodeIdle, NoSurface
<1>2. \A o \in Operators : op[o].pc = "idle" /\ op[o].surface = NoSurface
  BY DEF Init, OpIdle
<1>3. QED
  BY <1>1, <1>2, InitInv DEF Init, Inv2, Reviewed, NoFailedReviewPublished, Replaceable

(* The graph run.                                                          *)
LEMMA NodeStep2 ==
  ASSUME Inv2, NodeNext, IInv'
  PROVE  Reviewed' /\ Replaceable'
<1> USE DEF tables, opVars, setting
<1>a. TypeOK /\ node \in NodeType /\ ws \in SurfaceType /\ clock \in Nat
  BY DEF TypeOK, IInv, Inv2
<1>b. UNCHANGED <<op, publications>>
  BY DEF NodeNext, StartRun, ReadForClear, clear_working_staging_surface, StagingIntegrityFailed,
     RevisionSummaryInvalid, ApplyBuild, TakeSnapshot, atomic_persist_staging_node_writes, PersistFails
<1>c. ASSUME UNCHANGED <<ws, checkpoints, snapshots>>, node'.pc \notin {"prior", "persist"},
             node'.rows \subseteq node.rows, node'.snapshot \subseteq node.snapshot
      PROVE  Reviewed' /\ Replaceable'
  BY <1>b, <1>c DEF Inv2, Reviewed, NoFailedReviewPublished, Replaceable, Retained, Brought
<1>1. CASE StartRun \/ ReadForClear \/ StagingIntegrityFailed \/ RevisionSummaryInvalid \/ PersistFails
  <2>1. /\ UNCHANGED <<ws, checkpoints, snapshots>> /\ node'.pc \notin {"prior", "persist"}
        /\ node'.rows \subseteq node.rows /\ node'.snapshot \subseteq node.snapshot
    <3>1. CASE ReadForClear
      BY <3>1, <1>a DEF ReadForClear, NodeType
    <3>2. CASE StartRun
      BY <3>2 DEF StartRun, NodeIdle
    <3>3. CASE StagingIntegrityFailed \/ RevisionSummaryInvalid \/ PersistFails
      BY <3>3 DEF StagingIntegrityFailed, RevisionSummaryInvalid, PersistFails, NodeIdle
    <3>4. QED
      BY <1>1, <3>1, <3>2, <3>3
  <2>2. QED
    BY <1>c, <2>1
<1>2. CASE clear_working_staging_surface
  <2>1. /\ ws'.revision = 0 /\ ws'.payload = Blank /\ UNCHANGED <<checkpoints, snapshots>>
        /\ node'.rows \subseteq node.rows /\ node'.snapshot \subseteq node.snapshot
        /\ node'.pc \in {"stage", "cleared"}
    BY <1>2, <1>a DEF clear_working_staging_surface, Answered, NodeIdle, NodeType, NoSurface
  <2>2. QED
    BY <1>b, <2>1 DEF Inv2, Reviewed, NoFailedReviewPublished, Replaceable, Retained, Brought
<1>3. CASE ApplyBuild
  <2> DEFINE mode  == UpdateMode(ws, draft).mode
             id    == clock + 1
             next  == apply_generator_to_working_staging(ws, draft, mode, run)
             pre   == create_pre_rebuild_checkpoint(ws, draft, mode, id, run)
             post  == decide_post_update_checkpoint(ws, next, mode, id + 1)
             kept  == IF post # {} THEN post ELSE pre
             row   == CHOOSE c \in kept : TRUE
  <2>1. next \in SurfaceType
    BY <1>3, <1>a, DraftOf, AppliedType, ModeOf DEF ApplyBuild, Inv2, IInv, RunsExist
  <2>2. next.revision = ws.revision + 1 /\ next.mode = mode
    BY DEF apply_generator_to_working_staging
  <2>3. \A c \in pre \cup post : c.id \in {clock + 1, clock + 2}
    <3>1. id = clock + 1 /\ id + 1 = clock + 2
      BY <1>a
    <3>2. QED
      BY <3>1 DEF create_pre_rebuild_checkpoint, decide_post_update_checkpoint, create_staging_checkpoint
  <2>4. mode = "rebuild" /\ ws.revision > 0 => \E c \in pre : c.payload = ws.payload
    BY DEF create_pre_rebuild_checkpoint, create_staging_checkpoint
  <2>5. /\ node' = [node EXCEPT !.pc = "prior", !.rows = pre \cup post,
                      !.surface = IF kept = {} THEN next ELSE [next EXCEPT !.checkpoint = row.id]]
        /\ UNCHANGED <<ws, checkpoints, snapshots>>
    BY <1>3 DEF ApplyBuild
  <2> HIDE DEF next, mode, id, pre, post, kept, row
  <2>6. /\ node'.pc = "prior" /\ node'.rows = pre \cup post /\ node'.snapshot = node.snapshot
        /\ node'.surface.revision = ws.revision + 1 /\ node'.surface.mode = mode
    BY <1>a, <2>1, <2>2, <2>5 DEF NodeType, SurfaceType
  <2>7. ws.revision \in Nat
    BY <1>a DEF SurfaceType
  <2>8. \A c \in node'.rows, k \in checkpoints' : c.id # k.id
    <3>1. \A k \in checkpoints : k.id <= clock /\ k.id \in Nat
      BY <1>a DEF Inv2, IInv, KnownIds, TypeOK, CheckpointType, Ids
    <3>2. \A c \in node'.rows : c.id \in {clock + 1, clock + 2}
      BY <2>3, <2>6
    <3>3. QED
      BY <1>a, <2>5, <3>1, <3>2
  <2>8a. \A c, d \in node'.rows : c.id = d.id => c = d
    <3>1. clock + 1 # clock + 2 /\ id = clock + 1 /\ id + 1 = clock + 2
      BY <1>a DEF id
    <3>2. \A c, d \in pre : c = d /\ c.id = clock + 1
      BY <3>1 DEF pre, create_pre_rebuild_checkpoint, create_staging_checkpoint
    <3>3. \A c, d \in post : c = d /\ c.id = clock + 2
      BY <3>1 DEF post, decide_post_update_checkpoint, create_staging_checkpoint
    <3>4. QED
      BY <2>6, <3>1, <3>2, <3>3
  <2>9. node'.surface.mode = "rebuild" => ws.payload \in Retained' \cup Brought'
    <3>1. CASE ws.revision = 0
      BY <3>1 DEF Inv2, Replaceable, Retained
    <3>2. CASE ws.revision > 0
      BY <2>4, <2>6, <3>2 DEF Brought
    <3>3. QED
      BY <2>7, <3>1, <3>2
  <2>10. Reviewed'
    BY <1>b, <2>5, <2>6 DEF Inv2, Reviewed, NoFailedReviewPublished
  <2>11. Replaceable'
    BY <1>b, <2>5, <2>6, <2>7, <2>8, <2>8a, <2>9 DEF Inv2, Replaceable, Retained
  <2>12. QED
    BY <2>10, <2>11
<1>4. CASE TakeSnapshot
  <2> DEFINE taken == [id |-> clock + 1, status |-> "review_ready",
                       payload |-> build_staging_snapshot_payload(draft, run),
                       prior |-> NewestId(snapshots)]
  <2>1. /\ node.pc = "prior" /\ node'.pc = "persist" /\ node'.surface = node.surface
        /\ node'.rows = node.rows /\ node'.snapshot \subseteq {taken}
        /\ UNCHANGED <<ws, checkpoints, snapshots>>
    BY <1>4, <1>a DEF TakeSnapshot, NodeType
  <2>2. taken.payload.verdict \in Verdicts
    <3>1. draft \in DraftType
      BY <2>1, DraftOf, DraftsAssumption DEF Inv2, IInv, RunsExist
    <3>2. QED
      BY <3>1 DEF build_staging_snapshot_payload, DraftType
  <2> HIDE DEF taken
  <2>3. QED
    BY <1>b, <2>1, <2>2 DEF Inv2, Reviewed, NoFailedReviewPublished, Replaceable, Retained, Brought
<1>5. CASE atomic_persist_staging_node_writes
  <2>1. /\ checkpoints' = InsertRows(checkpoints, node.rows)
        /\ snapshots' = InsertRows(snapshots, node.snapshot)
        /\ ws' = node.surface /\ node.pc = "persist"
    BY <1>5 DEF atomic_persist_staging_node_writes
  <2>2. /\ node'.surface \in {node.surface, NoSurface} /\ node'.rows \subseteq node.rows
        /\ node'.snapshot \subseteq node.snapshot
        /\ node'.pc = "persist" => node'.surface = node.surface
        /\ node'.pc \in {"idle", "persist"}
    BY <1>5, <1>a DEF atomic_persist_staging_node_writes, Answered, NodeIdle, NodeType
  <2>3. checkpoints \subseteq checkpoints' /\ checkpoints' \subseteq checkpoints \cup node.rows
          /\ snapshots' \subseteq snapshots \cup node.snapshot
    BY <2>1, InsertedRows
  <2>4. Reviewed'
    BY <1>b, <2>2, <2>3 DEF Inv2, Reviewed, NoFailedReviewPublished
  <2>5. Retained \subseteq Retained'
    BY <1>b, <2>3, RetainedGrows
  <2>6. \A c \in node'.rows, k \in checkpoints' \cup node'.rows : c.id = k.id => c.payload = k.payload
    BY <2>2, <2>3 DEF Inv2, Replaceable
  <2>7. ws'.revision > 0 /\ ws'.revision # 0
    BY <1>a, <2>1 DEF Inv2, Replaceable
  <2>8. Replaceable'
    BY <1>b, <2>1, <2>2, <2>5, <2>6, <2>7 DEF Inv2, Replaceable
  <2>9. QED
    BY <2>4, <2>8
<1>6. QED
  BY <1>1, <1>2, <1>3, <1>4, <1>5 DEF NodeNext

(* A request of operator o that writes no row.                             *)
LEMMA Read2 ==
  ASSUME Inv2, NEW o \in Operators, IInv',
         UNCHANGED <<ws, checkpoints, snapshots, publications, node>>,
         \A q \in Operators \ {o} : op'[q] = op[q],
         op'[o].pc = "write" /\ op'[o].kind = "publish"
           => op'[o].payload.verdict \notin {"fail", "blocked"},
         op'[o].surface.revision = 0 => op'[o].surface.payload = Blank,
         op'[o].pc = "write" /\ op'[o].kind \in Rollbacks => op'[o].surface.payload \in Retained,
         op'[o].pc = "read" /\ op'[o].kind \in {"rollback_to_checkpoint", "rollback_to_publication"}
           => op'[o].payload \in Retained
  PROVE  Reviewed' /\ Replaceable'
<1>1. Retained' = Retained /\ Brought' = Brought
  BY DEF Retained, Brought
<1>2. QED
  BY <1>1 DEF Inv2, Reviewed, NoFailedReviewPublished, Replaceable

LEMMA RequestRead2 ==
  ASSUME Inv2, IInv', NEW o \in Operators,
         OpenReview(o) \/ ReadSnapshot(o) \/ ListPublications(o) \/ OpenLive(o)
           \/ ReadSurface(o) \/ ReadNewest(o) \/ WriteFails(o)
  PROVE  Reviewed' /\ Replaceable'
<1> USE DEF tables, nodeVars, setting
<1>a. /\ op \in [Operators -> OpType] /\ op[o] \in OpType /\ ws \in SurfaceType
      /\ \A h : op' = [op EXCEPT ![o] = h] => op'[o] = h /\ \A q \in Operators \ {o} : op'[q] = op[q]
  BY DEF Inv2, IInv, TypeOK
<1>b. /\ OpIdle.pc = "idle" /\ OpIdle.surface.payload = Blank /\ OpIdle.kind = "approve"
  BY DEF OpIdle, NoSurface
<1>c. UNCHANGED <<ws, checkpoints, snapshots, publications, node>>
  BY DEF OpenReview, ReadSnapshot, ListPublications, OpenLive, ReadSurface, ReadNewest, WriteFails
<1>d. CASE Ends(o)
  BY <1>a, <1>b, <1>c, <1>d, Read2 DEF Ends
<1>1. CASE OpenReview(o)
  <2>1. PICK kind \in ReviewKinds, s \in snapshots :
          op' = [op EXCEPT ![o] = [OpIdle EXCEPT !.pc = "read", !.kind = kind, !.target = s.id]]
    BY <1>1 DEF OpenReview
  <2>2. op'[o].pc = "read" /\ op'[o].kind \in ReviewKinds /\ op'[o].surface = OpIdle.surface
          /\ \A q \in Operators \ {o} : op'[q] = op[q]
    BY <1>a, <2>1 DEF OpIdle
  <2>3. QED
    BY <1>b, <1>c, <2>2, Read2 DEF ReviewKinds
<1>2. CASE ReadSnapshot(o) /\ ~Ends(o)
  <2>1. \E h : /\ op' = [op EXCEPT ![o] = h] /\ h.surface = op[o].surface /\ h.kind = op[o].kind
               /\ h.kind \in ReviewKinds /\ (h.pc = "pubs" \/ (h.pc = "write" /\ h.kind = "approve"))
    <3>1. PICK s \in snapshots :
            LET held == [op[o] EXCEPT !.status = s.status, !.payload = s.payload]
            IN  op' = [op EXCEPT ![o] =
                CASE op[o].kind = "approve" ->
                       IF s.status = "review_ready" /\ s.payload.verdict \notin {"fail", "blocked"}
                       THEN [held EXCEPT !.pc = "write"] ELSE OpIdle
                  [] op[o].kind = "reject" ->
                       IF s.status # "rejected" THEN [held EXCEPT !.pc = "pubs"] ELSE OpIdle
                  [] OTHER -> [held EXCEPT !.pc = "pubs"]]
      BY <1>2 DEF ReadSnapshot
    <3> DEFINE h(pc) == [[op[o] EXCEPT !.status = s.status, !.payload = s.payload] EXCEPT !.pc = pc]
    <3>2. \/ op[o].kind = "approve" /\ op' = [op EXCEPT ![o] = h("write")]
          \/ op' = [op EXCEPT ![o] = h("pubs")]
      BY <1>2, <3>1 DEF Ends
    <3>3. \A pc : h(pc).pc = pc /\ h(pc).surface = op[o].surface /\ h(pc).kind = op[o].kind
      BY <1>a DEF OpType
    <3>4. op[o].kind \in ReviewKinds
      BY <1>2 DEF ReadSnapshot
    <3> HIDE DEF h
    <3>5. CASE op[o].kind = "approve" /\ op' = [op EXCEPT ![o] = h("write")]
      <4>1. h("write").pc = "write" /\ h("write").surface = op[o].surface /\ h("write").kind = op[o].kind
        BY <3>3
      <4>2. QED
        BY <3>4, <3>5, <4>1
    <3>6. CASE op' = [op EXCEPT ![o] = h("pubs")]
      <4>1. h("pubs").pc = "pubs" /\ h("pubs").surface = op[o].surface /\ h("pubs").kind = op[o].kind
        BY <3>3
      <4>2. QED
        BY <3>4, <3>6, <4>1
    <3>7. QED
      BY <3>2, <3>5, <3>6
  <2>2. QED
    BY <1>a, <1>c, <2>1, Read2 DEF Inv2, Replaceable, ReviewKinds, Rollbacks
<1>3. CASE ListPublications(o) /\ ~Ends(o)
  <2> DEFINE h == [op[o] EXCEPT !.pc = "write", !.source = op[o].target, !.id = clock + 1]
  <2>1. op' = [op EXCEPT ![o] = h] /\ Allowed(op[o]) /\ op[o].pc = "pubs"
    BY <1>3, <1>a DEF ListPublications, OpType
  <2>2. h.pc = "write" /\ h.kind = op[o].kind /\ h.surface = op[o].surface /\ h.payload = op[o].payload
    BY <1>a DEF OpType
  <2> HIDE DEF h
  <2>3. op[o].kind \in ReviewKinds
    BY <2>1 DEF Inv2, IInv, OpHeld
  <2>4. op[o].kind = "publish" => op[o].payload.verdict \notin {"fail", "blocked"}
    BY <2>1 DEF Allowed, validate_publication_eligibility
  <2>5. QED
    BY <1>a, <1>c, <2>1, <2>2, <2>3, <2>4, Read2 DEF Inv2, Replaceable, ReviewKinds, Rollbacks
<1>4. CASE OpenLive(o)
  <2>1. PICK kind \in LiveKinds :
          \E row \in CASE kind = "rollback_to_checkpoint"  -> checkpoints
                        [] kind = "rollback_to_publication" -> publications
                        [] OTHER -> {[id |-> None, payload |-> Blank]} :
             op' = [op EXCEPT ![o] = [OpIdle EXCEPT !.pc = "read", !.kind = kind,
                                      !.target = row.id, !.payload = row.payload]]
    BY <1>4 DEF OpenLive
  <2>2. PICK row : /\ op' = [op EXCEPT ![o] = [OpIdle EXCEPT !.pc = "read", !.kind = kind,
                                               !.target = row.id, !.payload = row.payload]]
                   /\ row \in checkpoints \cup publications \cup {[id |-> None, payload |-> Blank]}
    <3>1. CASE kind = "rollback_to_checkpoint"
      BY <2>1, <3>1
    <3>2. CASE kind = "rollback_to_publication"
      BY <2>1, <3>2
    <3>3. CASE kind \notin {"rollback_to_checkpoint", "rollback_to_publication"}
      BY <2>1, <3>3
    <3>4. QED
      BY <3>1, <3>2, <3>3
  <2>3. row.payload \in Retained
    BY <2>2 DEF Retained
  <2>4. op'[o].pc = "read" /\ op'[o].surface = OpIdle.surface /\ op'[o].payload = row.payload
          /\ \A q \in Operators \ {o} : op'[q] = op[q]
    BY <1>a, <2>2 DEF OpIdle
  <2>5. QED
    BY <1>b, <1>c, <2>3, <2>4, Read2
<1>5. CASE ReadSurface(o) /\ ~Ends(o)
  <2> DEFINE b == [op[o] EXCEPT !.pc = "write", !.surface = RolledBack(op[o], ws)]
             n == [op[o] EXCEPT !.pc = "newest", !.surface = ws]
  <2>1. \/ op[o].kind \in Rollbacks /\ op' = [op EXCEPT ![o] = b]
        \/ op' = [op EXCEPT ![o] = n]
    <3>1. op' = [op EXCEPT ![o] =
            CASE HasSurface /\ op[o].kind \in Rollbacks ->
                   [op[o] EXCEPT !.pc = "write", !.surface = RolledBack(op[o], ws)]
              [] HasSurface /\ ws.revision > 0
                   /\ (op[o].kind = "materialize"
                         \/ (op[o].kind = "approve_working_staging" /\ ws.status # "frozen")) ->
                   [op[o] EXCEPT !.pc = "newest", !.surface = ws]
              [] OTHER -> OpIdle]
      BY <1>5 DEF ReadSurface
    <3>2. CASE HasSurface /\ op[o].kind \in Rollbacks
      BY <3>1, <3>2 DEF Rollbacks
    <3>3. CASE ~(HasSurface /\ op[o].kind \in Rollbacks)
      BY <1>5, <3>1, <3>3 DEF Ends
    <3>4. QED
      BY <3>2, <3>3
  <2>2. CASE op[o].kind \in Rollbacks /\ op' = [op EXCEPT ![o] = b]
    <3>1. b.pc = "write" /\ b.kind = op[o].kind /\ b.surface = RolledBack(op[o], ws)
      BY <1>a DEF OpType
    <3> HIDE DEF b
    <3>2. op[o].pc = "read"
      BY <1>5 DEF ReadSurface
    <3>3. RolledBack(op[o], ws).revision = ws.revision + 1 /\ ws.revision + 1 # 0
            /\ RolledBack(op[o], ws).payload = IF op[o].kind = "fresh_rebuild" THEN Blank ELSE op[o].payload
      BY <1>a, <2>2 DEF RolledBack, rollback_to_checkpoint, rollback_to_publication, fresh_rebuild,
         SurfaceType, Rollbacks
    <3>4. RolledBack(op[o], ws).payload \in Retained
      BY <2>2, <3>2, <3>3 DEF Inv2, Replaceable, Retained, Rollbacks
    <3>5. QED
      BY <1>a, <1>c, <2>2, <3>1, <3>3, <3>4, Read2 DEF Rollbacks
  <2>3. CASE op' = [op EXCEPT ![o] = n]
    <3>1. n.pc = "newest" /\ n.surface = ws
      BY <1>a DEF OpType
    <3> HIDE DEF n
    <3>2. QED
      BY <1>a, <1>c, <2>3, <3>1, Read2 DEF Inv2, Replaceable
  <2>4. QED
    BY <2>1, <2>2, <2>3
<1>6. CASE ReadNewest(o) /\ ~Ends(o)
  <2> DEFINE h == [op[o] EXCEPT !.pc = "write", !.source = NewestId(snapshots), !.id = clock + 1]
  <2>1. op' = [op EXCEPT ![o] = h] /\ op[o].pc = "newest"
    BY <1>6, <1>a DEF ReadNewest, OpType
  <2>2. h.pc = "write" /\ h.kind = op[o].kind /\ h.surface = op[o].surface
    BY <1>a DEF OpType
  <2> HIDE DEF h
  <2>3. op[o].kind \in {"approve_working_staging", "materialize"}
    BY <2>1 DEF Inv2, IInv, OpHeld
  <2>4. QED
    BY <1>a, <1>c, <2>1, <2>2, <2>3, Read2 DEF Inv2, Replaceable, Rollbacks
<1>7. CASE WriteFails(o)
  BY <1>7, <1>d DEF WriteFails
<1>8. QED
  BY <1>1, <1>2, <1>3, <1>4, <1>5, <1>6, <1>7, <1>d

(* After a write the requests hold what they held.                         *)
LEMMA Write2 ==
  ASSUME Inv2, NEW o \in Operators, Answers(o),
         checkpoints \subseteq checkpoints', publications \subseteq publications'
  PROVE  \A q \in Operators :
           /\ op'[q].pc = "write" /\ op'[q].kind = "publish"
                => op'[q].payload.verdict \notin {"fail", "blocked"}
           /\ op'[q].surface.revision = 0 => op'[q].surface.payload = Blank
           /\ op'[q].pc = "write" /\ op'[q].kind \in Rollbacks => op'[q].surface.payload \in Retained'
           /\ op'[q].pc = "read" /\ op'[q].kind \in {"rollback_to_checkpoint", "rollback_to_publication"}
                => op'[q].payload \in Retained'
<1>1. OpIdle.pc = "idle" /\ OpIdle.surface.payload = Blank
  BY DEF OpIdle, NoSurface
<1>2. Retained \subseteq Retained'
  BY RetainedGrows
<1>3. QED
  BY <1>1, <1>2 DEF Inv2, Reviewed, Replaceable, Answers

LEMMA RequestWrite2 ==
  ASSUME Inv2, IInv', NEW o \in Operators,
         update_staging_snapshot_status(o) \/ save_publication_snapshot(o)
           \/ save_working_staging(o) \/ save_staging_snapshot(o)
           \/ atomic_commit_working_staging_approval(o)
  PROVE  Reviewed' /\ Replaceable'
<1> USE DEF tables, nodeVars, setting
<1>a. IInv /\ op[o] \in OpType /\ op[o].surface \in SurfaceType
  BY DEF Inv2, IInv, TypeOK, OpType
<1>b. UNCHANGED <<node, builds, clock>> /\ op[o].pc = "write"
  BY DEF update_staging_snapshot_status, save_publication_snapshot, save_working_staging,
     save_staging_snapshot, atomic_commit_working_staging_approval
<1>c. Answers(o)
  <2>1. PICK next \in Answered(op[o], OpIdle) : op' = [op EXCEPT ![o] = next]
    BY DEF update_staging_snapshot_status, save_publication_snapshot, save_working_staging,
       save_staging_snapshot, atomic_commit_working_staging_approval
  <2>2. TypeOK'
    BY DEF IInv
  <2>3. QED
    BY <1>a, <2>1, <2>2, AfterWrite
<1>d. ASSUME UNCHANGED <<ws, checkpoints>>, publications \subseteq publications'
      PROVE  Replaceable'
  <2>1. Retained \subseteq Retained' /\ Brought' = Brought
    BY <1>b, <1>d, RetainedGrows DEF Brought
  <2>2. QED
    BY <1>b, <1>c, <1>d, <2>1, Write2 DEF Inv2, Replaceable
<1>1. CASE update_staging_snapshot_status(o)
  <2>1. UNCHANGED <<ws, checkpoints, publications>>
    BY <1>1 DEF update_staging_snapshot_status
  <2>2. \A t \in snapshots' : \E s \in snapshots : t.payload = s.payload
    <3> DEFINE new(s) == IF s.id = op[o].target THEN [s EXCEPT !.status = NewStatus(op[o].kind)] ELSE s
    <3>1. snapshots' = {new(s) : s \in snapshots}
      BY <1>1 DEF update_staging_snapshot_status
    <3>2. \A s \in snapshots : new(s).payload = s.payload
      BY <1>a DEF IInv, TypeOK, SnapshotType
    <3> HIDE DEF new
    <3>3. QED
      BY <3>1, <3>2
  <2>3. Reviewed'
    BY <1>b, <1>c, <2>1, <2>2, Write2 DEF Inv2, Reviewed, NoFailedReviewPublished
  <2>4. QED
    BY <1>d, <2>1, <2>3
<1>2. CASE save_publication_snapshot(o)
  <2> DEFINE pub == [id |-> op[o].id, payload |-> op[o].payload, source |-> op[o].source, path |-> "review"]
  <2>1. UNCHANGED <<ws, checkpoints, snapshots>> /\ publications' = InsertRows(publications, {pub})
          /\ op[o].kind = "publish"
    BY <1>2 DEF save_publication_snapshot
  <2>2. pub.payload = op[o].payload
    OBVIOUS
  <2> HIDE DEF pub
  <2>3. publications \subseteq publications' /\ publications' \subseteq publications \cup {pub}
    BY <2>1, InsertedRows
  <2>4. pub.payload.verdict \in {"pass", "partial"}
    <3>1. \E s \in snapshots : s.payload = op[o].payload
      BY <1>a, <1>b, <2>1 DEF IInv, OpHeld
    <3>2. op[o].payload.verdict \in Verdicts /\ op[o].payload.verdict \notin {"fail", "blocked"}
      BY <1>b, <2>1, <3>1 DEF Inv2, Reviewed
    <3>3. QED
      BY <2>2, <3>2 DEF Verdicts
  <2>5. Reviewed'
    BY <1>b, <1>c, <2>1, <2>3, <2>4, Write2 DEF Inv2, Reviewed, NoFailedReviewPublished
  <2>6. QED
    BY <1>d, <2>1, <2>3, <2>5
<1>3. CASE save_working_staging(o)
  <2>1. UNCHANGED <<checkpoints, snapshots, publications>> /\ ws' = op[o].surface
          /\ op[o].kind \in Rollbacks
    BY <1>3 DEF save_working_staging
  <2>2. ws'.payload \in Retained' /\ (ws'.revision = 0 => ws'.payload = Blank)
    BY <1>b, <2>1 DEF Inv2, Replaceable, Retained
  <2>3. Reviewed'
    BY <1>b, <1>c, <2>1, Write2 DEF Inv2, Reviewed, NoFailedReviewPublished
  <2>4. Replaceable'
    BY <1>b, <1>c, <2>1, <2>2, Write2 DEF Inv2, Replaceable
  <2>5. QED
    BY <2>3, <2>4
<1>4. CASE save_staging_snapshot(o)
  <2> DEFINE row == [id |-> op[o].id, status |-> "review_ready", prior |-> op[o].source,
                     payload |-> MaterializedPayload(op[o].surface.run)]
  <2>1. UNCHANGED <<ws, checkpoints, publications>> /\ snapshots' = InsertRows(snapshots, {row})
          /\ op[o].kind = "materialize"
    BY <1>4 DEF save_staging_snapshot
  <2>2. row.payload = MaterializedPayload(op[o].surface.run)
    OBVIOUS
  <2> HIDE DEF row
  <2>3. snapshots' \subseteq snapshots \cup {row}
    BY <2>1, InsertedRows
  <2>4. row.payload.verdict \in Verdicts
    <3>1. op[o].surface.run \in 1..run /\ run = Len(builds) /\ builds \in Seq(Drafts)
      BY <1>a, <1>b, <2>1 DEF IInv, RunsExist, TypeOK, SurfaceType, run
    <3>2. builds[op[o].surface.run] \in DraftType
      BY <3>1, DraftsAssumption
    <3>3. QED
      BY <2>2, <3>2 DEF MaterializedPayload, build_staging_snapshot_payload, DraftType
  <2>5. Reviewed'
    BY <1>b, <1>c, <2>1, <2>3, <2>4, Write2 DEF Inv2, Reviewed, NoFailedReviewPublished
  <2>6. QED
    BY <1>d, <2>1, <2>5
<1>5. CASE atomic_commit_working_staging_approval(o)
  <2> DEFINE cp  == create_staging_checkpoint(op[o].surface, op[o].id)
             pub == [id |-> op[o].id, payload |-> op[o].surface.payload, source |-> op[o].source,
                     path |-> "live"]
  <2>1. /\ op[o].kind = "approve_working_staging" /\ UNCHANGED snapshots
        /\ checkpoints' = InsertRows(checkpoints, {cp})
        /\ publications' = InsertRows(publications, {pub})
        /\ ws' = [op[o].surface EXCEPT !.status = "frozen", !.checkpoint = cp.id]
    BY <1>5 DEF atomic_commit_working_staging_approval
  <2>2. cp.id = op[o].id /\ cp.payload = op[o].surface.payload /\ pub.path = "live"
    BY DEF create_staging_checkpoint
  <2> HIDE DEF cp, pub
  <2>3. ws'.revision = op[o].surface.revision /\ ws'.payload = op[o].surface.payload
    BY <1>a, <2>1 DEF SurfaceType
  <2>4. checkpoints \subseteq checkpoints' /\ checkpoints' \subseteq checkpoints \cup {cp}
    BY <2>1, InsertedRows
  <2>5. publications \subseteq publications' /\ publications' \subseteq publications \cup {pub}
    BY <2>1, InsertedRows
  <2>6. \E c \in checkpoints' : c.payload = op[o].surface.payload
    <3>1. CASE cp \in checkpoints'
      BY <2>2, <3>1
    <3>2. CASE cp \notin checkpoints'
      <4>1. PICK c \in checkpoints : c.id = cp.id
        BY <2>1, <3>2 DEF InsertRows
      <4>2. c.payload = op[o].surface.payload
        BY <1>a, <1>b, <2>1, <2>2, <4>1 DEF IInv, SameRow
      <4>3. QED
        BY <2>4, <4>2
    <3>3. QED
      BY <3>1, <3>2
  <2>7. \A c \in node'.rows, k \in checkpoints' \cup node'.rows : c.id = k.id => c.payload = k.payload
    <3>1. \A c \in node.rows : c.id # cp.id
      BY <1>a, <1>b, <2>1, <2>2 DEF IInv, KnownIds, Inserts
    <3>2. QED
      BY <1>b, <2>4, <3>1 DEF Inv2, Replaceable
  <2>8. Reviewed'
    BY <1>b, <1>c, <2>1, <2>2, <2>4, <2>5, Write2 DEF Inv2, Reviewed, NoFailedReviewPublished
  <2>9. ws'.payload \in Retained' /\ (ws'.revision = 0 => ws'.payload = Blank)
    BY <2>3, <2>6 DEF Inv2, Replaceable, Retained
  <2>10. Replaceable'
    BY <1>b, <1>c, <2>4, <2>5, <2>7, <2>9, Write2 DEF Inv2, Replaceable
  <2>11. QED
    BY <2>8, <2>10
<1>6. QED
  BY <1>1, <1>2, <1>3, <1>4, <1>5

LEMMA Next2 == Inv2 /\ [Next]_vars => Inv2'
<1> SUFFICES ASSUME Inv2, [Next]_vars PROVE Inv2'
  OBVIOUS
<1>1. IInv'
  BY NextInv DEF Inv2
<1>2. CASE NodeNext
  BY <1>1, <1>2, NodeStep2 DEF Inv2
<1>3. CASE \E o \in Operators : RequestNext(o)
  <2>1. PICK o \in Operators : RequestNext(o)
    BY <1>3
  <2>2. CASE OpenReview(o) \/ ReadSnapshot(o) \/ ListPublications(o) \/ OpenLive(o)
               \/ ReadSurface(o) \/ ReadNewest(o) \/ WriteFails(o)
    BY <1>1, <2>2, RequestRead2 DEF Inv2
  <2>3. CASE update_staging_snapshot_status(o) \/ save_publication_snapshot(o)
               \/ save_working_staging(o) \/ save_staging_snapshot(o)
               \/ atomic_commit_working_staging_approval(o)
    BY <1>1, <2>3, RequestWrite2 DEF Inv2
  <2>4. QED
    BY <2>1, <2>2, <2>3 DEF RequestNext
<1>4. CASE UNCHANGED vars
  BY <1>1, <1>4 DEF Inv2, Reviewed, NoFailedReviewPublished, Replaceable, Retained, Brought, vars
<1>5. QED
  BY <1>2, <1>3, <1>4 DEF Next

(* A review publishes nothing that has failed (publication/eligibility.py, *)
(* validate_publication_eligibility), however the requests interleave.     *)
THEOREM NoFailedReviewEverPublished == Spec => []NoFailedReviewPublished
<1>1. Inv2 => NoFailedReviewPublished
  BY DEF Inv2, Reviewed
<1>2. QED
  BY <1>1, Init2, Next2, PTL DEF Spec

(* A rebuild of the staging node destroys nothing that is not kept in a    *)
(* checkpoint or a publication (staging_node, its checkpoint before a      *)
(* rebuild and the transaction that writes both).                          *)
THEOREM RebuildsLoseNothing == Spec => RebuildLosesNothing
<1> DEFINE Kept == node.pc = "persist" /\ node.surface.mode = "rebuild" /\ node' # node /\ ws' # ws
                     => ws.payload \in Retained'
<1>1. Inv2 /\ [Next]_vars => [Kept]_vars
  <2> SUFFICES ASSUME Inv2, [Next]_vars, node.pc = "persist", node.surface.mode = "rebuild",
                      node' # node, ws' # ws
               PROVE  ws.payload \in Retained'
    OBVIOUS
  <2>1. NodeNext
    BY DEF Next, RequestNext, vars, nodeVars, OpenReview, ReadSnapshot, ListPublications, OpenLive,
       ReadSurface, ReadNewest, WriteFails, update_staging_snapshot_status,
       save_publication_snapshot, save_working_staging, save_staging_snapshot,
       atomic_commit_working_staging_approval
  <2>2. atomic_persist_staging_node_writes
    BY <2>1 DEF NodeNext, StartRun, ReadForClear, clear_working_staging_surface,
       StagingIntegrityFailed, RevisionSummaryInvalid, ApplyBuild, TakeSnapshot, PersistFails, tables
  <2>3. /\ checkpoints' = InsertRows(checkpoints, node.rows) /\ ws' = node.surface
        /\ UNCHANGED publications
    BY <2>2 DEF atomic_persist_staging_node_writes
  <2>4. ws.payload \in Retained \cup Brought
    BY <2>3 DEF Inv2, Replaceable
  <2>5. Retained \subseteq Retained'
    BY <2>3, InsertedRows, RetainedGrows
  <2>6. ASSUME NEW c \in node.rows PROVE c.payload \in Retained'
    <3>1. CASE c \in checkpoints'
      BY <3>1 DEF Retained
    <3>2. CASE c \notin checkpoints'
      <4>1. PICK k \in checkpoints : k.id = c.id
        BY <2>3, <3>2 DEF InsertRows
      <4>2. k.payload = c.payload /\ k.payload \in Retained
        BY <4>1 DEF Inv2, Replaceable, Retained
      <4>3. QED
        BY <2>5, <4>2
    <3>3. QED
      BY <3>1, <3>2
  <2>7. QED
    BY <2>4, <2>5, <2>6 DEF Brought
<1>2. QED
  BY <1>1, Init2, Next2, PTL DEF Spec, RebuildLosesNothing
=============================================================================
