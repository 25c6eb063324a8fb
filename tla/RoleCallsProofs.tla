-------------------------- MODULE RoleCallsProofs ---------------------------
(***************************************************************************)
(* Proofs about RoleCalls for every set of files and answers and every     *)
(* bound on attempts, iterations, resumes and calls.                       *)
(***************************************************************************)
EXTENDS RoleCalls, WellFoundedInduction, SequenceTheorems, TLAPS

CallFields == {"id", "attempt", "status", "object", "fits", "writer", "claim", "hashed",
               "bundle"}

(* Ids are counted, and no row is older than its call.                     *)
Counted ==
  /\ calls \in Nat /\ call.id \in 0 .. calls
  /\ DOMAIN rows \subseteq 1 .. calls
  /\ DOMAIN call = CallFields /\ DOMAIN held = {"spec", "candidate"}
  /\ at \in [role : Roles, stage : Stages] \cup {Idle("over"), Idle("down")}

(* What the thread knows of the call, by the stage it is in: there is none *)
(* yet; it has no row; it has a completed row; it has its record.          *)
CallAt ==
  /\ at.stage \in {"enter", "invoke", "decide", "over", "down"} => call = NoCall
  /\ at.stage \in {"wait", "took", "bundle"} =>
       call.id # 0 /\ call.id \notin DOMAIN rows
  /\ at.stage = "wait" => call.bundle = {}
  /\ at.stage \in {"rescue", "final", "record"} => CompletedCall(call.id, at.role)
  /\ at.stage = "checkpoint" => call.id \in Record(at.role)

(* What the graph state refers to was saved by a node before.              *)
HeldAt ==
  /\ at.role \in {"generator", "evaluator"} \/ At("planner", "checkpoint") =>
       held.spec \in Record("planner")
  /\ at.role = "evaluator" \/ At("generator", "checkpoint") =>
       held.candidate \in Record("generator")

(* Only a bundle whose hashes fit is taken.                                *)
BundleAt == call.hashed => \A p \in call.bundle : p[2] = call.writer

IInv == Counted /\ CallAt /\ HeldAt /\ BundleAt /\ RecordsHaveTheirRows /\ HashedBundleIsWhole

LEMMA RecordIs ==
  /\ Record("planner")   = {s.call : s \in specs}
  /\ Record("generator") = {c.call : c \in candidates}
  /\ Record("evaluator") = {r.call : r \in reports}
BY DEF Record

LEMMA RecordIsNext ==
  /\ Record("planner")'   = {s.call : s \in specs'}
  /\ Record("generator")' = {c.call : c \in candidates'}
  /\ Record("evaluator")' = {r.call : r \in reports'}
BY DEF Record

(* Rows are never changed nor removed.                                     *)
Grows ==
  /\ DOMAIN rows \subseteq DOMAIN rows' /\ \A id \in DOMAIN rows : rows'[id] = rows[id]
  /\ specs \subseteq specs' /\ candidates \subseteq candidates' /\ reports \subseteq reports'

LEMMA Kept ==
  ASSUME Grows
  PROVE  /\ \A id, role : CompletedCall(id, role) => CompletedCall(id, role)'
         /\ \A role \in Roles : Record(role) \subseteq Record(role)'
<1>1. \A role \in Roles : Record(role) \subseteq Record(role)'
  BY RecordIs DEF Grows, Roles, Record
<1>2. QED
  BY <1>1 DEF Grows, CompletedCall

LEMMA Start == Init => IInv
BY DEF Init, IInv, Counted, CallAt, HeldAt, BundleAt, RecordsHaveTheirRows, HashedBundleIsWhole,
   NoCall, NothingHeld, CallFields, At, Record, Roles, Stages

(* The shape of at, and what its roles and stages tell.                    *)
LEMMA Places ==
  /\ \A role, stage : At(role, stage) => at.role = role /\ at.stage = stage
  /\ \A role, stage : Go(role, stage) => at'.role = role /\ at'.stage = stage
  /\ \A why : Idle(why).role \notin Roles /\ Idle(why).stage = why
BY DEF At, Go, Idle, Roles, None

(* Where no table and nothing held changes, and the call has no more than  *)
(* before, the stage decides.                                              *)
LEMMA TablesKept ==
  ASSUME IInv, UNCHANGED tables
  PROVE  /\ Grows /\ RecordsHaveTheirRows' /\ HashedBundleIsWhole'
         /\ \A id, role : CompletedCall(id, role)' <=> CompletedCall(id, role)
         /\ \A role : Record(role)' = Record(role)
BY DEF IInv, tables, Grows, RecordsHaveTheirRows, HashedBundleIsWhole, CompletedCall, Record

LEMMA BeforeCallStep ==
  ASSUME IInv, BeforeCall
  PROVE  IInv'
<1> USE DEF Counted, CallAt, HeldAt, BundleAt
<1>1. ASSUME NEW role \in Roles, EnterNode(role)
      PROVE  IInv'
  BY <1>1, TablesKept, Places DEF EnterNode, IInv, At, Go, Roles, Stages, tables
<1>2. ASSUME NEW role \in Roles, RefusedBeforeCall(role)
      PROVE  IInv'
  BY <1>2, TablesKept, Places
  DEF RefusedBeforeCall, raise_RoleInvocationFailed, IInv, At, Idle, NoCall, NothingHeld, CallFields,
      Roles, Stages, tables, None
<1>3. QED
  BY <1>1, <1>2 DEF BeforeCall, EnterPlanner, EnterGenerator, EnterEvaluator, PlannerRefused,
     GeneratorRefused, EvaluatorRefused, Roles

LEMMA InvokeStep ==
  ASSUME IInv, (\E role \in Roles : invoke(role)) \/ SkipEvaluation
  PROVE  IInv'
<1> USE DEF Counted, CallAt, HeldAt, BundleAt
<1>1. ASSUME NEW role \in Roles, invoke(role)
      PROVE  IInv'
  <2>1. /\ call'.id = calls + 1 /\ call'.bundle = {} /\ call'.hashed = FALSE
        /\ DOMAIN call' = CallFields
        /\ Go(role, "took") \/ Go(role, "wait")
    BY <1>1 DEF invoke, NewCall, NoCall, CallFields
  <2>2. /\ At(role, "invoke") /\ calls' = calls + 1
        /\ UNCHANGED held /\ UNCHANGED tables
    BY <1>1 DEF invoke
  <2>3. calls' \in Nat /\ calls' # 0 /\ call'.id \in 0 .. calls' /\ call'.id \notin DOMAIN rows
        /\ DOMAIN rows \subseteq 1 .. calls'
    BY <2>1, <2>2 DEF IInv
  <2>4. QED
    BY <2>1, <2>2, <2>3, TablesKept, Places DEF IInv, At, Go, Roles, Stages, tables
<1>2. CASE SkipEvaluation
  BY <1>2, TablesKept, Places
  DEF SkipEvaluation, NewCall, NoCall, CallFields, IInv, At, Go, Roles, Stages, tables
<1>3. QED
  BY <1>1, <1>2

LEMMA GatewayStep ==
  ASSUME IInv, AnyAttemptFails \/ Gateway
  PROVE  IInv'
<1> USE DEF Counted, CallAt, HeldAt, BundleAt
<1>1. ASSUME NEW goesOn \in BOOLEAN, AttemptFails(goesOn)
      PROVE  IInv'
  BY <1>1, TablesKept, Places
  DEF AttemptFails, CallEnds, CallFields, IInv, At, Go, Roles, Stages, tables
<1>2. ASSUME NEW e \in gateway, NEW f \in Files, GatewayWrites(e, f)
      PROVE  IInv'
  BY <1>2, TablesKept, Places
  DEF GatewayWrites, thread, IInv, At, Roles, Stages, tables
<1>3. ASSUME NEW e \in gateway, NEW a, GatewayAnswers(e, a)
      PROVE  IInv'
  BY <1>3, TablesKept, Places
  DEF GatewayAnswers, Waits, CallFields, IInv, At, Go, Roles, Stages, tables
<1>4. ASSUME NEW e \in gateway, GatewayRefuses(e)
      PROVE  IInv'
  BY <1>4, TablesKept, Places
  DEF GatewayRefuses, Waits, CallEnds, CallFields, IInv, At, Go, Roles, Stages, tables
<1>5. QED
  BY <1>1, <1>2, <1>3, <1>4 DEF AnyAttemptFails, Gateway

(* A row is saved for a call that has none; the row of a call that has one *)
(* stays.                                                                  *)
LEMMA RowSaved ==
  ASSUME IInv, call.id # 0, NEW row, save_role_invocation(row),
         UNCHANGED <<calls, call, specs, candidates, reports, checkpoints>>
  PROVE  /\ Grows /\ RecordsHaveTheirRows' /\ HashedBundleIsWhole'
         /\ DOMAIN rows' \subseteq 1 .. calls'
         /\ call.id \notin DOMAIN rows => call.id \in DOMAIN rows' /\ rows'[call.id] = row
         /\ \A role : Record(role)' = Record(role)
<1>1. Grows
  BY DEF save_role_invocation, Grows
<1>2. \A role : Record(role)' = Record(role)
  BY DEF Record
<1>3. RecordsHaveTheirRows'
  BY <1>1, <1>2, Kept DEF IInv, RecordsHaveTheirRows
<1>4. DOMAIN rows' \subseteq 1 .. calls'
  BY DEF IInv, Counted, save_role_invocation
<1>5. call.id \notin DOMAIN rows => call.id \in DOMAIN rows' /\ rows'[call.id] = row
  BY DEF save_role_invocation
<1>6. HashedBundleIsWhole'
  BY DEF IInv, HashedBundleIsWhole
<1>7. QED
  BY <1>1, <1>2, <1>3, <1>4, <1>5, <1>6

(* A failure saves the row and ends the run.                               *)
LEMMA Fails ==
  ASSUME IInv, persist_invocation_failure, call.id # 0
  PROVE  IInv'
<1>1. /\ save_role_invocation(Row("failed", "wire"))
      /\ at' = Idle("over") /\ call' = NoCall /\ held' = NothingHeld
      /\ UNCHANGED <<calls, specs, candidates, reports, checkpoints>>
  BY DEF persist_invocation_failure, raise_RoleInvocationFailed
<1>2. Grows /\ (\A role : Record(role)' = Record(role)) /\ HashedBundleIsWhole'
  BY <1>1 DEF save_role_invocation, Grows, Record, IInv, HashedBundleIsWhole
<1>3. RecordsHaveTheirRows'
  BY <1>1, <1>2, Kept DEF IInv, RecordsHaveTheirRows
<1>4. DOMAIN rows' \subseteq 1 .. calls'
  BY <1>1 DEF IInv, Counted, save_role_invocation
<1>5. QED
  BY <1>1, <1>2, <1>3, <1>4
  DEF IInv, Counted, CallAt, HeldAt, BundleAt, At, Idle, NoCall, NothingHeld, CallFields, Roles, None

LEMMA FailureStep ==
  ASSUME IInv,
         \/ \E role \in Roles : CallFailed(role)
         \/ PlannerRejected \/ ManifestMissing \/ IngestFails \/ GeneratorRejected
  PROVE  IInv' /\ persist_invocation_failure
<1>1. persist_invocation_failure
  BY DEF CallFailed, PlannerRejected, ManifestMissing, IngestFails, GeneratorRejected
<1>2. at.stage \in {"took", "bundle"}
  BY Places DEF CallFailed, PlannerRejected, ManifestMissing, IngestFails, GeneratorRejected, Took
<1>3. call.id # 0
  BY <1>2 DEF IInv, CallAt
<1>4. QED
  BY <1>1, <1>3, Fails

LEMMA IngestStep ==
  ASSUME IInv, ingest_workspace_manifest \/ NothingToIngest
  PROVE  IInv'
<1> USE DEF Counted, CallAt, HeldAt, BundleAt
<1>1. CASE ingest_workspace_manifest
  <2>1. /\ call'.id = call.id /\ call'.hashed = call.hashed /\ call'.writer = call.writer
        /\ call'.bundle = {<<f, disk[f]>> : f \in call.claim}
        /\ DOMAIN call' = CallFields
    BY <1>1 DEF ingest_workspace_manifest, IInv, CallFields
  <2>2. call.hashed => \A f \in call.claim : disk[f] = call.writer
    BY <1>1 DEF ingest_workspace_manifest, Ingestible
  <2>3. call'.hashed => \A q \in call'.bundle : q[2] = call'.writer
    BY <2>1, <2>2
  <2>4. /\ At("generator", "took") /\ Go("generator", "bundle")
        /\ UNCHANGED <<calls, held>> /\ UNCHANGED tables
    BY <1>1 DEF ingest_workspace_manifest, Took, OnlyAt
  <2>5. QED
    BY <2>1, <2>3, <2>4, TablesKept, Places DEF IInv, At, Go, Roles, Stages, tables
<1>2. CASE NothingToIngest
  BY <1>2, TablesKept, Places
  DEF NothingToIngest, Took, OnlyAt, IInv, At, Go, Roles, Stages, tables
<1>3. QED
  BY <1>1, <1>2

(* A completed row is saved, and the thread goes on.                       *)
Saves(shape, stage) ==
  /\ save_role_invocation(Row("completed", shape))
  /\ Go(at.role, stage)
  /\ UNCHANGED <<held, calls, call, specs, candidates, reports, checkpoints>>
  /\ at.role \in Roles
  /\ at.stage \in {"took", "bundle", "rescue", "final"}

LEMMA RowStep ==
  ASSUME IInv,
         SavePlannerRow \/ SaveGeneratorRow \/ SaveRescue \/ SaveNormalized \/ SaveEvaluatorRow
  PROVE  IInv'
<1>1. PICK shape \in {"wire", "rescue", "final"}, stage \in {"rescue", "final", "record"} :
          Saves(shape, stage)
  <2>1. CASE SavePlannerRow
    <3>1. Saves("final", "record")
      BY <2>1, Places DEF SavePlannerRow, OnlyAt, Took, Saves, Roles
    <3>2. QED
      BY <3>1
  <2>2. CASE SaveGeneratorRow
    <3> DEFINE stage0 == IF Normalized.rescued THEN "rescue" ELSE "final"
    <3>1. Saves("wire", stage0)
      BY <2>2, Places DEF SaveGeneratorRow, OnlyAt, Saves, Roles
    <3>2. stage0 \in {"rescue", "final", "record"}
      OBVIOUS
    <3> HIDE DEF stage0
    <3>3. QED
      BY <3>1, <3>2
  <2>3. CASE SaveRescue
    <3>1. Saves("rescue", "final")
      BY <2>3, Places DEF SaveRescue, OnlyAt, Saves, Roles
    <3>2. QED
      BY <3>1
  <2>4. CASE SaveNormalized
    <3>1. Saves("final", "record")
      BY <2>4, Places DEF SaveNormalized, OnlyAt, Saves, Roles
    <3>2. QED
      BY <3>1
  <2>5. CASE SaveEvaluatorRow
    <3>1. Saves("final", "record")
      BY <2>5, Places DEF SaveEvaluatorRow, OnlyAt, Took, Saves, Roles
    <3>2. QED
      BY <3>1
  <2>6. QED
    BY <2>1, <2>2, <2>3, <2>4, <2>5
<1>2. call.id # 0
  BY <1>1 DEF Saves, IInv, CallAt, Counted, CompletedCall
<1>3. /\ Grows /\ RecordsHaveTheirRows' /\ HashedBundleIsWhole'
      /\ DOMAIN rows' \subseteq 1 .. calls'
      /\ call.id \notin DOMAIN rows =>
           call.id \in DOMAIN rows' /\ rows'[call.id] = Row("completed", shape)
      /\ \A role : Record(role)' = Record(role)
  BY <1>1, <1>2, RowSaved DEF Saves
<1>4. CompletedCall(call.id, at.role)'
  <2>1. CASE at.stage \in {"took", "bundle"}
    BY <1>1, <1>3, <2>1, Places DEF Saves, IInv, CallAt, CompletedCall, Row
  <2>2. CASE at.stage \in {"rescue", "final"}
    BY <1>1, <1>3, <2>2, Kept, Places DEF Saves, IInv, CallAt, CompletedCall, Grows
  <2>3. QED
    BY <1>1, <2>1, <2>2 DEF Saves
<1>5. QED
  BY <1>1, <1>3, <1>4, Places
  DEF Saves, IInv, Counted, CallAt, HeldAt, BundleAt, At, Go, Roles, Stages

(* What a node saves after its row.                                        *)
LEMMA RecordStep ==
  ASSUME IInv, save_build_spec \/ save_build_candidate \/ save_evaluation_report
  PROVE  IInv'
<1>1. /\ UNCHANGED <<rows, calls, call, checkpoints>>
      /\ specs \subseteq specs' /\ candidates \subseteq candidates' /\ reports \subseteq reports'
  BY DEF save_build_spec, save_build_candidate, save_evaluation_report, OnlyAt
<1>2. Grows
  BY <1>1 DEF Grows
<1>3. CASE save_build_spec
  <2> DEFINE spec == [call |-> call.id]
  <2>0. spec.call = call.id
    OBVIOUS
  <2>1. /\ At("planner", "record") /\ Go("planner", "checkpoint")
        /\ specs' = specs \cup {spec} /\ UNCHANGED <<candidates, reports>>
    BY <1>3 DEF save_build_spec
  <2> HIDE DEF spec
  <2>2. Record("planner")' = Record("planner") \cup {call.id}
    BY <2>0, <2>1, RecordIs, RecordIsNext
  <2>3. Record("generator")' = Record("generator") /\ Record("evaluator")' = Record("evaluator")
    BY <2>1, RecordIs, RecordIsNext
  <2>4. CompletedCall(call.id, "planner")
    BY <2>1, Places DEF IInv, CallAt
  <2>5. RecordsHaveTheirRows'
    <3>1. \A role \in Roles : \A id \in Record(role)' : CompletedCall(id, role)'
      BY <1>2, <2>2, <2>3, <2>4, Kept DEF IInv, RecordsHaveTheirRows, Roles
    <3>2. \A c \in candidates' : c.spec \in Record("planner")'
      BY <2>1, <2>2 DEF IInv, RecordsHaveTheirRows
    <3>3. \A r \in reports' : r.candidate \in Record("generator")'
      BY <2>1, <2>3 DEF IInv, RecordsHaveTheirRows
    <3>4. \A k \in checkpoints' : k.call \in Record(k.role)'
      <4>1. \A k \in checkpoints : k.call \in Record(k.role)
        BY DEF IInv, RecordsHaveTheirRows
      <4>2. \A role : Record(role) \subseteq Record(role)'
        BY <1>2 DEF Grows, Record
      <4>3. QED
        BY <1>1, <4>1, <4>2
    <3>5. QED
      BY <3>1, <3>2, <3>3, <3>4 DEF RecordsHaveTheirRows
  <2>6. held'.spec = call.id /\ DOMAIN held' = {"spec", "candidate"}
    BY <1>3 DEF save_build_spec, IInv, Counted
  <2>7. HashedBundleIsWhole'
    BY <2>1 DEF IInv, HashedBundleIsWhole
  <2>8. QED
    BY <1>1, <2>1, <2>2, <2>5, <2>6, <2>7, Places
    DEF IInv, Counted, CallAt, HeldAt, BundleAt, At, Go, Roles, Stages
<1>4. CASE save_build_candidate
  <2>1. /\ At("generator", "record") /\ Go("generator", "checkpoint")
        /\ candidates' = candidates \cup {Candidate} /\ UNCHANGED <<specs, reports>>
    BY <1>4 DEF save_build_candidate
  <2>2. /\ Candidate.call = call.id /\ Candidate.spec = held.spec
        /\ Candidate.bundle = call.bundle /\ Candidate.hashed = call.hashed
        /\ Candidate.writer = call.writer
    BY DEF Candidate
  <2>3. Record("generator")' = Record("generator") \cup {call.id}
    BY <2>1, <2>2, RecordIs, RecordIsNext
  <2>4. Record("planner")' = Record("planner") /\ Record("evaluator")' = Record("evaluator")
    BY <2>1, RecordIs, RecordIsNext
  <2>5. CompletedCall(call.id, "generator") /\ held.spec \in Record("planner")
    BY <2>1, Places DEF IInv, CallAt, HeldAt
  <2>6. RecordsHaveTheirRows'
    <3>1. \A role \in Roles : \A id \in Record(role)' : CompletedCall(id, role)'
      BY <1>2, <2>3, <2>4, <2>5, Kept DEF IInv, RecordsHaveTheirRows, Roles
    <3>2. \A c \in candidates' : c.spec \in Record("planner")'
      BY <2>1, <2>2, <2>4, <2>5 DEF IInv, RecordsHaveTheirRows
    <3>3. \A r \in reports' : r.candidate \in Record("generator")'
      BY <2>1, <2>3 DEF IInv, RecordsHaveTheirRows
    <3>4. \A k \in checkpoints' : k.call \in Record(k.role)'
      <4>1. \A k \in checkpoints : k.call \in Record(k.role)
        BY DEF IInv, RecordsHaveTheirRows
      <4>2. \A role : Record(role) \subseteq Record(role)'
        BY <1>2 DEF Grows, Record
      <4>3. QED
        BY <1>1, <4>1, <4>2
    <3>5. QED
      BY <3>1, <3>2, <3>3, <3>4 DEF RecordsHaveTheirRows
  <2>7. /\ held'.candidate = call.id /\ held'.spec = held.spec
        /\ DOMAIN held' = {"spec", "candidate"}
    BY <1>4 DEF save_build_candidate, IInv, Counted
  <2>8. HashedBundleIsWhole'
    BY <2>1, <2>2 DEF IInv, HashedBundleIsWhole, BundleAt
  <2>9. QED
    BY <1>1, <2>1, <2>3, <2>4, <2>5, <2>6, <2>7, <2>8, Places
    DEF IInv, Counted, CallAt, HeldAt, BundleAt, At, Go, Roles, Stages
<1>5. CASE save_evaluation_report
  <2> DEFINE report == [call |-> call.id, candidate |-> held.candidate]
  <2>0. report.call = call.id /\ report.candidate = held.candidate
    OBVIOUS
  <2>1. /\ At("evaluator", "record") /\ Go("evaluator", "checkpoint")
        /\ reports' = reports \cup {report} /\ UNCHANGED <<held, specs, candidates>>
    BY <1>5 DEF save_evaluation_report, OnlyAt
  <2> HIDE DEF report
  <2>2. Record("evaluator")' = Record("evaluator") \cup {call.id}
    BY <2>0, <2>1, RecordIs, RecordIsNext
  <2>3. Record("planner")' = Record("planner") /\ Record("generator")' = Record("generator")
    BY <2>1, RecordIs, RecordIsNext
  <2>4. CompletedCall(call.id, "evaluator") /\ held.candidate \in Record("generator")
    BY <2>1, Places DEF IInv, CallAt, HeldAt
  <2>5. RecordsHaveTheirRows'
    <3>1. \A role \in Roles : \A id \in Record(role)' : CompletedCall(id, role)'
      BY <1>2, <2>2, <2>3, <2>4, Kept DEF IInv, RecordsHaveTheirRows, Roles
    <3>2. \A c \in candidates' : c.spec \in Record("planner")'
      BY <2>1, <2>3 DEF IInv, RecordsHaveTheirRows
    <3>3. \A r \in reports' : r.candidate \in Record("generator")'
      BY <2>1, <2>0, <2>3, <2>4 DEF IInv, RecordsHaveTheirRows
    <3>4. \A k \in checkpoints' : k.call \in Record(k.role)'
      <4>1. \A k \in checkpoints : k.call \in Record(k.role)
        BY DEF IInv, RecordsHaveTheirRows
      <4>2. \A role : Record(role) \subseteq Record(role)'
        BY <1>2 DEF Grows, Record
      <4>3. QED
        BY <1>1, <4>1, <4>2
    <3>5. QED
      BY <3>1, <3>2, <3>3, <3>4 DEF RecordsHaveTheirRows
  <2>6. HashedBundleIsWhole'
    BY <2>1 DEF IInv, HashedBundleIsWhole
  <2>7. QED
    BY <1>1, <2>1, <2>2, <2>3, <2>5, <2>6, Places
    DEF IInv, Counted, CallAt, HeldAt, BundleAt, At, Go, Roles, Stages
<1>6. QED
  BY <1>3, <1>4, <1>5

(* The checkpoint that ends a node names what the node has saved.          *)
LEMMA PostStepStep ==
  ASSUME IInv, NEW role \in Roles, PostStep(role)
  PROVE  IInv'
<1>1. PICK next \in Roles, stage \in {"decide", "enter"} :
        /\ Go(next, stage)
        /\ next = "planner" => FALSE
        /\ next = "evaluator" => role \in {"generator", "evaluator"}
        /\ next = "generator" => role = "planner"
  <2>1. CASE role = "planner"
    BY <2>1 DEF PostStep, After, Roles
  <2>2. CASE role = "generator"
    BY <2>2 DEF PostStep, After, Roles
  <2>3. CASE role = "evaluator"
    BY <2>3 DEF PostStep, After, Roles
  <2>4. QED
    BY <2>1, <2>2, <2>3 DEF Roles
<1>2. /\ At(role, "checkpoint") /\ call' = NoCall
      /\ checkpoints' = checkpoints \cup {[role |-> role, call |-> call.id]}
      /\ UNCHANGED <<held, calls, rows, specs, candidates, reports>>
  BY DEF PostStep, OnlyAt
<1>3. Grows /\ (\A r : Record(r)' = Record(r)) /\ HashedBundleIsWhole'
  BY <1>2 DEF Grows, Record, IInv, HashedBundleIsWhole
<1>4. call.id \in Record(role)
  BY <1>2, Places DEF IInv, CallAt
<1>5. RecordsHaveTheirRows'
  BY <1>2, <1>3, <1>4, Kept DEF IInv, RecordsHaveTheirRows
<1>6. /\ next = "evaluator" => held.candidate \in Record("generator")
      /\ held.spec \in Record("planner")
  BY <1>1, <1>2, Places DEF IInv, HeldAt, Roles
<1>7. QED
  BY <1>1, <1>2, <1>3, <1>5, <1>6, Places
  DEF IInv, Counted, CallAt, HeldAt, BundleAt, At, Go, Roles, Stages, NoCall, CallFields

LEMMA RouteStep ==
  ASSUME IInv, (\E role \in Roles : Iterate(role)) \/ Finish
  PROVE  IInv'
<1> USE DEF Counted, CallAt, HeldAt, BundleAt
<1>1. ASSUME NEW role \in Roles, Iterate(role)
      PROVE  IInv'
  BY <1>1, TablesKept, Places DEF Iterate, IInv, At, Go, Roles, Stages, tables
<1>2. CASE Finish
  BY <1>2, TablesKept, Places DEF Finish, IInv, At, Idle, Roles, Stages, tables, None
<1>3. QED
  BY <1>1, <1>2

LEMMA FaultStep ==
  ASSUME IInv, ProcessDies \/ Resume
  PROVE  IInv'
<1> USE DEF Counted, CallAt, HeldAt, BundleAt
<1>1. CASE ProcessDies
  BY <1>1, TablesKept, Places
  DEF ProcessDies, IInv, At, Idle, NoCall, NothingHeld, CallFields, Roles, Stages, tables, None
<1>2. CASE Resume
  BY <1>2, TablesKept, Places DEF Resume, IInv, At, Go, Idle, Roles, Stages, tables
<1>3. QED
  BY <1>1, <1>2

LEMMA Step == IInv /\ [Next]_vars => IInv'
<1> SUFFICES ASSUME IInv, [Next]_vars PROVE IInv'
  OBVIOUS
<1>1. CASE Node
  BY <1>1, BeforeCallStep, InvokeStep, FailureStep, IngestStep, RowStep, RecordStep, PostStepStep,
     RouteStep DEF Node, PlannerAfter, GeneratorAfter, EvaluatorAfter
<1>2. CASE AnyAttemptFails \/ Gateway
  BY <1>2, GatewayStep
<1>3. CASE ProcessDies \/ Resume
  BY <1>3, FaultStep
<1>4. CASE UNCHANGED vars
  BY <1>4, TablesKept DEF vars, IInv, tables, Counted, CallAt, HeldAt, BundleAt, At
<1>5. QED
  BY <1>1, <1>2, <1>3, <1>4 DEF Next

(* However many crashes and resumes, each specification, candidate and     *)
(* report belongs to a saved call that completed, refers to saved records, *)
(* and is saved before the checkpoint that names it (graph/nodes_pkg).     *)
THEOREM RecordsAlwaysHaveTheirRows == Spec => []RecordsHaveTheirRows
<1>1. IInv => RecordsHaveTheirRows
  BY DEF IInv
<1>2. QED
  BY Start, Step, <1>1, PTL DEF Spec

(* Whatever attempts the client gave up on still write in the workspace, a *)
(* bundle ingested by its hashes is what the answering attempt wrote       *)
(* (ingest_workspace_manifest_if_present).                                 *)
THEOREM HashedBundlesAreWhole == Spec => []HashedBundleIsWhole
<1>1. IInv => HashedBundleIsWhole
  BY DEF IInv
<1>2. QED
  BY Start, Step, <1>1, PTL DEF Spec

(* A run that ends because of a call leaves that call's row, failed:       *)
(* _persist_invocation_failure saves it before it raises.                  *)
THEOREM FailuresAreRecorded == Spec => FailureIsRecorded
<1> DEFINE Recorded ==
      status = "running" /\ status' = "failed" /\ call.id # 0
        => call.id \in DOMAIN rows' /\ rows'[call.id].status = "failed"
<1>1. IInv /\ [Next]_vars => Recorded
  <2> SUFFICES ASSUME IInv, [Next]_vars, status = "running", status' = "failed", call.id # 0
               PROVE  call.id \in DOMAIN rows' /\ rows'[call.id].status = "failed"
    OBVIOUS
  <2>1. \/ \E role \in Roles : CallFailed(role)
        \/ PlannerRejected \/ ManifestMissing \/ IngestFails \/ GeneratorRejected
    <3>1. ~BeforeCall
      <4>1. ASSUME NEW role \in Roles, RefusedBeforeCall(role)
            PROVE  FALSE
        BY <4>1, Places DEF RefusedBeforeCall, IInv, CallAt, NoCall
      <4>2. QED
        BY <4>1 DEF BeforeCall, EnterPlanner, EnterGenerator, EnterEvaluator, EnterNode,
           PlannerRefused, GeneratorRefused, EvaluatorRefused, Roles
    <3>2. ~\E role \in Roles : invoke(role) \/ PostStep(role) \/ Iterate(role)
      BY DEF invoke, PostStep, Iterate, OnlyAt
    <3>3. ~(\/ SavePlannerRow \/ save_build_spec \/ ingest_workspace_manifest \/ NothingToIngest
            \/ SaveGeneratorRow \/ SaveRescue \/ SaveNormalized \/ save_build_candidate
            \/ EvaluatorAfter \/ Finish \/ ProcessDies \/ Resume \/ UNCHANGED vars)
      BY DEF SavePlannerRow, save_build_spec, ingest_workspace_manifest, NothingToIngest,
         SaveGeneratorRow, SaveRescue, SaveNormalized, save_build_candidate, EvaluatorAfter,
         SkipEvaluation, SaveEvaluatorRow, save_evaluation_report, OnlyAt, Finish, ProcessDies,
         Resume, vars
    <3>4. ~(AnyAttemptFails \/ Gateway)
      BY DEF AnyAttemptFails, AttemptFails, Gateway, GatewayWrites, GatewayAnswers, GatewayRefuses,
         thread
    <3>5. QED
      BY <3>1, <3>2, <3>3, <3>4 DEF Next, Node, PlannerAfter, GeneratorAfter
  <2>2. persist_invocation_failure
    BY <2>1, FailureStep
  <2>3. at.stage \in {"took", "bundle"}
    BY <2>1, Places DEF CallFailed, PlannerRejected, ManifestMissing, IngestFails, GeneratorRejected,
       Took
  <2>4. call.id \notin DOMAIN rows
    BY <2>3 DEF IInv, CallAt
  <2>5. QED
    BY <2>2, <2>4 DEF persist_invocation_failure, save_role_invocation, Row
<1>2. QED
  BY <1>1, Start, Step, PTL DEF Spec, FailureIsRecorded

-----------------------------------------------------------------------------
(* What is made of an answer is an object again.                           *)

LEMMA Below ==
  ASSUME NEW a \in Nat, NEW b \in Nat, a < b
  PROVE  <<a, b>> \in OpToRel(<, Nat)
<1>1. <<a, b>> \in Nat \X Nat /\ <<a, b>>[1] < <<a, b>>[2]
  BY SMT
<1>2. QED
  BY <1>1, Zenon DEF OpToRel

LEMMA MinIsIn == ASSUME NEW P \in SUBSET Nat, P # {} PROVE Min(P) \in P
<1>1. PICK x \in P : \A y \in P : ~(<<y, x>> \in OpToRel(<, Nat))
  BY WFMin, NatLessThanWellFounded
<1>2. \A y \in P : ~(y < x)
  BY <1>1, Below
<1>3. \A y \in P : x <= y
  BY <1>2
<1>4. QED
  BY <1>3, Zenon DEF Min

LEMMA UnwrappedIsObject == ASSUME NEW o, IsObject(o) PROVE IsObject(Unwrapped(o))
BY DEF IsObject, Unwrapped, Object

LEMMA NoObjectIsObject == IsObject(NoObject)
BY DEF IsObject, NoObject, Object, Frontend

LEMMA SyntheticPlanIsObject == IsObject(SyntheticPlan)
BY DEF IsObject, SyntheticPlan, Object, Frontend, Keys

LEMMA ParsedIsObject ==
  ASSUME NEW role, NEW text, IsText(text), parse_content(role, text).ok
  PROVE  IsObject(parse_content(role, text).object)
<1> DEFINE hits == {i \in DOMAIN text.objects : Recognised(role, text.objects[i])}
<1>1. \A i \in DOMAIN text.objects : IsObject(text.objects[i])
  BY DEF IsText
<1>2. DOMAIN text.objects \subseteq Nat /\ (text.objects # <<>> => 1 \in DOMAIN text.objects)
  BY LenProperties, EmptySeq DEF IsText
<1>3. hits # {} => Min(hits) \in DOMAIN text.objects
  <2>1. hits \in SUBSET Nat /\ hits \subseteq DOMAIN text.objects
    BY <1>2
  <2> HIDE DEF hits
  <2>2. QED
    BY <2>1, MinIsIn
<1>4. \A o : IsObject(o) => IsObject(Found(role, o))
  BY UnwrappedIsObject DEF Found
<1>5. \A kind : ~Failure(kind).ok
  BY DEF Failure
<1>6. \/ hits # {} /\ parse_content(role, text) = Taken(Found(role, text.objects[Min(hits)]))
      \/ text.objects # <<>> /\ parse_content(role, text) = Taken(text.objects[1])
  BY <1>5, SMT DEF parse_content, IsText, TextKind
<1> HIDE DEF hits
<1>7. QED
  BY <1>1, <1>2, <1>3, <1>4, <1>6 DEF Taken

LEMMA ExtractedIsObject ==
  ASSUME NEW role, NEW o, IsObject(o), extract_http_role_dict(role, o).ok
  PROVE  IsObject(extract_http_role_dict(role, o).object)
<1>1. \A kind : ~Failure(kind).ok
  BY DEF Failure
<1>2. \/ extract_http_role_dict(role, o) = Taken(Unwrapped(o))
      \/ extract_http_role_dict(role, o) = Taken(SyntheticPlan)
  BY <1>1 DEF extract_http_role_dict, extract_role_payload
<1>3. QED
  BY <1>2, UnwrappedIsObject, SyntheticPlanIsObject DEF Taken

LEMMA AnswerIsObject ==
  ASSUME NEW role, NEW text, IsText(text), RoleAnswer(role, text).ok
  PROVE  IsObject(RoleAnswer(role, text).object)
<1> DEFINE parsed == parse_content(role, text)
<1>1. \A kind : ~Failure(kind).ok
  BY DEF Failure
<1>2. /\ parsed.ok /\ extract_http_role_dict(role, parsed.object).ok
      /\ RoleAnswer(role, text) = extract_http_role_dict(role, parsed.object)
  BY <1>1 DEF RoleAnswer, apply_role_contract
<1>3. IsObject(parsed.object)
  BY <1>2, ParsedIsObject
<1> HIDE DEF parsed
<1>4. QED
  BY <1>2, <1>3, ExtractedIsObject

-----------------------------------------------------------------------------
(* Types.                                                                  *)

Executions(n) == [role : Roles, call : 1 .. n, attempt : 1 .. MaxAttempts, wrote : SUBSET Files]
Stamps(n)     == (1 .. n) \X (1 .. MaxAttempts) \cup {Absent}
RowType == [role : Roles, status : {"completed", "failed"}, shape : {"wire", "rescue", "final"}]

(* The call of the thread is the newest one, and what it has is an object. *)
CallTyped ==
  /\ call.id \in {0, calls} /\ call.attempt \in 0 .. MaxAttempts
  /\ call.status \in {None, "running", "completed", "failed"}
  /\ IsObject(call.object)

ThreadTyped ==
  /\ settings \in Settings
  /\ status \in {"running", "completed", "failed"}
  /\ iteration \in 0 .. MaxIterations /\ resumes \in 0 .. MaxResumes
  /\ held \in [spec : 0 .. calls, candidate : 0 .. calls]

WorldTyped ==
  /\ gateway \subseteq Executions(calls)
  /\ disk \in [Files -> Stamps(calls)]
  /\ marked \in BOOLEAN

RowsTyped == \A id \in DOMAIN rows : rows[id] \in RowType

TypeInv == IInv /\ CallTyped /\ ThreadTyped /\ WorldTyped /\ RowsTyped

LEMMA TypeIs == TypeInv => TypeOK
BY DEF TypeInv, IInv, Counted, CallTyped, ThreadTyped, WorldTyped, RowsTyped, TypeOK, Executions,
   Stamps, RowType, IsObject

LEMMA NoCallTyped ==
  /\ NoCall.id = 0 /\ NoCall.attempt = 0 /\ NoCall.status = None /\ NoCall.object = NoObject
  /\ 0 \in 0 .. MaxAttempts
BY RoleCallsAssumption DEF NoCall

LEMMA NothingHeldTyped ==
  ASSUME NEW n \in Nat PROVE NothingHeld \in [spec : 0 .. n, candidate : 0 .. n]
BY DEF NothingHeld

LEMMA MoreCalls ==
  ASSUME NEW m \in Nat, NEW n \in Nat, m <= n
  PROVE  Executions(m) \subseteq Executions(n) /\ Stamps(m) \subseteq Stamps(n)
BY DEF Executions, Stamps

LEMMA TypeStarts == Init => TypeInv
<1> SUFFICES ASSUME Init PROVE TypeInv
  OBVIOUS
<1>1. CallTyped
  BY NoCallTyped, NoObjectIsObject DEF Init, CallTyped
<1>2. ThreadTyped
  BY NothingHeldTyped, RoleCallsAssumption DEF Init, ThreadTyped
<1>3. WorldTyped
  BY DEF Init, WorldTyped, Stamps
<1>4. RowsTyped
  BY DEF Init, RowsTyped
<1>5. QED
  BY <1>1, <1>2, <1>3, <1>4, Start DEF TypeInv

(* A new call, and the executions and stamps of the old ones.              *)
LEMMA CallsGrow ==
  ASSUME TypeInv, calls' = calls + 1
  PROVE  /\ calls' \in Nat /\ calls' \in 1 .. calls'
         /\ gateway \subseteq Executions(calls') /\ disk \in [Files -> Stamps(calls')]
         /\ held \in [spec : 0 .. calls', candidate : 0 .. calls']
<1>1. calls \in Nat /\ calls + 1 \in Nat /\ calls <= calls + 1
  BY DEF TypeInv, IInv, Counted
<1>2. Executions(calls) \subseteq Executions(calls') /\ Stamps(calls) \subseteq Stamps(calls')
  BY <1>1, MoreCalls
<1>3. QED
  BY <1>1, <1>2 DEF TypeInv, WorldTyped, ThreadTyped

LEMMA BeforeCallTypes ==
  ASSUME TypeInv, BeforeCall, IInv'
  PROVE  TypeInv'
<1>1. ASSUME NEW role \in Roles, EnterNode(role), UNCHANGED <<disk, marked>> \/ ensure_clean_workspace
      PROVE  TypeInv'
  <2>1. WorldTyped'
    BY <1>1 DEF EnterNode, ensure_clean_workspace, TypeInv, WorldTyped, Stamps
  <2>2. CallTyped' /\ ThreadTyped' /\ RowsTyped'
    BY <1>1 DEF EnterNode, tables, TypeInv, CallTyped, ThreadTyped, RowsTyped
  <2>3. QED
    BY <2>1, <2>2 DEF TypeInv
<1>2. ASSUME NEW role \in Roles, RefusedBeforeCall(role)
      PROVE  TypeInv'
  <2>1. calls \in Nat
    BY DEF TypeInv, IInv, Counted
  <2>2. CallTyped'
    BY <1>2, NoCallTyped, NoObjectIsObject
    DEF RefusedBeforeCall, raise_RoleInvocationFailed, CallTyped
  <2>3. ThreadTyped' /\ WorldTyped' /\ RowsTyped'
    BY <1>2, <2>1, NothingHeldTyped
    DEF RefusedBeforeCall, raise_RoleInvocationFailed, tables, TypeInv, ThreadTyped, WorldTyped,
        RowsTyped
  <2>4. QED
    BY <2>2, <2>3 DEF TypeInv
<1>3. QED
  BY <1>1, <1>2 DEF BeforeCall, EnterPlanner, EnterGenerator, EnterEvaluator, PlannerRefused,
     GeneratorRefused, EvaluatorRefused, Roles

LEMMA NewCallTyped ==
  ASSUME NEW role, NEW s
  PROVE  LET k == NewCall(role, s) IN
         k.id = calls + 1 /\ k.attempt = 0 /\ k.status = s /\ k.object = NoObject
BY DEF NewCall, NoCall

LEMMA InvokeTypes ==
  ASSUME TypeInv, (\E role \in Roles : invoke(role)) \/ SkipEvaluation, IInv'
  PROVE  TypeInv'
<1>0. 1 \in 1 .. MaxAttempts /\ 0 \in 0 .. MaxAttempts /\ 1 \in 0 .. MaxAttempts
  BY RoleCallsAssumption
<1>1. calls' = calls + 1
  BY DEF invoke, SkipEvaluation
<1>2. ThreadTyped' /\ RowsTyped'
  BY <1>1, CallsGrow DEF invoke, SkipEvaluation, tables, TypeInv, ThreadTyped, RowsTyped
<1>3. ASSUME NEW role \in Roles, invoke(role)
      PROVE  CallTyped' /\ WorldTyped'
  <2>1. CASE call' = NewCall(role, "failed") /\ UNCHANGED gateway
    BY <1>0, <1>1, <1>3, <2>1, CallsGrow, NewCallTyped, NoObjectIsObject
    DEF invoke, CallTyped, WorldTyped, TypeInv
  <2>2. CASE /\ call' = [NewCall(role, "running") EXCEPT !.attempt = 1]
             /\ gateway' = gateway \cup {Execution(role, calls + 1, 1)}
    <3>1. /\ call'.id = calls + 1 /\ call'.attempt = 1 /\ call'.status = "running"
          /\ call'.object = NoObject
      BY <2>2 DEF NewCall, NoCall
    <3>2. Execution(role, calls + 1, 1) \in Executions(calls')
      BY <1>0, <1>1, CallsGrow DEF Execution, Executions
    <3>3. CallTyped'
      BY <1>0, <1>1, <3>1, NoObjectIsObject DEF CallTyped
    <3>4. WorldTyped'
      BY <1>1, <1>3, <2>2, <3>2, CallsGrow DEF invoke, WorldTyped, TypeInv
    <3>5. QED
      BY <3>3, <3>4
  <2>3. QED
    BY <1>3, <2>1, <2>2 DEF invoke
<1>4. CASE SkipEvaluation
  <2>1. CallTyped' /\ WorldTyped'
    BY <1>0, <1>1, <1>4, CallsGrow, NewCallTyped, NoObjectIsObject
    DEF SkipEvaluation, CallTyped, WorldTyped, TypeInv
  <2>2. QED
    BY <1>2, <2>1 DEF TypeInv
<1>5. QED
  BY <1>2, <1>3, <1>4 DEF TypeInv

(* What the gateway does leaves the rows and the thread's state alone.     *)
LEMMA GatewayTypes ==
  ASSUME TypeInv, AnyAttemptFails \/ Gateway, IInv'
  PROVE  TypeInv'
<1>0. \A S : Lasting(S) \subseteq S
  BY DEF Lasting
<1>1. ThreadTyped' /\ RowsTyped' /\ calls' = calls /\ marked' = marked
  BY DEF AnyAttemptFails, AttemptFails, Gateway, GatewayWrites, GatewayAnswers, GatewayRefuses,
     thread, tables, TypeInv, ThreadTyped, RowsTyped
<1>2. ASSUME NEW goesOn \in BOOLEAN, AttemptFails(goesOn)
      PROVE  CallTyped' /\ WorldTyped'
  <2> DEFINE left == IF goesOn THEN Lasting(gateway) ELSE {e \in gateway : ~Waits(e)}
  <2>1. left \subseteq Executions(calls)
    BY <1>0 DEF TypeInv, WorldTyped
  <2> HIDE DEF left
  <2>2. CASE call.attempt < MaxAttempts
    <3>1. /\ call' = [call EXCEPT !.attempt = call.attempt + 1]
          /\ gateway' = left \cup {Execution(at.role, call.id, call.attempt + 1)}
          /\ disk' = disk /\ at.stage = "wait"
      BY <1>2, <2>2 DEF AttemptFails, left
    <3>2. call.attempt + 1 \in 1 .. MaxAttempts /\ call.attempt + 1 \in 0 .. MaxAttempts
      BY <2>2, RoleCallsAssumption DEF TypeInv, CallTyped
    <3>3. at.role \in Roles /\ call.id \in 1 .. calls
      BY <3>1 DEF TypeInv, IInv, Counted, CallAt, Idle, CallTyped
    <3>4. Execution(at.role, call.id, call.attempt + 1) \in Executions(calls)
      BY <3>2, <3>3 DEF Execution, Executions
    <3>5. /\ call'.id = call.id /\ call'.attempt = call.attempt + 1
          /\ call'.status = call.status /\ call'.object = call.object
      BY <3>1 DEF TypeInv, IInv, Counted, CallFields
    <3>6. QED
      BY <1>1, <2>1, <3>1, <3>2, <3>4, <3>5 DEF TypeInv, CallTyped, WorldTyped
  <2>3. CASE ~(call.attempt < MaxAttempts)
    <3>1. call' = [call EXCEPT !.status = "failed"] /\ gateway' = left /\ disk' = disk
      BY <1>2, <2>3 DEF AttemptFails, CallEnds, left
    <3>2. QED
      BY <1>1, <2>1, <3>1 DEF TypeInv, IInv, Counted, CallFields, CallTyped, WorldTyped
  <2>4. QED
    BY <2>2, <2>3
<1>3. ASSUME NEW e \in gateway, NEW f \in Files, GatewayWrites(e, f)
      PROVE  CallTyped' /\ WorldTyped'
  <2> DEFINE after == {[e EXCEPT !.wrote = @ \cup {f}]}
  <2>1. e \in Executions(calls)
    BY DEF TypeInv, WorldTyped
  <2>2. after \subseteq Executions(calls)
    BY <2>1 DEF Executions
  <2>3. \A q \in Executions(calls) : <<q.call, q.attempt>> \in Stamps(calls)
    BY DEF Executions, Stamps
  <2>4. disk' = [disk EXCEPT ![f] = <<e.call, e.attempt>>] /\ call' = call
    BY <1>3 DEF GatewayWrites
  <2>5. gateway' = (gateway \ {e}) \cup (IF Waits(e) THEN after ELSE Lasting(after))
    BY <1>3 DEF GatewayWrites
  <2> HIDE DEF after
  <2>6. gateway' \subseteq Executions(calls)
    BY <1>0, <2>2, <2>5 DEF TypeInv, WorldTyped
  <2>7. disk' \in [Files -> Stamps(calls)]
    BY <2>1, <2>3, <2>4 DEF TypeInv, WorldTyped
  <2>8. QED
    BY <1>1, <2>4, <2>6, <2>7 DEF TypeInv, CallTyped, WorldTyped
<1>4. ASSUME NEW e \in gateway, NEW a \in Answers[e.role], GatewayAnswers(e, a)
      PROVE  CallTyped' /\ WorldTyped'
  <2> DEFINE r == RoleAnswer(e.role, a.text)
             object == IF r.ok THEN r.object ELSE NoObject
             s == IF r.ok THEN "completed" ELSE "failed"
  <2>1. e.role \in Roles
    BY DEF TypeInv, WorldTyped, Executions
  <2>2. IsObject(object)
    BY <2>1, AnswersAssumption, AnswerIsObject, NoObjectIsObject
  <2>3. /\ call'.id = call.id /\ call'.attempt = call.attempt
        /\ call'.status = s /\ call'.object = object
        /\ gateway' = gateway \ {e} /\ disk' = disk
    BY <1>4 DEF GatewayAnswers, TypeInv, IInv, Counted, CallFields
  <2>4. s \in {None, "running", "completed", "failed"}
    OBVIOUS
  <2> HIDE DEF object, s, r
  <2>5. QED
    BY <1>1, <2>2, <2>3, <2>4 DEF TypeInv, CallTyped, WorldTyped
<1>5. ASSUME NEW e \in gateway, GatewayRefuses(e)
      PROVE  CallTyped' /\ WorldTyped'
  BY <1>1, <1>5
  DEF GatewayRefuses, CallEnds, TypeInv, IInv, Counted, CallFields, CallTyped, WorldTyped
<1>6. QED
  BY <1>1, <1>2, <1>3, <1>4, <1>5 DEF AnyAttemptFails, Gateway, TypeInv

LEMMA RowKeepsTypes ==
  ASSUME TypeInv, NEW s \in {"completed", "failed"}, NEW shape \in {"wire", "rescue", "final"},
         at.role \in Roles, save_role_invocation(Row(s, shape))
  PROVE  RowsTyped'
<1>1. Row(s, shape) \in RowType
  BY DEF Row, RowType
<1>2. QED
  BY <1>1 DEF save_role_invocation, TypeInv, RowsTyped

LEMMA FailureTypes ==
  ASSUME TypeInv,
         \/ \E role \in Roles : CallFailed(role)
         \/ PlannerRejected \/ ManifestMissing \/ IngestFails \/ GeneratorRejected,
         IInv'
  PROVE  TypeInv'
<1>1. /\ persist_invocation_failure /\ disk' = disk /\ marked' \in BOOLEAN
      /\ at.role \in Roles
  BY Places DEF CallFailed, PlannerRejected, ManifestMissing, IngestFails, GeneratorRejected, Took,
     TypeInv, WorldTyped, Roles
<1>2. RowsTyped'
  BY <1>1, RowKeepsTypes DEF persist_invocation_failure
<1>3. calls \in Nat
  BY DEF TypeInv, IInv, Counted
<1>4. CallTyped'
  BY <1>1, NoCallTyped, NoObjectIsObject
  DEF persist_invocation_failure, raise_RoleInvocationFailed, CallTyped
<1>5. ThreadTyped' /\ WorldTyped'
  BY <1>1, <1>3, NothingHeldTyped
  DEF persist_invocation_failure, raise_RoleInvocationFailed, TypeInv, ThreadTyped, WorldTyped
<1>6. QED
  BY <1>2, <1>4, <1>5 DEF TypeInv

(* The files of a manifest are artifacts of the object.                    *)
Ingested(o, html) ==
  [o EXCEPT !.full = @ \cup {"artifact_outputs"}, !.frontend = IF html THEN "html" ELSE "assets"]

LEMMA IngestedIsObject ==
  ASSUME NEW o, IsObject(o), NEW html \in BOOLEAN
  PROVE  /\ IsObject(Ingested(o, html)) /\ "artifact_outputs" \in Ingested(o, html).full
         /\ o.full \subseteq Ingested(o, html).full
BY DEF Ingested, IsObject, Object, Frontend, Keys, GeneratorFields

LEMMA AfterTypes ==
  ASSUME TypeInv, IInv',
         \/ SavePlannerRow \/ SaveGeneratorRow \/ SaveRescue \/ SaveNormalized \/ SaveEvaluatorRow
         \/ ingest_workspace_manifest \/ NothingToIngest
         \/ save_build_spec \/ save_build_candidate \/ save_evaluation_report
         \/ \E role \in Roles : PostStep(role)
  PROVE  TypeInv'
<1>1. /\ UNCHANGED <<settings, status, iteration, resumes, calls, gateway, disk, marked>>
  BY DEF SavePlannerRow, SaveGeneratorRow, SaveRescue, SaveNormalized, SaveEvaluatorRow,
     ingest_workspace_manifest, NothingToIngest, save_build_spec, save_build_candidate,
     save_evaluation_report, PostStep, OnlyAt
<1>2. WorldTyped'
  BY <1>1 DEF TypeInv, WorldTyped
<1>3. call.id \in 0 .. calls /\ calls \in Nat
  BY DEF TypeInv, IInv, Counted
<1>4. ThreadTyped'
  <2>1. held' \in {held, [held EXCEPT !.spec = call.id], [held EXCEPT !.candidate = call.id]}
    BY DEF SavePlannerRow, SaveGeneratorRow, SaveRescue, SaveNormalized, SaveEvaluatorRow,
       ingest_workspace_manifest, NothingToIngest, save_build_spec, save_build_candidate,
       save_evaluation_report, PostStep, OnlyAt
  <2>2. held' \in [spec : 0 .. calls, candidate : 0 .. calls]
    BY <1>3, <2>1 DEF TypeInv, ThreadTyped
  <2>3. QED
    BY <1>1, <2>2 DEF TypeInv, ThreadTyped
<1>5. CallTyped'
  <2>1. CASE ingest_workspace_manifest
    <3>1. /\ call'.id = call.id /\ call'.attempt = call.attempt /\ call'.status = call.status
          /\ call'.object = Ingested(call.object, HtmlFile \in call.claim)
      BY <2>1 DEF ingest_workspace_manifest, Ingested, TypeInv, IInv, Counted, CallFields
    <3>2. (HtmlFile \in call.claim) \in BOOLEAN
      OBVIOUS
    <3>3. QED
      BY <1>1, <3>1, <3>2, IngestedIsObject DEF TypeInv, CallTyped
  <2>2. CASE call' = NoCall
    BY <1>1, <2>2, NoCallTyped, NoObjectIsObject DEF CallTyped
  <2>3. CASE call' = call
    BY <1>1, <2>3 DEF TypeInv, CallTyped
  <2>4. QED
    BY <2>1, <2>2, <2>3
    DEF SavePlannerRow, SaveGeneratorRow, SaveRescue, SaveNormalized, SaveEvaluatorRow,
        NothingToIngest, save_build_spec, save_build_candidate, save_evaluation_report, PostStep
<1>6. RowsTyped'
  <2>1. CASE rows' = rows
    BY <2>1 DEF TypeInv, RowsTyped
  <2>2. CASE SavePlannerRow \/ SaveGeneratorRow \/ SaveRescue \/ SaveNormalized \/ SaveEvaluatorRow
    <3>1. at.role \in Roles
      BY <2>2, Places DEF SavePlannerRow, SaveGeneratorRow, SaveRescue, SaveNormalized,
         SaveEvaluatorRow, Took, Roles
    <3>2. \E shape \in {"wire", "rescue", "final"} : save_role_invocation(Row("completed", shape))
      BY <2>2 DEF SavePlannerRow, SaveGeneratorRow, SaveRescue, SaveNormalized, SaveEvaluatorRow
    <3>3. QED
      BY <3>1, <3>2, RowKeepsTypes
  <2>3. QED
    BY <2>1, <2>2
    DEF ingest_workspace_manifest, NothingToIngest, save_build_spec, save_build_candidate,
        save_evaluation_report, PostStep, tables
<1>7. QED
  BY <1>2, <1>4, <1>5, <1>6 DEF TypeInv

LEMMA RestTypes ==
  ASSUME TypeInv, IInv', (\E role \in Roles : Iterate(role)) \/ Finish \/ ProcessDies \/ Resume
  PROVE  TypeInv'
<1>1. UNCHANGED <<settings, calls, disk, marked>> /\ UNCHANGED tables
  BY DEF Iterate, Finish, ProcessDies, Resume
<1>2. RowsTyped'
  BY <1>1 DEF tables, TypeInv, RowsTyped
<1>3. WorldTyped'
  <2>1. gateway' \in {gateway, Lasting(gateway)}
    BY DEF Iterate, Finish, ProcessDies, Resume
  <2>2. QED
    BY <1>1, <2>1 DEF Lasting, TypeInv, WorldTyped
<1>4. CallTyped'
  <2>1. call' \in {call, NoCall}
    BY DEF Iterate, Finish, ProcessDies, Resume
  <2>2. QED
    BY <1>1, <2>1, NoCallTyped, NoObjectIsObject DEF TypeInv, CallTyped
<1>5. ThreadTyped'
  <2>0. calls \in Nat
    BY DEF TypeInv, IInv, Counted
  <2>1. held' \in [spec : 0 .. calls, candidate : 0 .. calls]
    BY <2>0, NothingHeldTyped DEF Iterate, Finish, ProcessDies, Resume, TypeInv, ThreadTyped
  <2>2. /\ iteration' \in 0 .. MaxIterations /\ resumes' \in 0 .. MaxResumes
        /\ status' \in {"running", "completed", "failed"}
    BY RoleCallsAssumption DEF Iterate, Finish, ProcessDies, Resume, TypeInv, ThreadTyped
  <2>3. QED
    BY <1>1, <2>1, <2>2 DEF TypeInv, ThreadTyped
<1>6. QED
  BY <1>2, <1>3, <1>4, <1>5 DEF TypeInv

LEMMA TypeStep == TypeInv /\ [Next]_vars => TypeInv'
<1> SUFFICES ASSUME TypeInv, [Next]_vars PROVE TypeInv'
  OBVIOUS
<1>1. IInv'
  BY Step DEF TypeInv
<1>2. CASE Node
  BY <1>1, <1>2, BeforeCallTypes, InvokeTypes, FailureTypes, AfterTypes, RestTypes
  DEF Node, PlannerAfter, GeneratorAfter, EvaluatorAfter
<1>3. CASE AnyAttemptFails \/ Gateway
  BY <1>1, <1>3, GatewayTypes
<1>4. CASE ProcessDies \/ Resume
  BY <1>1, <1>4, RestTypes
<1>5. CASE UNCHANGED vars
  BY <1>1, <1>5 DEF vars, TypeInv, CallTyped, ThreadTyped, WorldTyped, RowsTyped
<1>6. QED
  BY <1>2, <1>3, <1>4, <1>5 DEF Next

(* Every variable of RoleCalls always has its type: what is made of any    *)
(* answer is an object, and every file on disk is some attempt's.          *)
THEOREM RoleCallsTypeCorrect == Spec => []TypeOK
BY TypeStarts, TypeStep, TypeIs, PTL DEF Spec
=============================================================================
