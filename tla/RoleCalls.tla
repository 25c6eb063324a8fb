----------------------------- MODULE RoleCalls -----------------------------
(***************************************************************************)
(* The role calls of one graph run: the planner, generator and evaluator   *)
(* nodes with the HTTP call each makes, its retries, the executions the    *)
(* gateway goes on with after the client gave up on them, the generator's  *)
(* workspace on disk, and the rows the nodes save one by one.              *)
(*                                                                         *)
(* The process may die between any two steps; a resumed run starts again   *)
(* at the planner with the rows and the workspace of the first execution.  *)
(* A record is known by the call that produced it.                         *)
(***************************************************************************)
EXTENDS RoleAnswers

CONSTANTS
  Files,          \* the file names a generator writes in the run's workspace
  HtmlFile,       \* the one that is HTML
  Answers,        \* what a role's agent may answer: role -> set of answers
  MaxAttempts,    \* max_retries of the HTTP client
  MaxIterations,  \* iterations after the first
  MaxResumes,     \* bound on crashes and resumes
  MaxCalls        \* bound on the role calls of a run

ASSUME RoleCallsAssumption ==
  /\ HtmlFile \in Files
  /\ MaxAttempts \in Nat \ {0}
  /\ MaxIterations \in Nat
  /\ MaxResumes \in Nat
  /\ MaxCalls \in Nat

ASSUME AnswersAssumption ==
  \A role \in Roles : \A a \in Answers[role] :
    IsText(a.text) /\ a.claim \subseteq Files /\ a.hashed \in BOOLEAN

VARIABLES
  settings,     \* the vertical of the run, and kmbl_manifest_first_static_vertical
  status,       \* status of the run
  at,           \* where the run's thread is: a role's node and a stage in it
  iteration,    \* iteration_index
  resumes,      \* how often the run was resumed
  held,         \* the records the graph state refers to
  calls,        \* number of role invocations so far
  call,         \* the invocation the thread is at
  gateway,      \* executions at the gateway
  disk,         \* per file: the call and attempt that wrote it last
  marked,       \* .kmbl_parse_failed is in the workspace
  rows,         \* table role_invocation
  specs,        \* table build_spec
  candidates,   \* table build_candidate
  reports,      \* table evaluation_report
  checkpoints   \* the post_step rows of table checkpoint

vars == <<settings, status, at, iteration, resumes, held, calls, call, gateway,
          disk, marked, rows, specs, candidates, reports, checkpoints>>

thread == <<status, at, iteration, resumes, held>>
tables == <<rows, specs, candidates, reports, checkpoints>>

None == "none"
Stamp == Nat \X Nat          \* a call and an attempt of it
Absent == <<0, 0>>
Stages == {"enter", "invoke", "wait", "took", "bundle", "rescue", "final",
           "record", "checkpoint", "decide"}

Idle(why) == [role |-> None, stage |-> why]
At(role, stage) == at = [role |-> role, stage |-> stage]
Go(role, stage) == at' = [role |-> role, stage |-> stage]

NoObject == [has |-> {}, full |-> {}, depth |-> 0, frontend |-> "none",
             blocks |-> FALSE, promotable |-> "none"]

(* fits: the answer, as it was sent, was an object of the role's contract. *)
(* writer, claim, hashed: who answered, the files its manifest names, and  *)
(* whether the manifest has their sha256.  bundle: the files ingested.     *)
NoCall == [id |-> 0, attempt |-> 0, status |-> None, object |-> NoObject,
           fits |-> FALSE, writer |-> Absent, claim |-> {}, hashed |-> FALSE,
           bundle |-> {}]

NothingHeld == [spec |-> 0, candidate |-> 0]

Settings == {s \in [vertical : {"frontend", "other"}, manifest_first : BOOLEAN] :
               s.vertical = "other" => ~s.manifest_first}

TypeOK ==
  /\ settings \in Settings
  /\ status \in {"running", "completed", "failed"}
  /\ at \in [role : Roles, stage : Stages] \cup {Idle("over"), Idle("down")}
  /\ iteration \in 0 .. MaxIterations /\ resumes \in 0 .. MaxResumes
  /\ held \in [spec : 0 .. calls, candidate : 0 .. calls]
  /\ call.id \in {0, calls} /\ call.attempt \in 0 .. MaxAttempts
  /\ call.object \in Object /\ call.status \in {None, "running", "completed", "failed"}
  /\ gateway \subseteq [role : Roles, call : 1 .. calls, attempt : 1 .. MaxAttempts,
                        wrote : SUBSET Files]
  /\ disk \in [Files -> (1 .. calls) \X (1 .. MaxAttempts) \cup {Absent}]
  /\ marked \in BOOLEAN
  /\ DOMAIN rows \subseteq 1 .. calls
  /\ \A id \in DOMAIN rows : rows[id] \in [role : Roles, status : {"completed", "failed"},
                                           shape : {"wire", "rescue", "final"}]

Init ==
  /\ settings \in Settings
  /\ status = "running"
  /\ at = [role |-> "planner", stage |-> "enter"]
  /\ iteration = 0 /\ resumes = 0 /\ calls = 0
  /\ held = NothingHeld
  /\ call = NoCall
  /\ gateway = {}
  /\ disk = [f \in Files |-> Absent] /\ marked = FALSE
  /\ rows = <<>>
  /\ specs = {} /\ candidates = {} /\ reports = {} /\ checkpoints = {}

----------------------------------------------------------------------------
(* Saving and failing.                                                     *)

(* save_role_invocation on Supabase upserts with ignore_duplicates: the    *)
(* first row of an invocation stays.                                       *)
save_role_invocation(row) ==
  rows' = IF call.id \in DOMAIN rows THEN rows
          ELSE [id \in DOMAIN rows \cup {call.id} |->
                  IF id = call.id THEN row ELSE rows[id]]

Row(s, shape) == [role |-> at.role, status |-> s, shape |-> shape]

(* RoleInvocationFailed ends the graph and the run.                        *)
raise_RoleInvocationFailed ==
  /\ status' = "failed"
  /\ at' = Idle("over")
  /\ call' = NoCall /\ held' = NothingHeld
  /\ UNCHANGED <<settings, iteration, resumes, calls, gateway>>

persist_invocation_failure_unsaved ==   \* bug: the failed row is not saved
  /\ raise_RoleInvocationFailed
  /\ UNCHANGED tables

(* _persist_invocation_failure                                             *)
persist_invocation_failure ==
  /\ save_role_invocation(Row("failed", "wire"))
  /\ raise_RoleInvocationFailed
  /\ UNCHANGED <<specs, candidates, reports, checkpoints>>

----------------------------------------------------------------------------
(* A node up to its call.                                                  *)

(* ensure_clean_workspace: only a workspace with the marker is wiped.      *)
ensure_clean_workspace ==
  /\ disk' = IF marked THEN [f \in Files |-> Absent] ELSE disk
  /\ marked' = FALSE

(* A node reads the rows and the state that its payload is made of.        *)
EnterNode(role) ==
  /\ At(role, "enter")
  /\ Go(role, "invoke")
  /\ UNCHANGED <<settings, status, iteration, resumes, held, calls, call, gateway>>
  /\ UNCHANGED tables

EnterPlanner == EnterNode("planner") /\ UNCHANGED <<disk, marked>>

EnterGenerator == EnterNode("generator") /\ ensure_clean_workspace

EnterEvaluator == EnterNode("evaluator") /\ UNCHANGED <<disk, marked>>

(* What stops a node before the call leaves no row.                        *)
RefusedBeforeCall(role) ==
  /\ At(role, "invoke")
  /\ raise_RoleInvocationFailed
  /\ UNCHANGED <<disk, marked>> /\ UNCHANGED tables

(* A transport that is not permitted.                                      *)
PlannerRefused == RefusedBeforeCall("planner")

(* The transport, or the image route without key or budget.                *)
GeneratorRefused == RefusedBeforeCall("generator")

(* The transport, or a manifest-first build that neither a preview nor     *)
(* snippets show.                                                          *)
EvaluatorRefused == RefusedBeforeCall("evaluator")

NewCall(role, s) == [NoCall EXCEPT !.id = calls + 1, !.status = s]

Execution(role, id, n) == [role |-> role, call |-> id, attempt |-> n, wrote |-> {}]

(* DefaultRoleInvoker.invoke: the row exists in memory only until it is    *)
(* saved; a payload that breaks the input contract fails at once.          *)
invoke(role) ==
  /\ At(role, "invoke") /\ calls < MaxCalls
  /\ calls' = calls + 1
  /\ \/ /\ call' = NewCall(role, "failed") /\ Go(role, "took")
        /\ UNCHANGED gateway
     \/ /\ call' = [NewCall(role, "running") EXCEPT !.attempt = 1] /\ Go(role, "wait")
        /\ gateway' = gateway \cup {Execution(role, calls + 1, 1)}
  /\ UNCHANGED <<settings, status, iteration, resumes, held, disk, marked>>
  /\ UNCHANGED tables

(* should_skip_evaluator_llm: a completed row without a call.              *)
SkipEvaluation ==
  /\ At("evaluator", "invoke") /\ calls < MaxCalls
  /\ calls' = calls + 1
  /\ call' = NewCall("evaluator", "completed")
  /\ Go("evaluator", "took")
  /\ UNCHANGED <<settings, status, iteration, resumes, held, gateway, disk, marked>>
  /\ UNCHANGED tables

----------------------------------------------------------------------------
(* The HTTP client and the gateway.                                        *)

Waits(e) == /\ at.stage = "wait"
            /\ call.id = e.call /\ call.attempt = e.attempt

CallEnds(s) == call' = [call EXCEPT !.status = s] /\ Go(at.role, "took")

(* Of an execution nobody waits for only what it still writes matters.     *)
Lasting(S) == {e \in S : e.role = "generator" /\ e.wrote # Files}

(* A generator execution writes files in the run's workspace, whether or   *)
(* not anybody waits for it still.                                         *)
GatewayWrites(e, f) ==
  /\ e.role = "generator" /\ f \notin e.wrote
  /\ disk' = [disk EXCEPT ![f] = <<e.call, e.attempt>>]
  /\ LET after == {[e EXCEPT !.wrote = @ \cup {f}]}
     IN gateway' = (gateway \ {e}) \cup (IF Waits(e) THEN after ELSE Lasting(after))
  /\ UNCHANGED <<settings, calls, call, marked>> /\ UNCHANGED thread /\ UNCHANGED tables

(* The answer to the attempt the client waits for; any other is lost with  *)
(* its connection.                                                         *)
GatewayAnswers(e, a) ==
  LET r == RoleAnswer(e.role, a.text)
  IN /\ Waits(e)
     /\ a.hashed => a.claim \subseteq e.wrote
     /\ gateway' = gateway \ {e}
     /\ call' = [call EXCEPT
                   !.status = IF r.ok THEN "completed" ELSE "failed",
                   !.object = IF r.ok THEN r.object ELSE NoObject,
                   !.fits = /\ a.text.kind = "object"
                            /\ a.text.objects[1].depth = 0
                            /\ FitsContract(e.role, a.text.objects[1]),
                   !.writer = <<e.call, e.attempt>>,
                   !.claim = a.claim, !.hashed = a.hashed]
     /\ Go(at.role, "took")
     /\ UNCHANGED <<settings, status, iteration, resumes, held, calls, disk, marked>>
     /\ UNCHANGED tables

AttemptFailsAgain(goesOn) ==   \* bug: the attempts are not counted
  /\ at.stage = "wait"
  /\ call' = [call EXCEPT !.attempt = IF @ < MaxAttempts THEN @ + 1 ELSE 1]
  /\ gateway' = Lasting(gateway) \cup {Execution(at.role, call.id, call'.attempt)}
  /\ UNCHANGED <<settings, calls, disk, marked>> /\ UNCHANGED thread /\ UNCHANGED tables

(* A timeout, a reset connection or a retryable status: another attempt    *)
(* while there is one left.  After a timeout the execution goes on.        *)
AttemptFails(goesOn) ==
  /\ at.stage = "wait"
  /\ LET left == IF goesOn THEN Lasting(gateway)
                 ELSE {e \in gateway : ~Waits(e)}
     IN IF call.attempt < MaxAttempts
          THEN /\ call' = [call EXCEPT !.attempt = @ + 1]
               /\ gateway' = left \cup {Execution(at.role, call.id, call.attempt + 1)}
               /\ UNCHANGED at
          ELSE /\ CallEnds("failed")
               /\ gateway' = left
  /\ UNCHANGED <<settings, status, iteration, resumes, held, calls, disk, marked>>
  /\ UNCHANGED tables

(* Any other error status fails the call without a retry.                  *)
GatewayRefuses(e) ==
  /\ Waits(e)
  /\ gateway' = gateway \ {e}
  /\ CallEnds("failed")
  /\ UNCHANGED <<settings, status, iteration, resumes, held, calls, disk, marked>>
  /\ UNCHANGED tables

----------------------------------------------------------------------------
(* A call that failed: its row, and the generator's marker.                *)

Took(role, s) == At(role, "took") /\ call.status = s

CallFailed(role) ==
  /\ Took(role, "failed")
  /\ persist_invocation_failure
  /\ marked' = IF role = "generator" THEN TRUE ELSE marked
  /\ UNCHANGED disk

----------------------------------------------------------------------------
(* planner_node after the call.                                            *)

OnlyAt == UNCHANGED <<settings, status, iteration, resumes, held, calls, gateway,
                      disk, marked>>

(* validate_role_output_for_persistence: the build_spec's shape, and the   *)
(* execution_contract of an interactive one.                               *)
PlannerRejected ==
  /\ Took("planner", "completed")
  /\ persist_invocation_failure
  /\ UNCHANGED <<disk, marked>>

SavePlannerRowLate ==   \* bug: the specification is saved before the row
  /\ Took("planner", "completed")
  /\ Go("planner", "record")
  /\ OnlyAt /\ UNCHANGED call /\ UNCHANGED tables

SavePlannerRow ==
  /\ Took("planner", "completed")
  /\ save_role_invocation(Row("completed", "final"))
  /\ Go("planner", "record")
  /\ OnlyAt /\ UNCHANGED <<call, specs, candidates, reports, checkpoints>>

save_build_spec ==
  /\ At("planner", "record")
  /\ specs' = specs \cup {[call |-> call.id]}
  /\ held' = [held EXCEPT !.spec = call.id]
  /\ Go("planner", "checkpoint")
  /\ UNCHANGED <<settings, status, iteration, resumes, calls, call, gateway, disk,
                 marked, rows, candidates, reports, checkpoints>>

----------------------------------------------------------------------------
(* generator_node after the call.                                          *)

IngestibleWithoutHash ==   \* bug: the sha256 is not compared
  /\ call.claim # {}
  /\ \A f \in call.claim : disk[f] # Absent

(* ingest_workspace_manifest_if_present finds every file of the manifest   *)
(* and, where there is one, its sha256 fits.                               *)
Ingestible ==
  /\ call.claim # {}
  /\ \A f \in call.claim : /\ disk[f] # Absent
                           /\ call.hashed => disk[f] = call.writer

ManifestMissing ==
  /\ Took("generator", "completed")
  /\ settings.manifest_first /\ ~workspace_ingest_should_attempt(call.object)
  /\ persist_invocation_failure
  /\ UNCHANGED <<disk, marked>>

IngestFails ==
  /\ Took("generator", "completed")
  /\ workspace_ingest_should_attempt(call.object) /\ ~Ingestible
  /\ persist_invocation_failure
  /\ marked' = TRUE
  /\ UNCHANGED disk

(* The files of the manifest take the place of the inline frontend files.  *)
ingest_workspace_manifest ==
  /\ Took("generator", "completed")
  /\ workspace_ingest_should_attempt(call.object) /\ Ingestible
  /\ call' = [call EXCEPT
                !.object.full = @ \cup {"artifact_outputs"},
                !.object.frontend = IF HtmlFile \in call.claim THEN "html" ELSE "assets",
                !.bundle = {<<f, disk[f]>> : f \in call.claim}]
  /\ Go("generator", "bundle")
  /\ OnlyAt /\ UNCHANGED tables

NothingToIngest ==
  /\ Took("generator", "completed")
  /\ ~settings.manifest_first /\ ~workspace_ingest_should_attempt(call.object)
  /\ Go("generator", "bundle")
  /\ OnlyAt /\ UNCHANGED call /\ UNCHANGED tables

(* A bundle that is not one, and a structured decline; neither is marked.  *)
GeneratorRejected ==
  /\ At("generator", "bundle")
  /\ declines(call.object) \/ ~BundleAccepted(settings.vertical, call.object)
  /\ persist_invocation_failure
  /\ UNCHANGED <<disk, marked>>

Normalized == normalize_generator_output(call.object)

SaveGeneratorRow ==
  /\ At("generator", "bundle")
  /\ ~declines(call.object) /\ BundleAccepted(settings.vertical, call.object)
  /\ save_role_invocation(Row("completed", "wire"))
  /\ Go("generator", IF Normalized.rescued THEN "rescue" ELSE "final")
  /\ OnlyAt /\ UNCHANGED <<call, specs, candidates, reports, checkpoints>>

(* The row is saved again with normalization_rescue in its metadata, and   *)
(* once more with the output after normalization.                          *)
SaveRescue ==
  /\ At("generator", "rescue")
  /\ save_role_invocation(Row("completed", "rescue"))
  /\ Go("generator", "final")
  /\ OnlyAt /\ UNCHANGED <<call, specs, candidates, reports, checkpoints>>

SaveNormalized ==
  /\ At("generator", "final")
  /\ save_role_invocation(Row("completed", "final"))
  /\ Go("generator", "record")
  /\ OnlyAt /\ UNCHANGED <<call, specs, candidates, reports, checkpoints>>

Candidate ==
  [call |-> call.id, spec |-> held.spec, bundle |-> call.bundle,
   writer |-> call.writer, hashed |-> call.hashed,
   content |-> Normalized.content, frontend |-> Normalized.frontend,
   rescued |-> Normalized.rescued, degraded |-> Normalized.degraded]

save_build_candidate ==
  /\ At("generator", "record")
  /\ candidates' = candidates \cup {Candidate}
  /\ held' = [held EXCEPT !.candidate = call.id]
  /\ Go("generator", "checkpoint")
  /\ UNCHANGED <<settings, status, iteration, resumes, calls, call, gateway, disk,
                 marked, rows, specs, reports, checkpoints>>

----------------------------------------------------------------------------
(* evaluator_node after the call.                                          *)

SaveEvaluatorRow ==
  /\ Took("evaluator", "completed")
  /\ save_role_invocation(Row("completed", "final"))
  /\ Go("evaluator", "record")
  /\ OnlyAt /\ UNCHANGED <<call, specs, candidates, reports, checkpoints>>

save_evaluation_report ==
  /\ At("evaluator", "record")
  /\ reports' = reports \cup {[call |-> call.id, candidate |-> held.candidate]}
  /\ Go("evaluator", "checkpoint")
  /\ OnlyAt /\ UNCHANGED <<call, rows, specs, candidates, checkpoints>>

----------------------------------------------------------------------------
(* The post_step checkpoint ends a node.                                   *)

After(role) == CASE role = "planner"   -> "generator"
                 [] role = "generator" -> "evaluator"
                 [] role = "evaluator" -> "evaluator"

PostStep(role) ==
  /\ At(role, "checkpoint")
  /\ checkpoints' = checkpoints \cup {[role |-> role, call |-> call.id]}
  /\ call' = NoCall
  /\ Go(After(role), IF role = "evaluator" THEN "decide" ELSE "enter")
  /\ OnlyAt /\ UNCHANGED <<rows, specs, candidates, reports>>

(* decision_router: iterate with a new plan or without, or go on to the    *)
(* staging node and the end.                                               *)
Iterate(role) ==
  /\ At("evaluator", "decide")
  /\ iteration < MaxIterations
  /\ role \in {"planner", "generator"}
  /\ iteration' = iteration + 1
  /\ Go(role, "enter")
  /\ UNCHANGED <<settings, status, resumes, held, calls, call, gateway, disk, marked>>
  /\ UNCHANGED tables

Finish ==
  /\ At("evaluator", "decide")
  /\ status' = "completed" /\ at' = Idle("over")
  /\ UNCHANGED <<settings, iteration, resumes, held, calls, call, gateway, disk, marked>>
  /\ UNCHANGED tables

----------------------------------------------------------------------------
(* Crash and resume.                                                       *)

ProcessDies ==
  /\ at.role \in Roles
  /\ resumes < MaxResumes
  /\ at' = Idle("down") /\ call' = NoCall /\ held' = NothingHeld
  /\ gateway' = Lasting(gateway)
  /\ UNCHANGED <<settings, status, iteration, resumes, calls, disk, marked>>
  /\ UNCHANGED tables

(* A run that failed or whose process died is run again from the start.    *)
Resume ==
  /\ at = Idle("down") \/ (at = Idle("over") /\ status = "failed")
  /\ resumes < MaxResumes
  /\ resumes' = resumes + 1
  /\ status' = "running" /\ iteration' = 0
  /\ Go("planner", "enter")
  /\ UNCHANGED <<settings, held, calls, call, gateway, disk, marked>> /\ UNCHANGED tables

----------------------------------------------------------------------------
BeforeCall ==
  \/ EnterPlanner \/ EnterGenerator \/ EnterEvaluator
  \/ PlannerRefused \/ GeneratorRefused \/ EvaluatorRefused

PlannerAfter == PlannerRejected \/ SavePlannerRow \/ save_build_spec

GeneratorAfter ==
  \/ ManifestMissing \/ IngestFails \/ ingest_workspace_manifest \/ NothingToIngest
  \/ GeneratorRejected \/ SaveGeneratorRow \/ SaveRescue \/ SaveNormalized
  \/ save_build_candidate

EvaluatorAfter == SkipEvaluation \/ SaveEvaluatorRow \/ save_evaluation_report

(* The run's thread, but for the answer it waits for.                      *)
Node ==
  \/ BeforeCall
  \/ \E role \in Roles :
       invoke(role) \/ CallFailed(role) \/ PostStep(role) \/ Iterate(role)
  \/ PlannerAfter \/ GeneratorAfter \/ EvaluatorAfter \/ Finish

AnyAttemptFails == \E goesOn \in BOOLEAN : AttemptFails(goesOn)

Gateway ==
  \E e \in gateway :
    \/ \E f \in Files : GatewayWrites(e, f)
    \/ \E a \in Answers[e.role] : GatewayAnswers(e, a)
    \/ GatewayRefuses(e)

Next == Node \/ AnyAttemptFails \/ Gateway \/ ProcessDies \/ Resume

Spec == Init /\ [][Next]_vars

(* The thread of a run goes on while its process lives, and the client's   *)
(* timeouts end every attempt.  Nothing is assumed of the gateway.         *)
FairSpec == Spec /\ WF_vars(Node) /\ WF_vars(AnyAttemptFails)

----------------------------------------------------------------------------
(* Properties.                                                             *)

CompletedCall(id, role) == id \in DOMAIN rows /\ rows[id].role = role
                                              /\ rows[id].status = "completed"

Record(role) == IF role = "planner" THEN {s.call : s \in specs}
                ELSE IF role = "generator" THEN {c.call : c \in candidates}
                ELSE {r.call : r \in reports}

(* Whatever step the process dies at, and however often the run is         *)
(* resumed, each specification, candidate and report belongs to a saved    *)
(* call that completed, refers to saved records, and is saved before the   *)
(* checkpoint that names it: the rows are written one at a time, without a *)
(* transaction.                                                            *)
RecordsHaveTheirRows ==
  /\ \A role \in Roles : \A id \in Record(role) : CompletedCall(id, role)
  /\ \A c \in candidates : c.spec \in Record("planner")
  /\ \A r \in reports : r.candidate \in Record("generator")
  /\ \A k \in checkpoints : k.call \in Record(k.role)

(* A candidate ingested through a manifest with hashes holds the files as  *)
(* the attempt that answered wrote them, although attempts the client gave *)
(* up on go on writing in the same workspace.                              *)
HashedBundleIsWhole ==
  \A c \in candidates : c.hashed => \A p \in c.bundle : p[2] = c.writer

(* A run that ends because of a call leaves that call's row, failed: what  *)
(* the operator's failure view is made of.                                 *)
FailureIsRecorded ==
  [][status = "running" /\ status' = "failed" /\ call.id # 0
       => call.id \in DOMAIN rows' /\ rows'[call.id].status = "failed"]_vars

(* A call ends: retries are bounded, so a run whose process lives comes to *)
(* its end whatever the gateway does.                                      *)
RunSettles == at.role \in Roles ~> at.role \notin Roles

(* The contract of role_outputs is what the client takes: an object that   *)
(* fits it is not refused.                                                 *)
ContractIsTaken == call.fits => call.status # "failed"

(* No file of a failed call ends up in a later candidate.                  *)
NoFailedFileLeaks ==
  \A c \in candidates : \A p \in c.bundle :
    p[2][1] \in DOMAIN rows => rows[p[2][1]].status = "completed"
=============================================================================
