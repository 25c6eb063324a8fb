---------------------------- MODULE RoleAnswers ----------------------------
(***************************************************************************)
(* What the orchestrator makes of the text a role agent answered with: how *)
(* the gateway's body is reduced to one JSON object, the contract of each  *)
(* role on the wire, and how a generator's object becomes the bundle of a  *)
(* build candidate.  Pure operators: RoleCalls has the calls and the rows. *)
(*                                                                         *)
(* A JSON object is abstracted to the role-shaped dictionary in it: the    *)
(* keys it has, those whose value is of use (non-empty, a dictionary, a    *)
(* known verdict), and the number of wrapper dictionaries around it.       *)
(***************************************************************************)
EXTENDS Naturals, Sequences, FiniteSets, SequencesExt

Roles == {"planner", "generator", "evaluator"}

GeneratorFields == {"proposed_changes", "updated_state", "artifact_outputs"}

(* "workspace_manifest" stands for workspace_manifest_v1 with files and    *)
(* sandbox_ref together, "variation" for the keys of event_input.variation,*)
(* "failed" for status = "failed".                                         *)
Keys == GeneratorFields \cup
        {"build_spec", "status", "workspace_manifest", "contract_failure",
         "variation", "failed"}

Frontend == {"none", "assets", "html"}   \* the frontend files of a list, the best of them

(* frontend: the frontend files in artifact_outputs.  blocks: it has       *)
(* html_block_v1 parts.  promotable: the component/ files with content     *)
(* under proposed_changes or updated_state.                                *)
Object == [has : SUBSET Keys, full : SUBSET Keys, depth : 0 .. 7,
           frontend : Frontend, blocks : BOOLEAN, promotable : Frontend]

(* The text of choices[0].message.content.                                 *)
TextKind == {"none", "placeholder", "object", "list", "scalar", "mixed"}

(* Blocks are elements of artifact_outputs, which is then not empty.       *)
IsObject(o) == o \in Object /\ (o.blocks => "artifact_outputs" \in o.full)

IsText(t) ==
  /\ t.kind \in TextKind /\ t.cut \in BOOLEAN
  /\ t.objects \in Seq(Object) /\ \A i \in DOMAIN t.objects : IsObject(t.objects[i])

Failure(kind) == [ok |-> FALSE, error |-> kind]
Taken(o)      == [ok |-> TRUE, object |-> o]

----------------------------------------------------------------------------
(* Recognition.                                                            *)

(* _looks_like_role_output is the same for every role, and does not know   *)
(* workspace_manifest_v1.                                                  *)
looks_like_role_output(o) ==
  \/ o.has \cap (GeneratorFields \cup {"build_spec"}) # {}
  \/ o.full \cap {"status", "contract_failure"} # {}

Unwrapped(o) == [o EXCEPT !.depth = 0]

(* _find_planner_contract_dict: a build_spec dictionary up to six wrappers *)
(* deep.                                                                   *)
HasPlannerContract(o) == "build_spec" \in o.full /\ o.depth <= 6

looks_like_variation_only_echo(o) == o.depth = 0 /\ o.has = {"variation"}

(* _synthetic_planner_from_variation_echo                                  *)
SyntheticPlan == [has |-> {"build_spec"}, full |-> {"build_spec"}, depth |-> 0,
                  frontend |-> "none", blocks |-> FALSE, promotable |-> "none"]

(* Which objects of a text with several are worth taking.                  *)
Recognised(role, o) ==
  IF role = "planner" THEN HasPlannerContract(o)
                      ELSE o.depth = 0 /\ looks_like_role_output(o)

(* The planner's hit is already unwrapped.                                 *)
Found(role, o) == IF role = "planner" THEN Unwrapped(o) ELSE o

(* _parse_chat_completion_json_content: the object the text stands for.    *)
(* Text that is not JSON as a whole is searched for the first object that  *)
(* looks right, then for any object; only when there is none is the text   *)
(* said to be truncated.                                                   *)
parse_content(role, text) ==
  LET hits == {i \in DOMAIN text.objects : Recognised(role, text.objects[i])}
  IN CASE text.kind = "none"        -> Failure("invalid_response")
       [] text.kind = "placeholder" -> Failure("provider_error")
       [] text.kind = "scalar"      -> Failure("invalid_response")
       [] text.kind \in {"object", "list", "mixed"} /\ hits # {} ->
            Taken(Found(role, text.objects[Min(hits)]))
       [] text.kind = "list"        -> Failure("invalid_response")
       [] text.objects # <<>>       -> Taken(text.objects[1])
       [] OTHER -> Failure(IF text.cut THEN "truncated_output" ELSE "invalid_response")

(* extract_role_payload_from_openclaw_output: the object itself, its       *)
(* payloads, or a scan two wrappers deep.                                  *)
extract_role_payload(o) ==
  IF looks_like_role_output(o) /\ o.depth <= 2
    THEN Taken(Unwrapped(o))
    ELSE Failure("invalid_response")

(* _extract_http_role_dict                                                 *)
extract_http_role_dict(role, o) ==
  CASE o.depth = 0 /\ "failed" \in o.has               -> Failure("provider_error")
    [] o.depth <= 1 /\ looks_like_role_output(o)       -> Taken(Unwrapped(o))
    [] role = "planner" /\ HasPlannerContract(o)       -> Taken(Unwrapped(o))
    [] role = "planner" /\ looks_like_variation_only_echo(o) -> Taken(SyntheticPlan)
    [] OTHER                                           -> extract_role_payload(o)

(* GeneratorRoleOutput: one primary field, or a structured decline.        *)
at_least_one_primary_field(o) ==
  o.full \cap (GeneratorFields \cup {"workspace_manifest", "contract_failure"}) # {}

(* validate_role_contract, after _soft_fill_missing_contract_fields, which *)
(* invents none of the fields below.                                       *)
FitsContract(role, o) ==
  CASE role = "planner"   -> "build_spec" \in o.full
    [] role = "generator" -> at_least_one_primary_field(o)
    [] role = "evaluator" -> "status" \in o.full

apply_role_contract(role, r) ==
  IF r.ok /\ ~FitsContract(role, r.object) THEN Failure("contract_validation") ELSE r

(* What the HTTP client returns for the text of an answer.                 *)
RoleAnswer(role, text) ==
  LET parsed == parse_content(role, text)
  IN IF ~parsed.ok THEN parsed
     ELSE apply_role_contract(role, extract_http_role_dict(role, parsed.object))

----------------------------------------------------------------------------
(* From a generator's object to the bundle of a candidate.                 *)

declines(o) == "contract_failure" \in o.full

(* workspace_ingest_not_attempted_reason is None.                          *)
workspace_ingest_should_attempt(o) == ~declines(o) /\ "workspace_manifest" \in o.full

(* validate_generator_output_for_candidate and                             *)
(* validate_static_frontend_bundle_requirement: a frontend vertical needs  *)
(* an HTML file among the artifacts, unless the generator declined.        *)
BundleAccepted(vertical, o) ==
  \/ declines(o)
  \/ /\ o.full \cap (GeneratorFields \cup {"workspace_manifest"}) # {} \/ o.blocks
     /\ vertical = "frontend" => ("artifact_outputs" \in o.full /\ o.frontend = "html")

(* _GeneratorPersistableBody                                               *)
Persistable(o) == o.full \cap (GeneratorFields \cup {"workspace_manifest"}) # {}

(* _recover_static_files_from_proposed_changes and _from_updated_state:    *)
(* files found elsewhere are promoted when the artifacts hold no frontend  *)
(* file and no block.                                                      *)
Recovers(o) == o.promotable # "none" /\ o.frontend = "none" /\ ~o.blocks

(* normalize_generator_output, as far as the candidate's bundle goes.      *)
normalize_generator_output(o) ==
  [content  |-> IF "artifact_outputs" \in o.full \/ Recovers(o) THEN "files"
                ELSE IF o.full \cap {"proposed_changes", "updated_state"} # {} THEN "patch"
                ELSE "nothing",
   frontend |-> IF Recovers(o) THEN o.promotable ELSE o.frontend,
   rescued  |-> Recovers(o),
   degraded |-> ~Persistable(o)]
=============================================================================
