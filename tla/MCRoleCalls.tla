---------------------------- MODULE MCRoleCalls ----------------------------
(* Answers of the three agents, each the shortest of its kind.             *)
EXTENDS RoleCalls

Text(kind, objects, cut) == [kind |-> kind, objects |-> objects, cut |-> cut]

Answer(text)        == [text |-> text, claim |-> {}, hashed |-> FALSE]
Said(o)             == Answer(Text("object", <<o>>, FALSE))
Wrapped(o, n)       == [o EXCEPT !.depth = n]
With(full)          == [NoObject EXCEPT !.has = full, !.full = full]
Meta                == NoObject

Plan == With({"build_spec"})
MCPlans ==
  {Said(Wrapped(Plan, 3)), Said([NoObject EXCEPT !.has = {"variation"}]),
   Answer(Text("mixed", <<>>, TRUE)), Said(With({"updated_state"}))}

Inline     == [With({"artifact_outputs"}) EXCEPT !.frontend = "html"]
Checklist  == With({"proposed_changes"})
Promotable == [Checklist EXCEPT !.promotable = "assets"]
Decline    == With({"contract_failure"})
Empty      == [NoObject EXCEPT !.has = {"artifact_outputs"}]
Manifest   == [With({"workspace_manifest"}) EXCEPT !.has = @ \cup {"artifact_outputs"}]
BareManifest == With({"workspace_manifest"})
Claims(o, files, hashed) ==
  [text |-> Text("object", <<o>>, FALSE), claim |-> files, hashed |-> hashed]

MCBuilds ==
  {Said(Wrapped(Inline, 1)), Said(Promotable), Said(Decline), Said(Empty),
   Claims(Manifest, Files, TRUE),
   Claims(Manifest, Files, FALSE)}

Verdict == With({"status"})
MCVerdicts == {Answer(Text("mixed", <<Meta, Verdict>>, FALSE)), Answer(Text("list", <<Meta>>, FALSE))}

MCAnswers == [planner |-> MCPlans, generator |-> MCBuilds, evaluator |-> MCVerdicts]

(* With a manifest and nothing else, as docs and contract allow.           *)
MCBareAnswers == [MCAnswers EXCEPT !.generator = {Claims(BareManifest, {HtmlFile}, FALSE)}]
=============================================================================
