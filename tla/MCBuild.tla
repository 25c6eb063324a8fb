------------------------------- MODULE MCBuild -------------------------------
(* What becomes of a build before the decision, in one model for TLC: a    *)
(* behaviour is about its blocks and the pages of working staging, or      *)
(* about its report and the gates.                                         *)
EXTENDS Build, TLC

CONSTANTS home, about

VARIABLE part

-----------------------------------------------------------------------------
(* Pages and blocks.                                                       *)

(* A page whose hero and nav are inside of main; its foot is not.          *)
Inner(id) == [id |-> id, text |-> "old"]
OldPage ==
  <<[id |-> "main", text |-> "old", inner |-> <<Inner("hero"), Inner("nav")>>],
    [id |-> "foot", text |-> "old", inner |-> <<>>]>>

Block(path, op, target, id, text) ==
  [path |-> path, op |-> op, target |-> target, content |-> [id |-> id, text |-> text]]

(* Of an element its replacement by two texts, of the body all that can be *)
(* done, of the other page an addition and a replacement.                  *)
MCBlocks ==
  {Block(home, "replace", id, id, text) : id \in {"main", "hero", "foot"}, text \in {"old", "new"}}
    \cup {Block(home, "replace", "hero", "nav", "new"), Block(home, "replace", "__body__", "foot", "new")}
    \cup {Block(home, op, "__body__", "hero", "new") : op \in {"append_to_body", "prepend_to_body"}}
    \cup {Block(about, "append_to_body", "__body__", "nav", "new"),
          Block(about, "replace", "hero", "hero", "new")}

MCBuilds ==
  [blocks: {<<>>} \cup {<<b>> : b \in MCBlocks} \cup {<<b, c>> : b, c \in MCBlocks},
   own: {[p \in {} |-> <<>>], home :> OldPage}]

MCEarlier == {[p \in {} |-> <<>>], (home :> OldPage) @@ (about :> <<>>)}

-----------------------------------------------------------------------------
(* Reports.                                                                *)

MCConfigurations ==
  {[base |-> p[1], baseHost |-> p[2], allow |-> FALSE, smoke |-> smoke, vertical |-> vertical,
    cool |-> cool, spatial |-> cool, fresh |-> fresh] :
     p \in {<<"configured", "private">>, <<"configured", "public">>,
            <<"derived_local", "private">>, <<"none", "none">>},
     smoke \in BOOLEAN, vertical \in {"static", "interactive", "other"},
     cool \in BOOLEAN, fresh \in BOOLEAN}

Sound ==
  [previewHost |-> "none", h1 |-> TRUE, duplicate |-> "no", gallery |-> TRUE, unhealthy |-> FALSE,
   literals |-> TRUE, text |-> TRUE, motion |-> TRUE, ack |-> "executed",
   findings |-> {}, flat |-> FALSE]

(* A sound candidate, and some that one or two gates object to.            *)
MCCandidates ==
  {Sound,
   [Sound EXCEPT !.duplicate = "older_snapshot"],
   [Sound EXCEPT !.duplicate = "cleared_surface", !.flat = TRUE],
   [Sound EXCEPT !.unhealthy = TRUE, !.motion = FALSE],
   [Sound EXCEPT !.literals = FALSE, !.ack = "silent"],
   [Sound EXCEPT !.findings = {"required_library_missing"}],
   [Sound EXCEPT !.unhealthy = TRUE, !.findings = {"weak_iteration_delta"}],
   [Sound EXCEPT !.flat = TRUE, !.previewHost = "public"]}

MCRawIssues == {{}, {"missing_preview"}, {"required_library_missing"}}

-----------------------------------------------------------------------------
MCInit ==
  /\ Init /\ Blocks!Init
  /\ part \in {"blocks", "report"}
  /\ part = "blocks" =>
       /\ config = CHOOSE c \in Configurations : TRUE
       /\ candidate = Sound
       /\ said.status = "pass" /\ said.issues = {}

MCNext ==
  \/ part = "blocks" /\ Blocks!Next /\ UNCHANGED <<part, config, candidate, said, report, step>>
  \/ part = "report" /\ Next /\ UNCHANGED <<part, files, build, refs, staged>>

MCSpec ==
  MCInit /\ [][MCNext]_<<part, config, candidate, said, report, step, files, build, refs, staged>>
==============================================================================
