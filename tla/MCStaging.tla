------------------------------ MODULE MCStaging ------------------------------
(* A small instance of Staging for TLC.                                    *)
EXTENDS Staging, TLC

Draft(paths, verdict, issues, intent, targets, fresh) ==
  [paths |-> paths, verdict |-> verdict, issues |-> issues, nominated |-> "silent",
   intent |-> intent, targets |-> targets, fresh |-> fresh, preview |-> TRUE]

(* One build of each kind that the node tells apart.                       *)
MCDrafts ==
  {Draft({Page}, "pass", 0, "none", {}, FALSE),
   Draft(Paths \ {Page}, "partial", 1, "remove_stale", {Page}, FALSE),
   Draft({Page}, "fail", 1, "rebuild_full", {}, FALSE),
   Draft(Paths, "pass", 0, "replace", {}, TRUE),
   Draft(Paths, "blocked", 0, "none", {}, FALSE)}

MCSymmetry == Permutations(Operators)
=============================================================================
