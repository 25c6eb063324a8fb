-------------------------------- MODULE Build --------------------------------
(***************************************************************************)
(* What becomes of a build before the decision, side by side: its HTML     *)
(* blocks on the pages of working staging (HtmlBlocks), and its report on  *)
(* the way through the gates of evaluator_node (Evaluation).  They share   *)
(* no state.                                                               *)
(***************************************************************************)
EXTENDS Evaluation, FiniteSets

CONSTANTS Paths, Ids, Wordings, Builds, Earlier, MaxStaged

VARIABLES files, build, refs, staged

blockVars == <<files, build, refs, staged>>

Blocks == INSTANCE HtmlBlocks

(* There are finitely many files, and pages are pages.                     *)
ASSUME BlocksAssumption ==
  /\ IsFiniteSet(Paths) /\ MaxStaged \in Nat
  /\ \A b \in Builds : Blocks!IsBuild(b)
  /\ \A map \in Earlier : Blocks!IsFiles(map)

----------------------------------------------------------------------------
(* What a block brings is on its page: HtmlBlocks says when.               *)
WorkIsShown == Blocks!WorkIsShown

(* What no block replaces stays on its page: HtmlBlocks says what.         *)
RestIsKept == Blocks!RestIsKept
=============================================================================
