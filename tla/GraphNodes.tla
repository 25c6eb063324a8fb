----------------------------- MODULE GraphNodes -----------------------------
(***************************************************************************)
(* The shape of the LangGraph that build_compiled_graph compiles: its      *)
(* nodes and edges.  The lifecycle of a run (GraphRun) only knows this     *)
(* much of the graph; GraphLoop has the data that the edges depend on.     *)
(***************************************************************************)
EXTENDS Naturals

CONSTANT MaxIterations  \* max_iterations of a run

ASSUME MaxIterationsAssumption == MaxIterations \in Nat

Nodes == {"context_hydrator", "checkpoint_pre", "planner", "generator",
          "evaluator", "decision_router", "staging"}

(* Where the graph may go after a node in iteration i.  The decision       *)
(* iterates only below max_iterations, with a new plan or without.         *)
Successors(n, i) ==
  CASE n = "context_hydrator" -> {"checkpoint_pre"}
    [] n = "checkpoint_pre"   -> {"planner"}
    [] n = "planner"          -> {"generator"}
    [] n = "generator"        -> {"evaluator"}
    [] n = "evaluator"        -> {"decision_router"}
    [] n = "decision_router"  ->
         {"staging"} \cup (IF i < MaxIterations THEN {"planner", "generator"} ELSE {})
    [] OTHER                  -> {}

(* A retry is the next iteration.                                          *)
NextIteration(n, m, i) ==
  IF n = "decision_router" /\ m # "staging" THEN i + 1 ELSE i

(* The decision "interrupt" and the staging node lead to END.              *)
MayEnd(n) == n \in {"decision_router", "staging"}
=============================================================================
