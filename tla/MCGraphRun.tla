----------------------------- MODULE MCGraphRun -----------------------------
(* Small instances of GraphRun for TLC.                                    *)
EXTENDS GraphRun, TLC

Symmetry == Permutations(Runs) \cup Permutations(Procs)
=============================================================================
