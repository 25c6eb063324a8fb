-------------------------- MODULE MCAutonomousLoop --------------------------
(* Small instances of AutonomousLoop for TLC.                              *)
EXTENDS AutonomousLoop, TLC

CONSTANTS d1, d2

MCInitialDirections == <<d1, d2>>
MCOneDirection == <<d1>>
Symmetry == Permutations(Workers) \cup Permutations(Operators)
=============================================================================
