---------------------------- MODULE MCGraphLoop -----------------------------
(* Small instances of GraphLoop for TLC.                                   *)
EXTENDS GraphLoop

CONSTANT MaxDepartures   \* bound: settings besides replan that differ from the default

(* The default configuration of config.py, with caps that fit the bounds.  *)
Default ==
  [weakCap |-> 1, replan |-> FALSE, threshold |-> 0, grounding |-> "artifact",
   spatial |-> FALSE, static |-> FALSE, force |-> FALSE]

Every ==
  [weakCap: {0, 1}, replan: BOOLEAN, threshold: {0, 2},
   grounding: {"browser", "artifact", "demo_gap"}, spatial: BOOLEAN, static: BOOLEAN,
   force: BOOLEAN]

(* The configurations near the default, with and without replanning.       *)
MCSettings ==
  {s \in Every :
     Cardinality({k \in DOMAIN s \ {"replan"} : s[k] # Default[k]}) <= MaxDepartures}
=============================================================================
