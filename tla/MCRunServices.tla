--------------------------- MODULE MCRunServices ---------------------------
(* Three services of a run that share nothing, in one model for TLC: a     *)
(* behaviour is about the memory of an identity, the image budget, or one  *)
(* table of the repository.                                                *)
EXTENDS RunServices, TLC

CONSTANT Services   \* the services a run of TLC is about

VARIABLE service

(* One request that names images, one of the static vertical that does not *)
(* name them where that counts.                                            *)
MCRequests ==
  {[static |-> static, artifact |-> FALSE, scenario |-> TRUE, surface |-> FALSE,
    kind |-> FALSE, criteria |-> FALSE] : static \in BOOLEAN}

(* An identity that is surely spatial, and one that is vague.              *)
MCProfiles ==
  {[visual |-> visual, complexity |-> "moderate", content |-> {}, creative |-> FALSE] :
     visual \in {{"spatial"}, {}}}

(* Three events, so that one may find two numbers taken and give up.       *)
MCMaxRecords == [t \in Tables |-> IF t = "graph_run_event" THEN 3 ELSE 2]

(* A tick is a quarter of a half-life: an approval steers for one, a       *)
(* publication for two.                                                    *)
MCFade == [age \in 0 .. MaxAge |-> <<1000, 841, 707, 595, 500>>[age + 1]]

MCSymmetry == Permutations(Threads) \cup Permutations(Runs) \cup Permutations(Clients)

(* What a behaviour is not about stays as one initial state has it: a      *)
(* memory without a past, an empty table.                                  *)
MCInit ==
  /\ Init /\ Budget!Init /\ Store!Init
  /\ service \in Services
  /\ service # "memory" =>
       /\ \A r \in Runs : ~run[r].static /\ run[r].profile = CHOOSE p \in Profiles : TRUE
       /\ \A k \in DOMAIN memory : memory[k] = None
  /\ service # "store" => table = "page_visit_log"

MCNext ==
  \/ service = "memory" /\ Next /\ UNCHANGED <<service, budgetVars, storeVars>>
  \/ service = "budget" /\ Budget!Next /\ UNCHANGED <<service, vars, storeVars>>
  \/ service = "store" /\ Store!Next /\ UNCHANGED <<service, vars, budgetVars>>

MCSpec == MCInit /\ [][MCNext]_<<service, vars, budgetVars, storeVars>>
=============================================================================
