----------------------------- MODULE RunServices ----------------------------
(***************************************************************************)
(* Three services that the runs of a process share, side by side: what an  *)
(* identity's runs and operators teach each other (CrossRunMemory), the    *)
(* hourly budget of the image agent (ImageBudget), and the repository that *)
(* records are saved in (Repositories).  They share no state.              *)
(***************************************************************************)
EXTENDS CrossRunMemory

(* The budget.                                                             *)
CONSTANTS Threads, Requests, ImageKeySet, Cap, Estimates, Hour, Delay, MaxTime

VARIABLES clock, windows, singleton, call, granted

budgetVars == <<clock, windows, singleton, call, granted>>

Budget == INSTANCE ImageBudget

(* The repository.                                                         *)
CONSTANTS Tables, Clients, Owners, IdentityOwners, Limit, MaxAttempts, MaxBumps, MaxRecords,
          MaxVersions

VARIABLES table, indexed, stored, rows, made, saving, answered, refused, alone

storeVars == <<table, indexed, stored, rows, made, saving, answered, refused, alone>>

Store == INSTANCE Repositories WITH memory <- stored, call <- saving

----------------------------------------------------------------------------
(* A planner's mode is one of the modes, None is no row of the memory, and *)
(* a strength is whole when it is written.                                 *)
ASSUME MemoryAssumption ==
  /\ MaxAge \in Nat /\ Authored \subseteq Modes
  /\ Fade \in [0 .. MaxAge -> 0 .. 1000]
  /\ None \notin Row /\ None \notin [mode : Modes \cup {None}, strength : 0 .. 100]

(* The guard's cap and the estimates are ints, cut off at zero.            *)
ASSUME BudgetAssumption ==
  /\ Cap \in Nat /\ Hour \in Nat /\ Delay \in Nat /\ MaxTime \in Nat
  /\ Estimates \subseteq Nat

(* The tables are the repository's; None is neither a number nor a row.    *)
ASSUME StoreAssumption ==
  /\ Tables \subseteq Store!MemoryTables /\ IdentityOwners \subseteq Owners
  /\ Limit \in Nat \ {0} /\ MaxAttempts \in Nat \ {0} /\ MaxBumps \in Nat \ {0}
  /\ MaxRecords \in [Tables -> Nat] /\ MaxVersions \in Nat \ {0}
  /\ None \notin Nat /\ \A t \in Tables : None \notin Store!RecordOf(t)

----------------------------------------------------------------------------
(* No hour exceeds the cap: ImageBudget says which.                        *)
WithinCap == Budget!WithinCap

(* Nothing is denied that would fit: ImageBudget says when.                *)
DeniedOnlyWhenFull == Budget!DeniedOnlyWhenFull

(* Both implementations answer alike: Repositories says which reads.       *)
ReadsAgree == Store!ReadsAgree

(* A save that returned is in its table: Repositories says what of it.     *)
AnsweredIsStored == Store!AnsweredIsStored

(* The events of a run are numbered without gaps.                          *)
EventNumbers == Store!EventNumbers

(* No retry is refused as a duplicate of itself.                           *)
RetryIsSafe == Store!RetryIsSafe
=============================================================================
