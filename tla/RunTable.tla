------------------------------ MODULE RunTable ------------------------------
(***************************************************************************)
(* The rows of table graph_run as the repository offers them: the status   *)
(* vocabulary of domain.py and the writes of the repository, each of them  *)
(* one atomic statement without a condition on the old row.  TableSpec is  *)
(* what the table promises whoever calls it in whatever order; GraphRun    *)
(* says who calls it when, and is shown to implement TableSpec.            *)
(***************************************************************************)
EXTENDS Naturals, FiniteSets

CONSTANTS
  Runs,         \* graph_run ids
  Threads,      \* thread ids
  NoThread,     \* "no thread"
  UniqueIndex   \* TRUE: Supabase, whose partial unique index also guards UPDATEs;
                \* FALSE: the in-memory repository, which only checks inserts

ASSUME TableAssumption == NoThread \notin Threads /\ UniqueIndex \in BOOLEAN

VARIABLES
  status,       \* graph_run.status, "absent" before the row exists
  asked,        \* graph_run.interrupt_requested_at is not null
  runThread     \* graph_run.thread_id

tableVars == <<status, asked, runThread>>

-----------------------------------------------------------------------------
ACTIVE_GRAPH_RUN_STATUSES   == {"starting", "running", "interrupt_requested"}
TERMINAL_GRAPH_RUN_STATUSES == {"completed", "failed", "interrupted"}
GraphRunStatus == ACTIVE_GRAPH_RUN_STATUSES \cup TERMINAL_GRAPH_RUN_STATUSES \cup {"paused"}

VALID_STATUS_TRANSITIONS ==
  [s \in GraphRunStatus |->
     CASE s = "starting"            -> {"running", "failed"}
       [] s = "running"             -> {"completed", "failed", "interrupted",
                                        "interrupt_requested", "paused"}
       [] s = "paused"              -> {"running", "failed"}
       [] s = "interrupt_requested" -> {"interrupted", "failed"}
       [] OTHER                     -> {}]

is_valid_status_transition(current, target) == target \in VALID_STATUS_TRANSITIONS[current]

IsActive(r) == status[r] \in ACTIVE_GRAPH_RUN_STATUSES

(* Some other row of thread t is active.                                   *)
ActiveOnThread(r, t) == \E o \in Runs \ {r} : runThread[o] = t /\ IsActive(o)

(* graph_run_one_active_per_thread refuses an UPDATE that would leave r    *)
(* active; the in-memory repository has no such check.                     *)
UpdateRefused(r) == UniqueIndex /\ ActiveOnThread(r, runThread[r])

RowTypeOK ==
  /\ status    \in [Runs -> GraphRunStatus \cup {"absent"}]
  /\ asked     \in [Runs -> BOOLEAN]
  /\ runThread \in [Runs -> Threads \cup {NoThread}]

TableInit ==
  /\ status    = [r \in Runs |-> "absent"]
  /\ asked     = [r \in Runs |-> FALSE]
  /\ runThread = [r \in Runs |-> NoThread]

-----------------------------------------------------------------------------
(* The writes of the repository.                                           *)

(* A new row with status starting; ActiveGraphRunPerThreadConflictError    *)
(* when the thread has an active row.                                      *)
save_graph_run(r, t) ==
  /\ status[r] = "absent"
  /\ ~ActiveOnThread(r, t)
  /\ status'    = [status EXCEPT ![r] = "starting"]
  /\ runThread' = [runThread EXCEPT ![r] = t]
  /\ UNCHANGED asked

(* Mutant: interrupt_requested_at is cleared by every status change.       *)
update_graph_run_status_clearing(r, s) ==
  /\ s \in TERMINAL_GRAPH_RUN_STATUSES \/ ~UpdateRefused(r)
  /\ status' = [status EXCEPT ![r] = s]
  /\ asked'  = [asked EXCEPT ![r] = FALSE]
  /\ UNCHANGED runThread

(* A terminal status also clears interrupt_requested_at.                   *)
update_graph_run_status(r, s) ==
  /\ s \in TERMINAL_GRAPH_RUN_STATUSES \/ ~UpdateRefused(r)
  /\ status' = [status EXCEPT ![r] = s]
  /\ asked'  = [asked EXCEPT ![r] = @ /\ s \notin TERMINAL_GRAPH_RUN_STATUSES]
  /\ UNCHANGED runThread

(* Back to running for an operator resume, from any status.                *)
mark_graph_run_resuming(r) ==
  /\ ~UpdateRefused(r)
  /\ status' = [status EXCEPT ![r] = "running"]
  /\ asked'  = [asked EXCEPT ![r] = FALSE]
  /\ UNCHANGED runThread

(* The write of request_graph_run_interrupt; its read came before.         *)
write_interrupt_request(r) ==
  /\ ~UpdateRefused(r)
  /\ status' = [status EXCEPT ![r] = "interrupt_requested"]
  /\ asked'  = [asked EXCEPT ![r] = TRUE]
  /\ UNCHANGED runThread

-----------------------------------------------------------------------------
Insert(r) == \E t \in Threads : save_graph_run(r, t)

Write(r) ==
  /\ status[r] # "absent"
  /\ \/ \E s \in TERMINAL_GRAPH_RUN_STATUSES \cup {"running"} :
          update_graph_run_status(r, s)
     \/ mark_graph_run_resuming(r)
     \/ write_interrupt_request(r)

TableNext == \E r \in Runs : Insert(r) \/ Write(r)

(* Rows are only inserted, as starting and on a thread without an active   *)
(* row, and then updated by the writes above: no row changes its thread,   *)
(* none disappears and none is written before it exists.                   *)
TableSpec == TableInit /\ [][TableNext]_tableVars

-----------------------------------------------------------------------------
(* A thread never has two active rows, although starting, resuming and     *)
(* interrupting all read the row first and write it later without a        *)
(* condition (graph_run_one_active_per_thread on Supabase).                *)
OneActivePerThread ==
  \A r, o \in Runs :
    r # o /\ IsActive(r) /\ IsActive(o) => runThread[r] # runThread[o]

(* A closed row carries no interrupt request that a later execution of the *)
(* run would obey, and a row waiting for its interrupt carries one.        *)
RequestMatchesStatus ==
  \A r \in Runs :
    /\ status[r] \in TERMINAL_GRAPH_RUN_STATUSES => ~asked[r]
    /\ status[r] = "interrupt_requested" => asked[r]
=============================================================================
