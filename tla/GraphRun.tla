------------------------------ MODULE GraphRun ------------------------------
(***************************************************************************)
(* The lifecycle of graph runs: POST /orchestrator/runs/start, the         *)
(* background task that executes the LangGraph, cooperative interrupt,     *)
(* reconciliation of stale rows and operator resume.                       *)
(*                                                                         *)
(* A process is one HTTP request of the FastAPI server together with the   *)
(* background task that Starlette runs in the same request after the       *)
(* response.  Every process may do any request, one after the other.  The  *)
(* rows of table graph_run are shared by all processes, and each read or   *)
(* write of a row is one step: PostgREST has no transaction around them.   *)
(*                                                                         *)
(* pc[p] = "node" means that p is about to cross the boundary of the graph *)
(* node node[p]: the work of the previous node is over, the cooperative    *)
(* interrupt check of node[p] is not done yet.                             *)
(***************************************************************************)
EXTENDS RunTable, GraphNodes

CONSTANTS
  Procs,        \* request slots of the server
  NoRun,        \* "no graph run"
  NoProc,       \* "nobody holds the mutex"
  MaxCrashes,   \* bound: how often the server process may die
  Faults        \* TRUE: repository writes may fail in error paths and in requests

ASSUME ConstantsAssumption ==
  /\ NoRun \notin Runs
  /\ NoProc \notin Procs
  /\ MaxCrashes \in Nat
  /\ Faults \in BOOLEAN

VARIABLES
  \* more of the rows (status, asked and runThread: RunTable)
  aged,         \* started_at lies further back than the stale threshold
  errKind,      \* orchestrator_error.error_kind of the newest interrupt checkpoint
  \* the server process
  lock,         \* holder of each thread's process-local mutex
  pc,           \* what each process does next
  job,          \* the run a process works on
  onThread,     \* the thread a process works on
  node,         \* the graph node whose boundary comes next
  iter,         \* state["iteration_index"] of the execution
  mode,         \* kind of exception in flight, or which route reconciles
  crashes       \* number of crashes so far

rowVars  == <<tableVars, aged, errKind>>
execVars == <<node, iter>>
vars == <<status, asked, aged, errKind, runThread,
          lock, pc, job, onThread, node, iter, mode, crashes>>

-----------------------------------------------------------------------------
(* The steps during which a process is inside _run_graph_inner.            *)
Executing == {"invoke", "mark_running", "node", "ack_interrupt",
              "fail_checkpoint", "fail_status", "post", "completed", "post_failed"}

(* The other steps that belong to the background task of a run.            *)
Background == {"task", "bg_status", "bg_checkpoint"}

Requests == {"supersede", "persist", "stale_status", "stale_checkpoint",
             "eligibility", "resume_mark", "ask"}

PcStates == {"idle"} \cup Executing \cup Background \cup Requests
Modes    == {"none", "role", "other", "poll", "resume"}

-----------------------------------------------------------------------------
ProcTypeOK ==
  /\ pc        \in [Procs -> PcStates]
  /\ job       \in [Procs -> Runs \cup {NoRun}]
  /\ onThread  \in [Procs -> Threads \cup {NoThread}]
  /\ node      \in [Procs -> Nodes]
  /\ iter      \in [Procs -> Nat]
  /\ mode      \in [Procs -> Modes]

(* Every variable has its type.                                            *)
TypeOK ==
  /\ RowTypeOK
  /\ ProcTypeOK
  /\ aged    \in [Runs -> BOOLEAN]
  /\ errKind \in [Runs -> {"none", "stale", "other"}]
  /\ lock \in [Threads -> Procs \cup {NoProc}]
  /\ crashes \in Nat

Init ==
  /\ TableInit
  /\ aged      = [r \in Runs |-> FALSE]
  /\ errKind   = [r \in Runs |-> "none"]
  /\ lock      = [t \in Threads |-> NoProc]
  /\ pc        = [p \in Procs |-> "idle"]
  /\ job       = [p \in Procs |-> NoRun]
  /\ onThread  = [p \in Procs |-> NoThread]
  /\ node      = [p \in Procs |-> "context_hydrator"]
  /\ iter      = [p \in Procs |-> 0]
  /\ mode      = [p \in Procs |-> "none"]
  /\ crashes   = 0

-----------------------------------------------------------------------------
(* Pieces of steps.                                                        *)

Goto(p, to) == pc' = [pc EXCEPT ![p] = to]

(* The request (and its background task) is over.                          *)
Finish(p) ==
  /\ Goto(p, "idle")
  /\ job'      = [job EXCEPT ![p] = NoRun]
  /\ onThread' = [onThread EXCEPT ![p] = NoThread]
  /\ node'     = [node EXCEPT ![p] = "context_hydrator"]
  /\ iter'     = [iter EXCEPT ![p] = 0]
  /\ mode'     = [mode EXCEPT ![p] = "none"]

(* Leaving the with-block of run_graph.                                    *)
ReleaseThreadLock(p) == lock' = [lock EXCEPT ![onThread[p]] = NoProc]

(* update_graph_run_status writes nothing but its own columns.             *)
SetStatus(r, s) == update_graph_run_status(r, s) /\ UNCHANGED <<aged, errKind>>

(* save_checkpoint with checkpoint_kind "interrupt" and an error kind.     *)
SaveInterruptCheckpoint(r, kind) ==
  /\ errKind' = [errKind EXCEPT ![r] = kind]
  /\ UNCHANGED <<tableVars, aged>>

-----------------------------------------------------------------------------
(* POST /orchestrator/runs/start.                                          *)

(* thread_id given: read the thread's active run, then persist, finalize a *)
(* run that is only waiting to be interrupted, or answer 409 (no step).    *)
StartOnThread(p, t) ==
  /\ pc[p] = "idle"
  /\ onThread' = [onThread EXCEPT ![p] = t]
  /\ \/ /\ \A r \in Runs : runThread[r] = t => ~IsActive(r)
        /\ Goto(p, "persist")
        /\ UNCHANGED job
     \/ \E r \in Runs :
          /\ runThread[r] = t
          /\ status[r] = "interrupt_requested"
          /\ Goto(p, "supersede")
          /\ job' = [job EXCEPT ![p] = r]
  /\ UNCHANGED <<rowVars, execVars, lock, mode, crashes>>

(* habitat_session "fresh" or no thread_id: a new thread, nothing to read. *)
StartFresh(p, t) ==
  /\ pc[p] = "idle"
  /\ \A r \in Runs : runThread[r] # t
  /\ \A q \in Procs : onThread[q] # t
  /\ Goto(p, "persist")
  /\ onThread' = [onThread EXCEPT ![p] = t]
  /\ UNCHANGED <<rowVars, execVars, lock, job, mode, crashes>>

(* Mutant: the reason of the event is taken for the status.                *)
SupersedeWithReason(p) ==
  /\ pc[p] = "supersede"
  /\ SetStatus(job[p], "superseded_by_new_start")
  /\ Goto(p, "persist")
  /\ job' = [job EXCEPT ![p] = NoRun]
  /\ UNCHANGED <<execVars, lock, onThread, mode, crashes>>

(* _finalize_interrupt_requested_for_new_start, on the row read before.    *)
Supersede(p) ==
  /\ pc[p] = "supersede"
  /\ SetStatus(job[p], "interrupted")
  /\ Goto(p, "persist")
  /\ job' = [job EXCEPT ![p] = NoRun]
  /\ UNCHANGED <<execVars, lock, onThread, mode, crashes>>

(* Mutant: the row is born running, there is nothing to mark later.        *)
InsertRunAsRunning(r, t) ==
  /\ status[r] = "absent"
  /\ ~ActiveOnThread(r, t)
  /\ status'    = [status EXCEPT ![r] = "running"]
  /\ runThread' = [runThread EXCEPT ![r] = t]
  /\ UNCHANGED <<asked, aged, errKind>>

(* save_graph_run of persist_graph_run_start.                              *)
InsertRun(r, t) == save_graph_run(r, t) /\ UNCHANGED <<aged, errKind>>

(* The answer is 200 and the background task follows.                      *)
PersistRunStart(p) ==
  /\ pc[p] = "persist"
  /\ \E r \in Runs :
       /\ InsertRun(r, onThread[p])
       /\ job' = [job EXCEPT ![p] = r]
  /\ Goto(p, "task")
  /\ UNCHANGED <<execVars, lock, onThread, mode, crashes>>

(* asyncio.wait_for gave up (504), but the worker thread goes on and still *)
(* inserts the row; no background task will ever be added for it.          *)
PersistAfterTimeout(p) ==
  /\ pc[p] = "persist"
  /\ Faults
  /\ \E r \in Runs : InsertRun(r, onThread[p])
  /\ Finish(p)
  /\ UNCHANGED <<lock, crashes>>

(* Bound of the model: only the ids of Runs can be handed out.             *)
RunIdsExhausted == \A r \in Runs : status[r] # "absent"

(* ActiveGraphRunPerThreadConflictError (409), or the insert failed (500). *)
PersistFails(p) ==
  /\ pc[p] = "persist"
  /\ \/ \E r \in Runs : runThread[r] = onThread[p] /\ IsActive(r)
     \/ Faults
     \/ RunIdsExhausted
  /\ Finish(p)
  /\ UNCHANGED <<rowVars, lock, crashes>>

-----------------------------------------------------------------------------
(* run_graph_background, run_graph and _run_graph_inner.                   *)

(* Mutant: nobody waits for the mutex.                                     *)
AcquireThreadLockUnguarded(p) ==
  /\ pc[p] = "task"
  /\ lock' = [lock EXCEPT ![onThread[p]] = p]
  /\ Goto(p, "invoke")
  /\ UNCHANGED <<rowVars, execVars, job, onThread, mode, crashes>>

(* thread_lock, entered before anything is read.                           *)
AcquireThreadLock(p) ==
  /\ pc[p] = "task"
  /\ lock[onThread[p]] = NoProc
  /\ lock' = [lock EXCEPT ![onThread[p]] = p]
  /\ Goto(p, "invoke")
  /\ UNCHANGED <<rowVars, execVars, job, onThread, mode, crashes>>

(* Mutant: nobody handles the TimeoutError.                                *)
ThreadLockTimeoutUnhandled(p) ==
  /\ pc[p] = "task"
  /\ lock[onThread[p]] # NoProc
  /\ Finish(p)
  /\ UNCHANGED <<rowVars, lock, crashes>>

(* TimeoutError of thread_lock: outside of every handler of run_graph.     *)
ThreadLockTimeout(p) ==
  /\ pc[p] = "task"
  /\ lock[onThread[p]] # NoProc
  /\ Goto(p, "bg_status")
  /\ UNCHANGED <<rowVars, execVars, lock, job, onThread, mode, crashes>>

(* Read the row: starting -> mark it running, running -> go on, anything   *)
(* else -> RuntimeError, raised before the try block of the graph.         *)
ReadRunForInvoke(p) ==
  /\ pc[p] = "invoke"
  /\ \/ /\ status[job[p]] = "starting"
        /\ Goto(p, "mark_running")
        /\ UNCHANGED lock
     \/ /\ status[job[p]] = "running"
        /\ Goto(p, "node")
        /\ UNCHANGED lock
     \/ /\ status[job[p]] \notin {"starting", "running"}
        /\ Goto(p, "bg_status")
        /\ ReleaseThreadLock(p)
  /\ UNCHANGED <<rowVars, execVars, job, onThread, mode, crashes>>

(* The write keeps interrupt_requested_at (clear_interrupt_requested=False) *)
(* and, on Supabase, fails when another run of the thread is active.       *)
MarkRunning(p) ==
  /\ pc[p] = "mark_running"
  /\ \/ /\ SetStatus(job[p], "running")
        /\ Goto(p, "node")
        /\ UNCHANGED lock
     \/ /\ UpdateRefused(job[p])
        /\ Goto(p, "bg_status")
        /\ ReleaseThreadLock(p)
        /\ UNCHANGED rowVars
  /\ UNCHANGED <<execVars, job, onThread, mode, crashes>>

(* raise_if_interrupt_requested.                                           *)
InterruptSeen(r) == status[r] = "interrupt_requested" \/ asked[r]

(* Cross the boundary of a node, do its work, arrive at the next boundary. *)
RunNode(p) ==
  /\ pc[p] = "node"
  /\ ~InterruptSeen(job[p])
  /\ \E n \in Successors(node[p], iter[p]) :
       /\ node' = [node EXCEPT ![p] = n]
       /\ iter' = [iter EXCEPT ![p] = NextIteration(node[p], n, @)]
  /\ UNCHANGED <<rowVars, lock, pc, job, onThread, mode, crashes>>

RunLastNode(p) ==
  /\ pc[p] = "node"
  /\ ~InterruptSeen(job[p])
  /\ MayEnd(node[p])
  /\ Goto(p, "post")
  /\ UNCHANGED <<rowVars, execVars, lock, job, onThread, mode, crashes>>

(* RunInterrupted raised at a boundary.                                    *)
NodeInterrupted(p) ==
  /\ pc[p] = "node"
  /\ InterruptSeen(job[p])
  /\ Goto(p, "ack_interrupt")
  /\ UNCHANGED <<rowVars, execVars, lock, job, onThread, mode, crashes>>

(* RoleInvocationFailed or StagingIntegrityFailed ("role"), or any other   *)
(* exception of a node ("other").                                          *)
NodeFails(p) ==
  /\ pc[p] = "node"
  /\ ~InterruptSeen(job[p])
  /\ \E k \in {"role", "other"} : mode' = [mode EXCEPT ![p] = k]
  /\ Goto(p, "fail_checkpoint")
  /\ UNCHANGED <<rowVars, execVars, lock, job, onThread, crashes>>

AcknowledgeInterrupt(p) ==
  /\ pc[p] = "ack_interrupt"
  /\ SetStatus(job[p], "interrupted")
  /\ ReleaseThreadLock(p)
  /\ Finish(p)
  /\ UNCHANGED crashes

FailCheckpoint(p) ==
  /\ pc[p] = "fail_checkpoint"
  /\ SaveInterruptCheckpoint(job[p], "other")
  /\ Goto(p, "fail_status")
  /\ UNCHANGED <<execVars, lock, job, onThread, mode, crashes>>

(* Then the exception goes on: the background task logs the two known      *)
(* exceptions and handles every other one by failing the run once more.    *)
FailStatus(p) ==
  /\ pc[p] = "fail_status"
  /\ SetStatus(job[p], "failed")
  /\ ReleaseThreadLock(p)
  /\ \/ mode[p] = "role" /\ Finish(p)
     \/ /\ mode[p] # "role"
        /\ Goto(p, "bg_status")
        /\ UNCHANGED <<execVars, job, onThread, mode>>
  /\ UNCHANGED crashes

(* The graph reached END: post_role checkpoint and thread pointer, then    *)
(* "completed" whatever the row says by now (only a warning is logged).    *)
CompleteRun(p) ==
  /\ pc[p] = "post"
  /\ SetStatus(job[p], "completed")
  /\ Goto(p, "completed")
  /\ UNCHANGED <<execVars, lock, job, onThread, mode, crashes>>

(* Snapshot, completion event and run memory were written.                 *)
ReturnFinal(p) ==
  /\ pc[p] = "completed"
  /\ ReleaseThreadLock(p)
  /\ Finish(p)
  /\ UNCHANGED <<rowVars, crashes>>

(* An exception in the post-invoke block, before or after "completed".     *)
PostInvokeFails(p) ==
  /\ pc[p] \in {"post", "completed"}
  /\ Goto(p, "post_failed")
  /\ UNCHANGED <<rowVars, execVars, lock, job, onThread, mode, crashes>>

PostInvokeStatus(p) ==
  /\ pc[p] = "post_failed"
  /\ SetStatus(job[p], "failed")
  /\ ReleaseThreadLock(p)
  /\ Goto(p, "bg_status")
  /\ UNCHANGED <<execVars, job, onThread, mode, crashes>>

(* An error path cannot write: its exception ends up in the background     *)
(* handler, which is outside of the thread lock.                           *)
ErrorPathFails(p) ==
  /\ Faults
  /\ pc[p] \in {"invoke", "mark_running", "ack_interrupt",
                "fail_checkpoint", "fail_status", "post_failed"}
  /\ ReleaseThreadLock(p)
  /\ Goto(p, "bg_status")
  /\ UNCHANGED <<rowVars, execVars, job, onThread, mode, crashes>>

(* The handler of run_graph_background: fail the run whatever its status.  *)
BackgroundStatus(p) ==
  /\ pc[p] = "bg_status"
  /\ SetStatus(job[p], "failed")
  /\ Goto(p, "bg_checkpoint")
  /\ UNCHANGED <<execVars, lock, job, onThread, mode, crashes>>

BackgroundCheckpoint(p) ==
  /\ pc[p] = "bg_checkpoint"
  /\ SaveInterruptCheckpoint(job[p], "other")
  /\ Finish(p)
  /\ UNCHANGED <<lock, crashes>>

(* "Could not persist failed status": only logged.                         *)
BackgroundHandlerFails(p) ==
  /\ Faults
  /\ pc[p] \in {"bg_status", "bg_checkpoint"}
  /\ Finish(p)
  /\ UNCHANGED <<rowVars, lock, crashes>>

-----------------------------------------------------------------------------
(* Reconciliation of stale rows, GET /orchestrator/runs/{id} and resume.   *)

(* Mutant: only a running row can be stale.                                *)
IsStaleRunningOnly(r) == status[r] = "running" /\ aged[r]

(* graph_run_is_stale_running, on the row just read.                       *)
IsStaleRunning(r) == IsActive(r) /\ aged[r]

(* compute_resume_eligibility; the checkpoint decides for a failed run.    *)
ResumeEligible(r) ==
  \/ status[r] = "paused"
  \/ status[r] = "failed" /\ errKind[r] = "stale"

(* The route "poll" only reconciles, the route "resume" goes on after it.  *)
ReadForReconcile(p, r) ==
  /\ pc[p] = "idle"
  /\ status[r] # "absent"
  /\ \/ /\ IsStaleRunning(r)
        /\ Goto(p, "stale_status")
        /\ \E m \in {"poll", "resume"} : mode' = [mode EXCEPT ![p] = m]
     \/ /\ ~IsStaleRunning(r)
        /\ Goto(p, "eligibility")
        /\ mode' = [mode EXCEPT ![p] = "resume"]
  /\ job' = [job EXCEPT ![p] = r]
  /\ onThread' = [onThread EXCEPT ![p] = runThread[r]]
  /\ UNCHANGED <<rowVars, execVars, lock, crashes>>

StaleStatus(p) ==
  /\ pc[p] = "stale_status"
  /\ SetStatus(job[p], "failed")
  /\ Goto(p, "stale_checkpoint")
  /\ UNCHANGED <<execVars, lock, job, onThread, mode, crashes>>

StaleCheckpoint(p) ==
  /\ pc[p] = "stale_checkpoint"
  /\ SaveInterruptCheckpoint(job[p], "stale")
  /\ \/ mode[p] = "poll" /\ Finish(p)
     \/ /\ mode[p] = "resume"
        /\ Goto(p, "eligibility")
        /\ UNCHANGED <<execVars, job, onThread, mode>>
  /\ UNCHANGED <<lock, crashes>>

(* 409 resume_not_eligible, or go on to mark the row.                      *)
CheckEligibility(p) ==
  /\ pc[p] = "eligibility"
  /\ \/ ~ResumeEligible(job[p]) /\ Finish(p)
     \/ /\ ResumeEligible(job[p])
        /\ Goto(p, "resume_mark")
        /\ mode' = [mode EXCEPT ![p] = "none"]
        /\ UNCHANGED <<execVars, job, onThread>>
  /\ UNCHANGED <<rowVars, lock, crashes>>

(* mark_graph_run_resuming keeps started_at; the background task follows,  *)
(* unless the index refuses the write or a later step of the route fails.  *)
MarkResuming(p) ==
  /\ pc[p] = "resume_mark"
  /\ \/ /\ mark_graph_run_resuming(job[p])
        /\ Goto(p, "task")
        /\ UNCHANGED <<aged, errKind, execVars, job, onThread, mode>>
     \/ /\ Faults
        /\ mark_graph_run_resuming(job[p])
        /\ Finish(p)
        /\ UNCHANGED <<aged, errKind>>
     \/ /\ UpdateRefused(job[p])
        /\ Finish(p)
        /\ UNCHANGED rowVars
  /\ UNCHANGED <<lock, crashes>>

-----------------------------------------------------------------------------
(* POST /orchestrator/runs/{id}/interrupt.                                 *)

(* request_graph_run_interrupt reads the row: a terminal or paused run is  *)
(* refused (409) and a repeated request returns at once (no step).         *)
ReadForInterrupt(p, r) ==
  /\ pc[p] = "idle"
  /\ IsActive(r)
  /\ ~(status[r] = "interrupt_requested" /\ asked[r])
  /\ Goto(p, "ask")
  /\ job' = [job EXCEPT ![p] = r]
  /\ onThread' = [onThread EXCEPT ![p] = runThread[r]]
  /\ UNCHANGED <<rowVars, execVars, lock, mode, crashes>>

(* ... and writes the request without a condition on the status.           *)
WriteInterruptRequest(p) ==
  /\ pc[p] = "ask"
  /\ \/ write_interrupt_request(job[p])
     \/ UpdateRefused(job[p]) /\ UNCHANGED tableVars
  /\ Finish(p)
  /\ UNCHANGED <<aged, errKind, lock, crashes>>

(* A repository call of a request fails: 500, and nothing is undone.       *)
RequestFails(p) ==
  /\ Faults
  /\ pc[p] \in Requests \ {"persist"}
  /\ Finish(p)
  /\ UNCHANGED <<rowVars, lock, crashes>>

-----------------------------------------------------------------------------
(* The environment.                                                        *)

(* Time passes: started_at of a row falls behind the stale threshold.      *)
Age(r) ==
  /\ status[r] # "absent"
  /\ ~aged[r]
  /\ aged' = [aged EXCEPT ![r] = TRUE]
  /\ UNCHANGED <<tableVars, errKind, execVars,
                 lock, pc, job, onThread, mode, crashes>>

(* The server process dies and comes back: requests, background tasks and  *)
(* the mutexes are gone, the rows stay.                                    *)
Crash ==
  /\ crashes < MaxCrashes
  /\ \E p \in Procs : pc[p] # "idle"
  /\ crashes'  = crashes + 1
  /\ lock'     = [t \in Threads |-> NoProc]
  /\ pc'       = [p \in Procs |-> "idle"]
  /\ job'      = [p \in Procs |-> NoRun]
  /\ onThread' = [p \in Procs |-> NoThread]
  /\ node'     = [p \in Procs |-> "context_hydrator"]
  /\ iter'     = [p \in Procs |-> 0]
  /\ mode'     = [p \in Procs |-> "none"]
  /\ UNCHANGED rowVars

-----------------------------------------------------------------------------
(* What the server does by itself once a request is in.                    *)
ServerStep(p) ==
  \/ Supersede(p)
  \/ PersistRunStart(p)
  \/ PersistAfterTimeout(p)
  \/ PersistFails(p)
  \/ AcquireThreadLock(p)
  \/ ThreadLockTimeout(p)
  \/ ReadRunForInvoke(p)
  \/ MarkRunning(p)
  \/ RunNode(p)
  \/ RunLastNode(p)
  \/ NodeInterrupted(p)
  \/ NodeFails(p)
  \/ AcknowledgeInterrupt(p)
  \/ FailCheckpoint(p)
  \/ FailStatus(p)
  \/ CompleteRun(p)
  \/ ReturnFinal(p)
  \/ PostInvokeFails(p)
  \/ PostInvokeStatus(p)
  \/ ErrorPathFails(p)
  \/ BackgroundStatus(p)
  \/ BackgroundCheckpoint(p)
  \/ BackgroundHandlerFails(p)
  \/ StaleStatus(p)
  \/ StaleCheckpoint(p)
  \/ CheckEligibility(p)
  \/ MarkResuming(p)
  \/ WriteInterruptRequest(p)
  \/ RequestFails(p)

(* What clients ask for.                                                   *)
Request(p) ==
  \/ \E t \in Threads : StartOnThread(p, t)
  \/ \E t \in Threads : StartFresh(p, t)
  \/ \E r \in Runs : ReadForReconcile(p, r)
  \/ \E r \in Runs : ReadForInterrupt(p, r)

Next ==
  \/ \E p \in Procs : ServerStep(p)
  \/ \E p \in Procs : Request(p)
  \/ \E r \in Runs : Age(r)
  \/ Crash

Spec == Init /\ [][Next]_vars

(* The server's threads keep running; nothing is assumed of the clients.   *)
FairSpec == Spec /\ \A p \in Procs : WF_vars(ServerStep(p))

(* Moreover time passes, somebody keeps reading the status of every run    *)
(* (the control plane polls GET /orchestrator/runs/{id}), and the write    *)
(* that fails a stale run does not fail every time.                        *)
PolledSpec ==
  /\ FairSpec
  /\ \A r \in Runs : WF_vars(Age(r))
  /\ \A r \in Runs : SF_vars(\E p \in Procs : ReadForReconcile(p, r))
  /\ \A p \in Procs : SF_vars(StaleStatus(p))

-----------------------------------------------------------------------------
(* Safety.                                                                 *)

(* Whoever is between acquiring and releasing the thread mutex.            *)
InGraph(p) == pc[p] \in Executing

(* p has accepted responsibility for executing r.                          *)
Executes(p, r) == job[p] = r /\ pc[p] \in Executing \cup Background

(* Two processes are never inside the graph of the same thread: a run that *)
(* supersedes another one, or a second execution of a resumed run, waits   *)
(* for the first to leave run_graph whatever the rows say meanwhile.       *)
OneExecutorPerThread ==
  \A p, q \in Procs :
    p # q /\ InGraph(p) /\ InGraph(q) => onThread[p] # onThread[q]

(* The inductive form of OneExecutorPerThread: every row and every request *)
(* in progress has a thread, a request works on a run whose row exists,    *)
(* and whoever is inside the graph holds the mutex of its thread.          *)
RowsHaveThread     == \A r \in Runs : status[r] # "absent" => runThread[r] \in Threads
RequestsHaveThread == \A p \in Procs : pc[p] # "idle" => onThread[p] \in Threads
JobsHaveRow        ==
  \A p \in Procs : pc[p] \notin {"idle", "persist"} =>
                     job[p] \in Runs /\ status[job[p]] # "absent"
ExecutorHoldsLock  == \A p \in Procs : InGraph(p) => lock[onThread[p]] = p
ThreadLockInv      ==
  RowsHaveThread /\ RequestsHaveThread /\ JobsHaveRow /\ ExecutorHoldsLock

(* An accepted interrupt request is forgotten only when the run is closed  *)
(* or an operator resumes it: marking the run running must not lose it.    *)
InterruptIsSticky ==
  [][\A r \in Runs :
       asked[r] /\ ~asked'[r] =>
         \/ status'[r] \in TERMINAL_GRAPH_RUN_STATUSES
         \/ \E p \in Procs : job[p] = r /\ pc[p] = "resume_mark"]_vars

(* While no process dies and no write is lost, a row that says starting or *)
(* running has a process that will execute it or is executing it.          *)
LiveRowHasExecutor ==
  \A r \in Runs :
    status[r] \in {"starting", "running"} => \E p \in Procs : Executes(p, r)

-----------------------------------------------------------------------------
(* Liveness.                                                               *)

(* No exception path of run_graph keeps the mutex of the thread.           *)
ThreadLockReleased ==
  \A t \in Threads, p \in Procs : lock[t] = p ~> lock[t] # p

(* A start or resume that was answered 200 closes its row, also when the   *)
(* mutex is not obtained or the row has changed before the graph starts.   *)
AcceptedRunSettles ==
  \A p \in Procs, r \in Runs :
    pc[p] = "task" /\ job[p] = r ~> status[r] \in TERMINAL_GRAPH_RUN_STATUSES

(* However a run lost its process (a crash, a 504, a failed error handler, *)
(* an interrupt that raced its end), it does not stay active for ever.     *)
NoRunActiveForever ==
  \A r \in Runs : IsActive(r) ~> ~IsActive(r)

-----------------------------------------------------------------------------
(* What domain.py says of the lifecycle.  None of these holds: see README. *)

(* "Terminal states - no further transitions allowed" (domain.py), for a   *)
(* run finalized as interrupted by a new start on its thread.              *)
InterruptedIsFinal ==
  [][\A r \in Runs : status[r] = "interrupted" => status'[r] = "interrupted"]_vars

(* The same for a completed run.                                           *)
CompletedIsFinal ==
  [][\A r \in Runs : status[r] = "completed" => status'[r] = "completed"]_vars

(* The same for a failed run, operator resume excepted.                    *)
FailedIsFinalUnlessResumed ==
  [][\A r \in Runs :
       status[r] = "failed" /\ status'[r] # "failed" =>
         \E p \in Procs : job[p] = r /\ pc[p] = "resume_mark"]_vars

(* VALID_STATUS_TRANSITIONS, for rows that are not closed.                 *)
OpenRowsFollowTheTable ==
  [][\A r \in Runs :
       status[r] \in ACTIVE_GRAPH_RUN_STATUSES /\ status'[r] # status[r] =>
         is_valid_status_transition(status[r], status'[r])]_vars

(* "resume re-executes once for this id" (run_resume.py).                  *)
OneExecutionPerRun ==
  \A r \in Runs, p, q \in Procs : p # q /\ Executes(p, r) => ~Executes(q, r)
=============================================================================
