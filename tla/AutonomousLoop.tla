--------------------------- MODULE AutonomousLoop ---------------------------
(***************************************************************************)
(* One autonomous loop: POST /orchestrator/cron/tick takes the lease of    *)
(* the loop's row and runs one phase of it, while operators pause, resume  *)
(* and interrupt the same row.  A tick works on the record it read before  *)
(* it took the lease, and every write is a patch of some columns.          *)
(*                                                                         *)
(* Scores are natural numbers instead of floats; an improvement of 0.05 is *)
(* one unit.  A staging snapshot is represented by the alignment score of  *)
(* the graph run that made it, as far as the loop can tell them apart.     *)
(***************************************************************************)
EXTENDS Naturals, FiniteSets, Sequences, SequencesExt

CONSTANTS
  Workers,           \* cron requests that may run at the same time
  Operators,         \* operator requests that may run at the same time
  InitialDirections, \* sequence of directions built from the identity brief
  Interrupts,        \* directions queued by operators, type user_interrupt
  Scores,            \* alignment scores of graph runs
  None,              \* no score, no snapshot, no worker
  Unscored,          \* a snapshot of a run that reported no score
  Threshold,         \* auto_publish_threshold
  MaxIterations,     \* max_iterations of the loop
  MaxFailures,       \* autonomous_loop_max_consecutive_failures
  FailureBound,      \* bound: failures counted at most (a revived loop goes on counting)
  MaxCrashes,        \* bound: how many workers die
  MaxOverruns        \* bound: how often a lease expires under a living worker

ASSUME LoopAssumption ==
  /\ InitialDirections \in Seq(Range(InitialDirections))
  /\ Scores \subseteq Nat
  /\ None \notin Scores \cup Workers
  /\ Unscored \notin Scores \cup {None}
  /\ Threshold \in Nat /\ Threshold > 0
  /\ MaxIterations \in Nat
  /\ MaxFailures \in Nat \ {0}
  /\ FailureBound \in Nat /\ FailureBound >= MaxFailures
  /\ MaxCrashes \in Nat
  /\ MaxOverruns \in Nat

VARIABLES
  row,          \* the row of table autonomous_loop, without its lease
  holder,       \* locked_by
  expired,      \* locked_at is older than the lock timeout
  wpc,          \* what each worker does next
  seen,         \* the record a worker works on
  opc,          \* what each operator request does next
  opSeen,       \* the exploration_directions an operator request has read
  tried,        \* directions some graph run received as its retry_context
  late,         \* living workers whose lease has expired
  overruns,     \* how often that happened
  crashes       \* workers that died

loopVars  == <<row, tried>>
leaseVars == <<holder, expired>>
opVars    == <<opc, opSeen>>
bounds    == <<late, overruns, crashes>>
vars == <<row, holder, expired, wpc, seen, opc, opSeen, tried, late, overruns, crashes>>

Directions == Range(InitialDirections) \cup Interrupts

(* validate_direction: a user_interrupt is not one of the known types.     *)
Valid(d) == d \in Range(InitialDirections)

Statuses == {"pending", "running", "paused", "completed", "failed"}
Phases   == {"identity_fetch", "graph_cycle", "proposing", "idle"}

ScoreOrNone == Scores \cup {None}

RowOK(r) ==
  /\ DOMAIN r = {"status", "phase", "iteration", "failures", "directions", "completed",
                 "score", "staging", "stagings", "proposed"}
  /\ r.status \in Statuses
  /\ r.phase \in Phases
  /\ r.iteration \in Nat
  /\ r.failures \in Nat
  /\ r.directions \in Seq(Directions)
  /\ r.completed \subseteq Directions
  /\ r.score \in ScoreOrNone
  /\ r.staging \in ScoreOrNone \cup {Unscored}
  /\ r.stagings \in Nat
  /\ r.proposed \in ScoreOrNone \cup {Unscored}

(* The row and every copy of it are rows; the rest has its type.           *)
TypeOK ==
  /\ RowOK(row)
  /\ \A w \in Workers : RowOK(seen[w])
  /\ holder \in Workers \cup {None}
  /\ expired \in BOOLEAN
  /\ wpc \in [Workers -> {"idle", "locking", "tick", "graph", "release"}]
  /\ opc \in [Operators -> {"idle", "pause", "resume", "interrupt"}]
  /\ \A o \in Operators : opSeen[o] \in Seq(Directions)
  /\ tried \subseteq Directions
  /\ late \subseteq Workers
  /\ overruns \in Nat /\ crashes \in Nat

(* start_autonomous_loop.                                                  *)
NewLoop ==
  [status |-> "pending", phase |-> "identity_fetch", iteration |-> 0, failures |-> 0,
   directions |-> <<>>, completed |-> {}, score |-> None,
   staging |-> None, stagings |-> 0, proposed |-> None]

Init ==
  /\ row = NewLoop
  /\ holder = None
  /\ expired = FALSE
  /\ wpc = [w \in Workers |-> "idle"]
  /\ seen = [w \in Workers |-> NewLoop]
  /\ opc = [o \in Operators |-> "idle"]
  /\ opSeen = [o \in Operators |-> <<>>]
  /\ tried = {}
  /\ late = {}
  /\ overruns = 0
  /\ crashes = 0

-----------------------------------------------------------------------------
(* The lease.                                                              *)

LeaseFree == holder = None \/ expired

Goto(w, to) == wpc' = [wpc EXCEPT ![w] = to]

(* get_next_pending_loop: the record read here is the one the tick uses.   *)
GetNextPendingLoop(w) ==
  /\ wpc[w] = "idle"
  /\ row.status \in {"pending", "running"}
  /\ LeaseFree
  /\ seen' = [seen EXCEPT ![w] = row]
  /\ Goto(w, "locking")
  /\ UNCHANGED <<loopVars, leaseVars, opVars, bounds>>

(* Mutant: the lease is taken over from whoever has it.                    *)
TryAcquireLoopLockAlways(w) ==
  /\ wpc[w] = "locking"
  /\ holder' = w
  /\ expired' = FALSE
  /\ Goto(w, "tick")
  /\ UNCHANGED <<loopVars, seen, opVars, bounds>>

(* One conditional UPDATE, which does not look at the status again.        *)
TryAcquireLoopLock(w) ==
  /\ wpc[w] = "locking"
  /\ \/ /\ LeaseFree
        /\ holder' = w
        /\ expired' = FALSE
        /\ Goto(w, "tick")
     \/ /\ ~LeaseFree
        /\ Goto(w, "idle")
        /\ UNCHANGED leaseVars
  /\ UNCHANGED <<loopVars, seen, opVars, bounds>>

(* The finally block: whoever's lease it is by now is removed.             *)
ReleaseLoopLock(w) ==
  /\ wpc[w] = "release"
  /\ holder' = None
  /\ expired' = FALSE
  /\ seen' = [seen EXCEPT ![w] = NewLoop]
  /\ late' = late \ {w}
  /\ Goto(w, "idle")
  /\ UNCHANGED <<loopVars, opVars, overruns, crashes>>

-----------------------------------------------------------------------------
(* tick_loop, on the record read before the lease was taken.               *)

InTick(w, phase) == wpc[w] = "tick" /\ seen[w].phase = phase

(* What every tick but a graph run leaves alone.                           *)
TickDone(w) ==
  /\ Goto(w, "release")
  /\ UNCHANGED <<tried, leaseVars, seen, opVars, bounds>>

(* Identity found: the directions of the row are replaced.                 *)
TickIdentityFetch(w) ==
  /\ InTick(w, "identity_fetch")
  /\ row' = [row EXCEPT !.phase = "graph_cycle", !.status = "running",
                        !.failures = 0, !.directions = InitialDirections]
  /\ TickDone(w)

(* Confidence too low, or an exception anywhere outside of the graph run.  *)
TickFails(w) ==
  /\ wpc[w] = "tick"
  /\ row' = [row EXCEPT !.status = "failed"]
  /\ TickDone(w)

(* max_iterations_reached.                                                 *)
TickBudgetSpent(w) ==
  /\ InTick(w, "graph_cycle")
  /\ seen[w].iteration + 1 > MaxIterations
  /\ row' = [row EXCEPT !.status = "completed", !.phase = "idle"]
  /\ TickDone(w)

(* Positions of the queue that are not completed, and those of them that   *)
(* _tick_graph_run accepts; it takes the first one, if there is any.       *)
Pending(r) == {i \in DOMAIN r.directions : r.directions[i] \notin r.completed}
PendingValid(r) == {i \in Pending(r) : Valid(r.directions[i])}
First(r, positions) == r.directions[Min(positions)]
CurrentDirection(r) ==
  IF PendingValid(r) = {} THEN {} ELSE {First(r, PendingValid(r))}

(* Mutant: the list starts anew.                                           *)
CompleteOnly(r, ds) == ds

(* The completed directions of the record, and some more.                  *)
Complete(r, ds) == r.completed \cup ds

(* Mutant: the budget is checked against the finished iterations.          *)
DispatchGraphLate(w) ==
  /\ InTick(w, "graph_cycle")
  /\ seen[w].iteration <= MaxIterations
  /\ tried' = tried \cup (IF seen[w].iteration > 0 THEN CurrentDirection(seen[w]) ELSE {})
  /\ Goto(w, "graph")
  /\ UNCHANGED <<row, leaseVars, seen, opVars, bounds>>

(* The graph starts; the first iteration gets no retry_context.            *)
DispatchGraph(w) ==
  /\ InTick(w, "graph_cycle")
  /\ seen[w].iteration + 1 <= MaxIterations
  /\ tried' = tried \cup (IF seen[w].iteration > 0 THEN CurrentDirection(seen[w]) ELSE {})
  /\ Goto(w, "graph")
  /\ UNCHANGED <<row, leaseVars, seen, opVars, bounds>>

OrZero(s) == IF s = None THEN 0 ELSE s

(* The current direction is done when the evaluator passed or the score    *)
(* improved on the one read before.                                        *)
DirectionDone(w, ev, score) ==
  ev = "pass" \/ (score # None /\ score > OrZero(seen[w].score))

(* What run_graph_for_loop makes of the graph's final state.               *)
RunResults == [ev: {"pass", "partial"}, score: ScoreOrNone, staged: BOOLEAN]

(* The graph returned; a None of its result leaves the old column alone.   *)
GraphReturns(w) ==
  /\ wpc[w] = "graph"
  /\ \E r \in RunResults :
       row' = [row EXCEPT
         !.iteration = seen[w].iteration + 1,
         !.failures  = 0,
         !.score     = IF r.score = None THEN @ ELSE r.score,
         !.staging   = IF ~r.staged THEN @ ELSE IF r.score = None THEN Unscored ELSE r.score,
         !.stagings  = seen[w].stagings + (IF r.staged THEN 1 ELSE 0),
         !.completed = IF DirectionDone(w, r.ev, r.score) /\ CurrentDirection(seen[w]) # {}
                       THEN Complete(seen[w], CurrentDirection(seen[w])) ELSE @,
         !.phase     = IF r.ev = "pass" THEN "proposing" ELSE "graph_cycle"]
  /\ TickDone(w)

(* Mutant: a failure is not counted.                                       *)
GraphFailsUncounted(w) ==
  /\ wpc[w] = "graph"
  /\ row' = [row EXCEPT !.phase = "graph_cycle"]
  /\ TickDone(w)

(* The graph raised: not an iteration, but a failure.                      *)
GraphFails(w) ==
  /\ wpc[w] = "graph"
  /\ seen[w].failures < FailureBound
  /\ row' = [row EXCEPT
       !.phase    = "graph_cycle",
       !.failures = seen[w].failures + 1,
       !.status   = IF seen[w].failures + 1 >= MaxFailures THEN "failed" ELSE @]
  /\ TickDone(w)

(* Mutant: a loop that continues is running.                               *)
TickProposingAsRunning(w) ==
  /\ InTick(w, "proposing")
  /\ row' = [row EXCEPT !.phase = "graph_cycle", !.status = "running"]
  /\ TickDone(w)

(* The score of the last run that had one, the snapshot of the last run    *)
(* that made one: a proposal needs both.                                   *)
TickProposing(w) ==
  /\ InTick(w, "proposing")
  /\ \/ /\ OrZero(seen[w].score) >= Threshold
        /\ seen[w].staging # None
        /\ row' = [row EXCEPT !.proposed = seen[w].staging, !.phase = "idle"]
     \/ /\ ~(OrZero(seen[w].score) >= Threshold /\ seen[w].staging # None)
        /\ row' = [row EXCEPT !.phase = "graph_cycle"]
  /\ TickDone(w)

(* The first pending direction is taken off the queue before any run.      *)
TickIdle(w) ==
  /\ InTick(w, "idle")
  /\ \/ /\ Pending(seen[w]) # {}
        /\ row' = [row EXCEPT
             !.completed = Complete(seen[w], {First(seen[w], Pending(seen[w]))}),
             !.phase = "graph_cycle"]
     \/ /\ Pending(seen[w]) = {}
        /\ seen[w].iteration >= MaxIterations
        /\ row' = [row EXCEPT !.status = "completed"]
     \/ /\ Pending(seen[w]) = {}
        /\ seen[w].iteration < MaxIterations
        /\ row' = [row EXCEPT !.phase = "graph_cycle"]
  /\ TickDone(w)

-----------------------------------------------------------------------------
(* Operators: every request reads the row and writes it later.             *)

OpGoto(o, to) == opc' = [opc EXCEPT ![o] = to]

OperatorReads(o) ==
  /\ opc[o] = "idle"
  /\ \/ row.status \in {"pending", "running"} /\ OpGoto(o, "pause")
     \/ row.status = "paused" /\ OpGoto(o, "resume")
     \/ OpGoto(o, "interrupt")
  /\ opSeen' = [opSeen EXCEPT ![o] = row.directions]
  /\ UNCHANGED <<loopVars, leaseVars, wpc, seen, bounds>>

OperatorDone(o) ==
  /\ OpGoto(o, "idle")
  /\ opSeen' = [opSeen EXCEPT ![o] = <<>>]
  /\ UNCHANGED <<tried, leaseVars, wpc, seen, bounds>>

PauseLoop(o) ==
  /\ opc[o] = "pause"
  /\ row' = [row EXCEPT !.status = "paused"]
  /\ OperatorDone(o)

ResumeLoop(o) ==
  /\ opc[o] = "resume"
  /\ row' = [row EXCEPT !.status = "running"]
  /\ OperatorDone(o)

(* Bound of the model: every direction of Interrupts is queued once.       *)
InterruptLoop(o) ==
  /\ opc[o] = "interrupt"
  /\ \/ \E d \in Interrupts \ (Range(row.directions) \cup row.completed) :
          row' = [row EXCEPT !.directions = Append(opSeen[o], d)]
     \/ Interrupts \subseteq Range(row.directions) \cup row.completed /\ UNCHANGED row
  /\ OperatorDone(o)

-----------------------------------------------------------------------------
(* The environment.                                                        *)

Alive(w) == wpc[w] \in {"tick", "graph", "release"}

(* 300 seconds after the lease was taken; a tick may last longer.          *)
LeaseExpires ==
  /\ holder # None /\ ~expired
  /\ expired' = TRUE
  /\ \/ ~Alive(holder) /\ UNCHANGED <<late, overruns>>
     \/ /\ Alive(holder)
        /\ overruns < MaxOverruns
        /\ overruns' = overruns + 1
        /\ late' = late \cup {holder}
  /\ UNCHANGED <<loopVars, holder, wpc, seen, opVars, crashes>>

(* The process of a worker dies: its lease stays.                          *)
WorkerDies(w) ==
  /\ wpc[w] # "idle"
  /\ crashes < MaxCrashes
  /\ crashes' = crashes + 1
  /\ seen' = [seen EXCEPT ![w] = NewLoop]
  /\ late' = late \ {w}
  /\ Goto(w, "idle")
  /\ UNCHANGED <<loopVars, leaseVars, opVars, overruns>>

-----------------------------------------------------------------------------
TickStep(w) ==
  \/ TryAcquireLoopLock(w)
  \/ ReleaseLoopLock(w)
  \/ TickIdentityFetch(w)
  \/ TickFails(w)
  \/ TickBudgetSpent(w)
  \/ DispatchGraph(w)
  \/ GraphReturns(w)
  \/ GraphFails(w)
  \/ TickProposing(w)
  \/ TickIdle(w)

OperatorStep(o) ==
  \/ OperatorReads(o)
  \/ PauseLoop(o)
  \/ ResumeLoop(o)
  \/ InterruptLoop(o)

Next ==
  \/ \E w \in Workers : GetNextPendingLoop(w) \/ TickStep(w) \/ WorkerDies(w)
  \/ \E o \in Operators : OperatorStep(o)
  \/ LeaseExpires

Spec == Init /\ [][Next]_vars

(* Cron calls tick again and again, a tick that has begun goes on, and     *)
(* time passes.  Nothing is assumed of the operators.                      *)
FairSpec ==
  /\ Spec
  /\ WF_vars(\E w \in Workers : GetNextPendingLoop(w))
  /\ \A w \in Workers : WF_vars(TickStep(w))
  /\ WF_vars(LeaseExpires)

-----------------------------------------------------------------------------
(* The budget holds at its boundary even when two workers tick from the    *)
(* same stale record: iterations never exceed max_iterations, and no more  *)
(* snapshots are counted than iterations.                                  *)
WithinBudget ==
  /\ row.iteration <= MaxIterations
  /\ row.stagings <= row.iteration

(* While no lease expires under a living worker, one tick runs at a time.  *)
OneTickAtATime ==
  overruns = 0 => \A w, v \in Workers : w # v => ~(Alive(w) /\ Alive(v))

(* With one cron caller, whatever operators, crashes and expired leases    *)
(* do in between, no tick loses what an earlier one recorded: iterations   *)
(* and snapshots are counted one by one and a direction stays completed.   *)
(* A second caller's record may be older than the lease: see README.       *)
NothingLost ==
  [][/\ row'.iteration \in {row.iteration, row.iteration + 1}
     /\ row'.stagings \in {row.stagings, row.stagings + 1}
     /\ row.completed \subseteq row'.completed]_vars

(* A pause that is written while a tick is under way holds, whatever the   *)
(* tick writes at its end.  The one exception is the tick that fetches the *)
(* identity: see README.                                                   *)
PauseHolds ==
  [][row.status = "paused" /\ row'.status = "running" =>
       \/ \E o \in Operators : ResumeLoop(o)
       \/ \E w \in Workers : TickIdentityFetch(w)]_vars

(* A loop that is due does not stay due for ever, whatever its graph runs  *)
(* return and whichever workers die: it completes, fails or is paused.     *)
LoopSettles ==
  row.status \in {"pending", "running"} ~> row.status \notin {"pending", "running"}

-----------------------------------------------------------------------------
(* What the repository says of the loop.  None of these holds: see README. *)

(* "Returns immediately when no loops are pending or all are locked": two  *)
(* ticks do not run within the lock timeout of both.                       *)
LeaseInForceExcludes ==
  \A w, v \in Workers : w # v /\ Alive(w) /\ Alive(v) => late \cap {w, v} # {}

(* completed_directions is "what we've already tried".  (An interrupt      *)
(* reaches the planner on another way: it reads the row.)                  *)
CompletedWereTried == row.completed \ Interrupts \subseteq tried

(* auto_publish_threshold is the score "required to auto-propose".         *)
ProposalEarnedItsScore ==
  row.proposed # None => row.proposed # Unscored /\ row.proposed >= Threshold
=============================================================================
