------------------------ MODULE AutonomousLoopProofs ------------------------
(***************************************************************************)
(* Proofs about AutonomousLoop for every number of workers and operators,  *)
(* every sequence of directions and every bound on faults.                 *)
(***************************************************************************)
EXTENDS AutonomousLoop, WellFoundedInduction, SequenceTheorems, TLAPS

USE LoopAssumption

-----------------------------------------------------------------------------
(* The lease.                                                              *)

(* What the lease rests on: until a lease expires under a living worker,   *)
(* whoever is in a tick holds a lease that has not expired.                *)
LeaseInv ==
  /\ overruns \in Nat
  /\ wpc \in [Workers -> {"idle", "locking", "tick", "graph", "release"}]
  /\ overruns = 0 => \A w \in Workers : Alive(w) => holder = w /\ ~expired

LEMMA InitLeaseInv == Init => LeaseInv
  BY DEF Init, LeaseInv, Alive

(* The phases of a tick move on inside the tick.                           *)
LEMMA TickDoneLeaseInv ==
  ASSUME LeaseInv, NEW w \in Workers, wpc[w] \in {"tick", "graph"}, TickDone(w)
  PROVE  LeaseInv'
  BY DEF LeaseInv, TickDone, Goto, leaseVars, bounds, Alive

LEMMA TickStepLeaseInv ==
  ASSUME LeaseInv, NEW w \in Workers, TickStep(w)
  PROVE  LeaseInv'
<1>1. CASE TryAcquireLoopLock(w)
  BY <1>1 DEF TryAcquireLoopLock, LeaseFree, Goto, leaseVars, bounds, LeaseInv, Alive
<1>2. CASE ReleaseLoopLock(w)
  BY <1>2 DEF ReleaseLoopLock, Goto, LeaseInv, Alive
<1>3. CASE TickIdentityFetch(w)
  BY <1>3, TickDoneLeaseInv DEF TickIdentityFetch, InTick
<1>4. CASE TickFails(w)
  BY <1>4, TickDoneLeaseInv DEF TickFails
<1>5. CASE TickBudgetSpent(w)
  BY <1>5, TickDoneLeaseInv DEF TickBudgetSpent, InTick
<1>6. CASE DispatchGraph(w)
  BY <1>6 DEF DispatchGraph, InTick, Goto, leaseVars, bounds, LeaseInv, Alive
<1>7. CASE GraphReturns(w)
  BY <1>7, TickDoneLeaseInv DEF GraphReturns
<1>8. CASE GraphFails(w)
  BY <1>8, TickDoneLeaseInv DEF GraphFails
<1>9. CASE TickProposing(w)
  BY <1>9, TickDoneLeaseInv DEF TickProposing, InTick
<1>10. CASE TickIdle(w)
  BY <1>10, TickDoneLeaseInv DEF TickIdle, InTick
<1>11. QED
  BY <1>1, <1>2, <1>3, <1>4, <1>5, <1>6, <1>7, <1>8, <1>9, <1>10 DEF TickStep

LEMMA NextLeaseInv == LeaseInv /\ [Next]_vars => LeaseInv'
<1> SUFFICES ASSUME LeaseInv, [Next]_vars
             PROVE  LeaseInv'
  OBVIOUS
<1>1. ASSUME NEW w \in Workers, GetNextPendingLoop(w)
      PROVE  LeaseInv'
  BY <1>1 DEF GetNextPendingLoop, Goto, leaseVars, bounds, LeaseInv, Alive
<1>2. ASSUME NEW w \in Workers, TickStep(w)
      PROVE  LeaseInv'
  BY <1>2, TickStepLeaseInv
<1>3. ASSUME NEW w \in Workers, WorkerDies(w)
      PROVE  LeaseInv'
  BY <1>3 DEF WorkerDies, Goto, leaseVars, LeaseInv, Alive
<1>4. ASSUME NEW o \in Operators, OperatorStep(o)
      PROVE  LeaseInv'
  <2>1. UNCHANGED <<wpc, leaseVars, bounds>>
    BY <1>4 DEF OperatorStep, OperatorReads, PauseLoop, ResumeLoop, InterruptLoop, OperatorDone
  <2>2. QED
    BY <2>1 DEF leaseVars, bounds, LeaseInv, Alive
<1>5. CASE LeaseExpires
  BY <1>5 DEF LeaseExpires, LeaseInv, Alive
<1>6. CASE UNCHANGED vars
  BY <1>6 DEF vars, LeaseInv, Alive
<1>7. QED
  BY <1>1, <1>2, <1>3, <1>4, <1>5, <1>6 DEF Next

(* While no lease expires under a living worker, the conditional update of *)
(* locked_by admits one tick at a time.                                    *)
THEOREM TicksExclude == Spec => []OneTickAtATime
<1>1. LeaseInv => OneTickAtATime
  BY DEF LeaseInv, OneTickAtATime
<1>2. QED
  BY <1>1, InitLeaseInv, NextLeaseInv, PTL DEF Spec

-----------------------------------------------------------------------------
(* The budget.                                                             *)

(* A record whose counters respect the budget.                             *)
Fine(r) ==
  /\ {"iteration", "stagings"} \subseteq DOMAIN r
  /\ r.iteration \in Nat
  /\ r.stagings \in Nat
  /\ r.stagings <= r.iteration
  /\ r.iteration <= MaxIterations

(* The row and every record a worker has read respect the budget, and a    *)
(* graph runs only on a record that leaves room for one more iteration.    *)
BudgetInv ==
  /\ wpc \in [Workers -> {"idle", "locking", "tick", "graph", "release"}]
  /\ Fine(row)
  /\ DOMAIN seen = Workers
  /\ \A w \in Workers : Fine(seen[w])
  /\ \A w \in Workers : wpc[w] = "graph" => seen[w].iteration + 1 <= MaxIterations

LEMMA NewLoopFine == Fine(NewLoop)
  BY DEF Fine, NewLoop

LEMMA InitBudgetInv == Init => BudgetInv
  BY NewLoopFine DEF Init, BudgetInv

(* A write that leaves the counters alone.                                 *)
SameCounters ==
  /\ DOMAIN row' = DOMAIN row
  /\ row'.iteration = row.iteration
  /\ row'.stagings = row.stagings

LEMMA TickDoneBudgetInv ==
  ASSUME BudgetInv, NEW w \in Workers, TickDone(w), Fine(row)'
  PROVE  BudgetInv'
  BY DEF BudgetInv, TickDone, Goto

LEMMA SameCountersFine ==
  ASSUME BudgetInv, SameCounters
  PROVE  Fine(row)'
  BY DEF BudgetInv, SameCounters, Fine

LEMMA TickStepBudgetInv ==
  ASSUME BudgetInv, NEW w \in Workers, TickStep(w)
  PROVE  BudgetInv'
<1> USE DEF SameCounters
<1>1. CASE TryAcquireLoopLock(w)
  BY <1>1 DEF TryAcquireLoopLock, Goto, loopVars, BudgetInv
<1>2. CASE ReleaseLoopLock(w)
  BY <1>2, NewLoopFine DEF ReleaseLoopLock, Goto, loopVars, BudgetInv
<1>3. CASE TickIdentityFetch(w)
  <2>1. SameCounters
    BY <1>3 DEF TickIdentityFetch
  <2>2. QED
    BY <1>3, <2>1, SameCountersFine, TickDoneBudgetInv DEF TickIdentityFetch
<1>4. CASE TickFails(w)
  <2>1. SameCounters
    BY <1>4 DEF TickFails
  <2>2. QED
    BY <1>4, <2>1, SameCountersFine, TickDoneBudgetInv DEF TickFails
<1>5. CASE TickBudgetSpent(w)
  <2>1. SameCounters
    BY <1>5 DEF TickBudgetSpent
  <2>2. QED
    BY <1>5, <2>1, SameCountersFine, TickDoneBudgetInv DEF TickBudgetSpent
<1>6. CASE DispatchGraph(w)
  BY <1>6 DEF DispatchGraph, Goto, BudgetInv
<1>7. CASE GraphReturns(w)
  <2>1. /\ DOMAIN row' = DOMAIN row
        /\ row'.iteration = seen[w].iteration + 1
        /\ row'.stagings \in {seen[w].stagings, seen[w].stagings + 1}
    <3>1. Fine(row) /\ Fine(seen[w])
      BY DEF BudgetInv
    <3>2. QED
      BY <1>7, <3>1 DEF GraphReturns, Fine
  <2>2. Fine(row)'
    <3>1. Fine(row) /\ Fine(seen[w]) /\ seen[w].iteration + 1 <= MaxIterations
      BY <1>7 DEF GraphReturns, BudgetInv
    <3>2. QED
      BY <2>1, <3>1 DEF Fine
  <2>3. QED
    BY <1>7, <2>2, TickDoneBudgetInv DEF GraphReturns
<1>8. CASE GraphFails(w)
  <2>1. SameCounters
    BY <1>8 DEF GraphFails
  <2>2. QED
    BY <1>8, <2>1, SameCountersFine, TickDoneBudgetInv DEF GraphFails
<1>9. CASE TickProposing(w)
  <2>1. SameCounters
    <3>1. \/ row' = [row EXCEPT !.proposed = seen[w].staging, !.phase = "idle"]
          \/ row' = [row EXCEPT !.phase = "graph_cycle"]
      BY <1>9, Zenon DEF TickProposing
    <3>2. CASE row' = [row EXCEPT !.proposed = seen[w].staging, !.phase = "idle"]
      BY <3>2
    <3>3. CASE row' = [row EXCEPT !.phase = "graph_cycle"]
      BY <3>3
    <3>4. QED
      BY <3>1, <3>2, <3>3
  <2>2. QED
    BY <1>9, <2>1, SameCountersFine, TickDoneBudgetInv DEF TickProposing
<1>10. CASE TickIdle(w)
  <2>1. SameCounters
    <3>1. \/ \E c : row' = [row EXCEPT !.completed = c, !.phase = "graph_cycle"]
          \/ row' = [row EXCEPT !.status = "completed"]
          \/ row' = [row EXCEPT !.phase = "graph_cycle"]
      BY <1>10, Zenon DEF TickIdle
    <3>2. CASE \E c : row' = [row EXCEPT !.completed = c, !.phase = "graph_cycle"]
      BY <3>2
    <3>3. CASE row' = [row EXCEPT !.status = "completed"]
      BY <3>3
    <3>4. CASE row' = [row EXCEPT !.phase = "graph_cycle"]
      BY <3>4
    <3>5. QED
      BY <3>1, <3>2, <3>3, <3>4
  <2>2. QED
    BY <1>10, <2>1, SameCountersFine, TickDoneBudgetInv DEF TickIdle
<1>11. QED
  BY <1>1, <1>2, <1>3, <1>4, <1>5, <1>6, <1>7, <1>8, <1>9, <1>10 DEF TickStep

LEMMA NextBudgetInv == BudgetInv /\ [Next]_vars => BudgetInv'
<1> SUFFICES ASSUME BudgetInv, [Next]_vars
             PROVE  BudgetInv'
  OBVIOUS
<1>1. ASSUME NEW w \in Workers, GetNextPendingLoop(w)
      PROVE  BudgetInv'
  BY <1>1 DEF GetNextPendingLoop, Goto, loopVars, BudgetInv
<1>2. ASSUME NEW w \in Workers, TickStep(w)
      PROVE  BudgetInv'
  BY <1>2, TickStepBudgetInv
<1>3. ASSUME NEW w \in Workers, WorkerDies(w)
      PROVE  BudgetInv'
  BY <1>3, NewLoopFine DEF WorkerDies, Goto, loopVars, BudgetInv
<1>4. ASSUME NEW o \in Operators, OperatorStep(o)
      PROVE  BudgetInv'
  <2>1. SameCounters
    <3>1. \/ row' = row
          \/ \E s : row' = [row EXCEPT !.status = s]
          \/ \E q : row' = [row EXCEPT !.directions = q]
      BY <1>4, Zenon DEF OperatorStep, OperatorReads, PauseLoop, ResumeLoop, InterruptLoop,
         loopVars
    <3>2. CASE row' = row
      BY <3>2 DEF SameCounters
    <3>3. CASE \E s : row' = [row EXCEPT !.status = s]
      BY <3>3 DEF SameCounters
    <3>4. CASE \E q : row' = [row EXCEPT !.directions = q]
      BY <3>4 DEF SameCounters
    <3>5. QED
      BY <3>1, <3>2, <3>3, <3>4
  <2>2. UNCHANGED <<wpc, seen>>
    BY <1>4 DEF OperatorStep, OperatorReads, PauseLoop, ResumeLoop, InterruptLoop, OperatorDone
  <2>3. QED
    BY <2>1, <2>2, SameCountersFine DEF BudgetInv
<1>5. CASE LeaseExpires
  BY <1>5 DEF LeaseExpires, loopVars, BudgetInv
<1>6. CASE UNCHANGED vars
  BY <1>6 DEF vars, BudgetInv
<1>7. QED
  BY <1>1, <1>2, <1>3, <1>4, <1>5, <1>6 DEF Next

(* Two workers that tick from the same stale record still count no more    *)
(* than max_iterations iterations, nor more snapshots than iterations.     *)
THEOREM BudgetKept == Spec => []WithinBudget
<1>1. BudgetInv => WithinBudget
  BY DEF BudgetInv, Fine, WithinBudget
<1>2. QED
  BY <1>1, InitBudgetInv, NextBudgetInv, PTL DEF Spec

-----------------------------------------------------------------------------
(* What a step writes.                                                     *)

(* The columns of the row are those of a new loop; the invariant of the    *)
(* counters comes with it.                                                 *)
ShapeInv == BudgetInv /\ DOMAIN row = DOMAIN NewLoop

(* What a step that is no graph run, no end of one and no pending          *)
(* direction taken off does to the row: a patch of other columns.          *)
Patches ==
  \/ row' = row
  \/ \E p : row' = [row EXCEPT !.phase = p]
  \/ \E s : s # "running" /\ row' = [row EXCEPT !.status = s]
  \/ \E s, p : s # "running" /\ row' = [row EXCEPT !.status = s, !.phase = p]
  \/ \E s, p : row' = [row EXCEPT !.proposed = s, !.phase = p]
  \/ \E f, p : row' = [row EXCEPT !.phase = p, !.failures = f]
  \/ \E f, p : row' = [row EXCEPT !.phase = p, !.failures = f, !.status = "failed"]
  \/ \E q : row' = [row EXCEPT !.directions = q]

(* The three that do more.                                                 *)
FetchesIdentity(w) ==
  /\ TickIdentityFetch(w)
  /\ row' = [row EXCEPT !.phase = "graph_cycle", !.status = "running",
                        !.failures = 0, !.directions = InitialDirections]

Counts(w) ==
  /\ wpc[w] = "graph"
  /\ \E f, s, t, n, c, p :
       /\ row' = [row EXCEPT !.iteration = seen[w].iteration + 1, !.failures = f, !.score = s,
                             !.staging = t, !.stagings = seen[w].stagings + n,
                             !.completed = c, !.phase = p]
       /\ n \in {0, 1} /\ (c = row.completed \/ seen[w].completed \subseteq c)

Completes(w) ==
  /\ wpc[w] = "tick"
  /\ \E c, p : /\ row' = [row EXCEPT !.completed = c, !.phase = p]
              /\ seen[w].completed \subseteq c

LEMMA TickWrites ==
  ASSUME ShapeInv, NEW w \in Workers, TickStep(w)
  PROVE  Patches \/ FetchesIdentity(w) \/ Counts(w) \/ Completes(w)
<1>1. CASE TryAcquireLoopLock(w) \/ ReleaseLoopLock(w) \/ DispatchGraph(w)
  BY <1>1 DEF TryAcquireLoopLock, ReleaseLoopLock, DispatchGraph, loopVars, Patches
<1>2. CASE TickIdentityFetch(w)
  BY <1>2 DEF TickIdentityFetch, FetchesIdentity
<1>3. CASE TickFails(w)
  <2>1. row' = [row EXCEPT !.status = "failed"]
    BY <1>3 DEF TickFails
  <2>2. "failed" # "running"
    OBVIOUS
  <2>3. QED
    BY <2>1, <2>2, Zenon DEF Patches
<1>4. CASE TickBudgetSpent(w)
  <2>1. row' = [row EXCEPT !.status = "completed", !.phase = "idle"]
    BY <1>4 DEF TickBudgetSpent
  <2>2. "completed" # "running"
    OBVIOUS
  <2>3. QED
    BY <2>1, <2>2, Zenon DEF Patches
<1>5. CASE GraphReturns(w)
  <2>1. PICK r \in RunResults :
       row' = [row EXCEPT
         !.iteration = seen[w].iteration + 1,
         !.failures  = 0,
         !.score     = IF r.score = None THEN @ ELSE r.score,
         !.staging   = IF ~r.staged THEN @ ELSE IF r.score = None THEN Unscored ELSE r.score,
         !.stagings  = seen[w].stagings + (IF r.staged THEN 1 ELSE 0),
         !.completed = IF DirectionDone(w, r.ev, r.score) /\ CurrentDirection(seen[w]) # {}
                       THEN Complete(seen[w], CurrentDirection(seen[w])) ELSE @,
         !.phase     = IF r.ev = "pass" THEN "proposing" ELSE "graph_cycle"]
    BY <1>5, Zenon DEF GraphReturns
  <2> DEFINE s == IF r.score = None THEN row.score ELSE r.score
             t == IF ~r.staged THEN row.staging ELSE IF r.score = None THEN Unscored ELSE r.score
             n == IF r.staged THEN 1 ELSE 0
             c == IF DirectionDone(w, r.ev, r.score) /\ CurrentDirection(seen[w]) # {}
                  THEN Complete(seen[w], CurrentDirection(seen[w])) ELSE row.completed
             p == IF r.ev = "pass" THEN "proposing" ELSE "graph_cycle"
  <2>2. row' = [row EXCEPT !.iteration = seen[w].iteration + 1, !.failures = 0, !.score = s,
                  !.staging = t, !.stagings = seen[w].stagings + n, !.completed = c, !.phase = p]
    BY <2>1 DEF ShapeInv, NewLoop
  <2>3. n \in {0, 1} /\ (c = row.completed \/ seen[w].completed \subseteq c)
    BY DEF Complete
  <2>4. wpc[w] = "graph"
    BY <1>5 DEF GraphReturns
  <2> HIDE DEF s, t, n, c, p
  <2>5. Counts(w)
    BY <2>2, <2>3, <2>4, Zenon DEF Counts
  <2>6. QED
    BY <2>5
<1>6. CASE GraphFails(w)
  <2>1. row' = [row EXCEPT !.phase = "graph_cycle", !.failures = seen[w].failures + 1,
                  !.status = IF seen[w].failures + 1 >= MaxFailures THEN "failed" ELSE @]
    BY <1>6 DEF GraphFails
  <2>2. CASE seen[w].failures + 1 >= MaxFailures
    <3>1. row' = [row EXCEPT !.phase = "graph_cycle", !.failures = seen[w].failures + 1,
                    !.status = "failed"]
      BY <2>1, <2>2
    <3>2. QED
      BY <3>1, Zenon DEF Patches
  <2>3. CASE ~(seen[w].failures + 1 >= MaxFailures)
    <3>1. row' = [row EXCEPT !.phase = "graph_cycle", !.failures = seen[w].failures + 1]
      BY <2>1, <2>3 DEF ShapeInv, NewLoop
    <3>2. QED
      BY <3>1, Zenon DEF Patches
  <2>4. QED
    BY <2>2, <2>3
<1>7. CASE TickProposing(w)
  BY <1>7, Zenon DEF TickProposing, Patches
<1>8. CASE TickIdle(w)
  <2>1. \/ /\ wpc[w] = "tick"
           /\ row' = [row EXCEPT
                !.completed = Complete(seen[w], {First(seen[w], Pending(seen[w]))}),
                !.phase = "graph_cycle"]
        \/ row' = [row EXCEPT !.status = "completed"]
        \/ row' = [row EXCEPT !.phase = "graph_cycle"]
    BY <1>8, Zenon DEF TickIdle, InTick
  <2>2. "completed" # "running"
    OBVIOUS
  <2>3. seen[w].completed \subseteq Complete(seen[w], {First(seen[w], Pending(seen[w]))})
    BY DEF Complete
  <2>4. QED
    BY <2>1, <2>2, <2>3, Zenon DEF Completes, Patches
<1>9. QED
  BY <1>1, <1>2, <1>3, <1>4, <1>5, <1>6, <1>7, <1>8 DEF TickStep

LEMMA PatchesKeep ==
  ASSUME ShapeInv, Patches
  PROVE  /\ DOMAIN row' = DOMAIN row
         /\ row'.iteration = row.iteration /\ row'.stagings = row.stagings
         /\ row'.completed = row.completed
         /\ row'.status = "running" => row.status = "running"
<1> USE DEF ShapeInv, NewLoop
<1>1. CASE row' = row
  BY <1>1
<1>2. CASE \E p : row' = [row EXCEPT !.phase = p]
  BY <1>2
<1>3. CASE \E s : s # "running" /\ row' = [row EXCEPT !.status = s]
  BY <1>3
<1>4. CASE \E s, p : s # "running" /\ row' = [row EXCEPT !.status = s, !.phase = p]
  BY <1>4
<1>5. CASE \E s, p : row' = [row EXCEPT !.proposed = s, !.phase = p]
  BY <1>5
<1>6. CASE \E f, p : row' = [row EXCEPT !.phase = p, !.failures = f]
  BY <1>6
<1>7. CASE \E f, p : row' = [row EXCEPT !.phase = p, !.failures = f, !.status = "failed"]
  BY <1>7
<1>8. CASE \E q : row' = [row EXCEPT !.directions = q]
  BY <1>8
<1>9. QED
  BY <1>1, <1>2, <1>3, <1>4, <1>5, <1>6, <1>7, <1>8, Zenon DEF Patches

LEMMA FetchKeeps ==
  ASSUME ShapeInv, NEW w \in Workers, FetchesIdentity(w)
  PROVE  /\ DOMAIN row' = DOMAIN row
         /\ row'.iteration = row.iteration /\ row'.stagings = row.stagings
         /\ row'.completed = row.completed
BY DEF FetchesIdentity, ShapeInv, NewLoop

LEMMA CountsKeep ==
  ASSUME ShapeInv, NEW w \in Workers, Counts(w)
  PROVE  /\ DOMAIN row' = DOMAIN row
         /\ row'.iteration = seen[w].iteration + 1
         /\ row'.stagings \in {seen[w].stagings, seen[w].stagings + 1}
         /\ row.completed \subseteq row'.completed \/ seen[w].completed \subseteq row'.completed
         /\ row'.status = row.status
<1>1. seen[w].stagings \in Nat
  BY DEF ShapeInv, BudgetInv, Fine
<1>2. QED
  BY <1>1 DEF Counts, ShapeInv, NewLoop

LEMMA CompletesKeeps ==
  ASSUME ShapeInv, NEW w \in Workers, Completes(w)
  PROVE  /\ DOMAIN row' = DOMAIN row
         /\ row'.iteration = row.iteration /\ row'.stagings = row.stagings
         /\ seen[w].completed \subseteq row'.completed
         /\ row'.status = row.status
BY DEF Completes, ShapeInv, NewLoop

(* An operator patches the row, and only a resume says running.            *)
LEMMA OperatorWrites ==
  ASSUME ShapeInv, NEW o \in Operators, OperatorStep(o)
  PROVE  /\ UNCHANGED <<wpc, seen>>
         /\ Patches \/ (ResumeLoop(o) /\ row' = [row EXCEPT !.status = "running"])
<1>1. CASE OperatorReads(o)
  BY <1>1 DEF OperatorReads, loopVars, Patches
<1>2. CASE PauseLoop(o)
  <2>1. row' = [row EXCEPT !.status = "paused"] /\ "paused" # "running"
    BY <1>2 DEF PauseLoop
  <2>2. UNCHANGED <<wpc, seen>>
    BY <1>2 DEF PauseLoop, OperatorDone
  <2>3. QED
    BY <2>1, <2>2, Zenon DEF Patches
<1>3. CASE ResumeLoop(o)
  BY <1>3 DEF ResumeLoop, OperatorDone
<1>4. CASE InterruptLoop(o)
  <2>1. row' = row \/ \E q : row' = [row EXCEPT !.directions = q]
    BY <1>4, Zenon DEF InterruptLoop
  <2>2. UNCHANGED <<wpc, seen>>
    BY <1>4 DEF InterruptLoop, OperatorDone
  <2>3. QED
    BY <2>1, <2>2, Zenon DEF Patches
<1>5. QED
  BY <1>1, <1>2, <1>3, <1>4 DEF OperatorStep

LEMMA NextWrites ==
  ASSUME ShapeInv, [Next]_vars
  PROVE  \/ Patches
         \/ \E w \in Workers : TickStep(w) /\ (FetchesIdentity(w) \/ Counts(w) \/ Completes(w))
         \/ \E o \in Operators : ResumeLoop(o) /\ row' = [row EXCEPT !.status = "running"]
<1>1. ASSUME NEW w \in Workers, GetNextPendingLoop(w) \/ WorkerDies(w)
      PROVE  Patches
  BY <1>1 DEF GetNextPendingLoop, WorkerDies, loopVars, Patches
<1>2. CASE LeaseExpires \/ UNCHANGED vars
  BY <1>2 DEF LeaseExpires, loopVars, vars, Patches
<1>3. QED
  BY <1>1, <1>2, TickWrites, OperatorWrites DEF Next

LEMMA NextShapeInv == ShapeInv /\ [Next]_vars => ShapeInv'
<1> SUFFICES ASSUME ShapeInv, [Next]_vars
             PROVE  ShapeInv'
  OBVIOUS
<1>1. BudgetInv'
  BY NextBudgetInv DEF ShapeInv
<1>2. ASSUME NEW o \in Operators, row' = [row EXCEPT !.status = "running"]
      PROVE  DOMAIN row' = DOMAIN row
  BY <1>2
<1>3. DOMAIN row' = DOMAIN row
  BY <1>2, NextWrites, PatchesKeep, FetchKeeps, CountsKeep, CompletesKeeps
<1>4. QED
  BY <1>1, <1>3 DEF ShapeInv, NewLoop

LEMMA InitShapeInv == Init => ShapeInv
BY InitBudgetInv DEF Init, ShapeInv

(* A pause holds against every tick under way but the one that fetches the *)
(* identity (loop_service.py:277), with any number of workers, operators,  *)
(* crashes and expired leases.                                             *)
THEOREM PauseIsKept == Spec => PauseHolds
<1> DEFINE Holds ==
      row.status = "paused" /\ row'.status = "running" =>
       \/ \E o \in Operators : ResumeLoop(o)
       \/ \E w \in Workers : TickIdentityFetch(w)
<1>1. ShapeInv /\ [Next]_vars => Holds
  <2> SUFFICES ASSUME ShapeInv, [Next]_vars, row.status = "paused", row'.status = "running"
               PROVE  \/ \E o \in Operators : ResumeLoop(o)
                      \/ \E w \in Workers : TickIdentityFetch(w)
    OBVIOUS
  <2>1. ~Patches
    BY PatchesKeep
  <2>2. ASSUME NEW w \in Workers, Counts(w) \/ Completes(w)
        PROVE  FALSE
    BY <2>2, CountsKeep, CompletesKeeps
  <2>3. QED
    BY <2>1, <2>2, NextWrites DEF FetchesIdentity
<1>2. QED
  BY <1>1, InitShapeInv, NextShapeInv, PTL DEF Spec, PauseHolds

-----------------------------------------------------------------------------
(* One cron caller.                                                        *)

(* What it has read is what the row still says of the past, as long as it  *)
(* has not written: operators and leases touch none of it.                 *)
FreshInv ==
  \A w \in Workers : wpc[w] \in {"locking", "tick", "graph"} =>
    /\ seen[w].iteration = row.iteration
    /\ seen[w].stagings = row.stagings
    /\ seen[w].completed = row.completed

LEMMA FreshStep ==
  ASSUME ShapeInv, FreshInv, [Next]_vars, \A w, v \in Workers : w = v
  PROVE  FreshInv'
<1>1. ASSUME NEW w \in Workers, GetNextPendingLoop(w)
      PROVE  FreshInv'
  BY <1>1 DEF GetNextPendingLoop, loopVars, Goto, FreshInv, ShapeInv, BudgetInv
<1>2. ASSUME NEW w \in Workers, WorkerDies(w)
      PROVE  FreshInv'
  BY <1>2 DEF WorkerDies, Goto, FreshInv, ShapeInv, BudgetInv
<1>3. ASSUME NEW w \in Workers, TickStep(w)
      PROVE  FreshInv'
  <2>1. CASE TryAcquireLoopLock(w) \/ DispatchGraph(w)
    BY <1>3, <2>1 DEF TryAcquireLoopLock, DispatchGraph, InTick, loopVars, Goto, FreshInv, ShapeInv,
       BudgetInv
  <2>2. CASE ReleaseLoopLock(w) \/ TickDone(w)
    <3>1. wpc'[w] \in {"idle", "release"}
      BY <2>2 DEF ReleaseLoopLock, TickDone, Goto, ShapeInv, BudgetInv
    <3>2. QED
      BY <3>1 DEF FreshInv
  <2>3. QED
    BY <1>3, <2>1, <2>2 DEF TickStep, TickIdentityFetch, TickFails, TickBudgetSpent, GraphReturns,
       GraphFails, TickProposing, TickIdle
<1>4. ASSUME NEW o \in Operators, OperatorStep(o)
      PROVE  FreshInv'
  <2>1. UNCHANGED <<wpc, seen>>
    BY <1>4, OperatorWrites
  <2>2. CASE Patches
    BY <2>1, <2>2, PatchesKeep DEF FreshInv
  <2>3. CASE row' = [row EXCEPT !.status = "running"]
    BY <2>1, <2>3 DEF FreshInv, ShapeInv, NewLoop
  <2>4. QED
    BY <1>4, <2>2, <2>3, OperatorWrites
<1>5. CASE LeaseExpires \/ UNCHANGED vars
  BY <1>5 DEF LeaseExpires, loopVars, vars, FreshInv
<1>6. QED
  BY <1>1, <1>2, <1>3, <1>4, <1>5 DEF Next

(* With one cron caller no tick loses what an earlier one recorded,        *)
(* whatever operators, crashes and expired leases do in between.           *)
THEOREM NothingIsLost ==
  ASSUME \A w, v \in Workers : w = v
  PROVE  Spec => NothingLost
<1> DEFINE Kept ==
      /\ row'.iteration \in {row.iteration, row.iteration + 1}
      /\ row'.stagings \in {row.stagings, row.stagings + 1}
      /\ row.completed \subseteq row'.completed
<1>1. ShapeInv /\ FreshInv /\ [Next]_vars => Kept
  <2> SUFFICES ASSUME ShapeInv, FreshInv, [Next]_vars
               PROVE  Kept
    OBVIOUS
  <2>1. CASE Patches
    BY <2>1, PatchesKeep
  <2>2. ASSUME NEW w \in Workers, FetchesIdentity(w)
        PROVE  Kept
    BY <2>2, FetchKeeps
  <2>3. ASSUME NEW w \in Workers, Counts(w)
        PROVE  Kept
    <3>1. /\ seen[w].iteration = row.iteration /\ seen[w].stagings = row.stagings
          /\ seen[w].completed = row.completed
      BY <2>3 DEF FreshInv, Counts
    <3>2. QED
      BY <2>3, <3>1, CountsKeep
  <2>4. ASSUME NEW w \in Workers, Completes(w)
        PROVE  Kept
    <3>1. seen[w].completed = row.completed
      BY <2>4 DEF FreshInv, Completes
    <3>2. QED
      BY <2>4, <3>1, CompletesKeeps
  <2>5. CASE row' = [row EXCEPT !.status = "running"]
    BY <2>5 DEF ShapeInv, NewLoop
  <2>6. QED
    BY <2>1, <2>2, <2>3, <2>4, <2>5, NextWrites
<1>2. ShapeInv /\ FreshInv /\ [Next]_vars => FreshInv'
  BY FreshStep
<1>3. Init => FreshInv
  BY DEF Init, FreshInv
<1>4. QED
  BY <1>1, <1>2, <1>3, InitShapeInv, NextShapeInv, PTL DEF Spec, NothingLost

-----------------------------------------------------------------------------
(* Types.                                                                  *)

LEMMA Below ==
  ASSUME NEW a \in Nat, NEW b \in Nat, a < b
  PROVE  <<a, b>> \in OpToRel(<, Nat)
<1>1. <<a, b>> \in Nat \X Nat /\ <<a, b>>[1] < <<a, b>>[2]
  BY SMT
<1>2. QED
  BY <1>1, Zenon DEF OpToRel

(* A queue has a first pending position.                                   *)
LEMMA FirstIsADirection ==
  ASSUME NEW r, RowOK(r), NEW P \in SUBSET DOMAIN r.directions, P # {}
  PROVE  First(r, P) \in Directions
<1>1. Len(r.directions) \in Nat /\ DOMAIN r.directions = 1 .. Len(r.directions)
  BY LenProperties DEF RowOK
<1>2. P \subseteq Nat
  BY <1>1
<1>3. PICK x \in P : \A y \in P : ~(<<y, x>> \in OpToRel(<, Nat))
  BY <1>2, WFMin, NatLessThanWellFounded
<1>4. \A y \in P : x <= y
  <2>1. \A y \in P : ~(y < x)
    BY <1>2, <1>3, Below
  <2>2. QED
    BY <1>2, <2>1
<1>5. Min(P) \in P
  BY <1>4, Zenon DEF Min
<1>6. QED
  BY <1>1, <1>5, ElementOfSeq DEF First, RowOK

(* The directions that a record completes.                                 *)
LEMMA CurrentIsADirection ==
  ASSUME NEW r, RowOK(r)
  PROVE  /\ CurrentDirection(r) \subseteq Directions
         /\ Pending(r) # {} => First(r, Pending(r)) \in Directions
<1>1. /\ Pending(r) \in SUBSET DOMAIN r.directions
      /\ PendingValid(r) \in SUBSET DOMAIN r.directions
  BY DEF Pending, PendingValid
<1>2. QED
  BY <1>1, FirstIsADirection DEF CurrentDirection

(* Types, and the copies are one for each worker and operator.             *)
TypeInv == TypeOK /\ DOMAIN seen = Workers /\ DOMAIN opSeen = Operators

LEMMA NewLoopIsARow == RowOK(NewLoop) /\ <<>> \in Seq(Directions)
BY DEF RowOK, NewLoop, Statuses, Phases, ScoreOrNone

LEMMA InitialAreDirections == InitialDirections \in Seq(Directions)
BY SeqDef, LenProperties DEF Directions

LEMMA TypeStarts == Init => TypeInv
<1> SUFFICES ASSUME Init PROVE TypeInv
  OBVIOUS
<1>1. RowOK(row) /\ \A w \in Workers : RowOK(seen[w])
  BY NewLoopIsARow, Zenon DEF Init
<1>2. QED
  BY <1>1, NewLoopIsARow DEF Init, TypeInv, TypeOK

(* What a phase leaves alone.                                              *)
LEMMA TickKeepsTypes ==
  ASSUME TypeInv, NEW w \in Workers, wpc[w] \in {"tick", "graph"}, TickDone(w), RowOK(row')
  PROVE  TypeInv'
BY DEF TypeInv, TypeOK, TickDone, Goto, leaseVars, opVars, bounds

LEMMA TickTypes ==
  ASSUME TypeInv, NEW w \in Workers, TickStep(w)
  PROVE  TypeInv'
<1>0. RowOK(row) /\ RowOK(seen[w])
  BY DEF TypeInv, TypeOK
<1>1. CASE TryAcquireLoopLock(w)
  BY <1>1 DEF TryAcquireLoopLock, Goto, loopVars, leaseVars, opVars, bounds, TypeInv, TypeOK
<1>2. CASE ReleaseLoopLock(w)
  BY <1>2, NewLoopIsARow DEF ReleaseLoopLock, Goto, loopVars, opVars, TypeInv, TypeOK
<1>3. CASE TickIdentityFetch(w)
  <2>1. RowOK(row')
    BY <1>0, <1>3, InitialAreDirections DEF TickIdentityFetch, RowOK, Statuses, Phases
  <2>2. QED
    BY <1>3, <2>1, TickKeepsTypes DEF TickIdentityFetch, InTick
<1>4. CASE TickFails(w)
  <2>1. RowOK(row')
    BY <1>0, <1>4 DEF TickFails, RowOK, Statuses
  <2>2. QED
    BY <1>4, <2>1, TickKeepsTypes DEF TickFails
<1>5. CASE TickBudgetSpent(w)
  <2>1. RowOK(row')
    BY <1>0, <1>5 DEF TickBudgetSpent, RowOK, Statuses, Phases
  <2>2. QED
    BY <1>5, <2>1, TickKeepsTypes DEF TickBudgetSpent, InTick
<1>6. CASE DispatchGraph(w)
  <2>1. tried' \subseteq Directions
    BY <1>0, <1>6, CurrentIsADirection DEF DispatchGraph, TypeInv, TypeOK
  <2>2. QED
    BY <1>6, <2>1 DEF DispatchGraph, InTick, Goto, leaseVars, opVars, bounds, TypeInv, TypeOK
<1>7. CASE GraphReturns(w)
  <2>1. PICK r \in RunResults :
          row' = [row EXCEPT
            !.iteration = seen[w].iteration + 1,
            !.failures  = 0,
            !.score     = IF r.score = None THEN @ ELSE r.score,
            !.staging   = IF ~r.staged THEN @ ELSE IF r.score = None THEN Unscored ELSE r.score,
            !.stagings  = seen[w].stagings + (IF r.staged THEN 1 ELSE 0),
            !.completed = IF DirectionDone(w, r.ev, r.score) /\ CurrentDirection(seen[w]) # {}
                          THEN Complete(seen[w], CurrentDirection(seen[w])) ELSE @,
            !.phase     = IF r.ev = "pass" THEN "proposing" ELSE "graph_cycle"]
    BY <1>7 DEF GraphReturns
  <2>2. r.score \in ScoreOrNone
    BY DEF RunResults
  <2>3. Complete(seen[w], CurrentDirection(seen[w])) \subseteq Directions
    BY <1>0, CurrentIsADirection DEF Complete, RowOK
  <2>4. RowOK(row')
    <3> DEFINE m == IF r.staged THEN 1 ELSE 0
               c == IF DirectionDone(w, r.ev, r.score) /\ CurrentDirection(seen[w]) # {}
                    THEN Complete(seen[w], CurrentDirection(seen[w])) ELSE row.completed
               s == IF ~r.staged THEN row.staging
                    ELSE IF r.score = None THEN Unscored ELSE r.score
               t == IF r.score = None THEN row.score ELSE r.score
               p == IF r.ev = "pass" THEN "proposing" ELSE "graph_cycle"
    <3>1. m \in Nat /\ p \in Phases /\ t \in ScoreOrNone
      BY <1>0, <2>2 DEF RowOK, Phases
    <3>2. c \subseteq Directions
      BY <1>0, <2>3 DEF RowOK
    <3>3. s \in ScoreOrNone \cup {Unscored}
      BY <1>0, <2>2 DEF RowOK
    <3>4. row' = [row EXCEPT !.iteration = seen[w].iteration + 1, !.failures = 0, !.score = t,
                             !.staging = s, !.stagings = seen[w].stagings + m,
                             !.completed = c, !.phase = p]
      BY <2>1
    <3> HIDE DEF m, c, s, t, p
    <3>5. /\ DOMAIN row' = DOMAIN row
          /\ row'.status = row.status /\ row'.directions = row.directions
          /\ row'.proposed = row.proposed /\ row'.phase = p
          /\ row'.iteration = seen[w].iteration + 1 /\ row'.failures = 0
          /\ row'.stagings = seen[w].stagings + m
      BY <1>0, <3>4 DEF RowOK
    <3>6. row'.score = t /\ row'.staging = s /\ row'.completed = c
      BY <1>0, <3>4 DEF RowOK
    <3>7. 0 \in Nat /\ seen[w].iteration + 1 \in Nat /\ seen[w].stagings + m \in Nat
      BY <1>0, <3>1 DEF RowOK
    <3>8. QED
      BY <1>0, <3>1, <3>2, <3>3, <3>5, <3>6, <3>7, Zenon DEF RowOK
  <2>5. QED
    BY <1>7, <2>4, TickKeepsTypes DEF GraphReturns
<1>8. CASE GraphFails(w)
  <2>1. RowOK(row')
    BY <1>0, <1>8 DEF GraphFails, RowOK, Statuses, Phases
  <2>2. QED
    BY <1>8, <2>1, TickKeepsTypes DEF GraphFails
<1>9. CASE TickProposing(w)
  <2>1. RowOK(row')
    BY <1>0, <1>9 DEF TickProposing, RowOK, Phases
  <2>2. QED
    BY <1>9, <2>1, TickKeepsTypes DEF TickProposing, InTick
<1>10. CASE TickIdle(w)
  <2>1. Pending(seen[w]) # {} =>
          Complete(seen[w], {First(seen[w], Pending(seen[w]))}) \subseteq Directions
    BY <1>0, CurrentIsADirection DEF Complete, RowOK
  <2>2. RowOK(row')
    BY <1>0, <1>10, <2>1 DEF TickIdle, RowOK, Statuses, Phases
  <2>3. QED
    BY <1>10, <2>2, TickKeepsTypes DEF TickIdle, InTick
<1>11. QED
  BY <1>1, <1>2, <1>3, <1>4, <1>5, <1>6, <1>7, <1>8, <1>9, <1>10 DEF TickStep

LEMMA OperatorTypes ==
  ASSUME TypeInv, NEW o \in Operators, OperatorStep(o)
  PROVE  TypeInv'
<1>0. RowOK(row) /\ opSeen[o] \in Seq(Directions)
  BY DEF TypeInv, TypeOK
<1>1. CASE OperatorReads(o)
  <2>1. row.directions \in Seq(Directions)
    BY <1>0 DEF RowOK
  <2>2. opc' \in [Operators -> {"idle", "pause", "resume", "interrupt"}]
    BY <1>1 DEF OperatorReads, OpGoto, TypeInv, TypeOK
  <2>3. QED
    BY <1>1, <2>1, <2>2 DEF OperatorReads, loopVars, leaseVars, bounds, TypeInv, TypeOK
<1>2. ASSUME RowOK(row'), OperatorDone(o)
      PROVE  TypeInv'
  BY <1>2, NewLoopIsARow DEF OperatorDone, OpGoto, leaseVars, bounds, TypeInv, TypeOK
<1>3. CASE PauseLoop(o)
  <2>1. RowOK(row')
    BY <1>0, <1>3 DEF PauseLoop, RowOK, Statuses
  <2>2. QED
    BY <1>2, <1>3, <2>1 DEF PauseLoop
<1>4. CASE ResumeLoop(o)
  <2>1. RowOK(row')
    BY <1>0, <1>4 DEF ResumeLoop, RowOK, Statuses
  <2>2. QED
    BY <1>2, <1>4, <2>1 DEF ResumeLoop
<1>5. CASE InterruptLoop(o)
  <2>1. \A d \in Interrupts : Append(opSeen[o], d) \in Seq(Directions)
    BY <1>0, AppendProperties DEF Directions
  <2>2. RowOK(row')
    BY <1>0, <1>5, <2>1 DEF InterruptLoop, RowOK
  <2>3. QED
    BY <1>2, <1>5, <2>2 DEF InterruptLoop
<1>6. QED
  BY <1>1, <1>3, <1>4, <1>5 DEF OperatorStep

LEMMA TypeStep == TypeInv /\ [Next]_vars => TypeInv'
<1> SUFFICES ASSUME TypeInv, [Next]_vars PROVE TypeInv'
  OBVIOUS
<1>1. ASSUME NEW w \in Workers, GetNextPendingLoop(w)
      PROVE  TypeInv'
  BY <1>1 DEF GetNextPendingLoop, Goto, loopVars, leaseVars, opVars, bounds, TypeInv, TypeOK
<1>2. ASSUME NEW w \in Workers, WorkerDies(w)
      PROVE  TypeInv'
  BY <1>2, NewLoopIsARow DEF WorkerDies, Goto, loopVars, leaseVars, opVars, TypeInv, TypeOK
<1>3. CASE LeaseExpires
  BY <1>3 DEF LeaseExpires, loopVars, opVars, TypeInv, TypeOK
<1>4. CASE UNCHANGED vars
  BY <1>4 DEF vars, TypeInv, TypeOK
<1>5. QED
  BY <1>1, <1>2, <1>3, <1>4, TickTypes, OperatorTypes DEF Next

(* Every variable of AutonomousLoop always has its type: whatever record a *)
(* tick works on and however old, what it writes is a row of               *)
(* autonomous_loop.                                                        *)
THEOREM LoopTypeCorrect == Spec => []TypeOK
<1>1. TypeInv => TypeOK
  BY DEF TypeInv
<1>2. QED
  BY <1>1, TypeStarts, TypeStep, PTL DEF Spec
=============================================================================
