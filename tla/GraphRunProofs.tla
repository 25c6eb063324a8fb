--------------------------- MODULE GraphRunProofs ---------------------------
(***************************************************************************)
(* Proofs about GraphRun for every set of runs, threads and processes and  *)
(* every value of the other constants, and about the table it writes to.   *)
(***************************************************************************)
EXTENDS GraphRun, TLAPS

USE DEF ACTIVE_GRAPH_RUN_STATUSES, TERMINAL_GRAPH_RUN_STATUSES, GraphRunStatus,
        Nodes, Executing, Background, Requests, PcStates, Modes,
        tableVars, rowVars, execVars

-----------------------------------------------------------------------------
(* What table graph_run promises by itself, whoever writes to it.          *)

(* Every write of the repository touches one row and keeps the types.      *)
LEMMA WriteType ==
  ASSUME RowTypeOK, NEW r \in Runs, Write(r)
  PROVE  RowTypeOK'
  BY DEF RowTypeOK, Write, update_graph_run_status, mark_graph_run_resuming,
     write_interrupt_request

(* The columns of the table always have their types.                       *)
THEOREM RowTypeCorrect == TableSpec => []RowTypeOK
<1>1. TableInit => RowTypeOK
  BY DEF TableInit, RowTypeOK
<1>2. RowTypeOK /\ [TableNext]_tableVars => RowTypeOK'
  <2> SUFFICES ASSUME RowTypeOK, [TableNext]_tableVars
               PROVE  RowTypeOK'
    OBVIOUS
  <2>1. ASSUME NEW r \in Runs, Insert(r)
        PROVE  RowTypeOK'
    BY <2>1 DEF Insert, save_graph_run, RowTypeOK
  <2>2. ASSUME NEW r \in Runs, Write(r)
        PROVE  RowTypeOK'
    BY <2>2, WriteType
  <2>3. CASE UNCHANGED tableVars
    BY <2>3 DEF tableVars, RowTypeOK
  <2>4. QED
    BY <2>1, <2>2, <2>3 DEF TableNext
<1>3. QED
  BY <1>1, <1>2, PTL DEF TableSpec

(* With the index, a write cannot make a second row of a thread active.    *)
LEMMA WriteKeepsOneActive ==
  ASSUME UniqueIndex, RowTypeOK, OneActivePerThread, NEW r \in Runs, Write(r)
  PROVE  OneActivePerThread'
<1> USE DEF RowTypeOK, OneActivePerThread, IsActive
<1>1. runThread' = runThread /\ \A o \in Runs \ {r} : status'[o] = status[o]
  BY DEF Write, update_graph_run_status, mark_graph_run_resuming,
     write_interrupt_request
<1>2. IsActive(r)' => ~ActiveOnThread(r, runThread[r])
  BY DEF Write, update_graph_run_status, mark_graph_run_resuming,
     write_interrupt_request, UpdateRefused
<1>3. QED
  BY <1>1, <1>2 DEF ActiveOnThread

(* The partial unique index keeps one active run per thread, although no   *)
(* write looks at the old status of its row.                               *)
THEOREM OneActiveCorrect == TableSpec => [](UniqueIndex => OneActivePerThread)
<1> DEFINE Inv == UniqueIndex => OneActivePerThread
<1>1. TableInit => Inv
  BY DEF TableInit, OneActivePerThread, IsActive
<1>2. RowTypeOK /\ Inv /\ [TableNext]_tableVars => Inv'
  <2> SUFFICES ASSUME RowTypeOK, UniqueIndex, OneActivePerThread, [TableNext]_tableVars
               PROVE  OneActivePerThread'
    OBVIOUS
  <2>1. ASSUME NEW r \in Runs, Insert(r)
        PROVE  OneActivePerThread'
    BY <2>1 DEF Insert, save_graph_run, ActiveOnThread, IsActive, RowTypeOK,
       OneActivePerThread
  <2>2. ASSUME NEW r \in Runs, Write(r)
        PROVE  OneActivePerThread'
    BY <2>2, WriteKeepsOneActive
  <2>3. CASE UNCHANGED tableVars
    BY <2>3 DEF tableVars, OneActivePerThread, IsActive
  <2>4. QED
    BY <2>1, <2>2, <2>3 DEF TableNext
<1>3. QED
  BY <1>1, <1>2, RowTypeCorrect, PTL DEF TableSpec

(* No order of writes leaves a request on a closed row, or a row that      *)
(* waits for its interrupt without one.                                    *)
THEOREM RequestCorrect == TableSpec => []RequestMatchesStatus
<1>1. TableInit => RequestMatchesStatus
  BY DEF TableInit, RequestMatchesStatus
<1>2. RowTypeOK /\ RequestMatchesStatus /\ [TableNext]_tableVars
        => RequestMatchesStatus'
  <2> SUFFICES ASSUME RowTypeOK, RequestMatchesStatus, [TableNext]_tableVars
               PROVE  RequestMatchesStatus'
    OBVIOUS
  <2> USE DEF RowTypeOK, RequestMatchesStatus
  <2>1. ASSUME NEW r \in Runs, Insert(r)
        PROVE  RequestMatchesStatus'
    BY <2>1 DEF Insert, save_graph_run
  <2>2. ASSUME NEW r \in Runs, Write(r)
        PROVE  RequestMatchesStatus'
    BY <2>2 DEF Write, update_graph_run_status, mark_graph_run_resuming,
       write_interrupt_request
  <2>3. CASE UNCHANGED tableVars
    BY <2>3 DEF tableVars
  <2>4. QED
    BY <2>1, <2>2, <2>3 DEF TableNext
<1>3. QED
  BY <1>1, <1>2, RowTypeCorrect, PTL DEF TableSpec

-----------------------------------------------------------------------------
(* Type correctness.                                                       *)

(* A step of the server keeps every variable in its type.                  *)
LEMMA ServerStepType ==
  ASSUME TypeOK, NEW p \in Procs, ServerStep(p)
  PROVE  TypeOK'
<1> USE DEF TypeOK, RowTypeOK, ProcTypeOK
<1>1. CASE Supersede(p)
  BY <1>1 DEF Goto, SetStatus, update_graph_run_status, Supersede
<1>2. CASE PersistRunStart(p)
  BY <1>2 DEF Goto, InsertRun, save_graph_run, PersistRunStart
<1>3. CASE PersistAfterTimeout(p)
  BY <1>3 DEF Goto, Finish, InsertRun, save_graph_run, PersistAfterTimeout
<1>4. CASE PersistFails(p)
  BY <1>4 DEF Goto, Finish, PersistFails
<1>5. CASE AcquireThreadLock(p)
  BY <1>5 DEF Goto, AcquireThreadLock
<1>6. CASE ThreadLockTimeout(p)
  BY <1>6 DEF Goto, ThreadLockTimeout
<1>7. CASE ReadRunForInvoke(p)
  BY <1>7 DEF ReleaseThreadLock, Goto, ReadRunForInvoke
<1>8. CASE MarkRunning(p)
  BY <1>8 DEF ReleaseThreadLock, Goto, SetStatus, update_graph_run_status, MarkRunning
<1>9. CASE RunNode(p)
  BY <1>9 DEF Successors, NextIteration, RunNode
<1>10. CASE RunLastNode(p)
  BY <1>10 DEF Goto, RunLastNode
<1>11. CASE NodeInterrupted(p)
  BY <1>11 DEF Goto, NodeInterrupted
<1>12. CASE NodeFails(p)
  BY <1>12 DEF Goto, NodeFails
<1>13. CASE AcknowledgeInterrupt(p)
  BY <1>13 DEF Goto, Finish, ReleaseThreadLock, SetStatus, update_graph_run_status,
     AcknowledgeInterrupt
<1>14. CASE FailCheckpoint(p)
  BY <1>14 DEF Goto, SaveInterruptCheckpoint, FailCheckpoint
<1>15. CASE FailStatus(p)
  <2>1. CASE mode[p] = "role"
    <3>1. Finish(p)
      BY <1>15, <2>1 DEF FailStatus
    <3>2. QED
      BY <1>15, <3>1 DEF Goto, Finish, ReleaseThreadLock,
         SetStatus, update_graph_run_status, FailStatus
  <2>2. CASE ~(mode[p] = "role")
    BY <1>15, <2>2 DEF Goto, Finish, ReleaseThreadLock,
       SetStatus, update_graph_run_status, FailStatus
  <2>3. QED
    BY <2>1, <2>2
<1>16. CASE CompleteRun(p)
  BY <1>16 DEF Goto, SetStatus, update_graph_run_status, CompleteRun
<1>17. CASE ReturnFinal(p)
  BY <1>17 DEF Goto, Finish, ReleaseThreadLock, ReturnFinal
<1>18. CASE PostInvokeFails(p)
  BY <1>18 DEF Goto, PostInvokeFails
<1>19. CASE PostInvokeStatus(p)
  BY <1>19 DEF Goto, ReleaseThreadLock, SetStatus, update_graph_run_status,
     PostInvokeStatus
<1>20. CASE ErrorPathFails(p)
  BY <1>20 DEF Goto, ReleaseThreadLock, ErrorPathFails
<1>21. CASE BackgroundStatus(p)
  BY <1>21 DEF Goto, SetStatus, update_graph_run_status, BackgroundStatus
<1>22. CASE BackgroundCheckpoint(p)
  BY <1>22 DEF Goto, Finish, SaveInterruptCheckpoint, BackgroundCheckpoint
<1>23. CASE BackgroundHandlerFails(p)
  BY <1>23 DEF Goto, Finish, BackgroundHandlerFails
<1>24. CASE StaleStatus(p)
  BY <1>24 DEF Goto, SetStatus, update_graph_run_status, StaleStatus
<1>25. CASE StaleCheckpoint(p)
  <2>1. CASE mode[p] = "poll"
    <3>1. Finish(p)
      BY <1>25, <2>1 DEF StaleCheckpoint
    <3>2. QED
      BY <1>25, <3>1 DEF Goto, Finish, SaveInterruptCheckpoint,
         StaleCheckpoint
  <2>2. CASE ~(mode[p] = "poll")
    BY <1>25, <2>2 DEF Goto, Finish, SaveInterruptCheckpoint, StaleCheckpoint
  <2>3. QED
    BY <2>1, <2>2
<1>26. CASE CheckEligibility(p)
  BY <1>26 DEF Goto, Finish, CheckEligibility
<1>27. CASE MarkResuming(p)
  <2>1. CASE Finish(p)
    BY <1>27, <2>1 DEF Finish, Goto, mark_graph_run_resuming, MarkResuming
  <2>2. CASE ~Finish(p)
    BY <1>27, <2>2 DEF Goto, mark_graph_run_resuming, MarkResuming
  <2>3. QED
    BY <2>1, <2>2
<1>28. CASE WriteInterruptRequest(p)
  BY <1>28 DEF Goto, Finish, write_interrupt_request, WriteInterruptRequest
<1>29. CASE RequestFails(p)
  BY <1>29 DEF Goto, Finish, RequestFails
<1>30. QED
  BY <1>1, <1>2, <1>3, <1>4, <1>5, <1>6, <1>7, <1>8, <1>9, <1>10, <1>11,
     <1>12, <1>13, <1>14, <1>15, <1>16, <1>17, <1>18, <1>19, <1>20, <1>21,
     <1>22, <1>23, <1>24, <1>25, <1>26, <1>27, <1>28, <1>29 DEF ServerStep

(* So does a request that comes in.                                        *)
LEMMA RequestType ==
  ASSUME TypeOK, NEW p \in Procs, Request(p)
  PROVE  TypeOK'
<1> USE DEF TypeOK, RowTypeOK, ProcTypeOK, Goto
<1>1. ASSUME NEW t \in Threads, StartOnThread(p, t)
      PROVE  TypeOK'
  BY <1>1 DEF StartOnThread
<1>2. ASSUME NEW t \in Threads, StartFresh(p, t)
      PROVE  TypeOK'
  BY <1>2 DEF StartFresh
<1>3. ASSUME NEW r \in Runs, ReadForReconcile(p, r)
      PROVE  TypeOK'
  BY <1>3 DEF ReadForReconcile
<1>4. ASSUME NEW r \in Runs, ReadForInterrupt(p, r)
      PROVE  TypeOK'
  BY <1>4 DEF ReadForInterrupt
<1>5. QED
  BY <1>1, <1>2, <1>3, <1>4 DEF Request

(* Every variable always has its type.                                     *)
THEOREM TypeCorrect == Spec => []TypeOK
<1>1. Init => TypeOK
  BY DEF Init, TableInit, TypeOK, RowTypeOK, ProcTypeOK
<1>2. TypeOK /\ [Next]_vars => TypeOK'
  <2> SUFFICES ASSUME TypeOK, [Next]_vars
               PROVE  TypeOK'
    OBVIOUS
  <2>1. ASSUME NEW p \in Procs, ServerStep(p)
        PROVE  TypeOK'
    BY <2>1, ServerStepType
  <2>2. ASSUME NEW p \in Procs, Request(p)
        PROVE  TypeOK'
    BY <2>2, RequestType
  <2>3. ASSUME NEW r \in Runs, Age(r)
        PROVE  TypeOK'
    BY <2>3 DEF Age, TypeOK, RowTypeOK, ProcTypeOK
  <2>4. CASE Crash \/ UNCHANGED vars
    BY <2>4 DEF Crash, vars, TypeOK, RowTypeOK, ProcTypeOK
  <2>5. QED
    BY <2>1, <2>2, <2>3, <2>4 DEF Next
<1>3. QED
  BY <1>1, <1>2, PTL DEF Spec

-----------------------------------------------------------------------------
(* Mutual exclusion.                                                       *)

(* A step of the server keeps the mutexes and the positions consistent:    *)
(* whoever enters the graph takes a free mutex, whoever leaves it frees    *)
(* only its own.                                                           *)
LEMMA ServerStepLock ==
  ASSUME ConstantsAssumption, TypeOK, ThreadLockInv, NEW p \in Procs, ServerStep(p)
  PROVE  ThreadLockInv'
<1> USE DEF ConstantsAssumption, TypeOK, RowTypeOK, ProcTypeOK, ThreadLockInv,
            RowsHaveThread, RequestsHaveThread, JobsHaveRow, ExecutorHoldsLock, InGraph
<1>1. CASE Supersede(p)
  BY <1>1 DEF Goto, SetStatus, update_graph_run_status, Supersede
<1>2. CASE PersistRunStart(p)
  BY <1>2 DEF Goto, InsertRun, save_graph_run, PersistRunStart
<1>3. CASE PersistAfterTimeout(p)
  BY <1>3 DEF Goto, Finish, InsertRun, save_graph_run, PersistAfterTimeout
<1>4. CASE PersistFails(p)
  BY <1>4 DEF Goto, Finish, PersistFails
<1>5. CASE AcquireThreadLock(p)
  BY <1>5 DEF Goto, AcquireThreadLock
<1>6. CASE ThreadLockTimeout(p)
  BY <1>6 DEF Goto, ThreadLockTimeout
<1>7. CASE ReadRunForInvoke(p)
  BY <1>7 DEF ReleaseThreadLock, Goto, ReadRunForInvoke
<1>8. CASE MarkRunning(p)
  BY <1>8 DEF ReleaseThreadLock, Goto, SetStatus, update_graph_run_status, MarkRunning
<1>9. CASE RunNode(p)
  BY <1>9 DEF Successors, NextIteration, RunNode
<1>10. CASE RunLastNode(p)
  BY <1>10 DEF Goto, RunLastNode
<1>11. CASE NodeInterrupted(p)
  BY <1>11 DEF Goto, NodeInterrupted
<1>12. CASE NodeFails(p)
  BY <1>12 DEF Goto, NodeFails
<1>13. CASE AcknowledgeInterrupt(p)
  BY <1>13 DEF Goto, Finish, ReleaseThreadLock, SetStatus, update_graph_run_status,
     AcknowledgeInterrupt
<1>14. CASE FailCheckpoint(p)
  BY <1>14 DEF Goto, SaveInterruptCheckpoint, FailCheckpoint
<1>15. CASE FailStatus(p)
  <2>1. CASE mode[p] = "role"
    <3>1. Finish(p)
      BY <1>15, <2>1 DEF FailStatus
    <3>2. QED
      BY <1>15, <3>1 DEF Goto, Finish, ReleaseThreadLock,
         SetStatus, update_graph_run_status, FailStatus
  <2>2. CASE ~(mode[p] = "role")
    BY <1>15, <2>2 DEF Goto, Finish, ReleaseThreadLock,
       SetStatus, update_graph_run_status, FailStatus
  <2>3. QED
    BY <2>1, <2>2
<1>16. CASE CompleteRun(p)
  BY <1>16 DEF Goto, SetStatus, update_graph_run_status, CompleteRun
<1>17. CASE ReturnFinal(p)
  BY <1>17 DEF Goto, Finish, ReleaseThreadLock, ReturnFinal
<1>18. CASE PostInvokeFails(p)
  BY <1>18 DEF Goto, PostInvokeFails
<1>19. CASE PostInvokeStatus(p)
  BY <1>19 DEF Goto, ReleaseThreadLock, SetStatus, update_graph_run_status,
     PostInvokeStatus
<1>20. CASE ErrorPathFails(p)
  BY <1>20 DEF Goto, ReleaseThreadLock, ErrorPathFails
<1>21. CASE BackgroundStatus(p)
  BY <1>21 DEF Goto, SetStatus, update_graph_run_status, BackgroundStatus
<1>22. CASE BackgroundCheckpoint(p)
  BY <1>22 DEF Goto, Finish, SaveInterruptCheckpoint, BackgroundCheckpoint
<1>23. CASE BackgroundHandlerFails(p)
  BY <1>23 DEF Goto, Finish, BackgroundHandlerFails
<1>24. CASE StaleStatus(p)
  BY <1>24 DEF Goto, SetStatus, update_graph_run_status, StaleStatus
<1>25. CASE StaleCheckpoint(p)
  <2>1. CASE mode[p] = "poll"
    <3>1. Finish(p)
      BY <1>25, <2>1 DEF StaleCheckpoint
    <3>2. QED
      BY <1>25, <3>1 DEF Goto, Finish, SaveInterruptCheckpoint,
         StaleCheckpoint
  <2>2. CASE ~(mode[p] = "poll")
    BY <1>25, <2>2 DEF Goto, Finish, SaveInterruptCheckpoint, StaleCheckpoint
  <2>3. QED
    BY <2>1, <2>2
<1>26. CASE CheckEligibility(p)
  BY <1>26 DEF Goto, Finish, CheckEligibility
<1>27. CASE MarkResuming(p)
  <2>1. CASE Finish(p)
    BY <1>27, <2>1 DEF Finish, Goto, mark_graph_run_resuming, MarkResuming
  <2>2. CASE ~Finish(p)
    BY <1>27, <2>2 DEF Goto, mark_graph_run_resuming, MarkResuming
  <2>3. QED
    BY <2>1, <2>2
<1>28. CASE WriteInterruptRequest(p)
  BY <1>28 DEF Goto, Finish, write_interrupt_request, WriteInterruptRequest
<1>29. CASE RequestFails(p)
  BY <1>29 DEF Goto, Finish, RequestFails
<1>30. QED
  BY <1>1, <1>2, <1>3, <1>4, <1>5, <1>6, <1>7, <1>8, <1>9, <1>10, <1>11,
     <1>12, <1>13, <1>14, <1>15, <1>16, <1>17, <1>18, <1>19, <1>20, <1>21,
     <1>22, <1>23, <1>24, <1>25, <1>26, <1>27, <1>28, <1>29 DEF ServerStep

(* So does a request that comes in.                                        *)
LEMMA RequestLock ==
  ASSUME TypeOK, ThreadLockInv, NEW p \in Procs, Request(p)
  PROVE  ThreadLockInv'
<1> USE DEF TypeOK, RowTypeOK, ProcTypeOK, ThreadLockInv, RowsHaveThread,
            RequestsHaveThread, JobsHaveRow, ExecutorHoldsLock, InGraph, Goto
<1>1. ASSUME NEW t \in Threads, StartOnThread(p, t)
      PROVE  ThreadLockInv'
  BY <1>1 DEF StartOnThread
<1>2. ASSUME NEW t \in Threads, StartFresh(p, t)
      PROVE  ThreadLockInv'
  BY <1>2 DEF StartFresh
<1>3. ASSUME NEW r \in Runs, ReadForReconcile(p, r)
      PROVE  ThreadLockInv'
  BY <1>3 DEF ReadForReconcile
<1>4. ASSUME NEW r \in Runs, ReadForInterrupt(p, r)
      PROVE  ThreadLockInv'
  BY <1>4 DEF ReadForInterrupt, IsActive
<1>5. QED
  BY <1>1, <1>2, <1>3, <1>4 DEF Request

(* Whoever is inside the graph of a thread holds the mutex of the thread.  *)
THEOREM LockCorrect == Spec => []ThreadLockInv
<1>1. Init => ThreadLockInv
  BY DEF Init, TableInit, ThreadLockInv, RowsHaveThread, RequestsHaveThread,
     JobsHaveRow, ExecutorHoldsLock, InGraph
<1>2. TypeOK /\ ThreadLockInv /\ [Next]_vars => ThreadLockInv'
  <2> SUFFICES ASSUME TypeOK, ThreadLockInv, [Next]_vars
               PROVE  ThreadLockInv'
    OBVIOUS
  <2> USE DEF ThreadLockInv, RowsHaveThread, RequestsHaveThread,
              JobsHaveRow, ExecutorHoldsLock, InGraph
  <2>1. ASSUME NEW p \in Procs, ServerStep(p)
        PROVE  ThreadLockInv'
    BY <2>1, ServerStepLock, ConstantsAssumption
  <2>2. ASSUME NEW p \in Procs, Request(p)
        PROVE  ThreadLockInv'
    BY <2>2, RequestLock
  <2>3. ASSUME NEW r \in Runs, Age(r)
        PROVE  ThreadLockInv'
    BY <2>3 DEF Age
  <2>4. CASE Crash \/ UNCHANGED vars
    BY <2>4 DEF Crash, vars
  <2>5. QED
    BY <2>1, <2>2, <2>3, <2>4 DEF Next
<1>3. QED
  BY <1>1, <1>2, TypeCorrect, PTL DEF Spec

(* Two processes are never inside the graph of the same thread.            *)
THEOREM MutualExclusion == Spec => []OneExecutorPerThread
<1>1. ThreadLockInv => OneExecutorPerThread
  BY DEF ThreadLockInv, ExecutorHoldsLock, OneExecutorPerThread
<1>2. QED
  BY <1>1, LockCorrect, PTL

-----------------------------------------------------------------------------
(* GraphRun implements the table.                                          *)

(* Whatever the server does next, it writes at most one row, one that      *)
(* exists or that it inserts, with one of the writes of the repository.    *)
LEMMA TableStep ==
  ASSUME TypeOK, ThreadLockInv, NEW p \in Procs, ServerStep(p)
  PROVE  TableNext \/ UNCHANGED tableVars
<1> USE DEF TypeOK, ProcTypeOK, ThreadLockInv, RequestsHaveThread, JobsHaveRow
<1>1. ASSUME NEW s \in TERMINAL_GRAPH_RUN_STATUSES \cup {"running"},
             job[p] \in Runs, status[job[p]] # "absent",
             update_graph_run_status(job[p], s)
      PROVE  TableNext
  BY <1>1 DEF TableNext, Write
<1>2. CASE PersistRunStart(p) \/ PersistAfterTimeout(p)
  BY <1>2 DEF PersistRunStart, PersistAfterTimeout, InsertRun, TableNext, Insert
<1>3. CASE \/ Supersede(p) \/ AcknowledgeInterrupt(p) \/ FailStatus(p)
           \/ CompleteRun(p) \/ PostInvokeStatus(p) \/ BackgroundStatus(p)
           \/ StaleStatus(p)
  BY <1>1, <1>3 DEF Supersede, AcknowledgeInterrupt, FailStatus, CompleteRun,
     PostInvokeStatus, BackgroundStatus, StaleStatus, SetStatus
<1>4. CASE MarkRunning(p)
  BY <1>1, <1>4 DEF MarkRunning, SetStatus
<1>5. CASE MarkResuming(p)
  BY <1>5 DEF MarkResuming, TableNext, Write
<1>6. CASE WriteInterruptRequest(p)
  BY <1>6 DEF WriteInterruptRequest, TableNext, Write
<1>7. CASE \/ PersistFails(p) \/ AcquireThreadLock(p) \/ ThreadLockTimeout(p)
           \/ ReadRunForInvoke(p) \/ RunNode(p) \/ RunLastNode(p)
           \/ NodeInterrupted(p) \/ NodeFails(p) \/ FailCheckpoint(p)
           \/ ReturnFinal(p) \/ PostInvokeFails(p) \/ ErrorPathFails(p)
           \/ BackgroundCheckpoint(p) \/ BackgroundHandlerFails(p)
           \/ StaleCheckpoint(p) \/ CheckEligibility(p) \/ RequestFails(p)
  BY <1>7 DEF PersistFails, AcquireThreadLock, ThreadLockTimeout,
     ReadRunForInvoke, RunNode, RunLastNode, NodeInterrupted, NodeFails,
     FailCheckpoint, ReturnFinal, PostInvokeFails, ErrorPathFails,
     BackgroundCheckpoint, BackgroundHandlerFails, StaleCheckpoint,
     CheckEligibility, RequestFails, SaveInterruptCheckpoint
<1>8. QED
  BY <1>2, <1>3, <1>4, <1>5, <1>6, <1>7 DEF ServerStep

(* The server never writes a row that does not exist, never moves a run to *)
(* another thread and uses no write but the repository's.                  *)
THEOREM ImplementsTable == Spec => TableSpec
<1>1. Init => TableInit
  BY DEF Init
<1>2. TypeOK /\ ThreadLockInv /\ [Next]_vars => [TableNext]_tableVars
  <2> SUFFICES ASSUME TypeOK, ThreadLockInv, [Next]_vars
               PROVE  TableNext \/ UNCHANGED tableVars
    OBVIOUS
  <2>1. ASSUME NEW p \in Procs, ServerStep(p)
        PROVE  TableNext \/ UNCHANGED tableVars
    BY <2>1, TableStep
  <2>2. ASSUME NEW p \in Procs, Request(p)
        PROVE  UNCHANGED tableVars
    BY <2>2 DEF Request, StartOnThread, StartFresh, ReadForReconcile,
       ReadForInterrupt
  <2>3. ASSUME NEW r \in Runs, Age(r)
        PROVE  UNCHANGED tableVars
    BY <2>3 DEF Age
  <2>4. CASE Crash \/ UNCHANGED vars
    BY <2>4 DEF Crash, vars
  <2>5. QED
    BY <2>1, <2>2, <2>3, <2>4 DEF Next
<1>3. QED
  BY <1>1, <1>2, TypeCorrect, LockCorrect, PTL DEF Spec, TableSpec

(* On Supabase a thread never has two active runs, however starts, stale   *)
(* reconciliation, resumes and interrupts interleave.                      *)
THEOREM OneActiveRun == Spec => [](UniqueIndex => OneActivePerThread)
  BY ImplementsTable, OneActiveCorrect, PTL

(* No run is closed with an interrupt request left for its next execution. *)
THEOREM NoStaleRequest == Spec => []RequestMatchesStatus
  BY ImplementsTable, RequestCorrect, PTL

(* What one step of the server does to an interrupt request.               *)
LEMMA StickyStep ==
  ASSUME TypeOK, ThreadLockInv, NEW p \in Procs, ServerStep(p), NEW r \in Runs,
         asked[r], ~asked'[r]
  PROVE  \/ status'[r] \in TERMINAL_GRAPH_RUN_STATUSES
         \/ job[p] = r /\ pc[p] = "resume_mark"
<1> USE DEF TypeOK, RowTypeOK, ProcTypeOK, ThreadLockInv, JobsHaveRow
<1>1. CASE MarkResuming(p)
  BY <1>1 DEF MarkResuming, mark_graph_run_resuming
<1>2. CASE PersistRunStart(p) \/ PersistAfterTimeout(p)
  BY <1>2 DEF PersistRunStart, PersistAfterTimeout, InsertRun, save_graph_run
<1>3. CASE \/ Supersede(p) \/ AcknowledgeInterrupt(p) \/ FailStatus(p)
           \/ CompleteRun(p) \/ PostInvokeStatus(p) \/ BackgroundStatus(p)
           \/ StaleStatus(p) \/ MarkRunning(p)
  BY <1>3 DEF Supersede, AcknowledgeInterrupt, FailStatus, CompleteRun,
     PostInvokeStatus, BackgroundStatus, StaleStatus, MarkRunning, SetStatus,
     update_graph_run_status
<1>4. CASE WriteInterruptRequest(p)
  BY <1>4 DEF WriteInterruptRequest, write_interrupt_request
<1>5. CASE \/ PersistFails(p) \/ AcquireThreadLock(p) \/ ThreadLockTimeout(p)
           \/ ReadRunForInvoke(p) \/ RunNode(p) \/ RunLastNode(p)
           \/ NodeInterrupted(p) \/ NodeFails(p) \/ FailCheckpoint(p)
           \/ ReturnFinal(p) \/ PostInvokeFails(p) \/ ErrorPathFails(p)
           \/ BackgroundCheckpoint(p) \/ BackgroundHandlerFails(p)
           \/ StaleCheckpoint(p) \/ CheckEligibility(p) \/ RequestFails(p)
  BY <1>5 DEF PersistFails, AcquireThreadLock, ThreadLockTimeout,
     ReadRunForInvoke, RunNode, RunLastNode, NodeInterrupted, NodeFails,
     FailCheckpoint, ReturnFinal, PostInvokeFails, ErrorPathFails,
     BackgroundCheckpoint, BackgroundHandlerFails, StaleCheckpoint,
     CheckEligibility, RequestFails, SaveInterruptCheckpoint
<1>6. QED
  BY <1>1, <1>2, <1>3, <1>4, <1>5 DEF ServerStep

(* An accepted interrupt request is only forgotten by closing the run or   *)
(* by an operator's resume.                                                *)
THEOREM StickyInterrupt == Spec => InterruptIsSticky
<1> DEFINE Sticky ==
      \A r \in Runs :
        asked[r] /\ ~asked'[r] =>
          \/ status'[r] \in TERMINAL_GRAPH_RUN_STATUSES
          \/ \E p \in Procs : job[p] = r /\ pc[p] = "resume_mark"
<1>1. TypeOK /\ ThreadLockInv /\ [Next]_vars => Sticky
  <2> SUFFICES ASSUME TypeOK, ThreadLockInv, [Next]_vars, NEW r \in Runs,
                      asked[r], ~asked'[r]
               PROVE  \/ status'[r] \in TERMINAL_GRAPH_RUN_STATUSES
                      \/ \E p \in Procs : job[p] = r /\ pc[p] = "resume_mark"
    OBVIOUS
  <2>1. ASSUME NEW p \in Procs, ServerStep(p)
        PROVE  \/ status'[r] \in TERMINAL_GRAPH_RUN_STATUSES
               \/ job[p] = r /\ pc[p] = "resume_mark"
    BY <2>1, StickyStep
  <2>2. ASSUME NEW p \in Procs, Request(p)
        PROVE  FALSE
    BY <2>2 DEF Request, StartOnThread, StartFresh, ReadForReconcile,
       ReadForInterrupt
  <2>3. ASSUME NEW o \in Runs, Age(o)
        PROVE  FALSE
    BY <2>3 DEF Age
  <2>4. CASE Crash \/ UNCHANGED vars
    BY <2>4 DEF Crash, vars
  <2>5. QED
    BY <2>1, <2>2, <2>3, <2>4 DEF Next
<1>2. QED
  BY <1>1, TypeCorrect, LockCorrect, PTL DEF Spec, InterruptIsSticky

-----------------------------------------------------------------------------
(* Without faults, a live row has its executor.                            *)

(* p executes r and has still to write how r ends.  Who executes r is not  *)
(* enough: a process may have closed the row, and a second execution of a  *)
(* resumed run may have opened it again, before the first one leaves.      *)
WillClose(p, r) == Executes(p, r) /\ pc[p] \notin {"completed", "bg_checkpoint"}

ClosedLater ==
  \A r \in Runs :
    status[r] \in {"starting", "running"} => \E p \in Procs : WillClose(p, r)

(* What a step of p does to the rows: a row that is live after it either   *)
(* has p to close it, or was live before and had somebody else.            *)
StepCloses(p) ==
  /\ \A q \in Procs \ {p} : pc'[q] = pc[q] /\ job'[q] = job[q]
  /\ \A r \in Runs : status'[r] \in {"starting", "running"} =>
       WillClose(p, r)' \/ (status[r] \in {"starting", "running"} /\ ~WillClose(p, r))

LEMMA ServerStepCloses ==
  ASSUME TypeOK, ~Faults, NEW p \in Procs, ServerStep(p)
  PROVE  StepCloses(p)
<1> USE DEF TypeOK, RowTypeOK, ProcTypeOK, StepCloses, WillClose, Executes
<1>1. CASE Supersede(p)
  BY <1>1 DEF Goto, Finish, ReleaseThreadLock, SetStatus, update_graph_run_status, Supersede
<1>2. CASE PersistRunStart(p)
  BY <1>2 DEF Goto, InsertRun, save_graph_run, PersistRunStart
<1>3. CASE PersistFails(p)
  BY <1>3 DEF Goto, Finish, ReleaseThreadLock, SetStatus, update_graph_run_status, PersistFails
<1>4. CASE AcquireThreadLock(p)
  BY <1>4 DEF Goto, Finish, ReleaseThreadLock, SetStatus, update_graph_run_status, AcquireThreadLock
<1>5. CASE ThreadLockTimeout(p)
  BY <1>5 DEF Goto, Finish, ReleaseThreadLock, SetStatus, update_graph_run_status, ThreadLockTimeout
<1>6. CASE ReadRunForInvoke(p)
  BY <1>6 DEF Goto, Finish, ReleaseThreadLock, SetStatus, update_graph_run_status, ReadRunForInvoke
<1>7. CASE MarkRunning(p)
  BY <1>7 DEF Goto, Finish, ReleaseThreadLock, SetStatus, update_graph_run_status, MarkRunning
<1>8. CASE RunNode(p)
  BY <1>8 DEF Successors, RunNode
<1>9. CASE RunLastNode(p)
  BY <1>9 DEF Goto, Finish, ReleaseThreadLock, SetStatus, update_graph_run_status, RunLastNode
<1>10. CASE NodeInterrupted(p)
  BY <1>10 DEF Goto, Finish, ReleaseThreadLock, SetStatus, update_graph_run_status, NodeInterrupted
<1>11. CASE NodeFails(p)
  BY <1>11 DEF Goto, Finish, ReleaseThreadLock, SetStatus, update_graph_run_status, NodeFails
<1>12. CASE AcknowledgeInterrupt(p)
  BY <1>12 DEF Goto, Finish, ReleaseThreadLock, SetStatus, update_graph_run_status, AcknowledgeInterrupt
<1>13. CASE FailCheckpoint(p)
  BY <1>13 DEF Goto, SaveInterruptCheckpoint, FailCheckpoint
<1>14. CASE FailStatus(p)
  BY <1>14 DEF Goto, Finish, ReleaseThreadLock, SetStatus, update_graph_run_status, FailStatus
<1>15. CASE CompleteRun(p)
  BY <1>15 DEF Goto, Finish, ReleaseThreadLock, SetStatus, update_graph_run_status, CompleteRun
<1>16. CASE ReturnFinal(p)
  BY <1>16 DEF Goto, Finish, ReleaseThreadLock, SetStatus, update_graph_run_status, ReturnFinal
<1>17. CASE PostInvokeFails(p)
  BY <1>17 DEF Goto, Finish, ReleaseThreadLock, SetStatus, update_graph_run_status, PostInvokeFails
<1>18. CASE PostInvokeStatus(p)
  BY <1>18 DEF Goto, Finish, ReleaseThreadLock, SetStatus, update_graph_run_status, PostInvokeStatus
<1>19. CASE BackgroundStatus(p)
  BY <1>19 DEF Goto, Finish, ReleaseThreadLock, SetStatus, update_graph_run_status, BackgroundStatus
<1>20. CASE BackgroundCheckpoint(p)
  BY <1>20 DEF Goto, Finish, SaveInterruptCheckpoint, BackgroundCheckpoint
<1>21. CASE StaleStatus(p)
  BY <1>21 DEF Goto, Finish, ReleaseThreadLock, SetStatus, update_graph_run_status, StaleStatus
<1>22. CASE StaleCheckpoint(p)
  BY <1>22 DEF Goto, Finish, SaveInterruptCheckpoint, StaleCheckpoint
<1>23. CASE CheckEligibility(p)
  BY <1>23 DEF Goto, Finish, ReleaseThreadLock, SetStatus, update_graph_run_status, CheckEligibility
<1>24. CASE MarkResuming(p)
  BY <1>24 DEF Goto, Finish, mark_graph_run_resuming, MarkResuming
<1>25. CASE WriteInterruptRequest(p)
  BY <1>25 DEF Goto, Finish, write_interrupt_request, WriteInterruptRequest
<1>26. CASE PersistAfterTimeout(p) \/ ErrorPathFails(p) \/ BackgroundHandlerFails(p) \/ RequestFails(p)
  BY <1>26 DEF PersistAfterTimeout, ErrorPathFails, BackgroundHandlerFails, RequestFails
<1>27. QED
  BY <1>1, <1>2, <1>3, <1>4, <1>5, <1>6, <1>7, <1>8, <1>9, <1>10, <1>11, <1>12, <1>13, <1>14, <1>15, <1>16, <1>17, <1>18, <1>19, <1>20, <1>21, <1>22, <1>23, <1>24, <1>25, <1>26 DEF ServerStep

LEMMA RequestCloses ==
  ASSUME TypeOK, NEW p \in Procs, Request(p)
  PROVE  StepCloses(p)
<1> USE DEF TypeOK, RowTypeOK, ProcTypeOK, StepCloses, WillClose, Executes
<1>1. CASE \E t \in Threads : StartOnThread(p, t)
  BY <1>1 DEF StartOnThread, Goto
<1>2. CASE \E t \in Threads : StartFresh(p, t)
  BY <1>2 DEF StartFresh, Goto
<1>3. CASE \E r \in Runs : ReadForReconcile(p, r)
  BY <1>3 DEF ReadForReconcile, Goto
<1>4. CASE \E r \in Runs : ReadForInterrupt(p, r)
  BY <1>4 DEF ReadForInterrupt, Goto
<1>5. QED
  BY <1>1, <1>2, <1>3, <1>4 DEF Request

LEMMA ClosesStep ==
  ASSUME TypeOK, ClosedLater, [Next]_vars, ~Faults, MaxCrashes = 0
  PROVE  ClosedLater'
<1>1. CASE \E p \in Procs : ServerStep(p) \/ Request(p)
  <2>1. PICK p \in Procs : StepCloses(p)
    BY <1>1, ServerStepCloses, RequestCloses
  <2> SUFFICES ASSUME NEW r \in Runs, status'[r] \in {"starting", "running"}
               PROVE  \E q \in Procs : WillClose(q, r)'
    BY DEF ClosedLater
  <2>2. CASE WillClose(p, r)'
    BY <2>2
  <2>3. CASE status[r] \in {"starting", "running"} /\ ~WillClose(p, r)
    <3>1. PICK q \in Procs : WillClose(q, r)
      BY <2>3 DEF ClosedLater
    <3>2. q # p
      BY <2>3, <3>1
    <3>3. WillClose(q, r)'
      BY <2>1, <3>1, <3>2 DEF StepCloses, WillClose, Executes
    <3>4. QED
      BY <3>3
  <2>4. QED
    BY <2>1, <2>2, <2>3 DEF StepCloses
<1>2. CASE \E r \in Runs : Age(r)
  BY <1>2 DEF Age, ClosedLater, WillClose, Executes
<1>3. CASE Crash
  BY <1>3 DEF Crash, TypeOK
<1>4. CASE UNCHANGED vars
  BY <1>4 DEF vars, ClosedLater, WillClose, Executes
<1>5. QED
  BY <1>1, <1>2, <1>3, <1>4 DEF Next

(* While no process dies and no write is lost, a row that says starting or *)
(* running has a process that works on it (run_graph_background of         *)
(* api/main.py): superseding, resuming and failing as stale leave no row   *)
(* behind.                                                                 *)
THEOREM LiveRowsAreExecuted ==
  ASSUME ~Faults, MaxCrashes = 0
  PROVE  Spec => []LiveRowHasExecutor
<1>1. Init => ClosedLater
  BY DEF Init, TableInit, ClosedLater
<1>2. TypeOK /\ ClosedLater /\ [Next]_vars => ClosedLater'
  BY ClosesStep
<1>3. ClosedLater => LiveRowHasExecutor
  BY DEF ClosedLater, WillClose, LiveRowHasExecutor
<1>4. QED
  BY <1>1, <1>2, <1>3, TypeCorrect, PTL DEF Spec
=============================================================================
