# A TLA+ verification of the KMBL orchestrator

KMBL builds websites ("habitats") for a person or brand with language models. Its core is
the Python service `services/orchestrator`: it runs a LangGraph (planner, generator,
evaluator, decision, staging) per *graph run*, keeps everything it knows in Supabase
(or in memory for tests), and offers an HTTP API to operators and to a Next.js control
plane. This directory holds TLA+ models of the parts whose control is hard, the TLC
configurations that check them, and proofs about them.

All source paths below are relative to
`src/services/orchestrator/src/kmbl_orchestrator/` unless they start with `src/`.

## 1. Inventory

| component | state it keeps | operations | modelled in |
|---|---|---|---|
| **graph run table** (`domain.py`, `persistence/supabase_repository.py`, migration `20260405120000`) | `status`, `interrupt_requested_at`, `thread_id`, `started_at`, checkpoints | insert, three unconditional updates, one partial unique index | `RunTable` |
| **graph run lifecycle** (`api/main.py`, `application/run_lifecycle.py`, `graph/app.py`, `runtime/stale_run.py`, `runtime/run_resume.py`, `runtime/interrupt_checks.py`) | a mutex per thread, background tasks of Starlette | start, execute, interrupt, poll with reconciliation, resume | `GraphRun` |
| **iteration loop** (`graph/helpers.py`, `graph/nodes_pkg/decision.py`, `graph/nodes_pkg/evaluator.py`, `runtime/*_gate.py`, `staging/duplicate_rejection.py`) | `GraphState` of one execution | gates on a report, decision, policies, retry direction, replan routing | `GraphLoop`, `Evaluation` |
| **autonomous loop** (`api/loops.py`, `autonomous/`, `persistence/supabase_repository_loops.py`) | row of `autonomous_loop` with lease, phase, direction queue, counters | cron tick in four phases, pause, resume, interrupt | `AutonomousLoop` |
| **staging, approval** (`graph/nodes_pkg/staging.py`, `staging/`, `api/routes_working_staging.py`, `api/routes_staging_mutations.py`) | working staging of a thread, checkpoints, review snapshots | merge, patch, rebuild, rollback, approve, reject, unapprove | `Staging` |
| **publication** (`publication/`, `api/routes_publication.py`) | publication snapshots | publish an approved snapshot, approve working staging | `Staging`, `PublishedCanon` |
| **HTML blocks** (`staging/block_merge.py`, `graph/nodes_pkg/generator.py`) | files of working staging | merge blocks into pages, stage the result | `HtmlBlocks` |
| **role nodes and providers** (`graph/nodes_pkg/`, `providers/kiloclaw_*.py`, `roles/`) | rows of invocations, specifications, candidates, reports; executions at the gateway | call with timeouts and retries, save, checkpoint, resume | `RoleCalls` |
| **contracts, normalization** (`contracts/`, `normalize/`, `providers/kiloclaw_parsing.py`) | none | reduce an answer to an object, accept, rescue or refuse it | `RoleAnswers` |
| **workspace ingest** (`runtime/workspace_ingest.py`, `graph/nodes_pkg/generator.py`) | files on disk, failure marker | ingest a manifest, wipe | `RoleCalls` |
| **crawl frontier** (`identity/crawl_state.py`, `identity/crawl_evidence.py`, `autonomous/loop_service.py`) | row per site, row per identity | load or create, advance after a run, seed, promote | `Crawl` |
| **cross-run memory** (`memory/`, `identity/profile.py`) | rows of `identity_cross_run_memory` | load, bias, merge outcome, approve, publish, decay | `CrossRunMemory` |
| **image budget, routing** (`runtime/openai_hourly_budget.py`, `runtime/kilo_model_routing.py`, `runtime/image_generation_intent.py`) | window of reservations under a lock | admit a call, choose an agent | `ImageBudget` |
| **in-memory repository** (`persistence/repository.py`) | lists and dictionaries | saves and reads | `MemoryStore` |
| **Supabase repository** (`persistence/supabase_repository.py`) | tables | the same over HTTP, with retries | `TableStore`, `Repositories` |
| **run events** (`runtime/run_events.py`) | timeline with a unique `sequence_index` | append with retry | `TableStore`, `Repositories` |
| **habitats** (`habitat/`, `runtime/habitat_lifecycle.py`) | registry of materialized previews | only `register_materialization` is called | not modelled |
| **browser, previews, read models** | none | rendering and projections | previews' effect in `Evaluation` |
| **control plane** (`src/apps/control-plane`), **sync proxy** (`src/services/openclaw-sync-proxy`), **packages** (`src/packages`) | none of their own | proxies, polling, type definitions | not modelled |

**How they interact.** An operator or the autonomous loop starts a graph run on a thread.
The run's background task holds the thread's mutex and goes through the nodes; each role node
calls the gateway, saves its rows and a checkpoint; the evaluator's gates and the decision
send it back or on to staging, which writes the thread's working staging and perhaps a
review snapshot. After the graph the task advances the crawl frontier, writes the run's
outcome into the memory of the identity and closes the row. Operators work on the same rows
through the API at any time.

**What is hard.** PostgREST gives no transaction around several calls
(`graph/app.py:451` says so), so every "read the row, decide, write the row" can be
interleaved with another request, and most writes have no condition on the old row. A request
that lost its answer is sent again. The execution of a run is a background task of the request
that started it: a crash of the single server process loses it (`src/docs/18_DURABLE_GRAPH_RUNS.md`)
and only the stale reconciliation, which looks at nothing but the age of the row, ends the run.
Interrupts are cooperative. A gateway execution whose client gave up goes on writing files. The autonomous loop has a lease
that expires, and ticks that work on a record read before the lease was taken. The report of an
evaluation passes twelve steps and the decision five policies, each of which may overrule the
one before. `PROJECT.json` lists these hazards one by one with their lines.

**What makes each component correct.**

* *Run table*: at most one active run per thread; an interrupt request exactly while it matters.
* *Lifecycle*: one execution per thread at a time, no interrupt request lost, every accepted run
  closed in the end, no run active for ever.
* *Iteration loop*: bounded retries, nothing staged that policy excludes, every downgrade
  explained to the retry, no verdict raised, termination.
* *Autonomous loop*: one tick at a time, budget, nothing recorded is lost, it settles.
* *Staging and publication*: references resolve; what is frozen is published; no failed build is
  published by review; a rebuild loses nothing; what was published can be brought back.
* *Role nodes*: records never outrun the rows they refer to; a bundle is one attempt's; a
  failure leaves its row; the run ends.
* *Frontier*: the crawl leaves the site only for seeded pages; nothing seen is forgotten; it drains.
* *Memory*: only what was derived with confidence or approved steers a run, and what was approved does.
* *Budget*: no hour above the cap, nothing denied that fits.
* *Repositories*: both implementations answer alike; what was answered is stored; retries are harmless.

## 2. Modules

| module | models | built on |
|---|---|---|
| `RunTable` | status vocabulary and transition table, the repository's writes to a run, the one-active index; `TableSpec` is the abstract specification of what any client can do to the table | |
| `GraphNodes` | nodes and edges of `build_compiled_graph` | |
| `GraphRun` | lifecycle of runs, implements `TableSpec` | `RunTable`, `GraphNodes` |
| `GraphLoop` | one execution of the graph with the data its edges depend on | `GraphNodes` |
| `Evaluation` | `evaluator_node`'s gates one by one | |
| `HtmlBlocks` | blocks merged into pages | |
| `AutonomousLoop` | lease, phases and queue of one loop | |
| `PublishedCanon` | abstract specification of publication | |
| `Staging` | surface, checkpoints, snapshots, publications of one thread; implements `PublishedCanon` | `PublishedCanon` |
| `Crawl` | frontier of identities that share sites | |
| `RoleAnswers` | pure operators: from an answer's text to a bundle | |
| `RoleCalls` | the role nodes of one run, the HTTP client, the gateway, the workspace, the rows | `RoleAnswers` |
| `MemoryStore`, `TableStore` | the two stores: what a save does and a read answers | |
| `Repositories` | the same calls on both, over an unreliable transport | `MemoryStore`, `TableStore` |
| `ImageBudget` | hourly budget and routing | |
| `CrossRunMemory` | memory of one identity | |
| `Build` | `Evaluation` and `HtmlBlocks` side by side | both |
| `RunServices` | `CrossRunMemory`, `ImageBudget` and `Repositories` side by side | the three |
| `MCGraphRun`, `MCGraphLoop`, `MCAutonomousLoop`, `MCStaging`, `MCCrawl`, `MCRoleCalls` | small instances for TLC | the module in the name |
| `MCBuild`, `MCRunServices` | likewise; the parts share no state, so a behaviour is about one of them (`Services` chooses which, for the two configurations of `MCRunServices`) | the module in the name |
| `GraphRunProofs` | theorems about `RunTable` and `GraphRun` | `GraphRun` |
| `BuildProofs` | theorems about `HtmlBlocks` and `Evaluation` | `Build` |
| `RunServicesProofs` | theorems about `CrossRunMemory`, `ImageBudget` and `Repositories` | `RunServices` |
| `GraphLoopProofs`, `AutonomousLoopProofs`, `StagingProofs`, `CrawlProofs`, `RoleCallsProofs` | theorems | the module in the name |

`GraphRun` and `GraphLoop` describe the same execution at two levels. `GraphRun` knows of
a node only which nodes may follow it; `GraphLoop` shows (`FollowsGraph`, proved) that every
step it can take is one of those, with the same iteration counter. So what is proved about the
lifecycle holds for everything the decision logic can do. `Evaluation` opens the one step in
which `GraphLoop` has the gates, `RoleCalls` the calls of the role nodes, `Staging` the staging node.

Operators whose comment calls them a mutant or a bug are deliberately wrong variants of the
definition they stand next to. They are not part of any specification; substituting one
must make TLC report the property that `PROJECT.json` pairs it with.

### GraphRun

A process is one HTTP request together with the background task Starlette runs in it
afterwards; any process may do any request, one after the other. Each database call is a
step of its own.

| state | code |
|---|---|
| `status`, `asked`, `runThread` | columns `status`, `interrupt_requested_at IS NOT NULL`, `thread_id` |
| `aged` | `started_at` older than `orchestrator_running_stale_after_seconds` |
| `errKind` | `orchestrator_error.error_kind` of the newest interrupt checkpoint |
| `lock` | `_thread_locks` of the repository, held by `run_graph` |
| `pc`, `job`, `onThread`, `node`, `iter`, `mode` | where a request is and what it works on |

* *Start* (`StartOnThread`/`StartFresh`, `Supersede`, `PersistRunStart`, `PersistAfterTimeout`, `PersistFails`): `start_run` reads the
  thread's active run, finalizes one that only waits for its interrupt, inserts, answers. A
  504 after `asyncio.wait_for` leaves the worker thread inserting.
* *Execute* (`AcquireThreadLock` … `ReturnFinal`): `run_graph_background`, `run_graph`, `_run_graph_inner`
  with the mutex and its timeout, the unconditional `running`, the interrupt check at
  every node, the two exception paths of nodes, the post-invoke block and its handler, and the
  handler of the background task, each of which can itself fail to write when `Faults`.
* *Interrupt*, *poll*, *resume* (`ReadForInterrupt`, `ReadForReconcile`, …): read, then write.
* *Environment*: `Age` (time) and `Crash` (rows stay, processes and mutexes go).

`paused` is in the vocabulary, but nothing in the code writes it for a graph run.

### GraphLoop and Evaluation

The answers of the language models are chosen freely: a status, up to `MaxRawIssues` issue
codes, whether there is an alignment score and how it develops, a stagnation count. A build is
what the gates find out about it. The orchestrator's own logic is kept whole and in order:

1. `Gates`: duplicate rejection, the gates that only downgrade to partial, the interactive lane gate,
   the grounding gate, the 3D guardrail (`evaluator_node`);
2. `Verdict`: `compute_evaluator_decision`, `maybe_suppress_duplicate_staging`,
   `apply_mixed_lane_failure_policy`, the grounding override and the weak cap (`decision_router`);
3. `RetryDirection` and `RoutesToPlanner` for a retry.

Issue codes are represented by one or two of each class of the policy table, since the code
tells no more apart. `twin` remembers that the files are those of an older snapshot even when no gate
marked the report. `Evaluation` has each gate as an action with its own conditions on the configuration
(`config`), the build (`candidate`) and the report so far, from the model's answer (`said`) to what is saved. What the node calls
`is_static_vertical` holds of the interactive vertical too (`runtime/static_vertical_invariants.py:65`), so that such a build meets the surface gate *and* the interactive lane gate, and
no harness metrics.

### HtmlBlocks

A page is a sequence of elements that may contain others; an element is an id and a text. The merge
finds the target by its id, counts the nesting of tags to find its end, falls back to appending, and
works on the body for `__body__`, `append_to_body`, `prepend_to_body`. A retry starts from working
staging again, not from the candidate before it (`GeneratorAnswers`, `Retry`, `StageCandidate`).

### AutonomousLoop

`row` is the row of `autonomous_loop` without its lease; `holder` and `expired` are `locked_by` and
"`locked_at` is older than 300 s". A worker is a `cron_tick` request: it reads a due loop, takes the lease with
one conditional update, runs one phase **on the record it read before**, and releases. Every write is a
patch: columns whose new value is `None` keep their old value, which is why a run without
a score leaves the previous score in place. Operators read the row in one step and write
it in another. Scores are naturals, one unit being the improvement of 0.05 the code asks for;
a snapshot is represented by the score of its run.

### Staging

| state | code |
|---|---|
| `ws` | the thread's row of `working_staging`: payload, status, revision, issue count, stagnation, checkpoint ids |
| `checkpoints`, `snapshots`, `publications` | the tables of these names |
| `node` | the graph run in progress: step, and the row that `staging_node` read and will write back |
| `op` | each operator's open request with the rows it read |
| `clock` | ids, which also order `created_at` |

Every request reads, decides and writes in separate steps, so that requests overlap each other and the
node; a write that commits may lose its answer and is repeated (`MaxAttempts`). The RPCs of migration
`20260402183000` are single steps. The planner's reset of the surface, the three update modes, forced rebuilds,
milestone and pre-rebuild checkpoints, rollback, approval of the surface, approve, reject, unapprove and
publish of a snapshot are all there. A payload is which build each file comes from, whether it has
previewable HTML, and the verdict it carries.

`PublishedCanon` knows an archive of payloads and the canon of publications. `Staging` implements it with
archive = payloads of checkpoints and snapshots, canon = the publications.

### Crawl

A worker is the thread of a graph run. It loads or creates the state when the run is hydrated
(`get_or_create_crawl_state`, `ensure_site_backing_for_identity`) and advances it when the graph is done
(`advance_crawl_frontier_after_graph`, then one `record_page_visit` per page, coverage, external seeds, phase). Each state is two rows,
site and identity, written one after the other and always whole; `RunCutOff` ends a run between any two.
An identity in `Legacy` has a row from before the site rows. `desk` chooses, per behaviour, which of the rare events may happen and how often.

### RoleAnswers and RoleCalls

`RoleAnswers` reduces a body to an object (wrappers, prose, truncation), decides whether the object is
taken for the role, and turns a generator's object into a bundle. `RoleCalls` runs planner, generator and evaluator
with them: `at` is the node and its stage, `call` the invocation under way, `gateway` the executions — a timed-out one stays
and keeps writing to `disk` — and `rows`, `specs`, `candidates`, `reports`, `checkpoints` the tables, written one by one.
`ProcessDies` can strike at every step; `Resume` starts again at the planner with the old rows and workspace.

### Repositories

A behaviour is about one of fifteen tables. `memory` is what `InMemoryRepository` holds, `rows` what Postgres holds (`RunServices`, which
also has the memory of an identity and the calls of the budget, names them `stored` and `saving`); a client's
call is one or two requests, each of which may be lost before or after it took effect and is then tried again. `MemoryStore` and `TableStore`
define the same reads (newest, list, by id, next number, …) for both, as operators on a set of records and one order on it; tables differ in how they save (insert, upsert, upsert ignoring
duplicates, insert with a number) and in their order and limits. An event whose number is taken is sent with the next one, `MaxBumps` times at most; then its save gives up (`GiveUp`): it
returns, and only the in-memory repository has the event.

### ImageBudget and CrossRunMemory

`ImageBudget`: threads ask the process's guard, which is created on first use without a lock; usage and
reservation are under its lock, with times taken before it (`Delay`). A behaviour is one process's life.
`CrossRunMemory`: runs and operators read a row, change it and write it whole; strengths are hundredths. They fade from the first day on, as
`memory/guardrails.py` computes it: time passes in ticks of any length, and `Fade` says what is left of a strength after so many.
`vouched` and `word` are history variables for the properties; `word` has the last word of an operator, its time, and the strength (0.55 or 0.75) it was given at least.

## 3. Runs

| run | question | size of the instance |
|---|---|---|
| `graph_run_safety` | type, one executor per thread, interrupts stick, implements `TableSpec` | 2 runs, 1 thread, 2 processes, 1 retry, 1 crash, failing writes |
| `graph_run_settles` | without crashes and failing writes, a live row has a process, and an accepted start or resume closes its row | 2 runs, 2 processes, no retry |
| `graph_run_polled` | with them, no polled run stays active for ever | 1 run, 2 processes, 1 retry, 1 crash |
| `loop_safety` | budget, one tick at a time | 2 workers, 2 iterations, 2 failures, 1 crash, 1 overrun |
| `loop_one_caller` | with one cron caller nothing recorded is lost, a pause holds, a due loop settles | 1 worker, 1 operator, 2 iterations, 1 crash, 1 overrun |
| `graph_loop` | no duplicate and no hard failure is staged, a grounding-only partial is not retried, every execution ends | 2 retries, one reported issue, replan on or off and one more setting off the default |
| `staging` | references resolve, frozen is published, no failed build published by review, rebuilds lose nothing, implements `PublishedCanon` | 2 operators, 2 runs, 4 requests, 2 attempts per write, 5 builds, 2 files |
| `crawl` | outside pages were seeded, nothing is forgotten, the frontier drains | 2 identities of one site, 3 URLs, 2 workers |
| `role_calls` | records have their rows, hashed bundles are whole, failures are recorded, the run settles | 2 files, 2 attempts, 1 iteration, 1 crash and resume, 4 calls |
| `build` | blocks are shown and the rest is kept; downgrades are actionable, verdicts never raised | 2 pages, up to 2 blocks out of 12; 96 configurations, 8 candidates, 3 sets of reported issues |
| `run_services` | hourly cap, no needless denial; reads agree, what is answered is stored, events are numbered, retries are harmless | budget: 2 threads, cap 2, hour of 2 ticks, wait of 1, 4 ticks; repository: 15 tables one at a time, 2 clients, 2 owners, 2 attempts, 2 numbers per event, 2 records (3 events), 2 versions |
| `run_memory` | only vouched modes steer, the operator is heard | 2 runs, 1 operator, 3 ticks of a quarter of a half-life |

**What each property says.** The modules state each above its definition; in short, of the newer ones:
`ReferencesResolve` — no checkpoint, predecessor or source named by a row is missing; `FrozenIsPublished` — a frozen
surface has a live publication; `RebuildLosesNothing` — what a rebuild of `staging_node` replaces is in a checkpoint or publication;
`MemoryIsKept` — while runs do not overlap no write drops what another one knew; `OutsideWasSeeded` — while runs do not overlap, a
visited page of another host is one that was seeded; `HashedBundleIsWhole` — a bundle ingested with hashes is what the answering attempt wrote;
`FailureIsRecorded` — a run that ends because of a call leaves that call's failed row;
`WorkIsShown`/`RestIsKept` — what a block brings is on its page, and what no block replaces stays; `DowngradeIsActionable` — a pass that was
downgraded has an issue or is marked as a gap of the preview; `ReadsAgree` — whenever no call is open the two repositories answer each read alike
(in the tables where a write replaces another, as long as no two calls overlapped; an event that was given up is in memory only); `AnsweredIsStored` — a save that returned
is in its table, but for an event whose last `MaxBumps` numbers all belong to other events of its run; `RetryIsSafe` — no save is refused as a duplicate of itself, but for the two tables written by a plain insert.

**Why the bounds are enough.** Two processes and two runs on one thread are what every race of the
lifecycle needs (the table and the mutex are per thread; the proofs cover any number). One crash or overrun puts a fault
at every point of the state space; a second one meets a state that the first can already produce. Two retries are the smallest
number at which first, middle and last iteration differ, with a weak cap (1) below the limit. A set of reported issues
acts through its most severe class, so one code per report, besides the codes the gates
add, reaches every branch of the policy; stagnation has thresholds at 2 and 3, so it runs to 3.
In `staging` two operators and the node are three writers of the same row, four requests are enough to
approve, publish, withdraw and roll back; the limits of patches, stagnation and issues are small so that pressure, forced rebuild and milestone all
happen within two runs, and they keep the order they have in the code. In `crawl` the capacities (2 visited, 1 unvisited, batches of 2) are reached and overflow; a
reseed with a cut-off run, or an overlap, happens in each behaviour. In `role_calls` two attempts (the code has three) give one that was given up and one that answers.
In `build` two blocks on one page meet each other, nested or not, and on two pages do not. In `run_services` two clients race on the next number, three events let a retry fall between two of another client, and one event find
both of its numbers taken (the code tries 32). The budget runs for longer than an hour and a wait together, so that entries leave the window and half-filled hours follow each other.
In `run_memory` the ticks are shorter than an approval steers (0.28 half-lives, one tick) and a publication (0.73, two ticks), so a word is heard, fades and is forgotten. In `crawl` the site has
exactly the pages for which the frontier still drains: one more than the list of visits holds, inspiration included.
`MaxBuilds`, `FailureBound`, `MaxCalls`, `MaxTime` and `MaxAge` only keep counters finite.

Deadlock is checked in the runs of `GraphRun` and in `crawl`. It is not elsewhere: an execution, an evaluation, a role run and a closed loop come to an end,
and the bounded numbers of requests, versions and ticks are used up.

### Fairness

* `GraphRun!FairSpec`: weak fairness of each process's server steps: the event loop and the thread pool keep
  running, and database calls and role invocations have timeouts, so they return or raise. Nothing is assumed of clients.
* `GraphRun!PolledSpec` adds that time passes, that somebody polls each run again and again (the
  control plane does, `GET /orchestrator/runs/{id}` reconciles), and that the write that fails a stale run does not
  fail every time. Without polling nothing in the code ends a run whose process died.
* `AutonomousLoop!FairSpec`: cron calls the endpoint again and again, a tick that began goes on, leases expire. Nothing is assumed of operators.
* `GraphLoop!FairSpec`: a node returns or raises.
* `Crawl!FairSpec`: a run that began goes on or is cut off, and each identity is run again and again (by the loop or by an operator).
* `RoleCalls!FairSpec`: the thread goes on while its process lives, and the client's timeout ends an attempt. Nothing is assumed of the gateway: it may never answer.

Each liveness property is paired with a mutant that violates it under the same fairness.

### Conditions worth knowing

* `NothingLost` holds with one cron caller only. With two, the second may have read its record before
  the first one's tick and take the lease after it, and then writes counters and completed
  directions of the older record; this is the reading `api/loops.py:254` before the lease. `WithinBudget` survives it.
* `PauseHolds` excepts the tick that fetches the identity, which writes `running` over a pause that arrived meanwhile (`autonomous/loop_service.py:277`).
* `OneTickAtATime` speaks of the time before a lease expires under a living tick; afterwards the 300 s lease promises nothing.
* `LiveRowHasExecutor` and `AcceptedRunSettles` need a server without faults; with faults, `NoRunActiveForever` is what remains.
* `TableSpec` with `UniqueIndex` is Supabase. The in-memory repository checks inserts only.
* `NoDuplicateStaged` is about builds that *were marked* as duplicates.
* `RebuildLosesNothing` speaks of the mode rebuild. The intent `rebuild_full` in a patch replaces all references without a checkpoint (`staging/checkpoint_policy.py:64`).
* `NoFailedReviewPublished` is about publication by review. The approval of the live surface takes the newest snapshot of the thread whatever its status.
* `MemoryIsKept` and `OutsideWasSeeded` need runs that do not overlap: rows are written whole, and overlapping runs lose each other's pages. `FrontierDrains` needs a page that can be fetched or is skipped as failed;
  a page that only the Playwright wrapper blocks is offered again for ever (`autonomous/loop_service.py:591`), so the wrapper's behaviours are excepted there.
* `FrontierDrains` further needs that the pages of a site and its inspiration are at most one more than the list of visits holds (`FitsTheList`; `_MAX_VISITED` is 500). On a larger site the oldest visits are trimmed off
  (`identity/crawl_state.py:248`), links discover their pages again (`identity/crawl_state.py:240`), and the identity crawls for ever; with `MaxVisited = 1` TLC shows it on the instance of `crawl`.
* `HashedBundleIsWhole` is about manifests with hashes. Without them a run ingests whatever the workspace holds.
* `WithinCap` allows for the time a caller waits at the lock, and speaks of the guard that stays: what a lost second guard granted comes on top.
* `OperatorIsHeard` is about the time in which the operator's word has not faded below the threshold of 0.45: 0.28 half-lives after an approval (0.55), 0.73 after a publication (0.75), since strengths fade from the first day
  on; a run loaded later may be biased by nothing or by something else. It excepts the portfolio mode, which needs the portfolio archetype.
* `AnsweredIsStored` and `ReadsAgree` except events given up after `MaxBumps` numbers (`persistence/supabase_repository.py:1069`).
* In `Repositories` no two records of a table have the same timestamp.

## 4. Proofs

Every theorem holds for all values of the constants; the only assumptions are the named
`ASSUME`s of the modules (types of the constants, special values outside the sets they mark) and, where said, those of the theorem.

* **RunTable** (in `GraphRunProofs`): `OneActiveCorrect` (with the unique index
  no order of unconditional writes makes two rows of a thread active) and the types and the meaning of a request that it needs. They are about `TableSpec`, that is, about any client.
* **GraphRun**: `TypeCorrect`; `LockCorrect`, the inductive `ThreadLockInv` — rows and
  requests have threads, jobs have rows, whoever is inside the graph holds its thread's mutex. Mutual
  exclusion alone is not inductive: it does not say why a process outside cannot enter.
  `MutualExclusion` follows. `ImplementsTable` shows each server step to be a table write on an existing row, an insert, or a
  stutter (this needs `JobsHaveRow`); through it `OneActiveRun` and
  `NoStaleRequest` carry over from the abstract specification. `StickyInterrupt` is an action property.
  `LiveRowsAreExecuted` assumes `~Faults` and `MaxCrashes = 0`. "Some process executes the row" is not inductive, because a
  resumed run may be executed twice and one of the two may end; the invariant `ClosedLater` says that some process works on the live row *and has still to write its end*.
* **GraphLoop**: lemmas about the pure part — what `Gates` returns (a marked duplicate has
  failed), what `Verdict` returns (nothing below the caps is retried beyond them; a staged
  report is stageable, not hard, not a duplicate) — and the inductive `IInv`: besides the properties,
  a duplicate has failed, what is staged is what the last report is about, and
  there was no replan before the first retry. Seven invariants and two action properties follow, among them that every step follows `GraphNodes`.
* **Evaluation**: type; `DowngradesAreActionable` and `VerdictNeverUpgraded` from one lemma per gate. The property speaks of the saved report, the invariant `Explained` of every
  report on the way: a gate that downgrades explains at once, and no later gate takes the explanation away.
* **HtmlBlocks**: `BlocksTyped`, `WorkIsAlwaysShown`, `RestIsAlwaysKept`, for every nesting of pages and every number of blocks. The candidate is a function of the build, so the invariant
  is little more than that (`BlocksInv`), and the work is in what the function does. A page is followed through its blocks (`AfterBlocks`); one block brings its content
  and takes away only its target (the lemmas on `Apply`); a block's content then stays through the later ones, and an old text through all of them. Both go on from block to block by
  a least counterexample.
* **AutonomousLoop**: `TicksExclude` from `LeaseInv` (until an overrun, whoever is in a tick
  holds an unexpired lease); `BudgetKept` from `BudgetInv` (the row *and every copy* of it that a worker may write from
  respects the budget, and a graph runs only on a copy with room for one more); `PauseIsKept`, for any number of callers;
  `NothingIsLost`, which assumes one worker and rests on `FreshInv`: what the caller has read of counters and completed directions is what the row still says, whatever operators did. `LoopTypeCorrect` needs that a queue with a pending direction has a first one.
* **Staging**: type; `ReferencesAlwaysResolve`, `FrozenAlwaysPublished`, `PublicationImplementsCanon`, `NoFailedReviewEverPublished`, `RebuildsLoseNothing`.
  The invariant has to speak of requests, not only of rows, because a request holds rows between its read and its write: `NodeHeld` and `OpHeld` say that the references of what is held resolve too,
  `KnownIds` that no id is ahead of the clock, `SameRow` that a row known by an id is the same wherever it is, which makes a repeated approval harmless. `Reviewed` (what is approved has passed) and `Replaceable`
  (what the node will replace has been kept) are added for the last two.
* **Crawl**: type; `FrontiersStayDisjoint`, for any number of overlapping and cut-off runs; `OutsideCorrect` and `MemoryCorrect`, for runs that do not overlap.
  The links between the rows come first (`LinksOK`): the site row that an identity's row names exists before the row that names it, since the site is written first. `AloneOK` then says what a single worker holds:
  what it is about to write was made from the row that is still there (`Keeps`), and what it is about to visit is of its site or was seeded there.
* **CrossRunMemory**: `OnlyVouchedModesSteer`. Inductive with: the remembered modes, the modes loaded by a run, and the modes of approved runs an operator is about to write, are all vouched for.
  `ApprovedModeIsHeard` (`OperatorIsHeard`) adds `WordIsKept` (the preference row still says the operator's last word, with at least its strength and its time) and `HeardIsLoaded`; the rest is arithmetic of strengths and decay.
* **ImageBudget**: `CapHolds` (`WithinCap`) and `DenialIsEarned` (`DeniedOnlyWhenFull`), for every cap, hour, wait and number of callers. A guard's window forgets entries by their own, possibly late, clock. `GuardOK` therefore
  compares sums: what was granted in an hour less the wait is at most the tokens of the window's entries that may be that young, and the entries from any place on are at most what was granted since.
  Sums of sequences are compared through their beginnings.
* **Repositories**: `StoreTyped`, `RetriesAreSafe`, `StoredWhenAnswered`, `EventsAreNumbered`, `ReadsAlwaysAgree`, for all fifteen tables and any number of clients, attempts, records and versions.
  `StoreInv` says of every open call which record it is about, whether it has arrived and which numbers it found taken (so that an event given up has all its numbers taken); from it follow the first three. `EventsAreNumbered` adds that the number an open call holds is at most the count of numbered events (`GoesOnFrom`): a count read too early is taken, never left out.
  For `ReadsAlwaysAgree` the invariant `AlikeInv` says in the terms of each table what it means that both repositories hold the same (`Like`: the version, or the row, or only its
  identity where Supabase keeps the first row), that a table where a write replaces another is alike as long as calls came one at a time, and that a record of memory that has no row is an event whose save returned.
  Each way of saving is reduced to what a write may do to a table (`Outcome`). The reads are then compared on sets with one order: both sort the same records, and there is one sorted sequence of a finite set
  (the lemmas before "Both repositories hold the same").
* **RoleCalls**: `RecordsAlwaysHaveTheirRows`, `HashedBundlesAreWhole`, `FailuresAreRecorded`. The invariant says what the thread knows of its call by the stage it is in (`CallAt`: no call; one without row; one with a completed row; one with its record),
  that what the graph state refers to is saved (`HeldAt`), and that a bundle in hand fits its hashes (`BundleAt`). `RoleCallsTypeCorrect` follows an answer's text to an object (`AnswerIsObject`);
  it needs that blocks are elements of `artifact_outputs` (`AnswersAssumption`).

Every invariant and every action property of the runs, and both refinements, are stated by a theorem.
Only model-checked: the liveness properties (`AcceptedRunSettles`, `NoRunActiveForever`, `LoopSettles`, `Terminates`, `FrontierDrains`, `RunSettles`), since
liveness under fairness and ENABLED are out of the prover's reach. So are the induction theorems of the library, which take an operator as a parameter; where a proof has to go
through the numbers, the blocks of a page or the entries of a window, it takes a least counterexample of a set (`WFMin`, `NatLessThanWellFounded`) instead. The merge of blocks, the sums and
the sorts are written as recursive functions or folds, whose defining equation is proved to have a solution (`StepsExist` and its like) before it is used.

## 5. Where the code and the repository's words differ

Met while modelling. Definitions named here stand in the modules with the others, but are properties of no run, since they do not hold of the code.

| definition | what the code does | what the repository says |
|---|---|---|
| `GraphRun!InterruptedIsFinal` | the task that read `starting` writes `running` over a run that a new start has finalized as interrupted (`graph/app.py:279`) | "Terminal states — no further transitions allowed" (`domain.py:107`) |
| `GraphRun!CompletedIsFinal` | a failure after the completion, a late interrupt or a stale poll overwrites `completed` | the same |
| `GraphRun!FailedIsFinalUnlessResumed` | a run failed as stale between read and write of its task is marked running without a resume | the same |
| `GraphRun!OpenRowsFollowTheTable` | `starting` → `interrupt_requested` | "Valid status transitions" (`domain.py:116`) |
| `GraphRun!OneExecutionPerRun` | a stale but living run is resumed: two tasks for one id (`api/main.py:1351`) | "resume re-executes once for this id" (`runtime/run_resume.py:54`) |
| `AutonomousLoop!LeaseInForceExcludes` | the release removes the successor's lease (`persistence/supabase_repository_loops.py:149`) | "Returns immediately when no loops are pending or all are locked" (`api/loops.py:250`) |
| `AutonomousLoop!CompletedWereTried` | the idle tick and the first iteration complete directions no run received | "what we've already tried" (`src/supabase/migrations/20260331010000_autonomous_loop.sql:24`) |
| `AutonomousLoop!ProposalEarnedItsScore` | a run that passes without a score is proposed on an older run's score | "score (0-1) required to auto-propose" (the same file, line 63) |
| `GraphLoop!TwinNotStaged` | a duplicate the model itself failed is unmarked and staged at the cap (`staging/duplicate_rejection.py:106`) | "would otherwise stage a useless duplicate snapshot" (`graph/helpers.py:286`) |
| `GraphLoop!HardNeverStages` | a pass that lists a hard code is staged | "should never proceed to staging" (`graph/helpers.py:29`) |
| `GraphLoop!GroundingOnlyIsFlawless`, `Evaluation!GroundingOnlyIsOnlyGrounding` | a later gate keeps the flag of a grounding-only partial | "`pass` on all real criteria" (`runtime/demo_preview_grounding.py:165`) |
| `GraphLoop!DuplicateIterates` | a duplicate before the last iteration interrupts | "so the graph iterates" (`staging/duplicate_rejection.py:89`) |
| `GraphLoop!InterruptWaits` | a run with the decision interrupt is closed as completed | "wait for human input" (`src/docs/04_RUNTIME_LOOP.md:62`) |

Other observations, each visible in the module named:

* *Staging*. `StageableIsStaged` does not hold: the reason of a forced rebuild (`staging/pressure.py:173`, `staging/guardrails.py:75`) is not in the `Literal` of `staging/revision_journal.py:21`, so that `staging_node` raises.
  Rows are written whole, so a request may undo the fields another one wrote. The improvement signal compares with an issue count that was already overwritten. The planner clears the surface before validation can fail its run.
* *Crawl*. A fresh state of one identity starts the shared row of the site again; `exhausted` is never left; pages trimmed from `visited` are discovered again, so that a site of more pages than the list holds is crawled for ever. `FrontierDisjoint` and `PhaseIsEarned` are stated, but in no run.
* *RoleCalls*. `ContractIsTaken` does not hold: `_looks_like_role_output` (`providers/kiloclaw_parsing.py:127`) does not know `workspace_manifest_v1`. `NoFailedFileLeaks` does not hold: only a marked workspace is wiped (`graph/nodes_pkg/generator.py:222`).
  What counts as content differs: for the gate a list of empty dictionaries is some (`staging/integrity.py:64`), for the flag `degraded` it is none (`contracts/persistence_validate.py:42`), and normalization skips malformed files
  after the gate; `full` and `frontend` do not tell these apart, so that no property is stated of `degraded`. On Supabase the first row of an invocation stays, so the rescue metadata of the second save is dropped; in memory a second row is appended.
* *HtmlBlocks*. `OwnPageIsShown` and `OneFilePerPath` do not hold (`graph/helpers.py:180`): references without a path collapse into one. *Evaluation*: `BrowserEvidenceWasShown` does not hold (`graph/nodes_pkg/evaluator.py:728`).
* *Repositories*. For run events memory lists the newest `limit`, Supabase the oldest (`persistence/repository.py:195`); a failed read of the next number leaves an event, and those after it, unnumbered; page visits and cross-run memory are plain inserts, whose own retry is refused. An event whose 32 numbers are all taken is logged and dropped, and its save returns (`persistence/supabase_repository.py:1069`).
* *ImageBudget*. Tokens are not given back when the invocation fails, the window does not survive a restart, and image calls of the habitat assembler do not pass the guard.
* *CrossRunMemory*. Outcomes merged at the same time lose one (`memory/ops.py:214`); overlapping approvals may lower a strength; a weak operator preference hides a strong derived one; an approval after the static clamp remembers the clamped mode.

## 6. What is not modelled

* *Habitats*: of the registry only `register_materialization` has a caller, and nothing reads it.
* *Read models, control plane, sync proxy, packages*: projections, proxies and type definitions; polling is the fairness of `PolledSpec`, the gateway of `RoleCalls` stands for proxy and provider.
* *Browser and rendering*, *page extraction*, *ratings*, *trimming of checkpoints* (no caller), *workspace retention* (days, off by default), *delivery of publications* (no caller), `providers/kiloclaw_cli.py`.
* *Runs launched by the autonomous loop* as requests of `GraphRun`: they have no background handler, so a mutex timeout leaves the row `starting` until it is polled. The choice among several due loops.
* *Payloads*: what nodes tell a model, and the rewriting of fields in what it answers.

## 7. Plan

Done: the lifecycle, the loop of the graph with its gates, the autonomous loop, staging and publication, the frontier, the role calls, the repositories, budget and memory, with the proofs of section 4, which cover every property of the runs but liveness. In order, what is left:

1. Composition of `AutonomousLoop` and `GraphRun`: the tick as a process that starts and executes a run without a background handler.
2. A loop among several: the order in which `get_next_pending_loop` picks them, and whether one can starve.
3. A theorem that the gates of `GraphLoop` as one step and `Evaluation` gate by gate leave the same report.
4. The command line client and the retention of workspaces as variants of `RoleCalls`.
