# Verification of the Quantum Control Plane

TLA+ modules that model the Quantum Control Plane (`services/api`, `workers/`
and the packages they share), the TLC configurations
that check them on small instances and proofs that TLAPS checks for every value
of the constants. `PROJECT.json` lists components, runs, theorems, hazards and,
under `map`, the source lines each definition stands for. Paths below are
relative to the repository root; `app/` is `services/api/app/`.

    tlasany JobPipeline.tla                            # parse
    tlc -config pipe_faults.cfg MCJobPipeline          # model-check a run
    tlapm JobPipelineProofs.tla                        # check the proofs

## 1. The system

A client sends a circuit to a FastAPI server, which validates it, stores an
experiment and a job in PostgreSQL and pushes the job id to a Redis list. A
`quantum-runner` process pops ids, executes the circuit through a provider
adapter and writes the result. SDK and CLI poll the job until it is SUCCEEDED or
FAILED.

| component | state | operations |
|---|---|---|
| job state machine, `app/domain/state_machine.py` | none | `ensure_transition` |
| Redis queue, `app/queue/redis_queue.py` | lists `jobs`, `dlq`; sorted set `processing` | `enqueue_job`, `dequeue` (BLPOP, then ZADD), `ack`, `move_to_dlq`, `requeue_timed_out` |
| rows, `app/repositories/`, `app/db/models.py` | jobs, results, audit events, experiments | `create`, `transition` (row lock), `increment_attempt`, `save`, `log` |
| quantum worker, `workers/quantum-runner/runner/main.py`, `app/services/worker_service.py` | a session per delivery | `recover_stuck_jobs`, `run`, `process_job`, `_handle_failure` |
| submission, `app/services/job_service.py` | jobs with a unique idempotency key | `submit` |
| API gate, `app/core/rate_limit.py`, `app/api/deps.py`, `app/repositories/api_keys.py` | a Redis counter per address; rows of keys | `dispatch`, `require_api_key`, create, list, revoke, `ensure_raw_key` |
| experiment versions, `app/services/experiment_versioning.py` | numbered rows | `create`, `list_versions` |
| workflow engine, `app/services/workflow_engine.py` | workflow and run rows | `create_workflow`, `start_run` |
| circuit validator, optimiser, provider registry, `app/services/` | none but the catalogue | `validate_qasm`, `optimise_circuit`, `select` |
| cost governance, `app/services/cost_governance.py` | rows of budgets and cost records | `create_budget`, `check_budget`, `record_cost` (insert, `add_spend`) |
| benchmarking, `app/services/benchmarking.py`, `workers/benchmark-runner/` | rows of benchmarks; gauges in the worker's memory | `run_calibration_cycle`, `run_benchmark`, `list_all_latest`, `update_benchmark_metrics` |
| SDK and CLI, `packages/sdk`, `packages/cli` | none | `run_circuit`, `wait_for_result`, `list_jobs` |
| not modelled: comparison, tenants, adapters, web, observability, launcher loop, plugins, migrations | see section 8 | |

Interaction. API and workers share the database and Redis and nothing else. The
two are not written atomically: the API commits and then pushes, a worker pops
and then tracks, commits and then acknowledges. Between any two of these steps
another process, an exception or a death can come. Three timeouts make up for
lost steps: a worker that starts re-queues the RUNNING rows older than
`stuck_job_timeout_seconds` (120) and pushes again a message for each QUEUED row
older than that (the orphan scan), both in `recover_stuck_jobs`; there and while
idle it re-queues the deliveries older than the same limit.

What is hard, and what makes each part correct:

- Pipeline: every accepted job ends, no outcome is lost or changed, a permanent
  failure is dead-lettered; with several workers, duplicate messages, stale
  sessions, crashes between two steps, and timeouts that fire under a live worker.
- Submission: one job per idempotency key and one answer to all who send it,
  with overlapping requests, retries, and failures after the commit.
- API gate: a counter that expires, a revocation that stays, while requests are
  between their lookup and their commit.
- Versions: a read of the maximum and an insert with nothing in between.
- Workflows: order and uniqueness of steps; runs that other clients can read.
- Costs: a read, a sum and a write of `current_spend_usd` with other sessions in
  between; a check and a charge that are two calls.
- Benchmarks: one transaction in a loop that catches every exception, and fails
  in different ways; rows that become visible in another order than they were
  measured in.
- Clients: a status and a result read by two requests; pages of a list that grows.
- Circuits: three readers of one text (validator, optimiser, worker) that agree.

## 2. Modules

| module | models | used by |
|---|---|---|
| `JobStateMachine` | the transition table | `JobStore` |
| `RedisQueue` | the queue's three structures and the effect of each Redis command | `JobPipeline` |
| `JobStore` | rows, results, audit events, the age of a row | `JobPipeline` |
| `JobPipeline` | submit and the workers, step by step | `JobPipelineProperties` |
| `JobPipelineProperties` | its properties, and the refinement mapping to `JobLifecycle` | `MCJobPipeline`, proofs |
| `JobLifecycle` | abstract: what a client is promised of one job | refinement |
| `JobWatch` | the pipeline with an SDK client that waits for one of its jobs | `MCJobWatch`, proofs |
| `JobSubmission` | overlapping `submit` calls, the unique index and its lock | `JobListing`, proofs |
| `JobListing` | submissions with a client that pages through the list of jobs | `MCJobSubmission` |
| `CostGovernance` | budgets, cost records and overlapping callers | `PlatformServices`, proofs |
| `Benchmarking` | the benchmark worker, posted results and the gauges | `PlatformServices`, proofs |
| `PlatformServices` | the two side by side, so that one run checks them | `MCPlatformServices` |
| `RateLimit`, `ApiKeys`, `ExperimentVersions` | the state behind three parts of the API | `ApiServer` |
| `ApiServer` | a request through limiter, key check and handler | `MCApiServer`, proofs |
| `WorkflowEngine` | validation, the stored definition, depth-first sort call by call, run and commit | `MCWorkflowEngine`, proofs |
| `QasmValidator` | the loop over the statements of a circuit | `CircuitRequests`, proofs |
| `CircuitOptimiser`, `ProviderRegistry` | pure functions | `CircuitRequests` |
| `CircuitRequests` | one circuit through optimiser, validator, worker and routing | `MCCircuitRequests`, proofs |
| `JobPipelineProofs`, `JobLifecycleProofs` | theorems about the pipeline; about the pipeline until the first lapse, and its waiting client | |
| `JobSubmissionProofs`, `WorkflowEngineProofs`, `QasmValidatorProofs`, `CostGovernanceProofs`, `BenchmarkingProofs`, `ApiServerProofs` | theorems about each of these parts | |

### How state and actions correspond to the code

- **A step** is one committed transaction or one Redis command. A transaction on
  a job is one step because its first statement on the row is SELECT ... FOR
  UPDATE (`app/repositories/jobs.py:59`) and the lock lives until the commit.
  What a transaction read *before* that lock is a step of its own.
- **Sessions are stale on purpose.** SQLAlchemy's identity map hands out the
  object loaded first; `transition` locks the row and then validates the status
  of that object, and sessions are created with `expire_on_commit=False`. `sess`
  is this copy: `Load` fills it, `Claim` decides by it and writes the row.
- **A message is a job id.** Two messages of a job are the same text, so ZADD
  merges them and ZREM removes them together. `processing` is a set for that
  reason and `queue` a sequence.
- **Time** is a set: `aged` holds the rows older than
  `stuck_job_timeout_seconds`, `expired` the deliveries older than it. `Lapse`
  puts one there, any time, at most `MaxLapses` times; a write takes it out. A
  sweep computes its cutoff once (`cutoff`) and a row written since is not older.
- **Faults**: `Crash` ends a worker anywhere, `Escapes` is an exception that the
  code's `try` blocks let out, `Guarded` one that they catch, `SubmitDies` a
  request that ends between commit and push; together at most `MaxFaults`.
  `Stop` is SIGTERM between two messages; faults and stops together are at most
  `MaxEnds`.
- **Submission**: `Insert` waits while another transaction holds the same key
  (`KeyIsLocked`) and fails when that one has committed. Nothing catches the
  IntegrityError: the client sees a 500 and, trying again, gets the first job.
  An empty key is not looked up (`SearchesKey`) and inserted all the same: `""` is
  a key to the index.
- **API server**: a call is at one `await`: `incr`, `expire`, `limit`, `lookup`,
  `touch`, then its handler. A statement and the commit after it are one step
  because the row stays locked. `before` records which calls had been answered
  when a call arrived; it drives nothing and lets the properties speak of real
  time. `EnsureKey` is what the container's entry point and the local launcher
  do at every start. A Redis command that fails was executed or was not
  (`RedisFails`); `close()` in the `finally` may raise over a 429 that was about to
  be returned, and then the request goes through too (`CloseFails`).
- **Circuits** are sequences of statements: line, keyword, gate, whether it ends
  with a semicolon and matches its pattern, and its `name[index]` parts; brackets
  hold numbers. Several statements may share a line, which the validator takes
  apart and the line-based readers do not: they take the first word of a line,
  also of a statement the validator did not recognise, and the first brackets of
  a line that begins with `qreg`. A line of semicolons only is a statement of kind
  `empty`: the validator passes it, the counting readers raise. Comments and blank lines are gaps in the line numbers. The
  line-based readers get `splitlines(program)`, a sequence of lines that may be
  empty. A line the optimiser drops becomes an empty one instead of closing the
  gap, which no reader can tell apart. `skip_next(lines)[n]` is the code's flag of
  that name when its loop comes to line n. The answers of the read-only calls are
  recorded once per behaviour in `reply`.
- **Waiting client**: `client` is where `wait_for_result` is. A poll is one
  committed read; the result is a second one, and the pipeline may take any steps
  in between. Polls that find the job unfinished are stutters. `GiveUp` is the
  deadline or a request that raises.
- **Pages**: `older` is the order of `created_at`, which a request takes between
  its lookup and its INSERT and so, with locks and tries, long before its row is
  visible. A row's place in the list is the number of committed rows created after
  it, and a page is the rows at `PageSize` places.
- **Costs**: the session of a caller is `chosen` and `value`. `get_by_scope` keeps
  no reference to the row it loads and SQLAlchemy's identity map is weak, so
  `add_spend` reads the committed amount anew (`AddSpend`); `Flush` waits for the
  row lock of an UPDATE and writes the sum computed before it. `charged` and
  `crossed` record history and drive nothing.
- **Benchmarks**: `tx` is the transaction of the session. The loop's `except` logs
  and goes on, and what that means depends on it. Without a connection none has
  begun and the next provider may begin one (`ConnectFails`). A SELECT that
  PostgreSQL refuses leaves it `aborted`: what was flushed is lost, later
  statements are refused, and COMMIT rolls back and says nothing. A failed flush or a
  lost connection leaves it `failed`: every later call raises, the commit too, and
  `run()` catches that. A row is known by who measured it and
  when; what it measured is data. The gauges live in the worker's memory.
- **Sorting a workflow**: `_visit` calls itself. `calls` is the stack of its open
  calls, each with the dependencies its loop has still to visit; `visited` and
  `order` are the variables of `topological_sort`. `visit` is the beginning of a
  call, up to the loop; a call that finds its name visited returns at once.
  A definition deeper than Python's recursion limit raises, which is `Fail`.
- **Left out as unreachable**: `exp is None` (`app/services/worker_service.py:74`)
  and `refreshed is None` (`:123`): a job has its experiment by a foreign key, and
  nothing in the repository deletes a row.
- **Workflows**: `workflow` and `run` are rows of the one open transaction,
  `committed` what other sessions read of them, `results` the dictionary that
  reaches the row at the end. A result keeps its name and, for the two actions
  that record it, how many results there were before.
- **Scores** of the registry are floats in the code and integers here, scaled so
  that every product of the formula is exact.

## 3. Runs

| run | instance | what it shows |
|---|---|---|
| `pipe_faults` | 2 jobs (1 and 2 attempts, the first for a provider that is switched off), 2 workers, 1 fault or stop, 2 lapses | what holds of rows, messages and outcomes whatever fails, that without a crash no job is stranded and without a lapse none has two workers |
| `pipe_clean` | 2 jobs, 2 workers, a graceful stop, a client that waits for one job | nothing fails or outlives its timeout: progress, the refinement of `JobLifecycle`, and a client that is told what really happened |
| `pipe_late` | 1 job of 2 attempts, 2 workers, 1 fault or stop, 2 lapses | until the first lapse a row follows `JobLifecycle`, with the fault too; without the fault, timeouts under live workers duplicate the job, and it still comes to rest and is dead-lettered when it fails; with it, a restart after the stuck-job timeout recovers the job |
| `submit` | 3 clients, 2 with one key and 1 with an empty one, 2 tries each, 1 fault; a fourth reads pages of one row | one job per key, equal answers, an answered job is queued, paging misses no job, every request ends |
| `services` | 3 jobs of one scope and 2 budgets of it; 3 providers, 3 cycles, 2 faults, a posted result, a SIGTERM | budgets claim no more than was recorded and are exact where jobs do not overlap, thresholds are announced; a cycle leaves no gap between the providers it saved, gauges are fresh and never go back, every provider is shown |
| `api` | 3 calls over 4 routes, limit 2, 1 fault, windows that end and starts at any time, from an empty database | the limiter's counter, revocation, version numbers |
| `workflow` | all dependency graphs over 3 names; all pairs of steps over 2 names and known and unknown actions | depth of the recursion, order and uniqueness of steps, what is visible |
| `circuits` | 3904 circuits of up to six statements in four layouts, 5 strategies, 96 route requests with IBM on and off, with and without its token | the validator, the optimiser, the stored counts, routing |
| `find_in_flight` | 1 job, 2 workers, no fault | finding, section 7 |
| `find_success_undone` | 1 job, 2 workers, 1 lapse | finding |
| `find_crashed_run` | 1 job, 1 worker, 1 fault, 3 lapses | finding |
| `find_dlq_lost` | 1 job, 1 worker, 1 fault, 3 lapses | finding |

`CHECK_DEADLOCK FALSE` is in every configuration because every one of these
systems ends: jobs are finite, requests are answered, bounds are used up.

### Bounds

- *Jobs* interact only through the queue's order and through a worker's loop over
  several rows: two jobs give both. *Workers*: every hazard of the pipeline is
  between two, one of them possibly the restarted other. *Attempts* 1 and 2 give
  the permanent failure at the first run, the retry, and the failure after it.
- *Faults*: one, at any point. The hazards are a step that was done and the next
  one that was not; what a second crash could add is a crash in the recovery from
  the first, and recovery is idempotent on the row. `FullRestartRecovers` is
  about a system after its last fault.
- *Lapses*: two let a row and a delivery of one job both grow old, or one twice;
  the third in the finding runs allows a row, a delivery and the row again.
- *pipe_clean's client* waits for the job that may succeed at its second attempt.
  `GiveUp` at any time covers every deadline.
- *submit's clients*: with one key for two of them there are at most two rows.
  Clients without a key, whose every try makes a row, are in the theorems only.
- *submit's pages* hold one row: two rows make up to three pages, so a row can
  appear before, at and after the point the client has reached.
- *services*: costs 3, 4 and 2 with limits of 5 make two jobs that do not fit
  together, two that exactly fill the limit and a sum over and under 80%; two
  budgets of one scope make a check of one and a charge to the other. Three
  cycles with two faults leave one whole cycle, and a death in the second still
  has rows of the first to read. The two components share nothing, so a behaviour
  takes the steps of one of them.
- *api*: three calls give two that read the same maximum and one that comes after,
  and with a limit of two a third request that is refused.
- *circuits*: the registers are chosen so that sums of 26, 29, 30 and 31 qubits
  occur around the limit, indices are at the size, a register is declared twice,
  and runs of up to four gates have three equal lines and a different one.

### Fairness

`FairSpec` of the pipeline: weak fairness of each worker's steps (a supervisor
keeps the process running, `restart: unless-stopped` and the Kubernetes
deployment; the loop polls for ever), of the push that follows a commit in
`submit`, and of `RowLapses` and `DeliveryLapses`, because time passes. Faults
and stops have none. No fairness is given to the outcome of an execution: it may
fail every time. In `submit` each client's next step is weakly fair; the lock on
a key is released because its holder is. In `pipe_clean` the waiting client polls
again after each `time.sleep`, so its answers are weakly fair; giving up is not.
In `services` the benchmark worker's loop goes on with whatever it awaits and
sleeps a bounded time between cycles; its faults, the clients and the callers of
cost governance have no fairness. `api`, `circuits` and `workflow` check safety
only and state no fairness.

## 4. Properties worth reading first

- `NoJobStranded`: a queued row has a message, or a worker that will push or claim
  it; a running row has a worker that will write its outcome. It holds through
  duplicates, reaping and stale claims, and is what `process_job`'s "invalid
  transition: acknowledge and return" relies on.
- `CalmJobSettles`: without a fault, although a success may be undone by a second
  claim (section 7), the job comes to rest.
- `ToldOutcomeStands`, `WaiterIsAnswered`: what a waiting client is told is true
  and stays true, and if it waits it is told.
- `OutcomesAreCommitted`: a success has its result, a visible failure is permanent
  and only permanent failures are dead-lettered, at every instant.
- `ImplementsLifecycle`: without faults and lapses, queue, sessions, workers and
  retries together are the five-state life cycle of `JobLifecycle`.
  `FollowsLifecycle`, `ExclusiveExecution`: crashes alone do not disturb it. What
  gives a job a second worker or takes a success back is a timeout under a live one.
- `FullRestartRecovers`: whatever one fault destroyed.
- `AnswersAgree`, `AnsweredJobIsQueued`: what an idempotency key is for.
- `CounterExpires`, `RevocationIsFinal`, `NoVersionGaps`, `LaterVersionIsHigher`.
- `AcyclicRunsInOrder`, `RecursionIsBounded`: a sort that looks for no cycle, on
  definitions that may have some.
- `NoRowMissed`: offsets count from the head of a list that grows, also below the
  head when a row with an early stamp is committed late. Rows may be seen twice.
- `SerialSpendIsExact` with `SpendNeverExceedsRecords`: what is left of a budget's
  promise when sums may overwrite each other, and the condition under which it
  holds in full.
- `ThresholdIsAnnounced`: the warning is decided by a sum that another session may
  overwrite; the sum that stays has still been announced.
- `CycleHasNoGaps`, `GaugesAreFresh`: the loop reads as if providers failed one
  by one. They do until the transaction has begun, so the first providers of a
  cycle may be missing; after the first row of the cycle one failure costs all of
  it. A gauge beside that of a newer cycle is never older than that cycle's row.
- `AcceptedOperandsExist` is about the statements the validator recognises:
  `rz(0.5)q[9];`, without a blank, matches no pattern and passes unread.
- `OptimisedIsEquivalent`: what the optimiser returns is the circuit after
  cancelling pairs of self-inverse gates, compared with a stack-based reference:
  the code looks one line ahead with a flag, the reference back at what is left.
- `MetadataMatches`: the worker and the validator count the same circuit with
  different parsers. In any layout the worker stores no more qubits and gates than
  there are; with one statement per line it stores exactly these, also where the
  validator has forgotten the size of a register declared again or passed a gate
  unrecognised; it stores none only where a semicolon ends no statement.
- `RoutedProviderRuns`: catalogue, `get_provider` and adapters agree on which
  provider can be used, for circuits of up to 24 qubits and an IBM Runtime that
  has its token when it is on. It does not hold without either condition
  (section 7).

## 5. Proofs

All theorems are checked by `tlapm` to the last leaf, from the named assumptions
on the constants only. What each set rests on:

- **`JobPipelineProofs`** (any number of jobs, workers, faults, lapses, stops).
  `TypeInv` is the type invariant with `HoldsAJob`: between taking and giving up
  a delivery a worker holds a job, without which `held[w]` may not index a row.
  `CommitInv` adds that messages name committed rows and that an outcome is
  written with its evidence (`OutcomesAreCommitted`). `EnqueuedJobsExist` alone is not inductive: a list a
  sweep is looping over and the job a worker holds become messages later, so they
  are part of it. `OwnerInv` is `NoJobStranded /\ FailureReachesDlq`. Its proof
  goes through `OwnerFrame`: a job nobody wrote keeps its owner if every worker
  that was its owner, other than the one that steps, still is; each action then
  shows only what it does to the job it holds.
- **`JobSubmissionProofs`** (any clients, keys, tries, faults). `KeyClaimedOnce`
  strengthens `OneJobPerKey`: among committed rows *and* rows of open
  transactions a key occurs once, which is what the lock of the unique index
  provides. `AnswersAgree` follows because answers name committed rows.
  `AnsweredJobIsQueued` rests on `CommittedIsPushed`: while nothing fails every
  committed row is pushed or its request is about to push it, whoever answers.
  `NoRowMissed` needs `OrderInv`: creation times order the open and the committed
  rows strictly, and a request creates its row after all of them. So each committed
  row has a place of its own and by the pigeonhole principle every place is taken,
  hence a page that is not full is the last; and rows only move down the list,
  hence what was due before a page and is not on it is still due after it
  (`PageInv`).
- **`JobLifecycleProofs`** (any jobs, workers, retry policies, faults and stops;
  while nothing has lapsed). `CalmInv` is inductive: `Quiet`, no sweep has
  anything to find; `OneMessage`, a job has at most one message or one worker
  carrying it; `RowMatches`, the status of a row says which, and the session's
  copy of it is not stale; `AttemptsMatch`, attempts count the claims and stay
  within the policy. `ExclusiveExecution` follows, and so does that each step is a
  step of `JobLifecycle` for the row it writes and none for the others
  (`FollowsLifecycle`), hence, where `MaxLapses` is 0, the safety half of the
  refinement. A settled row has no step in the life cycle, and results are never
  taken back: that is `ToldOutcomeStands` for the client that waits. The crashes
  need no exception: a dead worker leaves a job that nobody works on, never one
  with two workers.
- **`WorkflowEngineProofs`** (definitions of any length, with cycles, unknown
  dependencies and repeated names). `Path`: each open call was made by the
  one below it for a dependency, and what it needs is visited or still to come.
  `Marks`: a visited name has run, is sorted or is on the stack, one of these and
  once; the open calls are therefore of different names (`RecursionIsBounded`) and
  no name runs twice (`EachNameRunsOnce`). When a step is appended all it needs is
  visited; were one of those still on the stack, the calls from it up to the step
  would be a cycle, so it was appended before (`NoCallIsNeeded`, `Sequenced`,
  `AcyclicRunsInOrder`). `Acyclic` speaks of sets of names instead of paths, which
  keeps recursion out of the statement. The last step of a name, which is the one
  that counts, exists because a non-empty set of indices has a greatest member.
- **`CostGovernanceProofs`** (any jobs, scopes, budgets per scope, costs, limits
  and threshold). `CostTypeOK` ties a caller to a row of its scope.
  `SpendNeverExceedsRecords` is inductive with `SumsAreCovered`: a session's sum is
  at most what has been charged plus its own cost, which its commit charges too.
  `ThresholdIsAnnounced` is inductive with `AnnouncedFirst`: the warning precedes
  the commit. `SerialSpendIsExact` needs `AloneInScope`: where nothing crossed, one
  job of the scope is open, it fits, and the sum it computed still holds.
- **`ApiServerProofs`** (any calls, keys, addresses, experiments, limit, faults).
  `CallInv` ties a call's position to its request, its INCR result and its row;
  `KeyInv` says that a call that arrived after a revocation has not passed the
  lookup; `ReadInv` that a call about to insert has read a number that exists and
  is at least that of every version answered before it arrived. `Frame` shows that
  a step of a call changes that call's entries only. Read with `RowsStay` this
  gives `NoVersionGaps` and `LaterVersionIsHigher`; `RevocationIsFinal` follows
  from `RevokedStays`, action by action.
- **`BenchmarkingProofs`** (any providers, cycles, posts and faults). `LoopInv` says
  that the open transaction holds, with a provider's row, those of all the loop has
  passed since, that one which has not begun, was aborted or failed holds nothing,
  and that no row of the running cycle is committed; the commit therefore adds all
  of a cycle at once, from some provider on (`CycleHasNoGaps`). `ReadInv`: what has been read is
  at least as new as the gauge and as any cycle's row, since what commits during the
  reads can only be a posted result; `PostInv`: a POST commits one row, once. The
  two give `GaugesAreFresh`, which is not inductive alone: it needs what the rows
  read were compared with.
- **`QasmValidatorProofs`** (any set of circuits of any length, any limit).
  `SizesAreDeclared`: a size in the tables is the size some statement already read
  declares, so a later, smaller declaration cannot make an earlier operand wrong.
  With `ReadIsRight`, kept by every statement passed, acceptance gives
  `AcceptedOperandsExist`. `RequestSpec` implements the validator's `Spec`, so both
  theorems hold of the composition. `RoutedProviderRuns` holds for every request:
  a candidate is switched on, so it is a simulator or an IBM Runtime with its token;
  the candidates are ordered strictly and totally by score and place in the
  catalogue, every place of the ranking is therefore some candidate's
  (`PlacesAreTaken`).

  The passes over a circuit are recursive functions on `0 .. Len(lines)`. The
  induction theorems of the library take an operator as parameter, which the
  provers cannot instantiate; that < is well founded on Nat is a theorem without
  one. `Least` and `UpTo` get induction from it with a *set* in place of the
  formula, and `RecursionExists` gets, with the step as a function, that a
  recursive function satisfies its equation. On these rest

  - `MetadataMatches`: `CountsRead` is the inductive invariant, the validator's
    total is that of the statements read, each taken as a line. At acceptance all
    are read. A line counts for at most one of its statements, so the lines never
    give more (`TotalsAtMost`, `GatesAtMost`); with one statement per line they
    are the statements and empty lines, which add nothing (`TotalsAgree`,
    `GatesAgree`);
  - `OptimisedIsEquivalent`: by induction along both recursions at once, the
    reference stack of the original is the stack of what the optimiser left or,
    between the two lines of a pair, that stack one gate later. It is inductive
    because no gate on the stack is followed by the one that undoes it (`Settled`):
    a pair either is pushed and popped or, when its gate already lies on top,
    popped and pushed, and leaves the stack as it was (`PairCancels`);
  - `MappingIsPermutation`: the indices of one register are 0 .. n-1 in order
    (`IndicesOfOne`), sorted downwards they are n-1 .. 0 (`DescendingTurns`), and
    removing pairs touches no declaration.

Only model-checked:

- Everything with fairness (`CalmJobSettles`, which is `EverySubmittedJobSettles`
  and `FailedJobIsDeadLettered` where nothing fails, `ProcessingDrains`, `FullRestartRecovers`,
  `WaiterIsAnswered`, `EveryRequestEnds`, `MeasuredProvidersShown`) and the fairness
  half of `ImplementsLifecycle`: liveness is out of the prover's reach.

Every other property of the passing runs is stated by a theorem.

## 6. Assumptions of the models

PostgreSQL at READ COMMITTED with row locks; Redis commands are atomic and Redis
does not lose its data; one database and one Redis. Two deliveries of a job never
need different payloads. The clock of a worker does not run backwards. The
statements of a circuit come in the order of its lines. `create_key`
makes a key of its own as long as the model has one left. Providers either return
a result or raise; a cancelled execution raises. The API and the worker are given
the same `ibm_runtime_enabled` and token. The backend behind both simulators,
Qiskit's BasicProvider, takes what the catalogue says of it, 24 qubits. No two jobs have the same `created_at`, and no two
results of a provider the same `measured_at`. The callers of cost governance,
which the repository does not have, check each job once, run it if it fits, and
record it once in a transaction of its own. A supervisor restarts the benchmark
worker.

## 7. Where code and documents disagree

Each of the four findings of `PROJECT.json` has its run:

- `find_in_flight`: `_handle_failure` pushes the retry before it acknowledges the
  old delivery. The texts are equal, so ZREM can remove the entry of the worker
  that has already taken the retry, which then runs untracked.
- `find_success_undone`: the orphan scan pushes a second message for a job that
  only waits. Two workers load QUEUED; the second claims from its stale session
  after the first has succeeded, and SUCCEEDED becomes RUNNING.
- `find_crashed_run`: a worker dies while running and restarts before the row is
  old; the reaped message is acknowledged because RUNNING to RUNNING is refused.
  Nothing but another restart looks at the row again.
- `find_dlq_lost`: the permanent failure is committed, then the worker dies before
  `move_to_dlq`.

Met while modelling, without a run of their own:

- Recovery re-queues without looking at `attempts`, so a job may run more often
  than its policy says; attempts are bounded, in `ImplementsLifecycle` and
  `ToldOutcomeStands`, without lapses only.
- `get_provider` raises outside the `try` of `process_job`: a job for a disabled
  provider stays RUNNING with no failure handling. `NoJobStranded` excludes it.
- The rate limiter calls itself a token bucket and a sliding window
  (`app/core/rate_limit.py:1,25`) and is a fixed window. After a failure between
  INCR and EXPIRE the address is refused for ever in spite of `Retry-After: 60`;
  `CounterExpires` states exactly this exception.
- Version numbers repeat when two creations overlap. Nothing forbids it.
- Workflow cycles are sorted without complaint; steps that share a name run once.
- The optimiser drops two equal lines also when a line holds several statements
  (`h q[0]; x q[0];` twice is not the identity), and the worker's counts read one
  statement per line: the one-line demo circuit is stored with no qubits and one
  gate. `OptimisedIsEquivalent` and the equality in `MetadataMatches` are about one
  statement per line.
- With two registers the qubit mapping is keyed by the index within a register
  and is not one to one. With noise-aware mapping logical 0 goes to the highest
  index, where the docstring says lower indices first.
- An empty `Idempotency-Key` is taken for none by the lookup and stored in the
  unique column: the first request that sends it succeeds, all later ones get a 500.
- When `redis.close()` fails, the limiter lets a request through that it was about
  to refuse. After a save that got no connection the benchmark worker commits a
  cycle without its first providers.
- A line of nothing but semicolons is accepted; the worker then stores no counts
  and `/v1/circuits/optimise` answers 500.
- `MAX_QUBITS` is "accepted by the local simulators" and 30, and the registry names
  `simulator_aer` for a circuit of 25 to 30 qubits, or falls back to
  `local_simulator`; `get_provider` runs both on BasicProvider, which the catalogue
  gives 24.
- IBM Runtime that is on and has no token is recommended, and `get_provider`
  raises.
- The SDK's docstring example `measure q -> c;` is refused by the validator. Its
  `list_jobs`, "List all jobs.", returns the first page of 50.
- A client that pages sees a row twice when another was committed meanwhile.
- `ANNOUNCEMENT.md:168` promises "automatic job rejection when limits are
  exceeded"; nothing calls `check_budget` or `record_cost`. The monthly limit is
  never reset, overlapping records lose amounts, and a scope may have several
  budgets, any of which is checked and charged.
- The benchmark worker's gauges are set in a process that serves no metrics.
- `NotImplementedError` cannot reach `start_run`: validation lets only implemented
  actions pass. `current_step=None` at the end of a run leaves the last step's
  name, because `update_run` takes None for "as it is".

## 8. Not modelled, and the plan

Not modelled and why: result comparison is floating-point arithmetic (square
roots and divergences) over rows that no longer change; tenants are inserts and
lists whose only rule is a foreign key; adapters call vendors, and the pipeline
has their two outcomes; the other SDK methods and CLI commands are one request
each; web, observability, plugins and migrations have no behaviour of the
program's own; the local launcher's worker loop is the run loop without recovery
and reaping. `optimise_shots` and the estimated fidelity are data nothing depends
on. `update_capabilities` has no caller in the repository, and
`set_remote_run_id` writes a column nothing reads.

Done: pipeline with a waiting client, submission with paging, workflow, circuits,
API gate and versions, cost governance, benchmarking, and the safety of all of
them proved.

Plan, in order:

1. Composition of submission and pipeline, so that a key, its job and its outcome
   are seen together, with the theorems of both carried over.
2. The refinement as a theorem about each job alone under lapses: what of the life
   cycle survives a timeout under a live worker.
