# Verification of the distributed job queue

TLA+ models of the job queue in `crates/`, the TLC runs that check them on small
instances, and TLAPS proofs, for all instances, of the safety properties of the store, the
composed system, submission, the retry delays, the API, the lease lengths and the worker
registry.
`PROJECT.json` lists components, runs, mutants, the map from definitions to source
lines, findings, hazards and theorems.

## 1. The system

The queue lives in PostgreSQL. Any number of API processes accept jobs and operator
requests, any number of worker processes lease and run jobs, and every API process runs
a maintenance loop that takes expired leases back. Processes share nothing but the
database.

| part | source | state it keeps | operations |
|---|---|---|---|
| status machine | `core/src/status.rs` | – | `is_terminal`, `is_leaseable`, `is_cancellable`, `can_transition_to` |
| store | `storage/src/lib.rs`, `migrations/0001_init.sql` | tables `queues`, `jobs`, `job_attempts`, `dead_letter_jobs`, `workers`; row locks of open transactions | the `Store` trait: submit, cancel, retry, purge, `lease_next`, `renew_lease`, `complete_job`, `fail_job`, `recover_expired_leases`, worker rows, reads |
| submission | `api/src/routes.rs`, `queue/src/lib.rs`, `core/src/model.rs` | the unique index on (queue, idempotency key) | `submit_job`, `NewJob::normalized`, `PgStore::submit` |
| backoff | `core/src/backoff.rs`, SQL in `recover_expired_leases` | – | `delay_for_attempt`, `delay_with_jitter` |
| worker runtime | `worker/src/runtime.rs`, `main.rs` | semaphore permits, the task set, the shutdown token | `run`, `execute_job`, heartbeat, drain |
| queue service | `queue/src/lib.rs` | counters | `submit`, `report_outcome`, delegation |
| maintenance | `queue/src/maintenance.rs` | ticker | recover leases, prune workers, gauges |
| worker registry | `storage/src/lib.rs`, `runtime.rs` | table `workers` | register, heartbeat, deregister, prune |
| event stream | `api/src/sse.rs` | last status sent, polls made | poll a job until it is terminal, gone, or the cap is reached |
| API process | `api/src/main.rs`, `routes.rs`, `error.rs`, `core/src/error.rs` | the shutdown token, open connections | requests and their status codes, graceful shutdown |
| glue | the rest of routing, configuration, row mapping, handlers, telemetry | – | – |

How they interact: a worker slot calls `lease_next`, then `renew_lease` for
`timeout_secs + 30`, runs the handler under its timeout and calls `report_outcome`, which
becomes `complete_job` or `fail_job`. Nothing else connects the worker to its job: the
only fence is `locked_by = <worker id> AND status = 'processing'`. The maintenance loop
finds rows whose `lease_expires_at` has passed, in up to four separate statements. API
calls change rows at any time. Beside the run loop a worker sends heartbeats, which keep its
row in `workers` from being pruned; no job statement reads that table. An API process that is
asked to stop ends its maintenance loop at once and then waits for its open connections,
event streams included.

What is hard to test here: two callers on one row between a read and a write; methods of
several statements without a transaction, of which any may fail (`retry_job`,
`recover_expired_leases`, `submit`); a COMMIT whose answer is lost; a report that arrives
after its lease was recovered; a worker that dies anywhere; and what must happen in the
end; deadlines that must outlast what they cover (the two leases of `execute_job`, the
registry's time to live over lost heartbeats and a drain). `PROJECT.json` lists these hazards
with their lines.

What makes each part correct:

- store: one holder at a time, a live lease is ended by its holder or a cancel only, the
  attempt budget is kept, final statuses are final, the lease columns agree, the attempt
  rows match the counter, the dead-letter table matches the status;
- submission: one job per idempotency key, created once, no valid request refused;
- backoff: the capped doubling sequence, whoever computes it; jitter within its bounds;
- worker and maintenance: a late task cannot act on an attempt of another worker, no job is
  stuck with a dead worker, every job settles if some worker stays up;
- lease lengths: a job is never run twice at once and finished work is not thrown away, if
  the database answers within the slack;
- registry: a live worker is listed, a worker pruned by mistake returns, a dead one is
  forgotten;
- API: what a client was told is final is final, streams and shutdowns end;
- counters: no completion and no failure is counted twice.

## 2. The modules

| module | models |
|---|---|
| `JobStatus` | the statuses, predicates and documented transition table |
| `JobStore` | `PgStore` under its most general client |
| `LeaseQueue` | abstract specification: what the queue promises |
| `MCJobStore` | small instances of `JobStore` |
| `JobStoreProofs` | the inductive invariant and the invariance theorems |
| `JobStoreSteps` | what a step may do to a row, its attempt rows and its dead letter: the action properties, the invariants about history and dead letters, and that `JobStore` implements `LeaseQueue`, proved |
| `WorkerRuntime` | a worker process: run loop, slots, `execute_job`, drain, crash |
| `QueueSystem`, `MCQueueSystem` | workers, callers and maintenance over the store |
| `QueueSystemProofs` | the system implements the store's specification; the fence and the counters, proved |
| `Backoff`, `RetrySchedule` | both copies of the backoff formula; the delays of one job |
| `RetryScheduleProofs` | induction, powers of two, and its theorems |
| `Submission`, `MCSubmission` | submission with concurrent, failing, repeated requests |
| `IdempotentSubmit` | abstract specification: what submission promises its callers |
| `SubmissionProofs` | the invariants of `Submission`, and that it implements `IdempotentSubmit`, proved |
| `LeaseCover`, `MCLeaseCover` | one job under the clock: the lengths of the leases and of what they cover |
| `LeaseCoverProofs` | its theorems |
| `WorkerRegistry` | table `workers`, the heartbeat task and the pruning sweep, under the clock |
| `WorkerRegistryProofs` | its theorems |
| `JobApi`, `MCJobApi` | cancel and retry calls, event streams and the life of the API process, over `JobStore` |
| `JobApiProofs` | the API uses the store correctly, its final answers hold, proved |

### JobStore

`jobs[j]` is the row of job `j` with the columns that change (`status`, `attempts`,
`run_at`, `locked_by`, `lease_expires_at`); columns set once at submission are constant
functions of the id (`QueueOf`, `Priority`, `MaxAttempts`, `DeadLetter`, and `Delay` for
the backoff policy). `history[j]` is the sequence of `job_attempts` rows, `dlq` the ids in
`dead_letter_jobs`, `queues` the queue rows. `tx[t]` is the transaction slot `t` has open
and the row it locks; `retry[o]` and `sweep[r]` are `retry_job` and
`recover_expired_leases` calls between two of their statements.

*Granularity.* A statement on the pool commits by itself and is one action. A method with
a transaction is two: its first statement, which takes the row lock
(`LeaseUpdate`, `CompleteUpdate`, `FailSelect`), and the commit of all its writes
(`LeaseCommit`, `CompleteCommit`, `FailCommit`), or `Rollback`. Between them other callers
read the old row, wait for its lock, or skip it (`SKIP LOCKED`). A method with several
statements on the pool is one action per statement: `RetryUpdate`, `RetryDelete`,
`RetryAbort`; `RecoverRetrying`, `RecoverDeadLettered`, `RecoverFailed`, `RecoverClose`,
`RecoverAbort`. Waiting for a lock is a disabled action.

*Time.* `run_at` and `lease_expires_at` are kept relative to `now()`, in ticks; `Tick`
ages both. A transaction's `now()` is fixed at BEGIN, so its writes are `e` ticks old at
COMMIT, for `e` up to `TxAge`.

*Order.* `LeaseUpdate` takes a row that none precedes by priority and `run_at`. The
sweep's order by `lease_expires_at` is not kept: `Batch` allows every set of the
limit's size, a superset of what the code does.

### QueueSystem

`slot[t]` is a semaphore permit and the task it was given to, with the `Job` value the
task holds (job id, attempt number); `worker[w]` is the life of a process. Each step joins
a `WorkerRuntime` step to the store step it makes, with the answers it may get: `Leased`
and `LeasedUnknown` (committed, answer lost), `Renew`, `RenewUnknown`, `RenewFails`,
`Completed`, `Failed`, `FailedUnknown`, `ReportFails`. A handler may return either outcome, time out or panic. A poll
that finds no job leaves nothing behind and is a stuttering step. `tokio::select!` is used without
`biased`, so a worker may lease once more after shutdown was asked; the model allows it.

`metrics` are the counters of `report_outcome`, summed over all processes and never reset: what
a scraper that loses nothing would see. `jobs_failed` is counted when the handler ends,
before the store is called, `jobs_completed` when `complete_job` answers. `fail_job` commits
and then reads the job again in a SELECT of its own, on the pool: `Failed` leaves the slot
at `fetching`, and `Fetched` counts by the status found then (`Counted`), which other
attempts may have changed in between. A lost answer, a failed SELECT and a purged row are not counted.
`CountsAreBounded` compares the counters with the rows the tables hold (`AttemptRows`).

`LostLeaseStaysLost` is the fence, for any concurrency: of a task that executes a job it
no longer holds, it says that the fence stays closed, but for one step, the commit of a
new lease of the job by another slot of the same worker. That case is reached in the
run: without the exception TLC reports a violation.

### LeaseCover

`JobStore` lets a deadline pass at any moment, so it cannot say whether the lengths are
right. `LeaseCover` has one job, any slots, and counts seconds. `pc[t]` is the phase of
slot `t`: `lease_next` sent, its answer on the way, `renew_lease` sent, answered, handler
running, report sent; `clock[t]` its seconds in the current count, and `Bound` the longest
it may take. `Tick` waits for a slot at its bound, which is how promptness is expressed. A
statement's `now()` may be as old as the call. Recovery, cancel and retry happen at any
time their WHERE clauses allow. The attempt budget is left out: a failure may or may not
be the last.

### WorkerRegistry

`age[w]` is the time since `last_heartbeat`, or NULL without a row; `life` the process,
`beat` the heartbeat task with its `timer`, `missed` the heartbeats lost in a row, `late`
the INSERTs whose future was dropped by `hb.abort()` or a crash but which may still reach
the database. The heartbeat task ends with the shutdown token while the drain goes on, so
a stopping worker is silent for up to `StopTime`.

### JobApi

`call[c]` is a cancel or retry request between its statements with the code it was
answered, `stream[s]` the `StreamState` of an event stream, `api` the process. Workers are
the store's general client: any slot may take any step. `loop[r]` is the maintenance loop.
`select!` is not biased, so while the process is stopping the loop may start another
sweep or end (`LoopEnds`); `Exit` waits for calls, streams and the loop. A kill of the
API process is not modelled here: it would end streams and calls at once, and what it does
to the database, a `retry_job` or a sweep that stops between two statements, are
`RetryAbort` and `RecoverAbort` of `JobStore`.

### Submission

`rows` are job rows with their key and life, `call` the request each client is sending
and the statement it is at. `InsertUnknown` is an INSERT whose answer is lost; the client
may send the same request again. `FinishJob` and `Purge` stand for the rest of the system.
`Overflows` is the one request that passes validation and is not normalized: a
`delay_secs` that takes the date out of its range (`MaxDelay`) panics, the connection is dropped,
and the client sees an error.

`IdempotentSubmit` is the same service without statements: one atomic step creates a job
under a key that no present job has (its answer may be lost), answers with the job that has
it, rejects the request or fails. `IS` maps a row to its life and its index entry (`{}`
without a key) and a call to its request and answer; where the call is does not show.

## 3. The runs

| run | checks | shows |
|---|---|---|
| `store_one_job` | `TypeOK`, `LeaseFields`, `AttemptsWithinBudget`, `TransactionsHoldRows`, `AttemptLog`, `SucceededMeansCompleted`, `NoLeaseStealing`, `LiveLeaseRespected`, `FinishedIsFinal`, `FollowsStatusEdges`, `ImplementsLeaseQueue` | one row fought over by two slots of one worker, a slot of another, an operator and a reaper, with transactions that last a tick |
| `store_two_jobs` | `CompletedLeavesNoneRunning`, `DeadLetterRecorded`, `OutcomesAreFinal`, `ImplementsLeaseQueue` | two jobs of different priority, budget, backoff, `dead_letter`, and two maintenance loops with overlapping, failing sweeps, limited to one row, and stale id lists; recorded outcomes are not rewritten, completed jobs leave no attempt open, and the dead-letter table is right while nobody calls `retry_job` |
| `system_safety` | `SysTypeOK`, `CountsAreBounded`, `LostLeaseStaysLost` | a worker with two slots and one with a single slot, with lost answers, late reads, panics, drains, aborts and crashes |
| `system_recovery` | `AbandonedJobsRecovered`, `EveryJobSettles` | no job stays leased for ever, even if no worker ever moves again; two attempts settle |
| `retry_schedule` | `DelayIsDoubling`, `JitterWithinBounds`, `DelaysNeverShrink` | the Rust and the SQL formula agree with the doubling sequence |
| `submission` | `TypeOK`, `OneJobPerKey`, `CreatedOnce`, `NeverRefused`, `ImplementsIdempotentSubmit` | idempotency under races, failures and retries; validation agrees with the schema; a delay that overflows leaves nothing behind; every request is decided as if in one step |
| `lease_cover` | `LeaseOutlastsPhase`, `OneRunner`, `WorkIsNotLost` | two slots of one worker and one of another on one job, every call as slow as the leases allow for |
| `worker_registry` | `RowsAreFresh`, `LiveWorkersListed`, `PrunedWorkerReturns`, `DeadWorkersForgotten`, `GaugeSettles` | a worker that loses heartbeats, drains, deregisters or dies at any point, against pruning |
| `job_api` | `FinalAnswersHold`, `EveryStreamEnds`, `ShutdownCompletes`, `RecoveredAcrossRestarts` | a client, an event stream and restarts of the only API process, whose loop may sweep on while it stops, over a job that workers may abandon |
| `store_transition_table`, `store_dead_letter`, `store_attempt_history` | one property each, violated | the findings of section 6 |

Each property of a passing run has a mutant: a changed definition (named
`<definition>_<change>`, defined next to the original) under which TLC finds the
property violated.

### Bounds

- `LeaseSecs = CoverSecs = 1` (0 in `store_two_jobs` and `job_api`, to keep them small): a
  lease can be live, at its last tick, or expired; `JobStore` compares no leases of
  different length, which is what `LeaseCover` is for. `Elapse` stops at -1, since only `< 0` is read.
- `TxAge` 1 in `store_one_job`, so that a lease may be committed with its deadline already
  a tick nearer; 0 elsewhere.
- `AgeCap = 0`: with one job, or two of different priority, only `run_at <= 0` is read;
  how long a row has been due would only break ties.
- budgets of 2 (one retry, then exhaustion) or 1. `MaxRows` 4 allows one operator retry of
  a job with two attempts; every effect of a second retry starts from the same columns.
- `RecoverBatch = 1`, so that a sweep of two jobs meets its limit.
- two workers, two or three slots: the statements speak of one row and two
  callers at most. Two maintenance loops, interchangeable (symmetry).
- `RetrySchedule` runs the guard at `ExpCap = 8`, with every base and ceiling below
  2^8, so that attempts pass the guard; in the code the guard is 32 and the columns are 32-bit. The relation
  between guard and range is the same, and a guard four smaller is caught.
- `system_safety`: two slots of one worker and one slot of another, one job with two attempts:
  the least in which a slot can lose its lease to its sibling, to another worker, or to
  nobody, and in which an attempt can be dead-lettered while the report of the one before
  is still to be counted.
- `MaxCalls = 2`: a request and one repetition. `MaxDelay = 3`, with requests at and one past it.
- `lease_cover`: lease of 3, timeout of 2 and slack of 2 seconds with delays that meet both
  bounds of `PromptnessAssumption` exactly, so that one second less cover is caught. The
  defaults are a lease of 30 and a slack of 30 seconds.
- `worker_registry`: interval 3, time to live 14, window 6, two lost heartbeats and a stop time of 3
  meet `TtlAssumption` exactly. The defaults (10, 60, 30 and a grace of 30) leave room
  for one lost heartbeat (2 * 10 + delay + 30 <= 60, with a delay of up to 10). One
  worker: no statement and no step of a worker reads the row of another, except that the
  gauge adds them up, and the theorems hold for any set.
- `job_api`: one job with one attempt, `MaxRows` 2 for one operator retry, one client, one stream
  with `MAX_POLLS` 2 instead of 1200, enough for a stream to see a change or to reach its
  cap without one.

### Fairness

- `MaintenanceFairness`: time passes (weak), and each statement of a sweep happens if it
  is possible again and again (strong). The ticker of `maintenance::run` fires after every
  sweep, failed or not, so a sweep that keeps being tried gets through in the end; strong
  fairness is needed because an aborted sweep starts over.
- `TransactionsEnd`: an open transaction commits or rolls back. A transaction belongs to a
  call with a connection; if its process dies, the server rolls it back.
- `WorkerFairness`, a hypothesis of `EveryJobSettles` and not of the specification: live
  workers poll again after `poll_interval`, and their tasks go on, since every handler is
  under `tokio::time::timeout`. Strong for `Lease` and `Leased`, because others may lock
  the row in between and a COMMIT may fail a few times.

- `WorkerRegistry`: time passes and the interval ticks; the calls of a heartbeat end; a
  heartbeat that finds no row, a re-registration, a pruning and a count that are tried
  again and again get through in the end (strong, since each may fail a few times and its
  loop goes on after an error); a statement nobody waits for arrives or is lost.
- `JobApi`: a call is answered, a stream polls every half second, a process that may exit
  does and is started again by its supervisor, and the sweep is as in
  `MaintenanceFairness` while its loop runs. `LoopEnds` is strongly fair: with the token
  cancelled its branch is ready whenever the loop is back at its `select!`, whose branches are tried in
  random order, so it cannot lose to a due tick for ever. Weak fairness would not do, since a sweep
  that starts takes the loop away from the `select!`. Nothing is assumed of workers or clients,
  and a process may be stopped again and again.

`RecoveredAcrossRestarts` is about workers that have died (`WorkersDie`): a worker that keeps
renewing keeps its job.

`AbandonedJobsRecovered` uses no worker fairness: workers may hang for ever.
`EveryJobSettles` assumes that one worker stays up and that the queues are not left
paused for ever; operators do not retry in these runs, since an operator who retries for
ever keeps a job from settling.

## 4. What is proved

The assumptions are those of `JobStore`: `SetsAssumption` (NULL is no id, the batch limit
is positive, finitely many ids), `ColumnsAssumption` (types of the columns, budgets of at
least one) and `CallersAssumption` (types of slots and bounds). Sets and numbers are
otherwise arbitrary.

- `StoreInvariant`: `StoreInv == TypeOK /\ LeaseFields /\ AttemptsWithinBudget /\
  TransactionsHoldRows` is inductive. No part is so alone. `lease_next` looks neither at
  the budget nor at the previous holder when it writes, so `AttemptsWithinBudget` and
  `LeaseFields` survive `LeaseCommit` only if the row is still leaseable, which is
  `TransactionsHoldRows`. That survives other callers because each respects the lock, and
  a second transaction because locks are exclusive (its second conjunct). Corollaries:
  `TypeCorrect`, `LeaseColumnsAgree`, `BudgetKept`, `TransactionsIsolated`.
- `JobStoreSteps`: lemma `StepRows` says what any step may do to any row: keep its holder,
  status and counter, or move along an edge, and end a live lease by its holder or a cancel only. From
  it follow `LeasesAreNotStolen`, `LiveLeasesRespected`, `FinishedJobsAreFinal`,
  `StatusEdgesFollowed`. Lemma `StepLogs` says the same of the attempt rows: a step keeps
  them, closes running ones, appends the next one together with the counter and the new
  holder, or starts the count again (a retry, a purge). With `StoreInv`, `AttemptLog` and
  `SucceededMeansCompleted` are then inductive (`AttemptLogKept`,
  `SucceededAttemptsComplete`): a report closes rows as succeeded only in the transaction
  that completes the job, and completed jobs do not come back. `StepLogs` also gives
  `RecordedOutcomesStay` (only running rows are closed, and only a purge drops any) and
  `CompletedClosesAttempts`, by induction: the transaction that completes a job closes every
  row that is running, and no lease follows. Lemma `StepDlq` is about the
  dead letter table. `DeadLettersRecorded` has the hypothesis `Operators = {}`, nobody
  calls `retry_job`; without it the property is false, which is a finding of section 6.
  What is left with operators is proved too: `OnlyRetriesLoseDeadLetters`, a dead-lettered
  job loses its row to the DELETE of a `retry_job` call of that job and to nothing
  else, so the finding is the only way; and `DeadLettersOptIn`, a job that opted out never
  has a row.
- `StoreImplementsLeaseQueue` (`JobStoreSteps`), that is `StoreSpec => LQ!Spec` under the mapping
  status to phase, `locked_by` to holder, `attempts` to used. Opening a transaction,
  rolling back, closing attempt rows and ticking are stutters; a commit or a sweep
  statement is one abstract step. `Take` is where `AttemptsWithinBudget` is needed.
  With `SystemUsesStore` and `ApiUsesStore` below it carries over to the composed systems
  (`SystemImplementsLeaseQueue`, `ApiImplementsLeaseQueue`).

- `QueueSystemProofs`, from the assumptions of `JobStore` and `SlotsAssumption` (finitely
  many slots): `SysInv` adds to `StoreInv` that a slot and the transaction it has open
  belong together (`SlotTx`): it leases, or it reports the job it was given in the way its
  handler ended. Without that, `Completed` might complete a job for a slot that reports a
  failure. Theorems: `SysInvariant`, `SysTypeCorrect`, `SystemUsesStore` (`SysSpec =>
  StoreSpec`, so that every theorem of the store is one of the system). `WorkerIdFences`,
  `SysSpec => LostLeaseStaysLost`, has no hypothesis on the slots of a worker. By `StepRows` a row
  gets a holder only in the commit of a lease; if afterwards the holder is the worker of a task that
  did not hold the row before, some slot of that worker has committed the lease, and `SlotTx` says
  that this slot is leasing, so it is not the task itself, which executes. `CountsBounded`
  rests on `CountInv`, the bounds with room for what may still be counted: slots whose attempt is
  open and not counted yet (`Pending`), and failures counted before their status has been read
  (`Failing`, from the end of the handler to `Fetched`). A lease adds an attempt row and at most
  one pending slot; a report turns a pending slot into a count; whatever status `Fetched`
  finds, it adds at most one to the retries and dead letters and ends one failing slot.
- `SubmissionProofs`, from `RequestsAssumption` (types of requests) and `IdsAssumption`
  (finitely many row ids, NULL is none of the values): `SubmitInv` says what the unique index keeps
  true of the table (`UniqueIndex`), what each call knows where it is (`CallOK`: its
  request is valid past validation, it has a key when it looks one up, and a job it was
  given, created or found, carries its queue and key), and that a row has one creator.
  `OneJobPerKey` speaks of two calls and is not inductive: the calls are related through
  the table. Rows are never given back, so what a call knows survives the steps of the
  others (`CallOKKept`). Theorems: `SubmitInvariant`, `SubmissionTypeCorrect`,
  `SameKeySameJob`, `OneCreator`, `SchemaNeverRefuses`. `SubmissionIsAtomic` is the
  refinement, `Spec => IS!Spec`: validation, `ensure_queue`, a look-up that misses and a lost
  race are stutters, and what decides a request is the INSERT, a look-up or fetch that finds
  the row, or a failure. `SubmitInv` is needed to know that a call past validation has a valid request
  and no answer yet, that an idle call holds no request, and that the rows the index has (`SameKey`) are those
  listed under the abstract entry.
- `JobApiProofs`, from the assumptions of `JobStore` and `ApiAssumption`: `ApiInv` adds
  to `StoreInv` that a call is about a job that was once submitted, which is why a missing row
  means a purged one, that only a retry reaches its second statement, and that answers are
  true (`AnswerTrue`). Answers stay true by lemma `FinalRows`, a consequence of
  `StepRows`. Theorems: `ApiInvariant`, `ApiTypeCorrect`, `ApiUsesStore` (`ApiSpec =>
  StoreSpec`), `AnswersStayTrue`.

The inductive invariants `SysInv`, `CountInv`, `SubmitInv`, `ApiInv` and `ScheduleInv` were each
checked with TLC on the instance of the corresponding run, and `LostToRetry` on the
instance of `store_dead_letter`.

- `LeaseCoverProofs`, from `SlotsAssumption`, `LengthsAssumption` and
  `PromptnessAssumption`: `LeaseOutlastsPhase` with `TypeOK` is inductive. `OneRunner` is not so alone,
  since two slots could both be on their way to run the job. The invariant says that one slot at most has
  the job from the commit of its lease to its report, and that in each phase
  `Left(t)` seconds of the lease remain at least. A phase starts with what the one before
  had left at its bound, so the lease cannot expire before the phase ends, the reaper
  cannot release the row, and no other slot gets in. The renewal is where `lease_secs`
  must cover `LeaseDelay + RenewDelay`, the report where the slack of 30 seconds must
  cover `RenewDelay + ReportDelay`. Theorems: `LeaseOutlastsEveryPhase`,
  `OneRunnerAtATime`, `ReportsFindTheirLease`. If a call is slower than that, a second worker may run
  the job while the first one does; `LostLeaseStaysLost` says what is left then.
- `WorkerRegistryProofs`, from `RegistryAssumption` and `TtlAssumption`: `RowsAreFresh` is made
  inductive by bounds on `timer` and `stopping` per state of the heartbeat task. It bounds
  the age of a live worker's row by the heartbeats that were lost, the one that is due and
  the time it has been stopping, which `TtlAssumption` keeps below `worker_ttl_secs`, so
  pruning passes the row over. Theorems: `RowsStayFresh`, `LiveWorkersStayListed`.

- `RetryScheduleProofs`, from `ScheduleAssumption` (the numbers a caller may send stay below
  `2^ExpCap`, as i32 columns do below the guard's `2^32`; percentages are 0 to 100). Two
  things the provers lack are built first. Induction: the library's theorems take an
  operator the provers cannot instantiate, but its `WFMin` and `NatLessThanWellFounded` do
  not, and give that a set of numbers has a least element (`LeastNumber`) and from it
  `Induction` over a set. Powers of two: `2^n` is the number of subsets of `1 .. n`
  (`FS_SUBSET`), a bijection between the subsets with and without `n + 1` gives
  `2^(n+1) = 2 * 2^n` (`PowerDoubles`), induction that they grow. Then the
  recursive function `Doubling` equals the closed form `Capped`: the closed form satisfies the
  recursion, so the function exists, and induction shows there is one only
  (`DoublingIsCapped`). `GuardNeverShows` is where the range of the columns is needed. `ScheduleInv`
  says that the row holds a policy and the delay is the closed form at the attempts made.
  Theorems: `CopiesAgree` (the Rust and the SQL formula, for every policy and attempt),
  `DelaysDouble`, `DelayWithinPolicy`, `DelaysGrow`, `JitterBounded`.

Only model-checked: the liveness properties (the prover has no ENABLED and no fairness).
Every invariant and every action property a passing run checks, and both refinements, are
proved. `FollowsTransitionTable`, `CompletedByLastAttempt` and,
with operators, `DeadLetterRecorded` are false (section 6).

## 5. Plan

Done: the status machine, the store with its abstract specification, backoff, the worker
runtime and the composed system with its counters, submission, the timed model of the
leases, the worker registry, the API process with its event streams; the proofs of
section 4, refinements of the two abstract specifications included.

Left, should the code change there: heartbeats and leases are timed in two separate models,
which share no clock, and the queue depth gauge is not modelled.

## 6. Findings

- `store_transition_table`: jobs are dead-lettered straight from `processing`, and
  `retry_job` takes a dead-lettered (terminal) or failed job back to `queued`; neither
  edge is in `can_transition_to`, which the documentation calls authoritative. The edges the
  statements do take are listed in `StatusEdges` and proved.
- `store_dead_letter`: `retry_job` deletes the dead-letter row in a statement after its
  UPDATE. If the job is leased and dead-lettered again in between, the row of the new
  failure is deleted.
- `store_attempt_history`: a sweep puts a job back in one statement and closes its attempt
  row in a later one. If the job is leased again and completed in between, `complete_job`
  closes every running row of the job as succeeded, the abandoned attempt's with its own.

Observed, without a run:

- `cancel_job` leaves the attempt row of a running job at `running`; the worker's report
  is refused, and nothing closes the row, although `model.rs:201` gives the status of an
  attempt as `succeeded`, `failed` or `timeout`.
- the header of `backoff.rs` says the reaper calls `delay_for_attempt`; it computes the delay
  again in SQL, with equal results (`retry_schedule`).
- in the same window the new attempt may also be closed as a timeout: if the sweep's last
  statement (`storage/src/lib.rs:707`) comes after the new lease and before its report, it closes the
  running row of the new attempt, and the job is completed without a succeeded attempt.
- the lease fence is the worker id only: if a second slot of a worker leases a job that
  the first slot has lost, the late report of the first slot passes the fence and ends the new
  attempt. `LostLeaseStaysLost` shows that there is no other way, and `OneRunner` that it
  takes a call slower than the leases allow for. No document of the repository says which of a
  worker's slots a lease belongs to.
- one dead-lettering can be counted twice in `djq_jobs_dead_lettered_total`, described as
  "Jobs sent to the DLQ" (`telemetry/src/lib.rs:94`): the first attempt's
  `fail_job` commits `retrying`, its SELECT is delayed, the job is leased again and
  dead-lettered, and both reports then read `dead_lettered` (TLC finds this if
  `CountsAreBounded` is asked for at most one count per job). The retry is not counted then,
  which is why retries and dead letters together stay within the failures.
- `delay_secs` has no upper limit: a delay that leaves the range of dates panics in
  `NewJob::normalized` (`core/src/model.rs:164`) instead of being refused as invalid.
- a refused cancel or retry is explained by a second SELECT, so the message "operation not
  permitted while job is ..." can name a status that permits it.
- an event stream answers any storage error with "job not found", and a stream that is open when
  the API is stopped keeps the process, without maintenance, for up to ten minutes.
- with the default settings two heartbeats lost before a shutdown that uses its whole grace leave no
  margin: any further delay, and a worker that still drains can be pruned; nothing but the
  list of workers and its gauge depends on it.

## 7. Not modelled

The `queue_depth` gauge, the duration histogram and `jobs_timed_out` apart from
`jobs_failed`: copies and sums of what is modelled. Read-only methods change nothing. Routing, listing, configuration, row conversion and telemetry are stateless
glue or output. Payloads, results, error texts, metadata and correlation ids are carried
through and read by no decision. Handlers are any outcome. The database is taken at its
word: READ COMMITTED row locks and atomic commits are the model's primitives, its
storage failures are rollbacks.
