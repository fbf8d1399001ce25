------------------------------- MODULE JobStore -------------------------------
(***************************************************************************)
(* PgStore, the PostgreSQL implementation of the Store trait               *)
(* (crates/storage/src/lib.rs), under its most general client: any slot of *)
(* any worker, any operator and any reaper may call any method at any      *)
(* time.                                                                   *)
(*                                                                         *)
(* Granularity.  A statement run on the pool commits by itself and is one  *)
(* action.  A method that runs several such statements (retry_job,         *)
(* recover_expired_leases) is one action per statement, so that other      *)
(* callers get in between and any statement may fail.  A method that opens *)
(* a transaction (lease_next, complete_job, fail_job) is two actions: the  *)
(* first statement, which takes the row lock, and the commit, which makes  *)
(* all its writes visible; in between the others see the old row, wait for *)
(* the lock, or pass the row over if they say SKIP LOCKED.                 *)
(*                                                                         *)
(* Time.  run_at and lease_expires_at are kept relative to now(), counted  *)
(* in ticks: a row is due when run_at <= 0, a lease has expired when       *)
(* lease_expires_at < 0.  Tick ages both, down to a floor.                 *)
(*                                                                         *)
(* The columns a caller sets once at submission (queue, priority,          *)
(* max_attempts, dead_letter, the backoff policy) are constant functions   *)
(* of the job id.                                                          *)
(***************************************************************************)
EXTENDS JobStatus, Integers, Sequences, FiniteSets

CONSTANTS
    JobIds,        \* ids gen_random_uuid() may produce
    Queues,        \* queue names
    Workers,       \* worker process ids
    Tasks,         \* concurrency slots of all workers
    Operators,     \* concurrent API calls of retry_job
    Reapers,       \* maintenance loops
    NULL,          \* SQL NULL
    QueueOf, Priority, MaxAttempts, DeadLetter,   \* columns, by job id
    Delay,         \* Delay[j][n]: backoff after attempt n of job j
    WorkerOf,      \* the worker a slot belongs to
    Serves,        \* the queues a worker pulls from
    SubmitDelays,  \* run_at - now of a submission
    LeaseSecs,     \* lease_secs of lease_next
    CoverSecs,     \* lease_secs of renew_lease
    RecoverBatch,  \* limit of recover_expired_leases
    TxAge,         \* bound: ticks between BEGIN, which fixes now(), and COMMIT
    AgeCap,        \* bound: how far past its run_at a row is told apart
    MaxRows        \* bound: attempt rows per job, limits operator retries

ASSUME SetsAssumption ==
    /\ NULL \notin JobIds \cup Workers \cup Int
    /\ RecoverBatch \in Nat \ {0}
    /\ IsFiniteSet(JobIds)

ASSUME ColumnsAssumption ==
    /\ QueueOf \in [JobIds -> Queues]
    /\ Priority \in [JobIds -> Int]
    /\ MaxAttempts \in [JobIds -> Nat \ {0}]
    /\ DeadLetter \in [JobIds -> BOOLEAN]
    /\ \A j \in JobIds : Delay[j] \in [1 .. MaxAttempts[j] -> Nat]

ASSUME CallersAssumption ==
    /\ WorkerOf \in [Tasks -> Workers]
    /\ Serves \in [Workers -> SUBSET Queues]
    /\ SubmitDelays \subseteq Int
    /\ LeaseSecs \in Nat
    /\ CoverSecs \in Nat
    /\ TxAge \in Nat
    /\ AgeCap \in Nat
    /\ MaxRows \in Nat

VARIABLES
    jobs,      \* table jobs
    history,   \* table job_attempts, the rows of each job by id
    dlq,       \* table dead_letter_jobs, its ids
    queues,    \* table queues
    tx,        \* the open transaction of each slot, holder of a row lock
    retry,     \* retry_job calls between their UPDATE and their DELETE
    sweep      \* recover_expired_leases calls: next statement, ids recovered

storeVars == <<jobs, history, dlq, queues, tx, retry, sweep>>

-----------------------------------------------------------------------------
\* An id not generated yet has status "unborn", a deleted row "purged".
NoRow(s) == [status |-> s, attempts |-> 0, run_at |-> 0,
             locked_by |-> NULL, lease_expires_at |-> NULL]

NoTx == [op |-> "none", job |-> NULL]
NoSweep == [at |-> "retrying", recovered |-> {}]

JobRow == [status : Status \cup {"unborn", "purged"}, attempts : Nat, run_at : Int,
           locked_by : Workers \cup {NULL}, lease_expires_at : Int \cup {NULL}]
AttemptRow == [attempt : Nat, worker : Workers, status : AttemptStatus]

TypeOK ==
    /\ jobs \in [JobIds -> JobRow]
    /\ history \in [JobIds -> Seq(AttemptRow)]
    /\ dlq \in SUBSET JobIds
    /\ queues \in [Queues -> {"absent", "running", "paused"}]
    /\ tx \in [Tasks -> [op : {"none", "lease", "complete", "fail"},
                         job : JobIds \cup {NULL}]]
    /\ retry \in [Operators -> JobIds \cup {NULL}]
    /\ sweep \in [Reapers -> [at : {"retrying", "dead_lettered", "failed", "close"},
                              recovered : SUBSET JobIds]]

StoreInit ==
    /\ jobs = [j \in JobIds |-> NoRow("unborn")]
    /\ history = [j \in JobIds |-> <<>>]
    /\ dlq = {}
    /\ queues = [q \in Queues |-> "absent"]
    /\ tx = [t \in Tasks |-> NoTx]
    /\ retry = [o \in Operators |-> NULL]
    /\ sweep = [r \in Reapers |-> NoSweep]

-----------------------------------------------------------------------------
(* Helpers: what the statements have in common.                            *)

Exists(j) == jobs[j].status \in Status

\* Mutant: nobody takes row locks.
Locked_Never(j) == FALSE

Locked(j) == \E t \in Tasks : tx[t].job = j

\* Mutant: lease_expires_at is forgotten.
Release_KeepsDeadline(row, s) == [row EXCEPT !.status = s, !.locked_by = NULL]

\* The SET list shared by every statement that takes a job away from a worker.
Release(row, s) ==
    [row EXCEPT !.status = s, !.locked_by = NULL, !.lease_expires_at = NULL]

\* Mutant: the WHERE clause names the job only.
CloseRunning_All(rows, s) == [i \in DOMAIN rows |-> [rows[i] EXCEPT !.status = s]]

\* UPDATE job_attempts SET status = s WHERE status = 'running'
CloseRunning(rows, s) ==
    [i \in DOMAIN rows |->
        IF rows[i].status = "running" THEN [rows[i] EXCEPT !.status = s] ELSE rows[i]]

\* Mutant: off by one.
Exhausted_OffByOne(j) == jobs[j].attempts > MaxAttempts[j]

Exhausted(j) == jobs[j].attempts >= MaxAttempts[j]

\* Mutant: any worker may report.
HoldsLease_AnyWorker(t, j) == jobs[j].status = "processing"

\* The lease-bound WHERE clause: locked_by = $2 AND status = 'processing'.
HoldsLease(t, j) ==
    jobs[j].status = "processing" /\ jobs[j].locked_by = WorkerOf[t]

\* Mutant: the reaper's SELECT does not lock.
Expired_Unlocked(j) ==
    /\ jobs[j].status = "processing"
    /\ jobs[j].lease_expires_at # NULL
    /\ jobs[j].lease_expires_at < 0

\* status = 'processing' AND lease_expires_at < now(), rows locked by others skipped.
Expired(j) ==
    /\ jobs[j].status = "processing"
    /\ jobs[j].lease_expires_at # NULL
    /\ jobs[j].lease_expires_at < 0
    /\ ~Locked(j)

\* ORDER BY ... LIMIT $1 over a set of rows whose order the model does not keep.
Batch(S) ==
    {B \in SUBSET S : \/ Cardinality(B) = RecoverBatch
                      \/ B = S /\ Cardinality(S) < RecoverBatch}

-----------------------------------------------------------------------------
(* Queues and submission.                                                  *)

EnsureQueue(q) ==
    /\ queues[q] = "absent"
    /\ queues' = [queues EXCEPT ![q] = "running"]
    /\ UNCHANGED <<jobs, history, dlq, tx, retry, sweep>>

SetQueuePaused(q, paused) ==
    /\ queues[q] # "absent"
    /\ queues' = [queues EXCEPT ![q] = IF paused THEN "paused" ELSE "running"]
    /\ UNCHANGED <<jobs, history, dlq, tx, retry, sweep>>

\* The INSERT of submit; the queue was ensured before it and is never deleted.
Submit(j, d) ==
    /\ jobs[j].status = "unborn"
    /\ queues[QueueOf[j]] # "absent"
    /\ jobs' = [jobs EXCEPT ![j] =
                  [NoRow(IF d > 0 THEN "scheduled" ELSE "queued") EXCEPT !.run_at = d]]
    /\ UNCHANGED <<history, dlq, queues, tx, retry, sweep>>

-----------------------------------------------------------------------------
(* lease_next, renew_lease, complete_job, fail_job.                        *)

Leaseable(w, j) ==
    /\ QueueOf[j] \in Serves[w]
    /\ queues[QueueOf[j]] = "running"
    /\ is_leaseable(jobs[j].status)
    /\ jobs[j].run_at <= 0

\* ORDER BY priority DESC, run_at ASC; rows that tie are taken in any order.
Precedes(i, j) ==
    \/ Priority[i] > Priority[j]
    \/ Priority[i] = Priority[j] /\ jobs[i].run_at < jobs[j].run_at

\* UPDATE jobs ... WHERE id = (SELECT ... FOR UPDATE OF j SKIP LOCKED LIMIT 1)
LeaseUpdate(t) ==
    /\ tx[t] = NoTx
    /\ \E j \in JobIds :
         /\ Leaseable(WorkerOf[t], j)
         /\ ~Locked(j)
         /\ \A i \in JobIds :
              Leaseable(WorkerOf[t], i) /\ ~Locked(i) => ~Precedes(i, j)
         /\ tx' = [tx EXCEPT ![t] = [op |-> "lease", job |-> j]]
    /\ UNCHANGED <<jobs, history, dlq, queues, retry, sweep>>

\* Mutants: the attempt row is bound to the count before the UPDATE; no deadline is set.
LeaseCommit_OldCount(t, e) ==
    LET j == tx[t].job
    IN  /\ tx[t].op = "lease"
        /\ jobs' = [jobs EXCEPT ![j] = [@ EXCEPT !.status = "processing",
                                                 !.locked_by = WorkerOf[t],
                                                 !.lease_expires_at = LeaseSecs - e,
                                                 !.attempts = @ + 1]]
        /\ history' = [history EXCEPT
                         ![j] = Append(@, [attempt |-> jobs[j].attempts, worker |-> WorkerOf[t],
                                           status |-> "running"])]
        /\ tx' = [tx EXCEPT ![t] = NoTx]
        /\ UNCHANGED <<dlq, queues, retry, sweep>>

LeaseCommit_NoDeadline(t, e) ==
    LET j == tx[t].job
    IN  /\ tx[t].op = "lease"
        /\ jobs' = [jobs EXCEPT ![j] = [@ EXCEPT !.status = "processing",
                                                 !.locked_by = WorkerOf[t],
                                                 !.attempts = @ + 1]]
        /\ tx' = [tx EXCEPT ![t] = NoTx]
        /\ UNCHANGED <<history, dlq, queues, retry, sweep>>

\* INSERT INTO job_attempts ... and COMMIT, e ticks after the transaction began.
LeaseCommit(t, e) ==
    LET j == tx[t].job
        n == jobs[j].attempts + 1
        w == WorkerOf[t]
    IN  /\ tx[t].op = "lease"
        /\ jobs' = [jobs EXCEPT ![j] = [@ EXCEPT !.status = "processing",
                                                 !.locked_by = w,
                                                 !.lease_expires_at = LeaseSecs - e,
                                                 !.attempts = n]]
        /\ history' = [history EXCEPT
                         ![j] = Append(@, [attempt |-> n, worker |-> w, status |-> "running"])]
        /\ tx' = [tx EXCEPT ![t] = NoTx]
        /\ UNCHANGED <<dlq, queues, retry, sweep>>

\* A statement or COMMIT fails, a WHERE matched no row, or the calls are dropped with
\* their process: the transactions of these slots leave no trace.
Rollback(T) ==
    /\ tx' = [t \in Tasks |-> IF t \in T THEN NoTx ELSE tx[t]]
    /\ UNCHANGED <<jobs, history, dlq, queues, retry, sweep>>

RenewLease(t, j, e) ==
    /\ ~Locked(j)
    /\ HoldsLease(t, j)
    /\ jobs' = [jobs EXCEPT ![j].lease_expires_at = CoverSecs - e]
    /\ UNCHANGED <<history, dlq, queues, tx, retry, sweep>>

\* UPDATE jobs SET status = 'completed' ... WHERE the lease is held.
CompleteUpdate(t, j) ==
    /\ tx[t] = NoTx
    /\ ~Locked(j)
    /\ HoldsLease(t, j)
    /\ tx' = [tx EXCEPT ![t] = [op |-> "complete", job |-> j]]
    /\ UNCHANGED <<jobs, history, dlq, queues, retry, sweep>>

\* Mutant: the job's word for success is written to the attempt row.
CompleteCommit_WrongWord(t) ==
    LET j == tx[t].job
    IN  /\ tx[t].op = "complete"
        /\ jobs' = [jobs EXCEPT ![j] = Release(@, "completed")]
        /\ history' = [history EXCEPT ![j] = CloseRunning(@, "completed")]
        /\ tx' = [tx EXCEPT ![t] = NoTx]
        /\ UNCHANGED <<dlq, queues, retry, sweep>>

\* Mutant: only the row of the attempt that succeeded is closed.
CompleteCommit_OwnRow(t) ==
    LET j == tx[t].job
    IN  /\ tx[t].op = "complete"
        /\ jobs' = [jobs EXCEPT ![j] = Release(@, "completed")]
        /\ history' = [history EXCEPT ![j][Len(history[j])].status = "succeeded"]
        /\ tx' = [tx EXCEPT ![t] = NoTx]
        /\ UNCHANGED <<dlq, queues, retry, sweep>>

CompleteCommit(t) ==
    LET j == tx[t].job
    IN  /\ tx[t].op = "complete"
        /\ jobs' = [jobs EXCEPT ![j] = Release(@, "completed")]
        /\ history' = [history EXCEPT ![j] = CloseRunning(@, "succeeded")]
        /\ tx' = [tx EXCEPT ![t] = NoTx]
        /\ UNCHANGED <<dlq, queues, retry, sweep>>

\* SELECT ... FOR UPDATE locks the row whatever its status.
FailSelect(t, j) ==
    /\ tx[t] = NoTx
    /\ Exists(j)
    /\ ~Locked(j)
    /\ tx' = [tx EXCEPT ![t] = [op |-> "fail", job |-> j]]
    /\ UNCHANGED <<jobs, history, dlq, queues, retry, sweep>>

\* Mutant: the dead_letter flag is not looked at.
AfterFailure_IgnoresFlag(j, e) ==
    IF Exhausted(j) THEN Release(jobs[j], "dead_lettered")
    ELSE [Release(jobs[j], "retrying") EXCEPT !.run_at = Delay[j][jobs[j].attempts] - e]

\* Where the decision of fail_job sends the job, e ticks after BEGIN.
AfterFailure(j, e) ==
    CASE Exhausted(j) /\ DeadLetter[j]  -> Release(jobs[j], "dead_lettered")
      [] Exhausted(j) /\ ~DeadLetter[j] -> Release(jobs[j], "failed")
      [] OTHER -> [Release(jobs[j], "retrying") EXCEPT
                      !.run_at = Delay[j][jobs[j].attempts] - e]

\* The rest of fail_job; when the lease is not held it is a Rollback instead.
FailCommit(t, timed_out, e) ==
    LET j == tx[t].job
    IN  /\ tx[t].op = "fail"
        /\ HoldsLease(t, j)
        /\ jobs' = [jobs EXCEPT ![j] = AfterFailure(j, e)]
        /\ dlq' = IF Exhausted(j) /\ DeadLetter[j] THEN dlq \cup {j} ELSE dlq
        /\ history' = [history EXCEPT
                         ![j] = CloseRunning(@, IF timed_out THEN "timeout" ELSE "failed")]
        /\ tx' = [tx EXCEPT ![t] = NoTx]
        /\ UNCHANGED <<queues, retry, sweep>>

-----------------------------------------------------------------------------
(* Operator actions: cancel_job, retry_job, purge_finished.                *)

CancelJob(j) ==
    /\ ~Locked(j)
    /\ is_cancellable(jobs[j].status)
    /\ jobs' = [jobs EXCEPT ![j] = Release(@, "cancelled")]
    /\ UNCHANGED <<history, dlq, queues, tx, retry, sweep>>

\* Mutant: completed jobs can be run again.
Retryable_Completed == {"failed", "dead_lettered", "completed"}

Retryable == {"failed", "dead_lettered"}

\* Mutant: the attempts already used are kept.
RetryUpdate_KeepsCount(o, j) ==
    /\ retry[o] = NULL
    /\ ~Locked(j)
    /\ jobs[j].status \in Retryable
    /\ Len(history[j]) + MaxAttempts[j] <= MaxRows
    /\ jobs' = [jobs EXCEPT ![j] = [Release(@, "queued") EXCEPT !.run_at = 0]]
    /\ retry' = [retry EXCEPT ![o] = j]
    /\ UNCHANGED <<history, dlq, queues, tx, sweep>>

RetryUpdate(o, j) ==
    /\ retry[o] = NULL
    /\ ~Locked(j)
    /\ jobs[j].status \in Retryable
    /\ Len(history[j]) + MaxAttempts[j] <= MaxRows
    /\ jobs' = [jobs EXCEPT ![j] = [Release(@, "queued") EXCEPT !.run_at = 0, !.attempts = 0]]
    /\ retry' = [retry EXCEPT ![o] = j]
    /\ UNCHANGED <<history, dlq, queues, tx, sweep>>

\* DELETE FROM dead_letter_jobs, a statement of its own after the UPDATE.
RetryDelete(o) ==
    /\ retry[o] # NULL
    /\ dlq' = dlq \ {retry[o]}
    /\ retry' = [retry EXCEPT ![o] = NULL]
    /\ UNCHANGED <<jobs, history, queues, tx, sweep>>

\* The DELETE fails, or the API process dies before it.
RetryAbort(o) ==
    /\ retry[o] # NULL
    /\ retry' = [retry EXCEPT ![o] = NULL]
    /\ UNCHANGED <<jobs, history, dlq, queues, tx, sweep>>

\* The rows older than the caller's cutoff; job_attempts rows go by ON DELETE CASCADE.
PurgeFinished(S) ==
    /\ S # {}
    /\ \A j \in S : jobs[j].status \in {"completed", "cancelled"} /\ ~Locked(j)
    /\ jobs' = [j \in JobIds |-> IF j \in S THEN NoRow("purged") ELSE jobs[j]]
    /\ history' = [j \in JobIds |-> IF j \in S THEN <<>> ELSE history[j]]
    /\ UNCHANGED <<dlq, queues, tx, retry, sweep>>

-----------------------------------------------------------------------------
(* recover_expired_leases: three UPDATEs, then the attempt rows.           *)

\* The statement r is about to run handles the rows S and moves on to the next.
Recovering(r, S, next) ==
    sweep' = [sweep EXCEPT ![r] = [at |-> next, recovered |-> @.recovered \cup S]]

RecoverRetrying(r) ==
    /\ sweep[r].at = "retrying"
    /\ \E S \in Batch({j \in JobIds : Expired(j) /\ ~Exhausted(j)}) :
         /\ jobs' = [j \in JobIds |->
                       IF j \in S
                       THEN [Release(jobs[j], "retrying") EXCEPT
                               !.run_at = Delay[j][jobs[j].attempts]]
                       ELSE jobs[j]]
         /\ Recovering(r, S, "dead_lettered")
    /\ UNCHANGED <<history, dlq, queues, tx, retry>>

RecoverDeadLettered(r) ==
    /\ sweep[r].at = "dead_lettered"
    /\ \E S \in Batch({j \in JobIds : Expired(j) /\ Exhausted(j) /\ DeadLetter[j]}) :
         /\ jobs' = [j \in JobIds |->
                       IF j \in S THEN Release(jobs[j], "dead_lettered") ELSE jobs[j]]
         /\ dlq' = dlq \cup S
         /\ Recovering(r, S, "failed")
    /\ UNCHANGED <<history, queues, tx, retry>>

RecoverFailed(r) ==
    /\ sweep[r].at = "failed"
    /\ \E S \in Batch({j \in JobIds : Expired(j) /\ Exhausted(j) /\ ~DeadLetter[j]}) :
         /\ jobs' = [j \in JobIds |->
                       IF j \in S THEN Release(jobs[j], "failed") ELSE jobs[j]]
         /\ Recovering(r, S, "close")
    /\ UNCHANGED <<history, dlq, queues, tx, retry>>

RecoverClose(r) ==
    /\ sweep[r].at = "close"
    /\ history' = [j \in JobIds |->
                     IF j \in sweep[r].recovered
                     THEN CloseRunning(history[j], "timeout") ELSE history[j]]
    /\ sweep' = [sweep EXCEPT ![r] = NoSweep]
    /\ UNCHANGED <<jobs, dlq, queues, tx, retry>>

\* A statement fails and `?` returns early, or the process dies: the ids are lost.
RecoverAbort(r) ==
    /\ sweep[r] # NoSweep
    /\ sweep' = [sweep EXCEPT ![r] = NoSweep]
    /\ UNCHANGED <<jobs, history, dlq, queues, tx, retry>>

-----------------------------------------------------------------------------
(* Time.                                                                   *)

Elapse(x, floor) == IF x > floor THEN x - 1 ELSE x

\* Only columns some WHERE clause still reads are aged.
Aged(row) ==
    [row EXCEPT
        !.run_at = IF is_leaseable(row.status) THEN Elapse(@, -AgeCap) ELSE @,
        !.lease_expires_at = IF @ = NULL THEN NULL ELSE Elapse(@, -1)]

Tick ==
    /\ jobs' = [j \in JobIds |-> Aged(jobs[j])]
    /\ UNCHANGED <<history, dlq, queues, tx, retry, sweep>>

-----------------------------------------------------------------------------
QueueStep == \E q \in Queues :
    \/ EnsureQueue(q)
    \/ \E paused \in BOOLEAN : SetQueuePaused(q, paused)

OperatorStep ==
    \/ \E j \in JobIds, d \in SubmitDelays : Submit(j, d)
    \/ \E j \in JobIds : CancelJob(j)
    \/ \E o \in Operators : RetryDelete(o) \/ RetryAbort(o)
    \/ \E o \in Operators, j \in JobIds : RetryUpdate(o, j)
    \/ \E S \in SUBSET JobIds : PurgeFinished(S)

TaskStep(t) ==
    \/ LeaseUpdate(t)
    \/ CompleteCommit(t)
    \/ \E e \in 0 .. TxAge : LeaseCommit(t, e)
    \/ \E e \in 0 .. TxAge, timed_out \in BOOLEAN : FailCommit(t, timed_out, e)
    \/ \E j \in JobIds : CompleteUpdate(t, j) \/ FailSelect(t, j)
    \/ \E j \in JobIds, e \in 0 .. TxAge : RenewLease(t, j, e)

OpenTx == {t \in Tasks : tx[t] # NoTx}

ReaperStep(r) ==
    \/ RecoverRetrying(r)
    \/ RecoverDeadLettered(r)
    \/ RecoverFailed(r)
    \/ RecoverClose(r)
    \/ RecoverAbort(r)

StoreNext ==
    \/ QueueStep
    \/ OperatorStep
    \/ \E t \in Tasks : TaskStep(t)
    \/ \E T \in SUBSET OpenTx : Rollback(T)
    \/ \E r \in Reapers : ReaperStep(r)
    \/ Tick

StoreSpec == StoreInit /\ [][StoreNext]_storeVars

-----------------------------------------------------------------------------
(* What the store promises.                                                *)

\* A row carries a worker and a deadline exactly while it is processing.  Every
\* statement that moves a job must set or clear all three columns together; a
\* processing row without a deadline would never be found by the reaper.
LeaseFields == \A j \in JobIds :
    LET row == jobs[j]
    IN  /\ (row.status = "processing") <=> (row.locked_by # NULL)
        /\ (row.locked_by # NULL) <=> (row.lease_expires_at # NULL)

\* No job is executed more often than max_attempts per submission or operator
\* retry, although lease_next never looks at the budget: whoever puts a job back
\* to a leaseable status has checked it.
AttemptsWithinBudget == \A j \in JobIds :
    /\ jobs[j].attempts <= MaxAttempts[j]
    /\ is_leaseable(jobs[j].status) => jobs[j].attempts < MaxAttempts[j]
    /\ jobs[j].status = "processing" => jobs[j].attempts > 0

\* What a transaction read is still true when it commits: its row is nobody else's,
\* a row picked by lease_next is still leaseable, a row complete_job has updated is
\* still leased to the same worker, a row fail_job has read still exists.
TransactionsHoldRows ==
    /\ \A t \in Tasks : tx[t].op = "none" <=> tx[t].job = NULL
    /\ \A t, u \in Tasks : tx[t].job = tx[u].job /\ tx[t].job # NULL => t = u
    /\ \A t \in Tasks :
         /\ tx[t].op = "lease" => is_leaseable(jobs[tx[t].job].status)
         /\ tx[t].op = "complete" => HoldsLease(t, tx[t].job)
         /\ tx[t].op = "fail" => Exists(tx[t].job)

\* The attempts column and the attempt rows never drift apart: the newest rows of
\* a job are its attempts 1, 2, ..., attempts, and the newest of all belongs to
\* the worker that holds the lease.
AttemptLog == \A j \in JobIds :
    LET rows == history[j]
        n == jobs[j].attempts
    IN  /\ n <= Len(rows)
        /\ \A k \in 1 .. n : rows[Len(rows) - n + k].attempt = k
        /\ jobs[j].status = "processing" =>
              n > 0 /\ rows[Len(rows)].worker = jobs[j].locked_by

\* An attempt row says 'succeeded' only if its job is completed: complete_job
\* writes both or neither, and nothing brings a completed job back.
SucceededMeansCompleted == \A j \in JobIds :
    (\E i \in DOMAIN history[j] : history[j][i].status = "succeeded")
        => jobs[j].status = "completed"

\* A completed job leaves no attempt open: rows of earlier attempts whose sweep failed
\* before it closed them stay 'running', and complete_job closes those too.
CompletedLeavesNoneRunning == \A j \in JobIds :
    jobs[j].status = "completed" =>
        \A i \in DOMAIN history[j] : history[j][i].status # "running"

\* A dead-lettered job is listed in dead_letter_jobs (ARCHITECTURE.md: the status
\* comes with "+ dead_letter_jobs row"), and a job that opted out never is.
DeadLetterRecorded == \A j \in JobIds :
    /\ jobs[j].status = "dead_lettered" => j \in dlq
    /\ j \in dlq => DeadLetter[j]

\* A completed job has one succeeded attempt and it is the last one
\* (reliability.rs: "Attempt history records one succeeded attempt").
CompletedByLastAttempt == \A j \in JobIds :
    jobs[j].status = "completed" =>
        {i \in DOMAIN history[j] : history[j][i].status = "succeeded"} = {Len(history[j])}

\* A lease goes from one worker to another only through an unleased row: no step
\* replaces the holder, and none starts a new attempt under the old holder.
NoLeaseStealing == [][\A j \in JobIds :
    jobs[j].locked_by # NULL /\ jobs'[j].locked_by # NULL =>
        /\ jobs'[j].locked_by = jobs[j].locked_by
        /\ jobs'[j].attempts = jobs[j].attempts]_storeVars

\* While its lease has not expired a job leaves 'processing' only by an operator's
\* cancel or by a transaction of the very worker that holds the lease.
LiveLeaseRespected == [][\A j \in JobIds :
    /\ jobs[j].status = "processing"
    /\ jobs[j].lease_expires_at >= 0
    /\ jobs'[j].status # "processing"
    => \/ jobs'[j].status = "cancelled"
       \/ \E t \in Tasks : /\ tx[t].job = j
                           /\ tx'[t] = NoTx
                           /\ WorkerOf[t] = jobs[j].locked_by]_storeVars

\* Completed and cancelled jobs are final: they can only be purged, and their
\* attempt counter no longer moves.
FinishedIsFinal == [][\A j \in JobIds :
    jobs[j].status \in {"completed", "cancelled", "purged"} =>
        \/ jobs'[j].status = "purged"
        \/ jobs'[j] = jobs[j]]_storeVars

\* The recorded outcome of an attempt is final: a sweep that closes rows late, from ids it
\* collected earlier, or a report of a later attempt never rewrites a row that is closed.
\* Rows go only with their purged job.
OutcomesAreFinal == [][\A j \in JobIds : \A i \in DOMAIN history[j] :
    history[j][i].status # "running" =>
        \/ jobs'[j].status = "purged"
        \/ i \in DOMAIN history'[j] /\ history'[j][i] = history[j][i]]_storeVars

\* The status edges the statements really take.
StatusEdges ==
    ({"queued", "scheduled", "retrying"} \X {"processing", "cancelled"})
        \cup ({"processing"} \X {"completed", "failed", "retrying",
                                 "cancelled", "dead_lettered"})
        \cup ({"failed", "dead_lettered"} \X {"queued"})

Moves(j) == Exists(j) /\ jobs'[j].status \in Status /\ jobs'[j].status # jobs[j].status

\* Every change of status is one of those edges, whatever callers interleave.
FollowsStatusEdges == [][\A j \in JobIds :
    Moves(j) => <<jobs[j].status, jobs'[j].status>> \in StatusEdges]_storeVars

\* status.rs: "jobs only ever move between states along the edges encoded in
\* can_transition_to".
FollowsTransitionTable == [][\A j \in JobIds :
    Moves(j) => can_transition_to(jobs[j].status, jobs'[j].status)]_storeVars

-----------------------------------------------------------------------------
(* The store implements LeaseQueue.                                        *)

PhaseOf(s) ==
    CASE s = "unborn"                        -> "absent"
      [] is_leaseable(s)                     -> "waiting"
      [] s = "processing"                    -> "held"
      [] s \in {"failed", "dead_lettered"}   -> "parked"
      [] s \in {"completed", "cancelled"}    -> s
      [] s = "purged"                        -> "gone"

LQ == INSTANCE LeaseQueue WITH
        Nobody <- NULL,
        phase  <- [j \in JobIds |-> PhaseOf(jobs[j].status)],
        holder <- [j \in JobIds |-> jobs[j].locked_by],
        used   <- [j \in JobIds |-> jobs[j].attempts]

\* Every statement, seen through the rows it leaves behind, is one operation of the
\* lease queue or invisible: open transactions, half-done retries and sweeps never
\* show a job held twice, out of budget, or back from the finished.
ImplementsLeaseQueue == LQ!Spec
=============================================================================
