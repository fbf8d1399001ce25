---------------------------- MODULE JobStoreProofs ----------------------------
(***************************************************************************)
(* Proofs about JobStore, for every set of jobs, workers, slots, operators *)
(* and reapers and every value of the columns and bounds.                  *)
(*                                                                         *)
(* The inductive invariant is StoreInv.  None of its parts is inductive by *)
(* itself: lease_next never looks at the budget or at the previous holder  *)
(* when it commits, so the budget and the lease columns need to know that  *)
(* the row of an open transaction is still as its first statement left it, *)
(* and that in turn needs the row locks to be exclusive.                   *)
(***************************************************************************)
EXTENDS JobStore, TLAPS

StoreInv == TypeOK /\ LeaseFields /\ AttemptsWithinBudget /\ TransactionsHoldRows

\* The part of the invariant that is about one row.
RowOK(j, row) ==
    /\ (row.status = "processing") <=> (row.locked_by # NULL)
    /\ (row.locked_by # NULL) <=> (row.lease_expires_at # NULL)
    /\ row.attempts <= MaxAttempts[j]
    /\ is_leaseable(row.status) => row.attempts < MaxAttempts[j]
    /\ row.status = "processing" => row.attempts > 0

\* What a transaction relies on in its row.
SameHold(old, new) == old.status = new.status /\ old.locked_by = new.locked_by

-----------------------------------------------------------------------------
(* Lemmas about rows.                                                      *)

\* Release clears the lease columns and leaves the counter and run_at alone.
LEMMA ReleaseRow ==
    ASSUME NEW row \in JobRow, NEW s \in Status
    PROVE  /\ Release(row, s) \in JobRow
           /\ Release(row, s).status = s
           /\ Release(row, s).locked_by = NULL
           /\ Release(row, s).lease_expires_at = NULL
           /\ Release(row, s).attempts = row.attempts
           /\ Release(row, s).run_at = row.run_at
  BY DEF Release, JobRow

\* Time changes neither who holds a row nor whether it has a deadline.
LEMMA AgedRow ==
    ASSUME NEW row \in JobRow
    PROVE  /\ Aged(row) \in JobRow
           /\ Aged(row).status = row.status
           /\ Aged(row).locked_by = row.locked_by
           /\ Aged(row).attempts = row.attempts
           /\ (Aged(row).lease_expires_at = NULL) <=> (row.lease_expires_at = NULL)
<1>1. /\ AgeCap \in Nat
      /\ NULL \notin Int
  BY SetsAssumption, CallersAssumption
<1>2. row.run_at \in Int /\ row.lease_expires_at \in Int \cup {NULL}
  BY DEF JobRow
<1>3. (IF is_leaseable(row.status) THEN Elapse(row.run_at, -AgeCap) ELSE row.run_at) \in Int
  BY <1>1, <1>2 DEF Elapse
<1>4. /\ (IF row.lease_expires_at = NULL THEN NULL ELSE Elapse(row.lease_expires_at, -1))
           \in Int \cup {NULL}
      /\ (IF row.lease_expires_at = NULL THEN NULL ELSE Elapse(row.lease_expires_at, -1))
           = NULL <=> row.lease_expires_at = NULL
  BY <1>1, <1>2 DEF Elapse
<1> QED
  BY <1>3, <1>4 DEF Aged, JobRow

\* The lease columns and the budget, read row by row.
LEMMA RowByRow ==
    (LeaseFields /\ AttemptsWithinBudget) <=> (\A j \in JobIds : RowOK(j, jobs[j]))
  BY DEF LeaseFields, AttemptsWithinBudget, RowOK

\* Open transactions survive any step that leaves the locked rows alone.
LEMMA HoldsKept ==
    ASSUME TransactionsHoldRows, tx' = tx, TypeOK,
           \A j \in JobIds : Locked(j) => SameHold(jobs[j], jobs'[j])
    PROVE  TransactionsHoldRows'
<1>1. \A t \in Tasks : tx[t].op # "none" =>
         tx[t].job \in JobIds /\ SameHold(jobs[tx[t].job], jobs'[tx[t].job])
  BY DEF TransactionsHoldRows, TypeOK, Locked
<1> QED
  BY <1>1 DEF TransactionsHoldRows, SameHold, HoldsLease, Exists, TypeOK

\* A row that is released satisfies the invariant if a leaseable status has budget left.
LEMMA ReleasedRowOK ==
    ASSUME NEW j \in JobIds, NEW row \in JobRow, RowOK(j, row),
           NEW s \in Status \ {"processing"},
           is_leaseable(s) => row.attempts < MaxAttempts[j]
    PROVE  /\ RowOK(j, Release(row, s))
           /\ \A n \in Int : /\ [Release(row, s) EXCEPT !.run_at = n] \in JobRow
                             /\ RowOK(j, [Release(row, s) EXCEPT !.run_at = n])
<1>1. RowOK(j, Release(row, s)) /\ Release(row, s) \in JobRow
  BY ReleaseRow DEF RowOK
<1> QED
  BY <1>1 DEF RowOK, JobRow

\* A row put back in its queue with a counter below the budget.
LEMMA RequeuedRowOK ==
    ASSUME NEW j \in JobIds, NEW row \in JobRow, NEW at \in Int, NEW n \in Nat,
           n < MaxAttempts[j]
    PROVE  /\ [Release(row, "queued") EXCEPT !.run_at = at, !.attempts = n] \in JobRow
           /\ RowOK(j, [Release(row, "queued") EXCEPT !.run_at = at, !.attempts = n])
<1>1. MaxAttempts[j] \in Nat
  BY ColumnsAssumption
<1>2. /\ Release(row, "queued") \in JobRow
      /\ Release(row, "queued").status = "queued"
      /\ Release(row, "queued").locked_by = NULL
      /\ Release(row, "queued").lease_expires_at = NULL
  BY ReleaseRow DEF Status
<1> DEFINE new == [Release(row, "queued") EXCEPT !.run_at = at, !.attempts = n]
<1>3. new \in JobRow
  BY <1>2 DEF JobRow
<1>4. /\ new.attempts = n
      /\ new.status = "queued"
      /\ new.locked_by = NULL
      /\ new.lease_expires_at = NULL
  BY <1>2 DEF JobRow
<1> HIDE DEF new
<1>5. RowOK(j, new)
  BY <1>1, <1>4 DEF RowOK
<1> QED
  BY <1>3, <1>5 DEF new

\* The backoff looked up for a job that has been leased and is not exhausted.
LEMMA DelayType ==
    ASSUME NEW j \in JobIds, jobs[j] \in JobRow, RowOK(j, jobs[j]),
           jobs[j].status = "processing"
    PROVE  Delay[j][jobs[j].attempts] \in Nat
<1>1. jobs[j].attempts \in 1 .. MaxAttempts[j]
  BY ColumnsAssumption DEF RowOK, JobRow
<1> QED
  BY <1>1, ColumnsAssumption

\* Transactions lock rows that exist.
LEMMA LockedExists ==
    ASSUME TypeOK, TransactionsHoldRows, NEW j \in JobIds, Locked(j)
    PROVE  Exists(j)
<1>1. PICK t \in Tasks : tx[t].job = j
  BY DEF Locked
<1>2. tx[t].op \in {"lease", "complete", "fail"}
  BY <1>1, SetsAssumption DEF TypeOK, TransactionsHoldRows
<1> QED
  BY <1>1, <1>2 DEF TransactionsHoldRows, Exists, HoldsLease, is_leaseable, Status

-----------------------------------------------------------------------------
(* The inductive invariant.                                                *)

\* The empty database satisfies the invariant.
LEMMA InitInv == StoreInit => StoreInv
<1> SUFFICES ASSUME StoreInit PROVE StoreInv
  OBVIOUS
<1> USE SetsAssumption, ColumnsAssumption
<1>1. NoRow("unborn") \in JobRow
  BY DEF NoRow, JobRow
<1>2. TypeOK
  BY <1>1 DEF StoreInit, TypeOK, NoTx, NoSweep
<1>3. \A j \in JobIds : RowOK(j, jobs[j])
  BY DEF StoreInit, RowOK, NoRow, is_leaseable
<1>4. TransactionsHoldRows
  BY DEF StoreInit, TransactionsHoldRows, NoTx
<1> QED
  BY <1>2, <1>3, <1>4, RowByRow DEF StoreInv

\* A step that touches neither jobs nor transactions keeps the invariant if it keeps types.
LEMMA FrameInv ==
    ASSUME StoreInv, UNCHANGED <<jobs, tx>>, TypeOK'
    PROVE  StoreInv'
  BY DEF StoreInv, LeaseFields, AttemptsWithinBudget, TransactionsHoldRows, HoldsLease, Exists

\* The invariant after a step, from the rows and the transactions it leaves.
LEMMA RowsInv ==
    ASSUME TypeOK', TransactionsHoldRows', \A j \in JobIds : RowOK(j, jobs'[j])
    PROVE  StoreInv'
  BY DEF StoreInv, LeaseFields, AttemptsWithinBudget, RowOK

\* A statement that rewrites one row nobody else has locked.
LEMMA OneRowInv ==
    ASSUME StoreInv, NEW j \in JobIds, NEW row \in JobRow, RowOK(j, row), ~Locked(j),
           jobs' = [jobs EXCEPT ![j] = row],
           retry' \in [Operators -> JobIds \cup {NULL}],
           UNCHANGED <<history, dlq, queues, tx, sweep>>
    PROVE  StoreInv'
<1>1. TypeOK /\ TransactionsHoldRows /\ \A i \in JobIds : RowOK(i, jobs[i])
  BY RowByRow DEF StoreInv
<1>2. TypeOK'
  BY <1>1 DEF TypeOK
<1>3. \A i \in JobIds : RowOK(i, jobs'[i])
  BY <1>1 DEF TypeOK
<1>4. TransactionsHoldRows'
  BY <1>1, HoldsKept DEF TypeOK, SameHold
<1> QED
  BY <1>2, <1>3, <1>4, RowsInv

\* Statements on queues and submission.
LEMMA QueueStepInv == StoreInv /\ QueueStep => StoreInv'
<1> SUFFICES ASSUME StoreInv, NEW q \in Queues,
                    EnsureQueue(q) \/ \E paused \in BOOLEAN : SetQueuePaused(q, paused)
             PROVE  StoreInv'
  BY DEF QueueStep
<1>1. TypeOK' /\ UNCHANGED <<jobs, tx>>
  BY DEF StoreInv, TypeOK, EnsureQueue, SetQueuePaused
<1> QED
  BY <1>1, FrameInv

\* Statements of the API: submit, cancel_job, retry_job, purge_finished.
LEMMA OperatorStepInv == StoreInv /\ OperatorStep => StoreInv'
<1> SUFFICES ASSUME StoreInv, OperatorStep PROVE StoreInv'
  OBVIOUS
<1>0. TypeOK /\ TransactionsHoldRows /\ \A j \in JobIds : jobs[j] \in JobRow /\ RowOK(j, jobs[j])
  BY RowByRow DEF StoreInv, TypeOK
<1>1. ASSUME NEW j \in JobIds, NEW d \in SubmitDelays, Submit(j, d) PROVE StoreInv'
  <2> DEFINE row == [NoRow(IF d > 0 THEN "scheduled" ELSE "queued") EXCEPT !.run_at = d]
  <2>1. row \in JobRow /\ RowOK(j, row)
    <3>1. d \in Int
      BY CallersAssumption
    <3> QED
      BY <3>1, ColumnsAssumption DEF NoRow, JobRow, RowOK, Status, is_leaseable
  <2>2. /\ jobs' = [jobs EXCEPT ![j] = row]
        /\ retry' \in [Operators -> JobIds \cup {NULL}]
        /\ UNCHANGED <<history, dlq, queues, tx, sweep>>
    BY <1>0, <1>1 DEF Submit, TypeOK
  <2>3. ~Locked(j)
    BY <1>0, <1>1, LockedExists DEF Submit, Exists, Status
  <2> HIDE DEF row
  <2> QED
    BY <1>0, <2>1, <2>2, <2>3, OneRowInv
<1>2. ASSUME NEW j \in JobIds, CancelJob(j) PROVE StoreInv'
  <2>1. ~Locked(j) /\ Exists(j)
    BY <1>2 DEF CancelJob, Exists, is_cancellable, Status
  <2>2. Release(jobs[j], "cancelled") \in JobRow /\ RowOK(j, Release(jobs[j], "cancelled"))
    BY <1>0, ReleaseRow, ReleasedRowOK DEF Status, is_leaseable
  <2>3. /\ jobs' = [jobs EXCEPT ![j] = Release(jobs[j], "cancelled")]
        /\ retry' \in [Operators -> JobIds \cup {NULL}]
        /\ UNCHANGED <<history, dlq, queues, tx, sweep>>
    BY <1>0, <1>2 DEF CancelJob, TypeOK
  <2> QED
    BY <2>1, <2>2, <2>3, OneRowInv
<1>3. ASSUME NEW o \in Operators, NEW j \in JobIds, RetryUpdate(o, j) PROVE StoreInv'
  <2> DEFINE row == [Release(jobs[j], "queued") EXCEPT !.run_at = 0, !.attempts = 0]
  <2>1. row \in JobRow /\ RowOK(j, row)
    <3>1. 0 \in Int /\ 0 \in Nat /\ 0 < MaxAttempts[j] /\ jobs[j] \in JobRow
      BY <1>0, ColumnsAssumption
    <3> QED
      BY <3>1, RequeuedRowOK
  <2>2. /\ jobs' = [jobs EXCEPT ![j] = row]
        /\ retry' \in [Operators -> JobIds \cup {NULL}]
        /\ UNCHANGED <<history, dlq, queues, tx, sweep>>
        /\ ~Locked(j)
    BY <1>0, <1>3 DEF RetryUpdate, TypeOK
  <2> HIDE DEF row
  <2> QED
    BY <1>0, <2>1, <2>2, OneRowInv
<1>4. ASSUME NEW o \in Operators, RetryDelete(o) \/ RetryAbort(o) PROVE StoreInv'
  <2>1. TypeOK' /\ UNCHANGED <<jobs, tx>>
    BY <1>0, <1>4 DEF TypeOK, RetryDelete, RetryAbort
  <2> QED
    BY <2>1, FrameInv
<1>5. ASSUME NEW S \in SUBSET JobIds, PurgeFinished(S) PROVE StoreInv'
  <2>1. NoRow("purged") \in JobRow /\ \A j \in JobIds : RowOK(j, NoRow("purged"))
    BY ColumnsAssumption DEF NoRow, JobRow, RowOK, is_leaseable
  <2>2. /\ jobs' = [j \in JobIds |-> IF j \in S THEN NoRow("purged") ELSE jobs[j]]
        /\ \A j \in S : ~Locked(j)
        /\ history' = [j \in JobIds |-> IF j \in S THEN <<>> ELSE history[j]]
        /\ UNCHANGED <<dlq, queues, tx, retry, sweep>>
    BY <1>5 DEF PurgeFinished
  <2>3. jobs' \in [JobIds -> JobRow] /\ history' \in [JobIds -> Seq(AttemptRow)]
    BY <1>0, <2>1, <2>2 DEF TypeOK
  <2>4. TypeOK'
    BY <1>0, <2>2, <2>3 DEF TypeOK
  <2>5. \A j \in JobIds : RowOK(j, jobs'[j])
    BY <1>0, <2>1, <2>2
  <2>6. TransactionsHoldRows'
    BY <1>0, <2>2, HoldsKept DEF SameHold
  <2> QED
    BY <2>4, <2>5, <2>6, RowsInv
<1> QED
  BY <1>1, <1>2, <1>3, <1>4, <1>5 DEF OperatorStep

\* Closing attempt rows keeps them attempt rows, in number and order.
LEMMA CloseRunningType ==
    ASSUME NEW rows \in Seq(AttemptRow), NEW s \in AttemptStatus
    PROVE  CloseRunning(rows, s) \in Seq(AttemptRow)
<1>1. \A i \in 1 .. Len(rows) : rows[i] \in AttemptRow
  OBVIOUS
<1>2. \A r \in AttemptRow : [r EXCEPT !.status = s] \in AttemptRow
  BY DEF AttemptRow
<1> QED
  BY <1>1, <1>2 DEF CloseRunning

\* A first statement that takes the lock of a row and keeps its promise about it.
LEMMA OpenInv ==
    ASSUME StoreInv, NEW t \in Tasks, NEW j \in JobIds, tx[t] = NoTx, ~Locked(j),
           NEW op \in {"lease", "complete", "fail"},
           op = "lease" => is_leaseable(jobs[j].status),
           op = "complete" => HoldsLease(t, j),
           op = "fail" => Exists(j),
           tx' = [tx EXCEPT ![t] = [op |-> op, job |-> j]],
           UNCHANGED <<jobs, history, dlq, queues, retry, sweep>>
    PROVE  StoreInv'
<1>1. TypeOK /\ TransactionsHoldRows /\ \A i \in JobIds : RowOK(i, jobs[i])
  BY RowByRow DEF StoreInv
<1>2. TypeOK'
  BY <1>1 DEF TypeOK
<1>3. \A u \in Tasks : tx'[u] = IF u = t THEN [op |-> op, job |-> j] ELSE tx[u]
  BY <1>1 DEF TypeOK
<1>4. \A u \in Tasks : tx[u].job # j
  BY DEF Locked
<1>5. j # NULL
  BY SetsAssumption
<1>6. TransactionsHoldRows'
  <2>1. \A u \in Tasks : tx'[u].op = "none" <=> tx'[u].job = NULL
    BY <1>1, <1>3, <1>5 DEF TransactionsHoldRows
  <2>2. \A u, v \in Tasks : tx'[u].job = tx'[v].job /\ tx'[u].job # NULL => u = v
    BY <1>1, <1>3, <1>4 DEF TransactionsHoldRows
  <2>3. \A u \in Tasks :
          /\ tx'[u].op = "lease" => is_leaseable(jobs[tx'[u].job].status)
          /\ tx'[u].op = "complete" => HoldsLease(u, tx'[u].job)
          /\ tx'[u].op = "fail" => Exists(tx'[u].job)
    BY <1>1, <1>3 DEF TransactionsHoldRows, HoldsLease, Exists
  <2> QED
    BY <2>1, <2>2, <2>3 DEF TransactionsHoldRows, HoldsLease, Exists
<1> QED
  BY <1>1, <1>2, <1>6, RowsInv

\* A commit writes the row its transaction has locked and gives the lock back.
LEMMA CommitInv ==
    ASSUME StoreInv, NEW t \in Tasks, tx[t].op # "none",
           NEW row \in JobRow, RowOK(tx[t].job, row),
           jobs' = [jobs EXCEPT ![tx[t].job] = row],
           tx' = [tx EXCEPT ![t] = NoTx],
           history' \in [JobIds -> Seq(AttemptRow)],
           dlq' \in SUBSET JobIds,
           UNCHANGED <<queues, retry, sweep>>
    PROVE  StoreInv'
<1>1. TypeOK /\ TransactionsHoldRows /\ \A i \in JobIds : RowOK(i, jobs[i])
  BY RowByRow DEF StoreInv
<1>2. tx[t].job \in JobIds
  BY <1>1 DEF TypeOK, TransactionsHoldRows
<1>3. TypeOK'
  BY <1>1, <1>2 DEF TypeOK, NoTx
<1>4. \A i \in JobIds : RowOK(i, jobs'[i])
  BY <1>1, <1>2 DEF TypeOK
<1>5. \A u \in Tasks : tx'[u] = IF u = t THEN NoTx ELSE tx[u]
  BY <1>1 DEF TypeOK
<1>6. \A u \in Tasks \ {t} : tx[u].op # "none" =>
        tx[u].job \in JobIds /\ tx[u].job # tx[t].job /\ jobs'[tx[u].job] = jobs[tx[u].job]
  BY <1>1, <1>2 DEF TypeOK, TransactionsHoldRows
<1>7. TransactionsHoldRows'
  <2>1. \A u \in Tasks : tx'[u].op = "none" <=> tx'[u].job = NULL
    BY <1>1, <1>5 DEF TransactionsHoldRows, NoTx
  <2>2. \A u, v \in Tasks : tx'[u].job = tx'[v].job /\ tx'[u].job # NULL => u = v
    BY <1>1, <1>5 DEF TransactionsHoldRows, NoTx
  <2>3. \A u \in Tasks :
          /\ tx'[u].op = "lease" => is_leaseable(jobs'[tx'[u].job].status)
          /\ tx'[u].op = "complete" => /\ jobs'[tx'[u].job].status = "processing"
                                       /\ jobs'[tx'[u].job].locked_by = WorkerOf[u]
          /\ tx'[u].op = "fail" => jobs'[tx'[u].job].status \in Status
    BY <1>1, <1>5, <1>6 DEF TransactionsHoldRows, HoldsLease, Exists, NoTx
  <2> QED
    BY <2>1, <2>2, <2>3 DEF TransactionsHoldRows, HoldsLease, Exists
<1> QED
  BY <1>3, <1>4, <1>7, RowsInv

\* The row lease_next leaves: leased to w until d, with one attempt more.
LEMMA LeasedRowOK ==
    ASSUME NEW j \in JobIds, NEW row \in JobRow, RowOK(j, row), is_leaseable(row.status),
           NEW w \in Workers, NEW d \in Int
    PROVE  LET new == [row EXCEPT !.status = "processing", !.locked_by = w,
                                  !.lease_expires_at = d, !.attempts = row.attempts + 1]
           IN  new \in JobRow /\ RowOK(j, new)
<1>1. MaxAttempts[j] \in Nat /\ row.attempts \in Nat /\ row.attempts < MaxAttempts[j]
      /\ w # NULL /\ d # NULL
  BY ColumnsAssumption, SetsAssumption DEF RowOK, JobRow
<1> DEFINE new == [row EXCEPT !.status = "processing", !.locked_by = w,
                              !.lease_expires_at = d, !.attempts = row.attempts + 1]
<1>2. new \in JobRow
  <2>1. \A n \in Nat : [row EXCEPT !.status = "processing", !.locked_by = w,
                                   !.lease_expires_at = d, !.attempts = n] \in JobRow
    BY DEF JobRow, Status
  <2>2. row.attempts + 1 \in Nat
    BY <1>1
  <2> QED
    BY <2>1, <2>2
<1>3. /\ new.status = "processing"
      /\ new.locked_by = w
      /\ new.lease_expires_at = d
      /\ new.attempts = row.attempts + 1
  BY DEF JobRow
<1> HIDE DEF new
<1>4. RowOK(j, new)
  BY <1>1, <1>3 DEF RowOK, is_leaseable
<1> QED
  BY <1>2, <1>4 DEF new

\* Statements of the workers: lease_next, renew_lease, complete_job, fail_job.
LEMMA TaskStepInv ==
    ASSUME StoreInv, NEW t \in Tasks, TaskStep(t)
    PROVE  StoreInv'
<1>0. /\ TypeOK /\ TransactionsHoldRows
      /\ \A j \in JobIds : jobs[j] \in JobRow /\ RowOK(j, jobs[j])
      /\ tx[t].op # "none" => tx[t].job \in JobIds
      /\ WorkerOf[t] \in Workers
  BY RowByRow, CallersAssumption DEF StoreInv, TypeOK, TransactionsHoldRows
<1>1. CASE LeaseUpdate(t)
  <2>1. PICK j \in JobIds : /\ Leaseable(WorkerOf[t], j)
                            /\ ~Locked(j)
                            /\ tx' = [tx EXCEPT ![t] = [op |-> "lease", job |-> j]]
    BY <1>1 DEF LeaseUpdate
  <2>2. /\ tx[t] = NoTx
        /\ is_leaseable(jobs[j].status)
        /\ UNCHANGED <<jobs, history, dlq, queues, retry, sweep>>
    BY <1>1, <2>1 DEF LeaseUpdate, Leaseable
  <2> QED
    BY <2>1, <2>2, OpenInv
<1>2. ASSUME NEW e \in 0 .. TxAge, LeaseCommit(t, e) PROVE StoreInv'
  <2> DEFINE j == tx[t].job
             row == [jobs[j] EXCEPT !.status = "processing", !.locked_by = WorkerOf[t],
                                    !.lease_expires_at = LeaseSecs - e,
                                    !.attempts = jobs[j].attempts + 1]
             attempt == [attempt |-> jobs[j].attempts + 1, worker |-> WorkerOf[t],
                         status |-> "running"]
  <2>1. tx[t].op = "lease" /\ j \in JobIds /\ is_leaseable(jobs[j].status)
    BY <1>0, <1>2 DEF LeaseCommit, TransactionsHoldRows
  <2>2. LeaseSecs - e \in Int
    BY CallersAssumption
  <2>3. row \in JobRow /\ RowOK(j, row)
    BY <1>0, <2>1, <2>2, LeasedRowOK
  <2>4. /\ jobs' = [jobs EXCEPT ![j] = row]
        /\ tx' = [tx EXCEPT ![t] = NoTx]
        /\ history' = [history EXCEPT ![j] = Append(history[j], attempt)]
        /\ dlq' \in SUBSET JobIds
        /\ UNCHANGED <<queues, retry, sweep>>
    BY <1>0, <1>2 DEF LeaseCommit, TypeOK
  <2>5. attempt \in AttemptRow
    BY <1>0, <2>1 DEF AttemptRow, AttemptStatus, JobRow
  <2>6. Append(history[j], attempt) \in Seq(AttemptRow)
    BY <1>0, <2>1, <2>5 DEF TypeOK
  <2>7. history' \in [JobIds -> Seq(AttemptRow)]
    BY <1>0, <2>1, <2>4, <2>6 DEF TypeOK
  <2> HIDE DEF row, attempt
  <2> QED
    BY <2>1, <2>3, <2>4, <2>7, CommitInv
<1>3. ASSUME NEW j \in JobIds, CompleteUpdate(t, j) PROVE StoreInv'
  <2>1. /\ tx[t] = NoTx /\ ~Locked(j) /\ HoldsLease(t, j)
        /\ tx' = [tx EXCEPT ![t] = [op |-> "complete", job |-> j]]
        /\ UNCHANGED <<jobs, history, dlq, queues, retry, sweep>>
    BY <1>3 DEF CompleteUpdate
  <2> QED
    BY <2>1, OpenInv
<1>4. ASSUME NEW j \in JobIds, FailSelect(t, j) PROVE StoreInv'
  <2>1. /\ tx[t] = NoTx /\ ~Locked(j) /\ Exists(j)
        /\ tx' = [tx EXCEPT ![t] = [op |-> "fail", job |-> j]]
        /\ UNCHANGED <<jobs, history, dlq, queues, retry, sweep>>
    BY <1>4 DEF FailSelect
  <2> QED
    BY <2>1, OpenInv
<1>5. CASE CompleteCommit(t)
  <2> DEFINE j == tx[t].job
             row == Release(jobs[j], "completed")
  <2>1. tx[t].op = "complete" /\ j \in JobIds
    BY <1>0, <1>5 DEF CompleteCommit
  <2>2. row \in JobRow /\ RowOK(j, row)
    BY <1>0, <2>1, ReleaseRow, ReleasedRowOK DEF Status, is_leaseable
  <2>3. CloseRunning(history[j], "succeeded") \in Seq(AttemptRow)
    BY <1>0, <2>1, CloseRunningType DEF TypeOK, AttemptStatus
  <2>4. /\ jobs' = [jobs EXCEPT ![j] = row]
        /\ tx' = [tx EXCEPT ![t] = NoTx]
        /\ history' = [history EXCEPT ![j] = CloseRunning(history[j], "succeeded")]
        /\ dlq' \in SUBSET JobIds
        /\ UNCHANGED <<queues, retry, sweep>>
    BY <1>0, <1>5 DEF CompleteCommit, TypeOK
  <2>5. history' \in [JobIds -> Seq(AttemptRow)]
    BY <1>0, <2>1, <2>3, <2>4 DEF TypeOK
  <2> HIDE DEF row
  <2> QED
    BY <2>1, <2>2, <2>4, <2>5, CommitInv
<1>6. ASSUME NEW e \in 0 .. TxAge, NEW timed_out \in BOOLEAN, FailCommit(t, timed_out, e)
      PROVE  StoreInv'
  <2> DEFINE j == tx[t].job
             s == IF timed_out THEN "timeout" ELSE "failed"
             row == AfterFailure(j, e)
  <2>1. /\ tx[t].op = "fail" /\ j \in JobIds
        /\ jobs[j].status = "processing"
    BY <1>0, <1>6 DEF FailCommit, HoldsLease
  <2>2. row \in JobRow /\ RowOK(j, row)
    <3>1. jobs[j] \in JobRow /\ RowOK(j, jobs[j])
      BY <1>0, <2>1
    <3>2. CASE Exhausted(j)
      <4>1. row = Release(jobs[j], "dead_lettered") \/ row = Release(jobs[j], "failed")
        BY <2>1, <3>2, ColumnsAssumption DEF AfterFailure
      <4> QED
        BY <2>1, <3>1, <4>1, ReleaseRow, ReleasedRowOK DEF Status, is_leaseable
    <3>3. CASE ~Exhausted(j)
      <4>1. row = [Release(jobs[j], "retrying") EXCEPT
                      !.run_at = Delay[j][jobs[j].attempts] - e]
        BY <3>3 DEF AfterFailure
      <4>2. jobs[j].attempts < MaxAttempts[j]
        BY <2>1, <3>1, <3>3, ColumnsAssumption DEF Exhausted, JobRow
      <4>3. Delay[j][jobs[j].attempts] - e \in Int
        BY <2>1, <3>1, DelayType, CallersAssumption
      <4> QED
        BY <2>1, <3>1, <4>1, <4>2, <4>3, ReleasedRowOK DEF Status
    <3> QED
      BY <3>2, <3>3
  <2>3. CloseRunning(history[j], s) \in Seq(AttemptRow)
    BY <1>0, <2>1, CloseRunningType DEF TypeOK, AttemptStatus
  <2>4. /\ jobs' = [jobs EXCEPT ![j] = row]
        /\ tx' = [tx EXCEPT ![t] = NoTx]
        /\ history' = [history EXCEPT ![j] = CloseRunning(history[j], s)]
        /\ dlq' \in SUBSET JobIds
        /\ UNCHANGED <<queues, retry, sweep>>
    BY <1>0, <1>6, <2>1 DEF FailCommit, TypeOK
  <2>5. history' \in [JobIds -> Seq(AttemptRow)]
    BY <1>0, <2>1, <2>3, <2>4 DEF TypeOK
  <2> HIDE DEF row
  <2> QED
    BY <2>1, <2>2, <2>4, <2>5, CommitInv
<1>7. ASSUME NEW j \in JobIds, NEW e \in 0 .. TxAge, RenewLease(t, j, e) PROVE StoreInv'
  <2> DEFINE row == [jobs[j] EXCEPT !.lease_expires_at = CoverSecs - e]
  <2>1. /\ jobs[j].status = "processing" /\ ~Locked(j)
        /\ jobs' = [jobs EXCEPT ![j] = row]
        /\ retry' \in [Operators -> JobIds \cup {NULL}]
        /\ UNCHANGED <<history, dlq, queues, tx, sweep>>
    BY <1>0, <1>7 DEF RenewLease, HoldsLease, TypeOK
  <2>2. CoverSecs - e \in Int /\ CoverSecs - e # NULL
    BY CallersAssumption, SetsAssumption
  <2>3. row \in JobRow /\ RowOK(j, row)
    <3>1. jobs[j] \in JobRow /\ RowOK(j, jobs[j])
      BY <1>0
    <3>2. /\ row \in JobRow
          /\ row.status = jobs[j].status
          /\ row.locked_by = jobs[j].locked_by
          /\ row.attempts = jobs[j].attempts
          /\ row.lease_expires_at # NULL
      BY <2>2, <3>1 DEF JobRow
    <3> HIDE DEF row
    <3> QED
      BY <2>1, <3>1, <3>2 DEF RowOK
  <2> HIDE DEF row
  <2> QED
    BY <2>1, <2>3, OneRowInv
<1> QED
  BY <1>1, <1>2, <1>3, <1>4, <1>5, <1>6, <1>7 DEF TaskStep

\* Transactions that leave no trace.
LEMMA RollbackInv ==
    ASSUME StoreInv, NEW T \in SUBSET OpenTx, Rollback(T)
    PROVE  StoreInv'
<1>1. TypeOK /\ TransactionsHoldRows /\ \A i \in JobIds : RowOK(i, jobs[i])
  BY RowByRow DEF StoreInv
<1>2. /\ tx' = [t \in Tasks |-> IF t \in T THEN NoTx ELSE tx[t]]
      /\ UNCHANGED <<jobs, history, dlq, queues, retry, sweep>>
  BY DEF Rollback
<1>3. tx' \in [Tasks -> [op : {"none", "lease", "complete", "fail"},
                         job : JobIds \cup {NULL}]]
  BY <1>1, <1>2 DEF TypeOK, NoTx
<1>4. TypeOK'
  BY <1>1, <1>2, <1>3 DEF TypeOK
<1>5. TransactionsHoldRows'
  BY <1>1, <1>2 DEF TransactionsHoldRows, NoTx, HoldsLease, Exists
<1> QED
  BY <1>1, <1>2, <1>4, <1>5, RowsInv

\* A statement over many rows that passes the locked ones over.
LEMMA ManyRowsInv ==
    ASSUME StoreInv, jobs' \in [JobIds -> JobRow],
           \A j \in JobIds : RowOK(j, jobs'[j]),
           \A j \in JobIds : Locked(j) => SameHold(jobs[j], jobs'[j]),
           dlq' \in SUBSET JobIds,
           sweep' \in [Reapers -> [at : {"retrying", "dead_lettered", "failed", "close"},
                                   recovered : SUBSET JobIds]],
           UNCHANGED <<history, queues, tx, retry>>
    PROVE  StoreInv'
<1>1. TypeOK /\ TransactionsHoldRows
  BY DEF StoreInv
<1>2. TypeOK'
  BY <1>1 DEF TypeOK
<1>3. TransactionsHoldRows'
  BY <1>1, HoldsKept
<1> QED
  BY <1>2, <1>3, RowsInv

\* The statements of recover_expired_leases.
LEMMA ReaperStepInv ==
    ASSUME StoreInv, NEW r \in Reapers, ReaperStep(r)
    PROVE  StoreInv'
<1>0. /\ TypeOK
      /\ \A j \in JobIds : jobs[j] \in JobRow /\ RowOK(j, jobs[j])
  BY RowByRow DEF StoreInv, TypeOK
<1>a. ASSUME NEW S \in SUBSET JobIds, NEW next \in {"dead_lettered", "failed", "close"},
             Recovering(r, S, next)
      PROVE  sweep' \in [Reapers -> [at : {"retrying", "dead_lettered", "failed", "close"},
                                     recovered : SUBSET JobIds]]
  BY <1>0, <1>a DEF Recovering, TypeOK
<1>1. CASE RecoverRetrying(r)
  <2>1. PICK S \in Batch({j \in JobIds : Expired(j) /\ ~Exhausted(j)}) :
          /\ jobs' = [j \in JobIds |->
                        IF j \in S
                        THEN [Release(jobs[j], "retrying") EXCEPT
                                !.run_at = Delay[j][jobs[j].attempts]]
                        ELSE jobs[j]]
          /\ Recovering(r, S, "dead_lettered")
    BY <1>1 DEF RecoverRetrying
  <2>2. S \in SUBSET JobIds /\ \A j \in S : Expired(j) /\ ~Exhausted(j)
    BY DEF Batch
  <2>3. ASSUME NEW j \in S
        PROVE  /\ [Release(jobs[j], "retrying") EXCEPT
                      !.run_at = Delay[j][jobs[j].attempts]] \in JobRow
               /\ RowOK(j, [Release(jobs[j], "retrying") EXCEPT
                               !.run_at = Delay[j][jobs[j].attempts]])
    <3>1. jobs[j] \in JobRow /\ RowOK(j, jobs[j]) /\ j \in JobIds
          /\ jobs[j].status = "processing"
      BY <1>0, <2>2 DEF Expired
    <3>2. jobs[j].attempts < MaxAttempts[j]
      BY <2>2, <3>1, ColumnsAssumption DEF Exhausted, JobRow
    <3>3. Delay[j][jobs[j].attempts] \in Int
      BY <3>1, DelayType
    <3> QED
      BY <3>1, <3>2, <3>3, ReleasedRowOK DEF Status
  <2>4. jobs' \in [JobIds -> JobRow] /\ \A j \in JobIds : RowOK(j, jobs'[j])
    BY <1>0, <2>1, <2>3
  <2>5. \A j \in JobIds : Locked(j) => SameHold(jobs[j], jobs'[j])
    BY <2>1, <2>2 DEF Expired, SameHold
  <2>6. UNCHANGED <<history, queues, tx, retry>> /\ dlq' \in SUBSET JobIds
    BY <1>0, <1>1 DEF RecoverRetrying, TypeOK
  <2> QED
    BY <1>a, <2>1, <2>2, <2>4, <2>5, <2>6, ManyRowsInv
<1>b. ASSUME NEW S \in SUBSET JobIds, \A j \in S : Expired(j),
             NEW s \in {"dead_lettered", "failed"},
             jobs' = [j \in JobIds |-> IF j \in S THEN Release(jobs[j], s) ELSE jobs[j]]
      PROVE  /\ jobs' \in [JobIds -> JobRow]
             /\ \A j \in JobIds : RowOK(j, jobs'[j])
             /\ \A j \in JobIds : Locked(j) => SameHold(jobs[j], jobs'[j])
  <2>1. \A j \in S : Release(jobs[j], s) \in JobRow /\ RowOK(j, Release(jobs[j], s))
    BY <1>0, ReleaseRow, ReleasedRowOK DEF Status, is_leaseable
  <2> QED
    BY <1>0, <1>b, <2>1 DEF Expired, SameHold
<1>2. CASE RecoverDeadLettered(r)
  <2>1. PICK S \in Batch({j \in JobIds : Expired(j) /\ Exhausted(j) /\ DeadLetter[j]}) :
          /\ jobs' = [j \in JobIds |->
                        IF j \in S THEN Release(jobs[j], "dead_lettered") ELSE jobs[j]]
          /\ dlq' = dlq \cup S
          /\ Recovering(r, S, "failed")
    BY <1>2 DEF RecoverDeadLettered
  <2>2. S \in SUBSET JobIds /\ \A j \in S : Expired(j)
    BY DEF Batch
  <2>3. UNCHANGED <<history, queues, tx, retry>> /\ dlq' \in SUBSET JobIds
    BY <1>0, <1>2, <2>1, <2>2 DEF RecoverDeadLettered, TypeOK
  <2> QED
    BY <1>a, <1>b, <2>1, <2>2, <2>3, ManyRowsInv
<1>3. CASE RecoverFailed(r)
  <2>1. PICK S \in Batch({j \in JobIds : Expired(j) /\ Exhausted(j) /\ ~DeadLetter[j]}) :
          /\ jobs' = [j \in JobIds |->
                        IF j \in S THEN Release(jobs[j], "failed") ELSE jobs[j]]
          /\ Recovering(r, S, "close")
    BY <1>3 DEF RecoverFailed
  <2>2. S \in SUBSET JobIds /\ \A j \in S : Expired(j)
    BY DEF Batch
  <2>3. UNCHANGED <<history, queues, tx, retry>> /\ dlq' \in SUBSET JobIds
    BY <1>0, <1>3 DEF RecoverFailed, TypeOK
  <2> QED
    BY <1>a, <1>b, <2>1, <2>2, <2>3, ManyRowsInv
<1>4. CASE RecoverClose(r)
  <2>1. \A j \in JobIds : CloseRunning(history[j], "timeout") \in Seq(AttemptRow)
    BY <1>0, CloseRunningType DEF TypeOK, AttemptStatus
  <2>2. history' \in [JobIds -> Seq(AttemptRow)]
    BY <1>0, <1>4, <2>1 DEF RecoverClose, TypeOK
  <2>3. TypeOK' /\ UNCHANGED <<jobs, tx>>
    BY <1>0, <1>4, <2>2 DEF RecoverClose, TypeOK, NoSweep
  <2> QED
    BY <2>3, FrameInv
<1>5. CASE RecoverAbort(r)
  <2>1. TypeOK' /\ UNCHANGED <<jobs, tx>>
    BY <1>0, <1>5 DEF RecoverAbort, TypeOK, NoSweep
  <2> QED
    BY <2>1, FrameInv
<1> QED
  BY <1>1, <1>2, <1>3, <1>4, <1>5 DEF ReaperStep

\* The passage of time.
LEMMA TickInv == StoreInv /\ Tick => StoreInv'
<1> SUFFICES ASSUME StoreInv, Tick PROVE StoreInv'
  OBVIOUS
<1>0. /\ TypeOK
      /\ \A j \in JobIds : jobs[j] \in JobRow /\ RowOK(j, jobs[j])
  BY RowByRow DEF StoreInv, TypeOK
<1>1. jobs' = [j \in JobIds |-> Aged(jobs[j])] /\ UNCHANGED <<history, dlq, queues, tx, retry, sweep>>
  BY DEF Tick
<1>2. \A j \in JobIds : /\ Aged(jobs[j]) \in JobRow
                        /\ RowOK(j, Aged(jobs[j]))
                        /\ SameHold(jobs[j], Aged(jobs[j]))
  BY <1>0, AgedRow DEF RowOK, SameHold
<1>3. dlq' \in SUBSET JobIds /\ sweep' \in [Reapers ->
        [at : {"retrying", "dead_lettered", "failed", "close"}, recovered : SUBSET JobIds]]
  BY <1>0, <1>1 DEF TypeOK
<1> QED
  BY <1>1, <1>2, <1>3, ManyRowsInv

\* Every statement keeps the invariant.
LEMMA NextInv == StoreInv /\ [StoreNext]_storeVars => StoreInv'
<1> SUFFICES ASSUME StoreInv, [StoreNext]_storeVars PROVE StoreInv'
  OBVIOUS
<1>1. CASE UNCHANGED storeVars
  <2>1. TypeOK' /\ UNCHANGED <<jobs, tx>>
    BY <1>1 DEF storeVars, StoreInv, TypeOK
  <2> QED
    BY <2>1, FrameInv
<1>2. CASE StoreNext
  BY <1>2, QueueStepInv, OperatorStepInv, TaskStepInv, RollbackInv, ReaperStepInv, TickInv
     DEF StoreNext
<1> QED
  BY <1>1, <1>2

\* StoreInv is an invariant of the store, whoever calls it in whatever order.
THEOREM StoreInvariant == StoreSpec => []StoreInv
  BY InitInv, NextInv, PTL DEF StoreSpec

\* Types: every table keeps its columns' domains and every open call its shape.
THEOREM TypeCorrect == StoreSpec => []TypeOK
  BY StoreInvariant, PTL DEF StoreInv

\* No statement of the store leaves a processing row without worker or deadline, or
\* a lease on a row that is not processing.
THEOREM LeaseColumnsAgree == StoreSpec => []LeaseFields
  BY StoreInvariant, PTL DEF StoreInv

\* The retry budget of a job is never exceeded, for any number of workers, slots,
\* reapers and operators.
THEOREM BudgetKept == StoreSpec => []AttemptsWithinBudget
  BY StoreInvariant, PTL DEF StoreInv

\* Between the first statement of lease_next, complete_job or fail_job and its COMMIT
\* no other caller takes away what the transaction has read.
THEOREM TransactionsIsolated == StoreSpec => []TransactionsHoldRows
  BY StoreInvariant, PTL DEF StoreInv
=============================================================================
