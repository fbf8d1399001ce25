---------------------------- MODULE JobStoreSteps ----------------------------
(***************************************************************************)
(* What a step of JobStore may do to one job.  Three lemmas say how any    *)
(* step treats the row of any job (StepRows), its attempt rows (StepLogs)  *)
(* and its dead letter row (StepDlq); from them and the invariant of       *)
(* JobStoreProofs follow the action properties and the invariants about    *)
(* history and dead letters.  The last part maps every step to LeaseQueue. *)
(***************************************************************************)
EXTENDS JobStoreProofs, SequenceTheorems

\* A row goes on as it was; only its times may change, and not those of a final row.
Kept(j) ==
    /\ SameHold(jobs[j], jobs'[j])
    /\ jobs'[j].attempts = jobs[j].attempts
    /\ jobs[j].status \in {"completed", "cancelled", "purged"} => jobs'[j] = jobs[j]

\* The step is the COMMIT of a transaction of the worker that holds the lease of j.
ByHolder(j) == \E t \in Tasks : /\ tx[t].job = j
                                /\ tx'[t] = NoTx
                                /\ WorkerOf[t] = jobs[j].locked_by

\* A row is inserted, deleted, or takes an edge; a live lease is ended by a cancel or
\* by its holder only.
Moved(j) ==
    /\ <<jobs[j].status, jobs'[j].status>> \in
          StatusEdges \cup ({"unborn"} \X {"queued", "scheduled"})
                      \cup ({"completed", "cancelled"} \X {"purged"})
    /\ jobs[j].status = "processing" /\ jobs[j].lease_expires_at >= 0
          => jobs'[j].status = "cancelled" \/ ByHolder(j)

StepRow(j) == Kept(j) \/ Moved(j)

-----------------------------------------------------------------------------
\* A row that is not rewritten is kept.
LEMMA SameRow ==
    ASSUME NEW j, jobs'[j] = jobs[j]
    PROVE  StepRow(j)
  BY DEF StepRow, Kept, SameHold

\* Submission, cancel, retry and purge.
LEMMA OperatorRows ==
    ASSUME StoreInv, OperatorStep, NEW i \in JobIds
    PROVE  StepRow(i)
<1>0. TypeOK /\ \A j \in JobIds : jobs[j] \in JobRow
  BY DEF StoreInv, TypeOK
<1>1. ASSUME NEW j \in JobIds, NEW d \in SubmitDelays, Submit(j, d) PROVE StepRow(i)
  <2>1. CASE i # j
    BY <1>0, <1>1, <2>1, SameRow DEF Submit, TypeOK
  <2>2. CASE i = j
    <3>1. jobs[i].status = "unborn" /\ jobs'[i].status \in {"queued", "scheduled"}
      BY <1>0, <1>1, <2>2 DEF Submit, TypeOK, NoRow
    <3> QED
      BY <3>1 DEF StepRow, Moved
  <2> QED
    BY <2>1, <2>2
<1>2. ASSUME NEW j \in JobIds, CancelJob(j) PROVE StepRow(i)
  <2>1. CASE i # j
    BY <1>0, <1>2, <2>1, SameRow DEF CancelJob, TypeOK
  <2>2. CASE i = j
    <3>1. jobs'[i] = Release(jobs[i], "cancelled") /\ is_cancellable(jobs[i].status)
      BY <1>0, <1>2, <2>2 DEF CancelJob, TypeOK
    <3>2. jobs'[i].status = "cancelled"
      BY <1>0, <3>1, ReleaseRow DEF Status
    <3> QED
      BY <3>1, <3>2 DEF StepRow, Moved, StatusEdges, is_cancellable
  <2> QED
    BY <2>1, <2>2
<1>3. ASSUME NEW o \in Operators, NEW j \in JobIds, RetryUpdate(o, j) PROVE StepRow(i)
  <2>1. CASE i # j
    BY <1>0, <1>3, <2>1, SameRow DEF RetryUpdate, TypeOK
  <2>2. CASE i = j
    <3>1. /\ jobs'[i] = [Release(jobs[i], "queued") EXCEPT !.run_at = 0, !.attempts = 0]
          /\ jobs[i].status \in {"failed", "dead_lettered"}
      BY <1>0, <1>3, <2>2 DEF RetryUpdate, Retryable, TypeOK
    <3>2. jobs'[i].status = "queued"
      BY <1>0, <3>1 DEF Release, JobRow
    <3> QED
      BY <3>1, <3>2 DEF StepRow, Moved, StatusEdges
  <2> QED
    BY <2>1, <2>2
<1>4. ASSUME NEW o \in Operators, RetryDelete(o) \/ RetryAbort(o) PROVE StepRow(i)
  BY <1>4, SameRow DEF RetryDelete, RetryAbort
<1>5. ASSUME NEW S \in SUBSET JobIds, PurgeFinished(S) PROVE StepRow(i)
  <2>1. CASE i \notin S
    BY <1>5, <2>1, SameRow DEF PurgeFinished
  <2>2. CASE i \in S
    <3>1. jobs[i].status \in {"completed", "cancelled"} /\ jobs'[i].status = "purged"
      BY <1>5, <2>2 DEF PurgeFinished, NoRow
    <3> QED
      BY <3>1 DEF StepRow, Moved
  <2> QED
    BY <2>1, <2>2
<1> QED
  BY <1>1, <1>2, <1>3, <1>4, <1>5 DEF OperatorStep

\* Leases, renewals and reports.
LEMMA TaskRows ==
    ASSUME StoreInv, NEW t \in Tasks, TaskStep(t), NEW i \in JobIds
    PROVE  StepRow(i)
<1>0. /\ TypeOK /\ TransactionsHoldRows
      /\ \A j \in JobIds : jobs[j] \in JobRow
      /\ tx[t].op # "none" => tx[t].job \in JobIds
  BY DEF StoreInv, TypeOK, TransactionsHoldRows
<1>1. ASSUME \/ LeaseUpdate(t)
             \/ \E j \in JobIds : CompleteUpdate(t, j) \/ FailSelect(t, j)
      PROVE  StepRow(i)
  BY <1>1, SameRow DEF LeaseUpdate, CompleteUpdate, FailSelect
<1>2. ASSUME NEW e \in 0 .. TxAge, LeaseCommit(t, e) PROVE StepRow(i)
  <2>1. tx[t].job \in JobIds /\ is_leaseable(jobs[tx[t].job].status)
    BY <1>0, <1>2 DEF LeaseCommit, TransactionsHoldRows
  <2>2. CASE i # tx[t].job
    BY <1>0, <1>2, <2>2, SameRow DEF LeaseCommit, TypeOK
  <2>3. CASE i = tx[t].job
    <3>1. jobs'[i].status = "processing"
      BY <1>0, <1>2, <2>1, <2>3 DEF LeaseCommit, TypeOK, JobRow
    <3> QED
      BY <2>1, <2>3, <3>1 DEF StepRow, Moved, StatusEdges, is_leaseable
  <2> QED
    BY <2>2, <2>3
<1>3. ASSUME CompleteCommit(t) PROVE StepRow(i)
  <2>1. tx[t].op = "complete" /\ tx[t].job \in JobIds /\ HoldsLease(t, tx[t].job)
    BY <1>0, <1>3 DEF CompleteCommit, TransactionsHoldRows
  <2>2. CASE i # tx[t].job
    BY <1>0, <1>3, <2>2, SameRow DEF CompleteCommit, TypeOK
  <2>3. CASE i = tx[t].job
    <3>1. jobs'[i] = Release(jobs[i], "completed") /\ tx'[t] = NoTx
      BY <1>0, <1>3, <2>1, <2>3 DEF CompleteCommit, TypeOK
    <3>2. jobs'[i].status = "completed"
      BY <1>0, <3>1, ReleaseRow DEF Status
    <3>3. ByHolder(i) /\ jobs[i].status = "processing"
      BY <2>1, <2>3, <3>1 DEF ByHolder, HoldsLease
    <3> QED
      BY <3>2, <3>3 DEF StepRow, Moved, StatusEdges
  <2> QED
    BY <2>2, <2>3
<1>4. ASSUME NEW e \in 0 .. TxAge, NEW timed_out \in BOOLEAN, FailCommit(t, timed_out, e)
      PROVE  StepRow(i)
  <2>1. tx[t].op = "fail" /\ tx[t].job \in JobIds /\ HoldsLease(t, tx[t].job)
    BY <1>0, <1>4 DEF FailCommit
  <2>2. CASE i # tx[t].job
    BY <1>0, <1>4, <2>2, SameRow DEF FailCommit, TypeOK
  <2>3. CASE i = tx[t].job
    <3>1. jobs'[i] = AfterFailure(i, e) /\ tx'[t] = NoTx
      BY <1>0, <1>4, <2>1, <2>3 DEF FailCommit, TypeOK
    <3>2. jobs'[i].status \in {"dead_lettered", "failed", "retrying"}
      BY <1>0, <3>1 DEF AfterFailure, Release, JobRow
    <3>3. ByHolder(i) /\ jobs[i].status = "processing"
      BY <2>1, <2>3, <3>1 DEF ByHolder, HoldsLease
    <3> QED
      BY <3>2, <3>3 DEF StepRow, Moved, StatusEdges
  <2> QED
    BY <2>2, <2>3
<1>5. ASSUME NEW j \in JobIds, NEW e \in 0 .. TxAge, RenewLease(t, j, e) PROVE StepRow(i)
  <2>1. CASE i # j
    BY <1>0, <1>5, <2>1, SameRow DEF RenewLease, TypeOK
  <2>2. CASE i = j
    BY <1>0, <1>5, <2>2 DEF RenewLease, HoldsLease, TypeOK, JobRow, StepRow, Kept, SameHold
  <2> QED
    BY <2>1, <2>2
<1> QED
  BY <1>1, <1>2, <1>3, <1>4, <1>5 DEF TaskStep

\* A sweep takes jobs back only after their leases have expired.
LEMMA ReaperRows ==
    ASSUME StoreInv, NEW r \in Reapers, ReaperStep(r), NEW i \in JobIds
    PROVE  StepRow(i)
<1>0. jobs[i] \in JobRow
  BY DEF StoreInv, TypeOK
<1>1. ASSUME Expired(i), jobs'[i].status \in {"retrying", "dead_lettered", "failed"}
      PROVE  StepRow(i)
  <2>1. jobs[i].status = "processing" /\ ~(jobs[i].lease_expires_at >= 0)
    BY <1>0, <1>1 DEF Expired, JobRow
  <2> QED
    BY <1>1, <2>1 DEF StepRow, Moved, StatusEdges
<1>2. \A s \in {"retrying", "dead_lettered", "failed"} :
        /\ Release(jobs[i], s).status = s
        /\ \A n : [Release(jobs[i], s) EXCEPT !.run_at = n].status = s
  BY <1>0 DEF Release, JobRow
<1>3. CASE RecoverRetrying(r)
  <2>1. \/ jobs'[i] = jobs[i]
        \/ Expired(i) /\ jobs'[i].status = "retrying"
    BY <1>2, <1>3 DEF RecoverRetrying, Batch
  <2> QED
    BY <1>1, <2>1, SameRow
<1>4. CASE RecoverDeadLettered(r)
  <2>1. \/ jobs'[i] = jobs[i]
        \/ Expired(i) /\ jobs'[i].status = "dead_lettered"
    BY <1>2, <1>4 DEF RecoverDeadLettered, Batch
  <2> QED
    BY <1>1, <2>1, SameRow
<1>5. CASE RecoverFailed(r)
  <2>1. \/ jobs'[i] = jobs[i]
        \/ Expired(i) /\ jobs'[i].status = "failed"
    BY <1>2, <1>5 DEF RecoverFailed, Batch
  <2> QED
    BY <1>1, <2>1, SameRow
<1>6. CASE RecoverClose(r) \/ RecoverAbort(r)
  BY <1>6, SameRow DEF RecoverClose, RecoverAbort
<1> QED
  BY <1>3, <1>4, <1>5, <1>6 DEF ReaperStep

\* How any step of the store treats any row.
LEMMA StepRows ==
    ASSUME StoreInv, [StoreNext]_storeVars, NEW i \in JobIds
    PROVE  StepRow(i)
<1>1. CASE UNCHANGED storeVars
  BY <1>1, SameRow DEF storeVars
<1>2. CASE QueueStep
  BY <1>2, SameRow DEF QueueStep, EnsureQueue, SetQueuePaused
<1>3. CASE OperatorStep
  BY <1>3, OperatorRows
<1>4. CASE \E t \in Tasks : TaskStep(t)
  BY <1>4, TaskRows
<1>5. CASE \E T \in SUBSET OpenTx : Rollback(T)
  BY <1>5, SameRow DEF Rollback
<1>6. CASE \E r \in Reapers : ReaperStep(r)
  BY <1>6, ReaperRows
<1>7. CASE Tick
  <2>1. jobs[i] \in JobRow /\ RowOK(i, jobs[i]) /\ jobs'[i] = Aged(jobs[i])
    BY <1>7, RowByRow DEF Tick, StoreInv, TypeOK
  <2>2. jobs[i].status \in {"completed", "cancelled", "purged"} => jobs'[i] = jobs[i]
    <3> SUFFICES ASSUME jobs[i].status \in {"completed", "cancelled", "purged"}
                 PROVE  Aged(jobs[i]) = jobs[i]
      BY <2>1
    <3>1. ~is_leaseable(jobs[i].status) /\ jobs[i].lease_expires_at = NULL
      BY <2>1 DEF RowOK, is_leaseable
    <3>2. Aged(jobs[i]) = [jobs[i] EXCEPT !.run_at = jobs[i].run_at,
                                          !.lease_expires_at = jobs[i].lease_expires_at]
      BY <3>1 DEF Aged
    <3> QED
      BY <2>1, <3>2 DEF JobRow
  <2> QED
    BY <2>1, <2>2, AgedRow DEF StepRow, Kept, SameHold
<1> QED
  BY <1>1, <1>2, <1>3, <1>4, <1>5, <1>6, <1>7 DEF StoreNext

-----------------------------------------------------------------------------
\* A lease is never handed from one worker to another directly, nor re-issued to the
\* same worker as a new attempt, whatever lease_next calls and sweeps overlap.
THEOREM LeasesAreNotStolen == StoreSpec => NoLeaseStealing
<1> DEFINE A == \A j \in JobIds :
                  jobs[j].locked_by # NULL /\ jobs'[j].locked_by # NULL =>
                      /\ jobs'[j].locked_by = jobs[j].locked_by
                      /\ jobs'[j].attempts = jobs[j].attempts
<1>1. StoreInv /\ StoreInv' /\ [StoreNext]_storeVars => [A]_storeVars
  <2> SUFFICES ASSUME StoreInv, StoreInv', [StoreNext]_storeVars,
                      NEW j \in JobIds, jobs[j].locked_by # NULL, jobs'[j].locked_by # NULL
               PROVE  /\ jobs'[j].locked_by = jobs[j].locked_by
                      /\ jobs'[j].attempts = jobs[j].attempts
    OBVIOUS
  <2>1. jobs[j].status = "processing" /\ jobs'[j].status = "processing"
    BY DEF StoreInv, LeaseFields
  <2>2. Kept(j)
    BY <2>1, StepRows DEF StepRow, Moved, StatusEdges
  <2> QED
    BY <2>2 DEF Kept, SameHold
<1> QED
  BY <1>1, StoreInvariant, PTL DEF StoreSpec, NoLeaseStealing

\* While a lease lives, only an operator's cancel or the worker that holds it ends it:
\* no sweep and no other worker's late report.
THEOREM LiveLeasesRespected == StoreSpec => LiveLeaseRespected
<1> DEFINE A == \A j \in JobIds :
                  /\ jobs[j].status = "processing"
                  /\ jobs[j].lease_expires_at >= 0
                  /\ jobs'[j].status # "processing"
                  => \/ jobs'[j].status = "cancelled"
                     \/ \E t \in Tasks : /\ tx[t].job = j
                                         /\ tx'[t] = NoTx
                                         /\ WorkerOf[t] = jobs[j].locked_by
<1>1. StoreInv /\ [StoreNext]_storeVars => [A]_storeVars
  <2> SUFFICES ASSUME StoreInv, [StoreNext]_storeVars, NEW j \in JobIds,
                      jobs[j].status = "processing", jobs[j].lease_expires_at >= 0,
                      jobs'[j].status # "processing"
               PROVE  jobs'[j].status = "cancelled" \/ ByHolder(j)
    BY DEF ByHolder
  <2> QED
    BY StepRows DEF StepRow, Kept, SameHold, Moved
<1> QED
  BY <1>1, StoreInvariant, PTL DEF StoreSpec, LiveLeaseRespected

\* Completed and cancelled jobs never change again, except that they are purged.
THEOREM FinishedJobsAreFinal == StoreSpec => FinishedIsFinal
<1> DEFINE A == \A j \in JobIds :
                  jobs[j].status \in {"completed", "cancelled", "purged"} =>
                      \/ jobs'[j].status = "purged"
                      \/ jobs'[j] = jobs[j]
<1>1. StoreInv /\ [StoreNext]_storeVars => [A]_storeVars
  BY StepRows DEF StepRow, Kept, Moved, StatusEdges
<1> QED
  BY <1>1, StoreInvariant, PTL DEF StoreSpec, FinishedIsFinal

\* Jobs change status along StatusEdges only.
THEOREM StatusEdgesFollowed == StoreSpec => FollowsStatusEdges
<1> DEFINE A == \A j \in JobIds :
                  Moves(j) => <<jobs[j].status, jobs'[j].status>> \in StatusEdges
<1>1. StoreInv /\ [StoreNext]_storeVars => [A]_storeVars
  BY StepRows DEF StepRow, Kept, SameHold, Moved, Moves, Exists, Status
<1> QED
  BY <1>1, StoreInvariant, PTL DEF StoreSpec, FollowsStatusEdges

-----------------------------------------------------------------------------
(* Attempt rows.                                                           *)

\* The log of one job agrees with its row.
LogOK(rows, row) ==
    /\ row.attempts <= Len(rows)
    /\ \A k \in 1 .. row.attempts : rows[Len(rows) - row.attempts + k].attempt = k
    /\ row.status = "processing" =>
          row.attempts > 0 /\ rows[Len(rows)].worker = row.locked_by

SomeSucceeded(rows) == \E k \in DOMAIN rows : rows[k].status = "succeeded"

\* A step opens no new attempt of j: its attempt rows stay or are closed, as succeeded
\* only with the job completed; the counter stays.  A job that comes to be completed has
\* its rows closed.
LogKept(j) ==
    /\ \/ history'[j] = history[j]
       \/ \E s \in AttemptStatus : /\ history'[j] = CloseRunning(history[j], s)
                                   /\ s # "running"
                                   /\ s = "succeeded" => jobs'[j].status = "completed"
    /\ jobs'[j].status = "completed" =>
          jobs[j].status = "completed" \/ history'[j] = CloseRunning(history[j], "succeeded")
    /\ jobs'[j].attempts = jobs[j].attempts
    /\ jobs'[j].status = "processing" => SameHold(jobs[j], jobs'[j])
    /\ jobs[j].status = "completed" => jobs'[j].status = "completed"

\* A step is the COMMIT of a lease and opens the next attempt of j.
LogGrows(j) ==
    \E t \in Tasks :
        /\ tx[t].op = "lease" /\ tx[t].job = j /\ tx'[t] = NoTx
        /\ history'[j] = Append(history[j], [attempt |-> jobs[j].attempts + 1,
                                             worker |-> WorkerOf[t], status |-> "running"])
        /\ jobs'[j].attempts = jobs[j].attempts + 1
        /\ jobs'[j].locked_by = WorkerOf[t]
        /\ jobs[j].status # "completed" /\ jobs'[j].status # "completed"

\* A step starts the counter of j again: a submission, a retry, or a purge.
LogRestarts(j) ==
    /\ jobs'[j].attempts = 0
    /\ jobs'[j].status \notin {"processing", "completed"}
    /\ \/ history'[j] = <<>> /\ jobs'[j].status = "purged"
       \/ history'[j] = history[j] /\ jobs[j].status # "completed"

LogStep(j) == LogKept(j) \/ LogGrows(j) \/ LogRestarts(j)

-----------------------------------------------------------------------------
\* Closing attempt rows changes nothing but the status of the running ones.
LEMMA CloseRunningRows ==
    ASSUME NEW rows \in Seq(AttemptRow), NEW s \in AttemptStatus
    PROVE  /\ Len(CloseRunning(rows, s)) = Len(rows)
           /\ DOMAIN CloseRunning(rows, s) = DOMAIN rows
           /\ \A k \in DOMAIN rows :
                /\ CloseRunning(rows, s)[k].attempt = rows[k].attempt
                /\ CloseRunning(rows, s)[k].worker = rows[k].worker
                /\ CloseRunning(rows, s)[k].status \in {rows[k].status, s}
                /\ s # "running" => CloseRunning(rows, s)[k].status # "running"
<1>1. /\ DOMAIN rows = 1 .. Len(rows) /\ Len(rows) \in Nat
      /\ \A k \in DOMAIN rows : rows[k] \in AttemptRow
  BY LenProperties
<1>2. DOMAIN CloseRunning(rows, s) = DOMAIN rows
  BY DEF CloseRunning
<1>3. Len(CloseRunning(rows, s)) = Len(rows)
  <2>1. CloseRunning(rows, s) \in Seq(AttemptRow)
    BY CloseRunningType
  <2>2. DOMAIN CloseRunning(rows, s) = 1 .. Len(CloseRunning(rows, s))
        /\ Len(CloseRunning(rows, s)) \in Nat
    BY <2>1, LenProperties
  <2> HIDE DEF CloseRunning
  <2> QED
    BY <1>1, <1>2, <2>2
<1>4. \A k \in DOMAIN rows :
        CloseRunning(rows, s)[k] = IF rows[k].status = "running"
                                   THEN [rows[k] EXCEPT !.status = s] ELSE rows[k]
  BY DEF CloseRunning
<1>5. \A r \in AttemptRow : /\ [r EXCEPT !.status = s].attempt = r.attempt
                            /\ [r EXCEPT !.status = s].worker = r.worker
                            /\ [r EXCEPT !.status = s].status = s
  BY DEF AttemptRow
<1>6. \A k \in DOMAIN rows :
                /\ CloseRunning(rows, s)[k].attempt = rows[k].attempt
                /\ CloseRunning(rows, s)[k].worker = rows[k].worker
                /\ CloseRunning(rows, s)[k].status \in {rows[k].status, s}
                /\ s # "running" => CloseRunning(rows, s)[k].status # "running"
  BY <1>1, <1>4, <1>5
<1> QED
  BY <1>2, <1>3, <1>6

\* A log step keeps the log in agreement with the row.
LEMMA LogStepOK ==
    ASSUME NEW j \in JobIds, TypeOK, TypeOK', LogOK(history[j], jobs[j]), LogStep(j)
    PROVE  LogOK(history'[j], jobs'[j])
<1>0. /\ history[j] \in Seq(AttemptRow) /\ jobs[j] \in JobRow
      /\ history'[j] \in Seq(AttemptRow) /\ jobs'[j] \in JobRow
  BY DEF TypeOK
<1>1. /\ Len(history[j]) \in Nat /\ DOMAIN history[j] = 1 .. Len(history[j])
      /\ jobs[j].attempts \in Nat /\ Len(history'[j]) \in Nat
  BY <1>0, LenProperties DEF JobRow
<1>2. CASE LogKept(j)
  <2>1. /\ Len(history'[j]) = Len(history[j])
        /\ \A k \in 1 .. Len(history[j]) :
             /\ history'[j][k].attempt = history[j][k].attempt
             /\ history'[j][k].worker = history[j][k].worker
    BY <1>0, <1>1, <1>2, CloseRunningRows DEF LogKept
  <2>2. /\ jobs'[j].attempts = jobs[j].attempts
        /\ jobs'[j].status = "processing" =>
              jobs[j].status = "processing" /\ jobs'[j].locked_by = jobs[j].locked_by
    BY <1>2 DEF LogKept, SameHold
  <2>3. \A k \in 1 .. jobs[j].attempts :
          Len(history[j]) - jobs[j].attempts + k \in 1 .. Len(history[j])
    BY <1>1 DEF LogOK
  <2>4. jobs[j].attempts > 0 => Len(history[j]) \in 1 .. Len(history[j])
    BY <1>1 DEF LogOK
  <2>5. \A k \in 1 .. jobs[j].attempts :
          history'[j][Len(history[j]) - jobs[j].attempts + k].attempt = k
    BY <2>1, <2>3 DEF LogOK
  <2>6. jobs'[j].status = "processing" =>
          jobs[j].attempts > 0 /\ history'[j][Len(history[j])].worker = jobs'[j].locked_by
    BY <2>1, <2>2, <2>4 DEF LogOK
  <2> QED
    BY <2>1, <2>2, <2>5, <2>6 DEF LogOK
<1>3. CASE LogGrows(j)
  <2> DEFINE n == jobs[j].attempts
             len == Len(history[j])
  <2>1. PICK w \in Workers :
          /\ history'[j] = Append(history[j], [attempt |-> n + 1, worker |-> w,
                                               status |-> "running"])
          /\ jobs'[j].attempts = n + 1
          /\ jobs'[j].locked_by = w
    BY <1>3, CallersAssumption DEF LogGrows
  <2>2. [attempt |-> n + 1, worker |-> w, status |-> "running"] \in AttemptRow
    BY <1>1 DEF AttemptRow, AttemptStatus
  <2>3. /\ Len(history'[j]) = len + 1
        /\ \A k \in 1 .. len : history'[j][k] = history[j][k]
        /\ history'[j][len + 1].attempt = n + 1
        /\ history'[j][len + 1].worker = w
    BY <1>0, <2>1, <2>2, AppendProperties
  <2>4. n \in Nat /\ len \in Nat /\ n <= len
        /\ \A k \in 1 .. n : history[j][len - n + k].attempt = k
    BY <1>1 DEF LogOK
  <2> HIDE DEF n, len
  <2>5. ASSUME NEW k \in 1 .. n + 1
        PROVE  history'[j][(len + 1) - (n + 1) + k].attempt = k
    <3>1. CASE k = n + 1
      BY <2>3, <2>4, <3>1
    <3>2. CASE k \in 1 .. n
      <4>1. (len + 1) - (n + 1) + k = len - n + k /\ len - n + k \in 1 .. len
        BY <2>4, <3>2
      <4> QED
        BY <2>3, <2>4, <3>2, <4>1
    <3> QED
      BY <2>4, <3>1, <3>2
  <2>6. n + 1 <= Len(history'[j]) /\ n + 1 > 0
    BY <2>3, <2>4
  <2>7. history'[j][Len(history'[j])].worker = jobs'[j].locked_by
    BY <2>1, <2>3
  <2>8. \A k \in 1 .. n + 1 : history'[j][Len(history'[j]) - (n + 1) + k].attempt = k
    BY <2>3, <2>5
  <2> QED
    BY <2>1, <2>6, <2>7, <2>8 DEF LogOK
<1>4. CASE LogRestarts(j)
  BY <1>1, <1>4 DEF LogRestarts, LogOK
<1> QED
  BY <1>2, <1>3, <1>4 DEF LogStep

\* A log step keeps succeeded attempts to completed jobs.
LEMMA LogStepSucceeded ==
    ASSUME NEW j \in JobIds, TypeOK, LogStep(j),
           SomeSucceeded(history[j]) => jobs[j].status = "completed",
           SomeSucceeded(history'[j])
    PROVE  jobs'[j].status = "completed"
<1>0. history[j] \in Seq(AttemptRow) /\ jobs[j].attempts \in Nat
  BY DEF TypeOK, JobRow
<1>1. CASE LogKept(j)
  <2>1. CASE history'[j] = history[j]
    BY <1>1, <2>1 DEF LogKept
  <2>2. CASE \E s \in AttemptStatus : /\ history'[j] = CloseRunning(history[j], s)
                                      /\ s = "succeeded" => jobs'[j].status = "completed"
    <3>1. PICK s \in AttemptStatus : /\ history'[j] = CloseRunning(history[j], s)
                                     /\ s = "succeeded" => jobs'[j].status = "completed"
      BY <2>2
    <3>2. s = "succeeded" \/ SomeSucceeded(history[j])
      BY <1>0, <3>1, CloseRunningRows DEF SomeSucceeded
    <3> QED
      BY <1>1, <3>1, <3>2 DEF LogKept
  <2> QED
    BY <1>1, <2>1, <2>2 DEF LogKept
<1>2. CASE LogGrows(j)
  <2>1. PICK w \in Workers :
          history'[j] = Append(history[j], [attempt |-> jobs[j].attempts + 1, worker |-> w,
                                            status |-> "running"])
    BY <1>2, CallersAssumption DEF LogGrows
  <2>2. [attempt |-> jobs[j].attempts + 1, worker |-> w, status |-> "running"] \in AttemptRow
    BY <1>0 DEF AttemptRow, AttemptStatus
  <2>3. /\ Len(history'[j]) = Len(history[j]) + 1
        /\ DOMAIN history'[j] = 1 .. Len(history'[j])
        /\ DOMAIN history[j] = 1 .. Len(history[j])
        /\ Len(history[j]) \in Nat
        /\ \A k \in 1 .. Len(history[j]) : history'[j][k] = history[j][k]
        /\ history'[j][Len(history[j]) + 1].status = "running"
    BY <1>0, <2>1, <2>2, AppendProperties, LenProperties
  <2>4. SomeSucceeded(history[j])
    BY <2>3 DEF SomeSucceeded
  <2> QED
    BY <1>2, <2>4 DEF LogGrows
<1>3. CASE LogRestarts(j)
  BY <1>3 DEF LogRestarts, SomeSucceeded
<1> QED
  BY <1>1, <1>2, <1>3 DEF LogStep

-----------------------------------------------------------------------------
\* A row whose log, counter and holder stay, unless it is released without being
\* completed before.
LEMMA KeptLog ==
    ASSUME NEW j \in JobIds, history'[j] = history[j],
           jobs'[j].attempts = jobs[j].attempts,
           jobs'[j].status = "processing" => SameHold(jobs[j], jobs'[j]),
           jobs[j].status = "completed" <=> jobs'[j].status = "completed"
    PROVE  LogStep(j)
  BY DEF LogStep, LogKept

\* A row that is not rewritten.
LEMMA SameLog ==
    ASSUME NEW j \in JobIds, history'[j] = history[j], jobs'[j] = jobs[j]
    PROVE  LogStep(j)
  BY KeptLog DEF SameHold

\* Submission, cancel, retry and purge.
LEMMA OperatorLogs ==
    ASSUME StoreInv, OperatorStep, NEW i \in JobIds
    PROVE  LogStep(i)
<1>0. TypeOK /\ \A j \in JobIds : jobs[j] \in JobRow
  BY DEF StoreInv, TypeOK
<1>1. ASSUME NEW j \in JobIds, NEW d \in SubmitDelays, Submit(j, d) PROVE LogStep(i)
  <2>1. CASE i # j
    BY <1>0, <1>1, <2>1, SameLog DEF Submit, TypeOK
  <2>2. CASE i = j
    <3>1. /\ jobs[i].status = "unborn" /\ history'[i] = history[i]
          /\ jobs'[i].status \in {"queued", "scheduled"} /\ jobs'[i].attempts = 0
      BY <1>0, <1>1, <2>2 DEF Submit, TypeOK, NoRow
    <3> QED
      BY <3>1 DEF LogStep, LogRestarts
  <2> QED
    BY <2>1, <2>2
<1>2. ASSUME NEW j \in JobIds, CancelJob(j) PROVE LogStep(i)
  <2>1. CASE i # j
    BY <1>0, <1>2, <2>1, SameLog DEF CancelJob, TypeOK
  <2>2. CASE i = j
    <3>1. /\ jobs'[i] = Release(jobs[i], "cancelled") /\ is_cancellable(jobs[i].status)
          /\ history'[i] = history[i]
      BY <1>0, <1>2, <2>2 DEF CancelJob, TypeOK
    <3>2. jobs'[i].status = "cancelled" /\ jobs'[i].attempts = jobs[i].attempts
      BY <1>0, <3>1, ReleaseRow DEF Status
    <3> QED
      BY <3>1, <3>2, KeptLog DEF is_cancellable
  <2> QED
    BY <2>1, <2>2
<1>3. ASSUME NEW o \in Operators, NEW j \in JobIds, RetryUpdate(o, j) PROVE LogStep(i)
  <2>1. CASE i # j
    BY <1>0, <1>3, <2>1, SameLog DEF RetryUpdate, TypeOK
  <2>2. CASE i = j
    <3>1. /\ jobs'[i] = [Release(jobs[i], "queued") EXCEPT !.run_at = 0, !.attempts = 0]
          /\ jobs[i].status \in {"failed", "dead_lettered"}
          /\ history'[i] = history[i]
      BY <1>0, <1>3, <2>2 DEF RetryUpdate, Retryable, TypeOK
    <3>2. jobs'[i].status = "queued" /\ jobs'[i].attempts = 0
      BY <1>0, <3>1 DEF Release, JobRow
    <3> QED
      BY <3>1, <3>2 DEF LogStep, LogRestarts
  <2> QED
    BY <2>1, <2>2
<1>4. ASSUME NEW o \in Operators, RetryDelete(o) \/ RetryAbort(o) PROVE LogStep(i)
  BY <1>4, SameLog DEF RetryDelete, RetryAbort
<1>5. ASSUME NEW S \in SUBSET JobIds, PurgeFinished(S) PROVE LogStep(i)
  <2>1. CASE i \notin S
    BY <1>5, <2>1, SameLog DEF PurgeFinished
  <2>2. CASE i \in S
    BY <1>5, <2>2 DEF PurgeFinished, NoRow, LogStep, LogRestarts
  <2> QED
    BY <2>1, <2>2
<1> QED
  BY <1>1, <1>2, <1>3, <1>4, <1>5 DEF OperatorStep

\* Leases, renewals and reports.
LEMMA TaskLogs ==
    ASSUME StoreInv, NEW t \in Tasks, TaskStep(t), NEW i \in JobIds
    PROVE  LogStep(i)
<1>0. /\ TypeOK /\ TransactionsHoldRows
      /\ \A j \in JobIds : jobs[j] \in JobRow
      /\ tx[t].op # "none" => tx[t].job \in JobIds
  BY DEF StoreInv, TypeOK, TransactionsHoldRows
<1>1. ASSUME \/ LeaseUpdate(t)
             \/ \E j \in JobIds : CompleteUpdate(t, j) \/ FailSelect(t, j)
      PROVE  LogStep(i)
  BY <1>1, SameLog DEF LeaseUpdate, CompleteUpdate, FailSelect
<1>2. ASSUME NEW e \in 0 .. TxAge, LeaseCommit(t, e) PROVE LogStep(i)
  <2>1. tx[t].job \in JobIds /\ is_leaseable(jobs[tx[t].job].status)
    BY <1>0, <1>2 DEF LeaseCommit, TransactionsHoldRows
  <2>2. CASE i # tx[t].job
    BY <1>0, <1>2, <2>2, SameLog DEF LeaseCommit, TypeOK
  <2>3. CASE i = tx[t].job
    <3>1. /\ jobs'[i].attempts = jobs[i].attempts + 1
          /\ jobs'[i].locked_by = WorkerOf[t] /\ jobs'[i].status = "processing"
          /\ tx'[t] = NoTx
      BY <1>0, <1>2, <2>1, <2>3 DEF LeaseCommit, TypeOK, JobRow
    <3>2. history'[i] = Append(history[i], [attempt |-> jobs[i].attempts + 1,
                                            worker |-> WorkerOf[t], status |-> "running"])
      BY <1>0, <1>2, <2>1, <2>3 DEF LeaseCommit, TypeOK
    <3> QED
      BY <1>2, <2>1, <2>3, <3>1, <3>2 DEF LeaseCommit, LogStep, LogGrows, is_leaseable
  <2> QED
    BY <2>2, <2>3
<1>3. ASSUME CompleteCommit(t) PROVE LogStep(i)
  <2>1. tx[t].op = "complete" /\ tx[t].job \in JobIds
    BY <1>0, <1>3 DEF CompleteCommit
  <2>2. CASE i # tx[t].job
    BY <1>0, <1>3, <2>2, SameLog DEF CompleteCommit, TypeOK
  <2>3. CASE i = tx[t].job
    <3>1. /\ jobs'[i] = Release(jobs[i], "completed")
          /\ history'[i] = CloseRunning(history[i], "succeeded")
      BY <1>0, <1>3, <2>1, <2>3 DEF CompleteCommit, TypeOK
    <3>2. jobs'[i].status = "completed" /\ jobs'[i].attempts = jobs[i].attempts
      BY <1>0, <3>1, ReleaseRow DEF Status
    <3>3. "succeeded" \in AttemptStatus
      BY DEF AttemptStatus
    <3> QED
      BY <3>1, <3>2, <3>3 DEF LogStep, LogKept
  <2> QED
    BY <2>2, <2>3
<1>4. ASSUME NEW e \in 0 .. TxAge, NEW timed_out \in BOOLEAN, FailCommit(t, timed_out, e)
      PROVE  LogStep(i)
  <2>1. tx[t].op = "fail" /\ tx[t].job \in JobIds /\ HoldsLease(t, tx[t].job)
    BY <1>0, <1>4 DEF FailCommit
  <2>2. CASE i # tx[t].job
    BY <1>0, <1>4, <2>2, SameLog DEF FailCommit, TypeOK
  <2>3. CASE i = tx[t].job
    <3> DEFINE s == IF timed_out THEN "timeout" ELSE "failed"
    <3>1. jobs'[i] = AfterFailure(i, e) /\ history'[i] = CloseRunning(history[i], s)
      BY <1>0, <1>4, <2>1, <2>3 DEF FailCommit, TypeOK
    <3>2. /\ jobs'[i].status \in {"dead_lettered", "failed", "retrying"}
          /\ jobs'[i].attempts = jobs[i].attempts
      BY <1>0, <3>1 DEF AfterFailure, Release, JobRow
    <3>3. s \in AttemptStatus /\ s \notin {"succeeded", "running"}
      BY DEF AttemptStatus
    <3>4. jobs[i].status = "processing"
      BY <2>1, <2>3 DEF HoldsLease
    <3> HIDE DEF s
    <3> QED
      BY <3>1, <3>2, <3>3, <3>4 DEF LogStep, LogKept
  <2> QED
    BY <2>2, <2>3
<1>5. ASSUME NEW j \in JobIds, NEW e \in 0 .. TxAge, RenewLease(t, j, e) PROVE LogStep(i)
  <2>1. CASE i # j
    BY <1>0, <1>5, <2>1, SameLog DEF RenewLease, TypeOK
  <2>2. CASE i = j
    <3>1. /\ SameHold(jobs[i], jobs'[i]) /\ jobs'[i].attempts = jobs[i].attempts
          /\ history'[i] = history[i]
      BY <1>0, <1>5, <2>2 DEF RenewLease, TypeOK, JobRow, SameHold
    <3> QED
      BY <3>1, KeptLog DEF SameHold
  <2> QED
    BY <2>1, <2>2
<1> QED
  BY <1>1, <1>2, <1>3, <1>4, <1>5 DEF TaskStep

\* A sweep keeps the counters and closes attempts as timed out.
LEMMA ReaperLogs ==
    ASSUME StoreInv, NEW r \in Reapers, ReaperStep(r), NEW i \in JobIds
    PROVE  LogStep(i)
<1>0. jobs[i] \in JobRow /\ history[i] \in Seq(AttemptRow)
  BY DEF StoreInv, TypeOK
<1>1. \A s \in {"retrying", "dead_lettered", "failed"} :
        /\ Release(jobs[i], s).status = s
        /\ Release(jobs[i], s).attempts = jobs[i].attempts
        /\ \A n : /\ [Release(jobs[i], s) EXCEPT !.run_at = n].status = s
                  /\ [Release(jobs[i], s) EXCEPT !.run_at = n].attempts = jobs[i].attempts
  BY <1>0 DEF Release, JobRow
<1>2. ASSUME history'[i] = history[i],
             \/ jobs'[i] = jobs[i]
             \/ /\ Expired(i) /\ jobs'[i].attempts = jobs[i].attempts
                /\ jobs'[i].status \in {"retrying", "dead_lettered", "failed"}
      PROVE  LogStep(i)
  BY <1>2, SameLog, KeptLog DEF Expired
<1>3. CASE RecoverRetrying(r)
  BY <1>1, <1>2, <1>3 DEF RecoverRetrying, Batch
<1>4. CASE RecoverDeadLettered(r)
  BY <1>1, <1>2, <1>4 DEF RecoverDeadLettered, Batch
<1>5. CASE RecoverFailed(r)
  BY <1>1, <1>2, <1>5 DEF RecoverFailed, Batch
<1>6. CASE RecoverClose(r)
  <2>1. /\ jobs'[i] = jobs[i]
        /\ history'[i] \in {history[i], CloseRunning(history[i], "timeout")}
    BY <1>6 DEF RecoverClose
  <2> QED
    BY <2>1 DEF LogStep, LogKept, SameHold, AttemptStatus
<1>7. CASE RecoverAbort(r)
  BY <1>7, SameLog DEF RecoverAbort
<1> QED
  BY <1>3, <1>4, <1>5, <1>6, <1>7 DEF ReaperStep

\* How any step of the store treats the attempt rows of any job.
LEMMA StepLogs ==
    ASSUME StoreInv, [StoreNext]_storeVars, NEW i \in JobIds
    PROVE  LogStep(i)
<1>1. CASE UNCHANGED storeVars
  BY <1>1, SameLog DEF storeVars
<1>2. CASE QueueStep
  BY <1>2, SameLog DEF QueueStep, EnsureQueue, SetQueuePaused
<1>3. CASE OperatorStep
  BY <1>3, OperatorLogs
<1>4. CASE \E t \in Tasks : TaskStep(t)
  BY <1>4, TaskLogs
<1>5. CASE \E T \in SUBSET OpenTx : Rollback(T)
  BY <1>5, SameLog DEF Rollback
<1>6. CASE \E r \in Reapers : ReaperStep(r)
  BY <1>6, ReaperLogs
<1>7. CASE Tick
  <2>1. jobs[i] \in JobRow /\ jobs'[i] = Aged(jobs[i]) /\ history'[i] = history[i]
    BY <1>7 DEF Tick, StoreInv, TypeOK
  <2> QED
    BY <2>1, AgedRow, KeptLog DEF SameHold
<1> QED
  BY <1>1, <1>2, <1>3, <1>4, <1>5, <1>6, <1>7 DEF StoreNext

\* The attempts column and the attempt rows of a job agree, however leases, late
\* reports, retries, purges and sweeps overlap: the newest rows are numbered 1 to
\* attempts and the newest of all names the worker that holds the lease.
THEOREM AttemptLogKept == StoreSpec => []AttemptLog
<1>1. StoreInit => AttemptLog
  BY DEF StoreInit, AttemptLog, NoRow
<1>2. StoreInv /\ StoreInv' /\ AttemptLog /\ [StoreNext]_storeVars => AttemptLog'
  <2> SUFFICES ASSUME StoreInv, StoreInv', AttemptLog, [StoreNext]_storeVars,
                      NEW j \in JobIds
               PROVE  LogOK(history'[j], jobs'[j])
    BY DEF AttemptLog, LogOK
  <2>1. LogOK(history[j], jobs[j])
    BY DEF AttemptLog, LogOK
  <2> QED
    BY <2>1, StepLogs, LogStepOK DEF StoreInv
<1> QED
  BY <1>1, <1>2, StoreInvariant, PTL DEF StoreSpec

\* An attempt recorded as succeeded belongs to a completed job: complete_job writes both
\* or neither, and no retry, lease or sweep takes the job out of completed again.
THEOREM SucceededAttemptsComplete == StoreSpec => []SucceededMeansCompleted
<1>1. StoreInit => SucceededMeansCompleted
  BY DEF StoreInit, SucceededMeansCompleted
<1>2. StoreInv /\ SucceededMeansCompleted /\ [StoreNext]_storeVars
        => SucceededMeansCompleted'
  BY StepLogs, LogStepSucceeded DEF SucceededMeansCompleted, SomeSucceeded, StoreInv
<1> QED
  BY <1>1, <1>2, StoreInvariant, PTL DEF StoreSpec

\* The log of a step, row by row: a closed row stays as it is, and a new row comes last.
LEMMA ClosedRowsStay ==
    ASSUME NEW j \in JobIds, TypeOK, LogStep(j), jobs'[j].status # "purged",
           NEW i \in DOMAIN history[j], history[j][i].status # "running"
    PROVE  i \in DOMAIN history'[j] /\ history'[j][i] = history[j][i]
<1>0. history[j] \in Seq(AttemptRow) /\ jobs[j].attempts \in Nat
  BY DEF TypeOK, JobRow
<1>1. CASE LogKept(j)
  BY <1>0, <1>1 DEF LogKept, CloseRunning
<1>2. CASE LogGrows(j)
  <2>1. PICK w \in Workers :
          history'[j] = Append(history[j], [attempt |-> jobs[j].attempts + 1, worker |-> w,
                                            status |-> "running"])
    BY <1>2, CallersAssumption DEF LogGrows
  <2>2. [attempt |-> jobs[j].attempts + 1, worker |-> w, status |-> "running"] \in AttemptRow
    BY <1>0 DEF AttemptRow, AttemptStatus
  <2>3. /\ DOMAIN history'[j] = 1 .. Len(history[j]) + 1
        /\ DOMAIN history[j] = 1 .. Len(history[j]) /\ Len(history[j]) \in Nat
        /\ \A k \in 1 .. Len(history[j]) : history'[j][k] = history[j][k]
    BY <1>0, <2>1, <2>2, AppendProperties, LenProperties
  <2> QED
    BY <2>3
<1>3. CASE LogRestarts(j)
  BY <1>3 DEF LogRestarts
<1> QED
  BY <1>1, <1>2, <1>3 DEF LogStep

\* The outcome of an attempt, once recorded, is never rewritten: not by a sweep that
\* closes the rows of jobs it recovered earlier, nor by the report of a later attempt.
THEOREM RecordedOutcomesStay == StoreSpec => OutcomesAreFinal
<1>1. StoreInv /\ [StoreNext]_storeVars =>
        [\A j \in JobIds : \A i \in DOMAIN history[j] :
            history[j][i].status # "running" =>
                \/ jobs'[j].status = "purged"
                \/ i \in DOMAIN history'[j] /\ history'[j][i] = history[j][i]]_storeVars
  BY StepLogs, ClosedRowsStay DEF StoreInv
<1> QED
  BY <1>1, StoreInvariant, PTL DEF StoreSpec, OutcomesAreFinal

\* A completed job has no attempt row left running, even if the sweep that recovered an
\* earlier attempt failed before closing its row.
THEOREM CompletedClosesAttempts == StoreSpec => []CompletedLeavesNoneRunning
<1>1. StoreInit => CompletedLeavesNoneRunning
  BY DEF StoreInit, CompletedLeavesNoneRunning, NoRow
<1>2. StoreInv /\ CompletedLeavesNoneRunning /\ [StoreNext]_storeVars
        => CompletedLeavesNoneRunning'
  <2> SUFFICES ASSUME StoreInv, CompletedLeavesNoneRunning, [StoreNext]_storeVars,
                      NEW j \in JobIds, jobs'[j].status = "completed",
                      NEW i \in DOMAIN history'[j]
               PROVE  history'[j][i].status # "running"
    BY DEF CompletedLeavesNoneRunning
  <2>1. LogKept(j)
    BY StepLogs DEF LogStep, LogGrows, LogRestarts
  <2>2. history[j] \in Seq(AttemptRow)
    BY DEF StoreInv, TypeOK
  <2>3. ASSUME NEW s \in AttemptStatus, s # "running",
               history'[j] = CloseRunning(history[j], s)
        PROVE  history'[j][i].status # "running"
    BY <2>2, <2>3, CloseRunningRows
  <2>4. CASE jobs[j].status = "completed"
    BY <2>1, <2>3, <2>4 DEF LogKept, CompletedLeavesNoneRunning
  <2>5. CASE jobs[j].status # "completed"
    BY <2>1, <2>3, <2>5 DEF LogKept, AttemptStatus
  <2> QED
    BY <2>4, <2>5
<1> QED
  BY <1>1, <1>2, StoreInvariant, PTL DEF StoreSpec

-----------------------------------------------------------------------------
(* The dead letter table.                                                  *)

\* How a step treats the dead letter row of j: it is inserted for a job that asked for
\* it, with the status, and deleted by a retry_job call of j only.
DlqStep(j) ==
    /\ j \in dlq' => j \in dlq \/ DeadLetter[j]
    /\ jobs'[j].status = "dead_lettered" => jobs[j].status = "dead_lettered" \/ j \in dlq'
    /\ j \in dlq => j \in dlq' \/ \E o \in Operators : retry[o] = j /\ retry'[o] = NULL

\* A step that leaves the table alone and dead-letters nothing.
LEMMA SameDlq ==
    ASSUME NEW j \in JobIds, dlq' = dlq,
           jobs'[j].status = "dead_lettered" => jobs[j].status = "dead_lettered"
    PROVE  DlqStep(j)
  BY DEF DlqStep

\* Submission, cancel, retry and purge.
LEMMA OperatorDlq ==
    ASSUME StoreInv, OperatorStep, NEW i \in JobIds
    PROVE  DlqStep(i)
<1>0. TypeOK /\ \A j \in JobIds : jobs[j] \in JobRow
  BY DEF StoreInv, TypeOK
<1>1. ASSUME NEW j \in JobIds, NEW d \in SubmitDelays, Submit(j, d) PROVE DlqStep(i)
  <2>1. jobs'[i].status \in {jobs[i].status, "queued", "scheduled"} /\ dlq' = dlq
    BY <1>0, <1>1 DEF Submit, TypeOK, NoRow
  <2> QED
    BY <2>1, SameDlq
<1>2. ASSUME NEW j \in JobIds, CancelJob(j) PROVE DlqStep(i)
  <2>1. Release(jobs[j], "cancelled").status = "cancelled"
    BY <1>0, ReleaseRow DEF Status
  <2>2. jobs'[i].status \in {jobs[i].status, "cancelled"} /\ dlq' = dlq
    BY <1>0, <1>2, <2>1 DEF CancelJob, TypeOK
  <2> QED
    BY <2>2, SameDlq
<1>3. ASSUME NEW o \in Operators, NEW j \in JobIds, RetryUpdate(o, j) PROVE DlqStep(i)
  <2>1. [Release(jobs[j], "queued") EXCEPT !.run_at = 0, !.attempts = 0].status = "queued"
    BY <1>0 DEF Release, JobRow
  <2>2. jobs'[i].status \in {jobs[i].status, "queued"} /\ dlq' = dlq
    BY <1>0, <1>3, <2>1 DEF RetryUpdate, TypeOK
  <2> QED
    BY <2>2, SameDlq
<1>4. ASSUME NEW o \in Operators, RetryDelete(o) PROVE DlqStep(i)
  <2>1. /\ dlq' = dlq \ {retry[o]} /\ retry'[o] = NULL
        /\ jobs' = jobs
    BY <1>0, <1>4 DEF RetryDelete, TypeOK
  <2> QED
    BY <2>1 DEF DlqStep
<1>5. ASSUME NEW o \in Operators, RetryAbort(o) PROVE DlqStep(i)
  BY <1>5, SameDlq DEF RetryAbort
<1>6. ASSUME NEW S \in SUBSET JobIds, PurgeFinished(S) PROVE DlqStep(i)
  BY <1>6, SameDlq DEF PurgeFinished, NoRow
<1> QED
  BY <1>1, <1>2, <1>3, <1>4, <1>5, <1>6 DEF OperatorStep

\* Leases, renewals and reports.
LEMMA TaskDlq ==
    ASSUME StoreInv, NEW t \in Tasks, TaskStep(t), NEW i \in JobIds
    PROVE  DlqStep(i)
<1>0. /\ TypeOK
      /\ \A j \in JobIds : jobs[j] \in JobRow
      /\ tx[t].op # "none" => tx[t].job \in JobIds
  BY DEF StoreInv, TypeOK, TransactionsHoldRows
<1>1. ASSUME \/ LeaseUpdate(t)
             \/ \E j \in JobIds : CompleteUpdate(t, j) \/ FailSelect(t, j)
      PROVE  DlqStep(i)
  BY <1>1, SameDlq DEF LeaseUpdate, CompleteUpdate, FailSelect
<1>2. ASSUME NEW e \in 0 .. TxAge, LeaseCommit(t, e) PROVE DlqStep(i)
  <2>1. jobs'[i].status \in {jobs[i].status, "processing"} /\ dlq' = dlq
    BY <1>0, <1>2 DEF LeaseCommit, TypeOK, JobRow
  <2> QED
    BY <2>1, SameDlq
<1>3. ASSUME CompleteCommit(t) PROVE DlqStep(i)
  <2>1. tx[t].job \in JobIds
    BY <1>0, <1>3 DEF CompleteCommit
  <2>2. Release(jobs[tx[t].job], "completed").status = "completed"
    BY <1>0, <2>1, ReleaseRow DEF Status
  <2>3. jobs'[i].status \in {jobs[i].status, "completed"} /\ dlq' = dlq
    BY <1>0, <1>3, <2>1, <2>2 DEF CompleteCommit, TypeOK
  <2> QED
    BY <2>3, SameDlq
<1>4. ASSUME NEW e \in 0 .. TxAge, NEW timed_out \in BOOLEAN, FailCommit(t, timed_out, e)
      PROVE  DlqStep(i)
  <2> DEFINE j == tx[t].job
  <2>1. j \in JobIds
    BY <1>0, <1>4 DEF FailCommit
  <2>2. /\ jobs' = [jobs EXCEPT ![j] = AfterFailure(j, e)]
        /\ dlq' = IF Exhausted(j) /\ DeadLetter[j] THEN dlq \cup {j} ELSE dlq
    BY <1>4 DEF FailCommit
  <2>3. AfterFailure(j, e).status = "dead_lettered" => Exhausted(j) /\ DeadLetter[j]
    BY <1>0, <2>1 DEF AfterFailure, Release, JobRow
  <2> HIDE DEF j
  <2> QED
    BY <1>0, <2>1, <2>2, <2>3 DEF DlqStep, TypeOK
<1>5. ASSUME NEW j \in JobIds, NEW e \in 0 .. TxAge, RenewLease(t, j, e) PROVE DlqStep(i)
  <2>1. jobs'[i].status = jobs[i].status /\ dlq' = dlq
    BY <1>0, <1>5 DEF RenewLease, TypeOK, JobRow
  <2> QED
    BY <2>1, SameDlq
<1> QED
  BY <1>1, <1>2, <1>3, <1>4, <1>5 DEF TaskStep

\* A sweep dead-letters jobs together with their rows.
LEMMA ReaperDlq ==
    ASSUME StoreInv, NEW r \in Reapers, ReaperStep(r), NEW i \in JobIds
    PROVE  DlqStep(i)
<1>0. jobs[i] \in JobRow
  BY DEF StoreInv, TypeOK
<1>1. \A s \in {"retrying", "dead_lettered", "failed"} :
        /\ Release(jobs[i], s).status = s
        /\ \A n : [Release(jobs[i], s) EXCEPT !.run_at = n].status = s
  BY <1>0 DEF Release, JobRow
<1>2. CASE RecoverRetrying(r)
  BY <1>1, <1>2, SameDlq DEF RecoverRetrying
<1>3. CASE RecoverDeadLettered(r)
  BY <1>3 DEF RecoverDeadLettered, Batch, DlqStep
<1>4. CASE RecoverFailed(r)
  BY <1>1, <1>4, SameDlq DEF RecoverFailed
<1>5. CASE RecoverClose(r) \/ RecoverAbort(r)
  BY <1>5, SameDlq DEF RecoverClose, RecoverAbort
<1> QED
  BY <1>2, <1>3, <1>4, <1>5 DEF ReaperStep

\* How any step of the store treats the dead letter row of any job.
LEMMA StepDlq ==
    ASSUME StoreInv, [StoreNext]_storeVars, NEW i \in JobIds
    PROVE  DlqStep(i)
<1>1. CASE UNCHANGED storeVars
  BY <1>1, SameDlq DEF storeVars
<1>2. CASE QueueStep
  BY <1>2, SameDlq DEF QueueStep, EnsureQueue, SetQueuePaused
<1>3. CASE OperatorStep
  BY <1>3, OperatorDlq
<1>4. CASE \E t \in Tasks : TaskStep(t)
  BY <1>4, TaskDlq
<1>5. CASE \E T \in SUBSET OpenTx : Rollback(T)
  BY <1>5, SameDlq DEF Rollback
<1>6. CASE \E r \in Reapers : ReaperStep(r)
  BY <1>6, ReaperDlq
<1>7. CASE Tick
  <2>1. jobs[i] \in JobRow /\ jobs'[i] = Aged(jobs[i]) /\ dlq' = dlq
    BY <1>7 DEF Tick, StoreInv, TypeOK
  <2> QED
    BY <2>1, AgedRow, SameDlq
<1> QED
  BY <1>1, <1>2, <1>3, <1>4, <1>5, <1>6, <1>7 DEF StoreNext

\* As long as no retry_job call is made, every dead-lettered job has its row in
\* dead_letter_jobs and no job that opted out has one, whichever of fail_job and the
\* sweeps gives the job up.
THEOREM DeadLettersRecorded ==
    Operators = {} => (StoreSpec => []DeadLetterRecorded)
<1> SUFFICES ASSUME Operators = {} PROVE StoreSpec => []DeadLetterRecorded
  OBVIOUS
<1>1. StoreInit => DeadLetterRecorded
  BY DEF StoreInit, DeadLetterRecorded, NoRow
<1>2. StoreInv /\ DeadLetterRecorded /\ [StoreNext]_storeVars => DeadLetterRecorded'
  BY StepDlq DEF DeadLetterRecorded, DlqStep
<1> QED
  BY <1>1, <1>2, StoreInvariant, PTL DEF StoreSpec

\* A job whose row is missing although it is dead-lettered lost it to the DELETE of a
\* retry_job call of that very job, which ends with it.
LostToRetry == [][\A j \in JobIds :
    jobs'[j].status = "dead_lettered" /\ j \notin dlq' =>
        \/ jobs[j].status = "dead_lettered" /\ j \notin dlq
        \/ \E o \in Operators : retry[o] = j /\ retry'[o] = NULL]_storeVars

\* With operators retrying at will, DeadLetterRecorded can fail in one way only: no
\* transaction of a worker, no sweep, whole or cut short, and no other operation
\* leaves a dead-lettered job without its row; the late DELETE of retry_job does.
THEOREM OnlyRetriesLoseDeadLetters == StoreSpec => LostToRetry
<1> DEFINE A == \A j \in JobIds :
                  jobs'[j].status = "dead_lettered" /\ j \notin dlq' =>
                      \/ jobs[j].status = "dead_lettered" /\ j \notin dlq
                      \/ \E o \in Operators : retry[o] = j /\ retry'[o] = NULL
<1>1. StoreInv /\ [StoreNext]_storeVars => [A]_storeVars
  <2> SUFFICES ASSUME StoreInv, [StoreNext]_storeVars, NEW j \in JobIds,
                      jobs'[j].status = "dead_lettered", j \notin dlq'
               PROVE  \/ jobs[j].status = "dead_lettered" /\ j \notin dlq
                      \/ \E o \in Operators : retry[o] = j /\ retry'[o] = NULL
    OBVIOUS
  <2> QED
    BY StepDlq DEF DlqStep
<1> QED
  BY <1>1, StoreInvariant, PTL DEF StoreSpec, LostToRetry

\* A job that opted out of dead letters never gets a row, operators or not.
THEOREM DeadLettersOptIn == StoreSpec => [](\A j \in JobIds : j \in dlq => DeadLetter[j])
<1> DEFINE OptIn == \A j \in JobIds : j \in dlq => DeadLetter[j]
<1>1. StoreInit => OptIn
  BY DEF StoreInit
<1>2. StoreInv /\ OptIn /\ [StoreNext]_storeVars => OptIn'
  BY StepDlq DEF DlqStep
<1> QED
  BY <1>1, <1>2, StoreInvariant, PTL DEF StoreSpec

-----------------------------------------------------------------------------
(* Every step is a step of LeaseQueue or invisible to it.                  *)

\* The refinement mapping, by name.
phaseBar == [j \in JobIds |-> PhaseOf(jobs[j].status)]
holderBar == [j \in JobIds |-> jobs[j].locked_by]
usedBar == [j \in JobIds |-> jobs[j].attempts]

\* The phase of each status.
LEMMA Phases ==
    /\ PhaseOf("unborn") = "absent"
    /\ \A s : is_leaseable(s) => PhaseOf(s) = "waiting"
    /\ PhaseOf("processing") = "held"
    /\ PhaseOf("failed") = "parked" /\ PhaseOf("dead_lettered") = "parked"
    /\ PhaseOf("completed") = "completed" /\ PhaseOf("cancelled") = "cancelled"
    /\ PhaseOf("purged") = "gone"
  BY DEF PhaseOf, is_leaseable

\* A step that leaves status, holder and counter of every row alone is invisible.
LEMMA Invisible ==
    ASSUME \A j \in JobIds : /\ SameHold(jobs[j], jobs'[j])
                             /\ jobs'[j].attempts = jobs[j].attempts
    PROVE  UNCHANGED LQ!vars
  BY DEF LQ!vars, SameHold

\* The empty database is the empty queue.
LEMMA InitMaps == StoreInit => LQ!Init
  BY Phases DEF StoreInit, LQ!Init, NoRow

\* Submission, cancel, retry and purge are Put, Cancel, Revive and Forget.
LEMMA OperatorMaps ==
    ASSUME StoreInv, OperatorStep
    PROVE  LQ!Next \/ UNCHANGED LQ!vars
<1>0. jobs \in [JobIds -> JobRow] /\ \A j \in JobIds : jobs[j] \in JobRow /\ RowOK(j, jobs[j])
  BY RowByRow DEF StoreInv, TypeOK
<1>1. ASSUME NEW j \in JobIds, NEW d \in SubmitDelays, Submit(j, d) PROVE LQ!Put(j)
  <2> DEFINE row == [NoRow(IF d > 0 THEN "scheduled" ELSE "queued") EXCEPT !.run_at = d]
  <2>1. /\ jobs' = [jobs EXCEPT ![j] = row]
        /\ jobs[j].status = "unborn"
    BY <1>1 DEF Submit
  <2>2. is_leaseable(row.status) /\ row.locked_by = NULL /\ row.attempts = 0
    BY DEF NoRow, is_leaseable
  <2>3. jobs[j].locked_by = NULL
    BY <1>0, <2>1 DEF RowOK
  <2> HIDE DEF row
  <2>4. PhaseOf(jobs[j].status) = "absent" /\ PhaseOf(row.status) = "waiting"
    BY <2>1, <2>2, <2>3, Phases
  <2>5. /\ phaseBar[j] = "absent"
        /\ phaseBar' = [phaseBar EXCEPT ![j] = "waiting"]
        /\ usedBar' = [usedBar EXCEPT ![j] = 0]
        /\ holderBar' = holderBar
    BY <1>0, <2>1, <2>2, <2>3, <2>4 DEF phaseBar, holderBar, usedBar
  <2> QED
    BY <2>5 DEF LQ!Put, phaseBar, holderBar, usedBar
<1>2. ASSUME NEW j \in JobIds, CancelJob(j) PROVE LQ!Cancel(j)
  <2> DEFINE row == Release(jobs[j], "cancelled")
  <2>1. jobs' = [jobs EXCEPT ![j] = row] /\ is_cancellable(jobs[j].status)
    BY <1>2 DEF CancelJob
  <2>2. /\ row.status = "cancelled"
        /\ row.locked_by = NULL
        /\ row.attempts = jobs[j].attempts
    BY <1>0, ReleaseRow DEF Status
  <2>3. is_leaseable(jobs[j].status) \/ jobs[j].status = "processing"
    BY <2>1 DEF is_cancellable, is_leaseable
  <2> HIDE DEF row
  <2>4. PhaseOf(jobs[j].status) \in {"waiting", "held"} /\ PhaseOf(row.status) = "cancelled"
    BY <2>1, <2>2, <2>3, Phases
  <2>5. /\ phaseBar[j] \in {"waiting", "held"}
        /\ phaseBar' = [phaseBar EXCEPT ![j] = "cancelled"]
        /\ holderBar' = [holderBar EXCEPT ![j] = NULL]
        /\ usedBar' = usedBar
    BY <1>0, <2>1, <2>2, <2>3, <2>4 DEF phaseBar, holderBar, usedBar
  <2> QED
    BY <2>5 DEF LQ!Cancel, phaseBar, holderBar, usedBar
<1>3. ASSUME NEW o \in Operators, NEW j \in JobIds, RetryUpdate(o, j) PROVE LQ!Revive(j)
  <2> DEFINE row == [Release(jobs[j], "queued") EXCEPT !.run_at = 0, !.attempts = 0]
  <2>1. /\ jobs' = [jobs EXCEPT ![j] = row]
        /\ jobs[j].status \in {"failed", "dead_lettered"}
    BY <1>3 DEF RetryUpdate, Retryable
  <2>2. /\ row.status = "queued"
        /\ row.locked_by = NULL
        /\ row.attempts = 0
    BY <1>0 DEF Release, JobRow
  <2>3. jobs[j].locked_by = NULL /\ is_leaseable("queued")
    BY <1>0, <2>1 DEF RowOK, is_leaseable
  <2> HIDE DEF row
  <2>4. PhaseOf(jobs[j].status) = "parked" /\ PhaseOf(row.status) = "waiting"
    BY <2>1, <2>2, <2>3, Phases
  <2>5. /\ phaseBar[j] = "parked"
        /\ phaseBar' = [phaseBar EXCEPT ![j] = "waiting"]
        /\ usedBar' = [usedBar EXCEPT ![j] = 0]
        /\ holderBar' = holderBar
    BY <1>0, <2>1, <2>2, <2>3, <2>4 DEF phaseBar, holderBar, usedBar
  <2> QED
    BY <2>5 DEF LQ!Revive, phaseBar, holderBar, usedBar
<1>4. ASSUME NEW o \in Operators, RetryDelete(o) \/ RetryAbort(o) PROVE UNCHANGED LQ!vars
  BY <1>4, Invisible DEF RetryDelete, RetryAbort, SameHold
<1>5. ASSUME NEW S \in SUBSET JobIds, PurgeFinished(S) PROVE LQ!Forget(S)
  <2>1. /\ \A j \in S : jobs[j].status \in {"completed", "cancelled"}
        /\ jobs' = [j \in JobIds |-> IF j \in S THEN NoRow("purged") ELSE jobs[j]]
    BY <1>5 DEF PurgeFinished
  <2>2. \A j \in S : phaseBar[j] \in {"completed", "cancelled"} /\ jobs[j].locked_by = NULL
    BY <1>0, <2>1, Phases DEF RowOK, phaseBar
  <2>3. \A j \in S : jobs'[j].status = "purged" /\ jobs'[j].locked_by = NULL /\ jobs'[j].attempts = 0
    BY <2>1 DEF NoRow
  <2>4. \A j \in JobIds \ S : jobs'[j] = jobs[j]
    BY <2>1
  <2>5. phaseBar' = [j \in JobIds |-> IF j \in S THEN "gone" ELSE phaseBar[j]]
    BY <2>3, <2>4, Phases DEF phaseBar
  <2>6. usedBar' = [j \in JobIds |-> IF j \in S THEN 0 ELSE usedBar[j]]
    BY <2>3, <2>4 DEF usedBar
  <2>7. holderBar' = holderBar
    BY <2>2, <2>3, <2>4 DEF holderBar
  <2> QED
    BY <2>2, <2>5, <2>6, <2>7 DEF LQ!Forget, phaseBar, holderBar, usedBar
<1> QED
  BY <1>1, <1>2, <1>3, <1>4, <1>5 DEF OperatorStep, LQ!Next

\* Rows taken back from their workers, each according to its budget, are one GiveBack.
LEMMA TakenBack ==
    ASSUME StoreInv, NEW S \in SUBSET JobIds,
           \A j \in S : /\ jobs[j].status = "processing"
                        /\ jobs'[j].locked_by = NULL
                        /\ jobs'[j].attempts = jobs[j].attempts
                        /\ \/ jobs'[j].status = "retrying" /\ ~Exhausted(j)
                           \/ jobs'[j].status \in {"failed", "dead_lettered"} /\ Exhausted(j),
           \A j \in JobIds \ S : jobs'[j] = jobs[j]
    PROVE  LQ!GiveBack(S)
<1>0. \A j \in JobIds : jobs[j].attempts \in Nat /\ MaxAttempts[j] \in Nat
  BY ColumnsAssumption DEF StoreInv, TypeOK, JobRow
<1>1. \A j \in S : phaseBar[j] = "held"
  BY Phases DEF phaseBar
<1>2. \A j \in S : PhaseOf(jobs'[j].status) =
        IF jobs[j].attempts < MaxAttempts[j] THEN "waiting" ELSE "parked"
  <2> TAKE j \in S
  <2>1. CASE Exhausted(j)
    BY <1>0, <2>1, Phases DEF Exhausted
  <2>2. CASE ~Exhausted(j)
    <3>1. jobs'[j].status = "retrying" /\ is_leaseable("retrying")
      BY <2>2 DEF is_leaseable
    <3>2. PhaseOf(jobs'[j].status) = "waiting"
      BY <3>1, Phases
    <3> QED
      BY <1>0, <2>2, <3>2 DEF Exhausted
  <2> QED
    BY <2>1, <2>2
<1>3. phaseBar' = [j \in JobIds |->
                     IF j \notin S THEN phaseBar[j]
                     ELSE IF usedBar[j] < MaxAttempts[j] THEN "waiting" ELSE "parked"]
  BY <1>2 DEF phaseBar, usedBar
<1>4. holderBar' = [j \in JobIds |-> IF j \in S THEN NULL ELSE holderBar[j]]
  BY DEF holderBar
<1>5. usedBar' = usedBar
  BY DEF usedBar
<1> QED
  BY <1>1, <1>3, <1>4, <1>5 DEF LQ!GiveBack, phaseBar, holderBar, usedBar

\* The commits of lease_next, complete_job and fail_job are Take, Complete and GiveBack;
\* their first statements and renewals are invisible.
LEMMA TaskMaps ==
    ASSUME StoreInv, NEW t \in Tasks, TaskStep(t)
    PROVE  LQ!Next \/ UNCHANGED LQ!vars
<1>0. /\ TypeOK /\ TransactionsHoldRows
      /\ jobs \in [JobIds -> JobRow]
      /\ \A j \in JobIds : jobs[j] \in JobRow /\ RowOK(j, jobs[j])
      /\ tx[t].op # "none" => tx[t].job \in JobIds
      /\ WorkerOf[t] \in Workers
  BY RowByRow, CallersAssumption DEF StoreInv, TypeOK, TransactionsHoldRows
<1>1. ASSUME \/ LeaseUpdate(t)
             \/ \E j \in JobIds : CompleteUpdate(t, j) \/ FailSelect(t, j)
      PROVE  UNCHANGED LQ!vars
  BY <1>1, Invisible DEF LeaseUpdate, CompleteUpdate, FailSelect, SameHold
<1>2. ASSUME NEW e \in 0 .. TxAge, LeaseCommit(t, e) PROVE LQ!Next
  <2>0. PICK j \in JobIds : j = tx[t].job
    BY <1>0, <1>2 DEF LeaseCommit
  <2> DEFINE row == [jobs[j] EXCEPT !.status = "processing", !.locked_by = WorkerOf[t],
                                    !.lease_expires_at = LeaseSecs - e,
                                    !.attempts = jobs[j].attempts + 1]
  <2>1. is_leaseable(jobs[j].status) /\ jobs' = [jobs EXCEPT ![j] = row]
    BY <1>0, <1>2, <2>0 DEF LeaseCommit, TransactionsHoldRows
  <2>2. /\ row.status = "processing"
        /\ row.locked_by = WorkerOf[t]
        /\ row.attempts = jobs[j].attempts + 1
    BY <1>0, <2>1 DEF JobRow
  <2>3. jobs[j].attempts < MaxAttempts[j]
    BY <1>0, <2>1 DEF RowOK
  <2>4. PhaseOf(jobs[j].status) = "waiting" /\ PhaseOf(row.status) = "held"
    BY <2>1, <2>2, Phases
  <2> HIDE DEF row
  <2>5. /\ phaseBar[j] = "waiting"
        /\ usedBar[j] < MaxAttempts[j]
        /\ phaseBar' = [phaseBar EXCEPT ![j] = "held"]
        /\ holderBar' = [holderBar EXCEPT ![j] = WorkerOf[t]]
        /\ usedBar' = [usedBar EXCEPT ![j] = usedBar[j] + 1]
    BY <1>0, <2>1, <2>2, <2>3, <2>4 DEF phaseBar, holderBar, usedBar
  <2>6. LQ!Take(j, WorkerOf[t])
    BY <2>5 DEF LQ!Take, phaseBar, holderBar, usedBar
  <2> QED
    BY <1>0, <2>6 DEF LQ!Next
<1>3. ASSUME CompleteCommit(t) PROVE LQ!Next
  <2>0. PICK j \in JobIds : j = tx[t].job
    BY <1>0, <1>3 DEF CompleteCommit
  <2> DEFINE row == Release(jobs[j], "completed")
  <2>1. jobs[j].status = "processing" /\ jobs' = [jobs EXCEPT ![j] = row]
    BY <1>0, <1>3, <2>0 DEF CompleteCommit, TransactionsHoldRows, HoldsLease
  <2>2. /\ row.status = "completed"
        /\ row.locked_by = NULL
        /\ row.attempts = jobs[j].attempts
    BY <1>0, <2>1, ReleaseRow DEF Status
  <2>3. PhaseOf(jobs[j].status) = "held" /\ PhaseOf(row.status) = "completed"
    BY <2>1, <2>2, Phases
  <2> HIDE DEF row
  <2>4. /\ phaseBar[j] = "held"
        /\ phaseBar' = [phaseBar EXCEPT ![j] = "completed"]
        /\ holderBar' = [holderBar EXCEPT ![j] = NULL]
        /\ usedBar' = usedBar
    BY <1>0, <2>1, <2>2, <2>3 DEF phaseBar, holderBar, usedBar
  <2>5. LQ!Complete(j)
    BY <2>4 DEF LQ!Complete, phaseBar, holderBar, usedBar
  <2> QED
    BY <2>5 DEF LQ!Next
<1>4. ASSUME NEW e \in 0 .. TxAge, NEW timed_out \in BOOLEAN, FailCommit(t, timed_out, e)
      PROVE  LQ!Next
  <2>0. PICK j \in JobIds : j = tx[t].job
    BY <1>0, <1>4 DEF FailCommit
  <2>1. /\ jobs[j].status = "processing"
        /\ jobs' = [jobs EXCEPT ![j] = AfterFailure(j, e)]
    BY <1>0, <1>4, <2>0 DEF FailCommit, HoldsLease
  <2>2. /\ AfterFailure(j, e).locked_by = NULL
        /\ AfterFailure(j, e).attempts = jobs[j].attempts
        /\ \/ AfterFailure(j, e).status = "retrying" /\ ~Exhausted(j)
           \/ AfterFailure(j, e).status \in {"failed", "dead_lettered"} /\ Exhausted(j)
    <3>1. jobs[j] \in JobRow /\ DeadLetter[j] \in BOOLEAN
      BY <1>0, <2>1, ColumnsAssumption
    <3>2. CASE Exhausted(j)
      BY <3>1, <3>2 DEF AfterFailure, Release, JobRow
    <3>3. CASE ~Exhausted(j)
      <4>1. AfterFailure(j, e) = [Release(jobs[j], "retrying") EXCEPT
                                     !.run_at = Delay[j][jobs[j].attempts] - e]
        BY <3>3 DEF AfterFailure
      <4> QED
        BY <3>1, <3>3, <4>1 DEF Release, JobRow
    <3> QED
      BY <3>2, <3>3
  <2>3. jobs'[j] = AfterFailure(j, e) /\ \A i \in JobIds \ {j} : jobs'[i] = jobs[i]
    BY <1>0, <2>1
  <2>4. PICK S \in SUBSET JobIds : S = {j}
    OBVIOUS
  <2>5. \A i \in S : /\ jobs[i].status = "processing"
                     /\ jobs'[i].locked_by = NULL
                     /\ jobs'[i].attempts = jobs[i].attempts
                     /\ \/ jobs'[i].status = "retrying" /\ ~Exhausted(i)
                        \/ jobs'[i].status \in {"failed", "dead_lettered"} /\ Exhausted(i)
    <3> TAKE i \in S
    <3>1. i = j
      BY <2>4
    <3> QED
      BY <2>1, <2>2, <2>3, <3>1
  <2>6. \A i \in JobIds \ S : jobs'[i] = jobs[i]
    BY <2>3, <2>4
  <2>7. LQ!GiveBack(S)
    BY <2>5, <2>6, TakenBack
  <2> QED
    BY <2>7 DEF LQ!Next
<1>5. ASSUME NEW j \in JobIds, NEW e \in 0 .. TxAge, RenewLease(t, j, e)
      PROVE  UNCHANGED LQ!vars
  <2>1. \A i \in JobIds : SameHold(jobs[i], jobs'[i]) /\ jobs'[i].attempts = jobs[i].attempts
    BY <1>0, <1>5 DEF RenewLease, JobRow, SameHold
  <2> QED
    BY <2>1, Invisible
<1> QED
  BY <1>1, <1>2, <1>3, <1>4, <1>5 DEF TaskStep

\* The three UPDATEs of recover_expired_leases are GiveBacks, its last statement is invisible.
LEMMA ReaperMaps ==
    ASSUME StoreInv, NEW r \in Reapers, ReaperStep(r)
    PROVE  LQ!Next \/ UNCHANGED LQ!vars
<1>0. \A j \in JobIds : jobs[j] \in JobRow
  BY DEF StoreInv, TypeOK
<1>1. ASSUME NEW j \in JobIds, NEW s \in {"retrying", "failed", "dead_lettered"}, NEW n
      PROVE  /\ Release(jobs[j], s).status = s
             /\ Release(jobs[j], s).locked_by = NULL
             /\ Release(jobs[j], s).attempts = jobs[j].attempts
             /\ [Release(jobs[j], s) EXCEPT !.run_at = n].status = s
             /\ [Release(jobs[j], s) EXCEPT !.run_at = n].locked_by = NULL
             /\ [Release(jobs[j], s) EXCEPT !.run_at = n].attempts = jobs[j].attempts
  BY <1>0 DEF Release, JobRow
<1>2. CASE RecoverRetrying(r)
  <2>1. PICK S \in Batch({j \in JobIds : Expired(j) /\ ~Exhausted(j)}) :
          jobs' = [j \in JobIds |->
                     IF j \in S
                     THEN [Release(jobs[j], "retrying") EXCEPT
                             !.run_at = Delay[j][jobs[j].attempts]]
                     ELSE jobs[j]]
    BY <1>2 DEF RecoverRetrying
  <2>2. S \in SUBSET JobIds /\ \A j \in S : jobs[j].status = "processing" /\ ~Exhausted(j)
    BY DEF Batch, Expired
  <2>3. \A j \in S : /\ jobs'[j].status = "retrying"
                     /\ jobs'[j].locked_by = NULL
                     /\ jobs'[j].attempts = jobs[j].attempts
    BY <1>1, <2>1, <2>2
  <2>4. \A j \in JobIds \ S : jobs'[j] = jobs[j]
    BY <2>1
  <2>5. LQ!GiveBack(S)
    BY <2>2, <2>3, <2>4, TakenBack
  <2> QED
    BY <2>2, <2>5 DEF LQ!Next
<1>3. CASE RecoverDeadLettered(r)
  <2>1. PICK S \in Batch({j \in JobIds : Expired(j) /\ Exhausted(j) /\ DeadLetter[j]}) :
          jobs' = [j \in JobIds |->
                     IF j \in S THEN Release(jobs[j], "dead_lettered") ELSE jobs[j]]
    BY <1>3 DEF RecoverDeadLettered
  <2>2. S \in SUBSET JobIds /\ \A j \in S : jobs[j].status = "processing" /\ Exhausted(j)
    BY DEF Batch, Expired
  <2>3. \A j \in S : /\ jobs'[j].status = "dead_lettered"
                     /\ jobs'[j].locked_by = NULL
                     /\ jobs'[j].attempts = jobs[j].attempts
    BY <1>1, <2>1, <2>2
  <2>4. \A j \in JobIds \ S : jobs'[j] = jobs[j]
    BY <2>1
  <2>5. LQ!GiveBack(S)
    BY <2>2, <2>3, <2>4, TakenBack
  <2> QED
    BY <2>2, <2>5 DEF LQ!Next
<1>4. CASE RecoverFailed(r)
  <2>1. PICK S \in Batch({j \in JobIds : Expired(j) /\ Exhausted(j) /\ ~DeadLetter[j]}) :
          jobs' = [j \in JobIds |->
                     IF j \in S THEN Release(jobs[j], "failed") ELSE jobs[j]]
    BY <1>4 DEF RecoverFailed
  <2>2. S \in SUBSET JobIds /\ \A j \in S : jobs[j].status = "processing" /\ Exhausted(j)
    BY DEF Batch, Expired
  <2>3. \A j \in S : /\ jobs'[j].status = "failed"
                     /\ jobs'[j].locked_by = NULL
                     /\ jobs'[j].attempts = jobs[j].attempts
    BY <1>1, <2>1, <2>2
  <2>4. \A j \in JobIds \ S : jobs'[j] = jobs[j]
    BY <2>1
  <2>5. LQ!GiveBack(S)
    BY <2>2, <2>3, <2>4, TakenBack
  <2> QED
    BY <2>2, <2>5 DEF LQ!Next
<1>5. CASE RecoverClose(r) \/ RecoverAbort(r)
  BY <1>5, Invisible DEF RecoverClose, RecoverAbort, SameHold
<1> QED
  BY <1>2, <1>3, <1>4, <1>5 DEF ReaperStep

\* Every step of the store is a step of the lease queue or invisible.
LEMMA NextMaps == StoreInv /\ [StoreNext]_storeVars => [LQ!Next]_(LQ!vars)
<1> SUFFICES ASSUME StoreInv, [StoreNext]_storeVars PROVE LQ!Next \/ UNCHANGED LQ!vars
  OBVIOUS
<1>1. CASE UNCHANGED storeVars
  BY <1>1, Invisible DEF storeVars, SameHold
<1>2. CASE QueueStep
  BY <1>2, Invisible DEF QueueStep, EnsureQueue, SetQueuePaused, SameHold
<1>3. CASE \E T \in SUBSET OpenTx : Rollback(T)
  BY <1>3, Invisible DEF Rollback, SameHold
<1>4. CASE Tick
  <2>1. \A j \in JobIds : jobs[j] \in JobRow /\ jobs'[j] = Aged(jobs[j])
    BY <1>4 DEF Tick, StoreInv, TypeOK
  <2>2. \A j \in JobIds : SameHold(jobs[j], jobs'[j]) /\ jobs'[j].attempts = jobs[j].attempts
    BY <2>1, AgedRow DEF SameHold
  <2> QED
    BY <2>2, Invisible
<1> QED
  BY <1>1, <1>2, <1>3, <1>4, OperatorMaps, TaskMaps, ReaperMaps DEF StoreNext

\* PgStore, under any callers, is a lease queue: one holder at a time, one attempt per
\* lease, never more attempts than the budget, nothing back from the finished.
THEOREM StoreImplementsLeaseQueue == StoreSpec => ImplementsLeaseQueue
  BY InitMaps, NextMaps, StoreInvariant, PTL DEF StoreSpec, ImplementsLeaseQueue, LQ!Spec
=============================================================================
