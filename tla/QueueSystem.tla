------------------------------ MODULE QueueSystem ------------------------------
(***************************************************************************)
(* The whole queue: worker processes that lease, run and report jobs, the  *)
(* API's callers and the maintenance loop, over one store.  Each worker    *)
(* step is a step of WorkerRuntime joined to the store step it makes.      *)
(***************************************************************************)
EXTENDS JobStore

ASSUME SlotsAssumption == IsFiniteSet(Tasks)

VARIABLES
    worker, slot,   \* of WorkerRuntime
    metrics         \* what the workers have counted, all processes together

RT == INSTANCE WorkerRuntime

runtimeVars == <<worker, slot>>
sysVars == <<storeVars, runtimeVars, metrics>>

Counters == {"completed", "failed", "retrying", "dead_lettered"}

SysInit ==
    /\ StoreInit
    /\ RT!RuntimeInit
    /\ metrics = [c \in Counters |-> 0]

SlotOK ==
    /\ worker \in [Workers -> {"new", "up", "stopping", "draining", "stopped"}]
    /\ slot \in [Tasks -> [pc : {"idle", "leasing", "renewing", "running", "reporting",
                                 "fetching"},
                           job : JobIds \cup {NULL}, attempt : Nat,
                           outcome : RT!Outcome \cup {NULL}]]

SysTypeOK == TypeOK /\ SlotOK /\ metrics \in [Counters -> Nat]

Inc(c) == metrics' = [metrics EXCEPT ![c] = @ + 1]

-----------------------------------------------------------------------------
(* The steps of a slot.                                                    *)

\* The query picks a row; a poll that finds none leaves no trace and is not a step.
Lease(t) == RT!LeaseCall(t) /\ LeaseUpdate(t) /\ UNCHANGED metrics

\* The COMMIT arrives, and so does its answer.
Leased(t) ==
    /\ slot[t].pc = "leasing"
    /\ RT!LeaseGot(t, tx[t].job, jobs[tx[t].job].attempts + 1)
    /\ \E e \in 0 .. TxAge : LeaseCommit(t, e)
    /\ UNCHANGED metrics

\* The COMMIT took effect but its answer was lost: lease_next returns Err.
LeasedUnknown(t) ==
    /\ RT!LeaseNothing(t)
    /\ \E e \in 0 .. TxAge : LeaseCommit(t, e)
    /\ UNCHANGED metrics

LeaseFails(t) == RT!LeaseNothing(t) /\ Rollback({t}) /\ UNCHANGED metrics

Renew(t) ==
    /\ RT!RenewOk(t)
    /\ \E e \in 0 .. TxAge : RenewLease(t, slot[t].job, e)
    /\ UNCHANGED metrics

RenewUnknown(t) ==
    /\ RT!RenewErr(t)
    /\ \E e \in 0 .. TxAge : RenewLease(t, slot[t].job, e)
    /\ UNCHANGED metrics

\* rows_affected() = 0, or a storage error.
RenewFails(t) == RT!RenewErr(t) /\ UNCHANGED <<storeVars, metrics>>

\* Mutant: a success is counted when the handler returns, before complete_job.
Ends_CountsEarly(t, outcome) ==
    /\ RT!HandlerEnds(t, outcome)
    /\ Inc(IF outcome = "success" THEN "completed" ELSE "failed")

\* The handler is over and report_outcome begins: record_failure counts the failure
\* before it calls the store (jobs_timed_out, counted there too, is not told apart).
Ends(t, outcome) ==
    /\ RT!HandlerEnds(t, outcome)
    /\ IF outcome = "success" THEN UNCHANGED metrics ELSE Inc("failed")

Run(t) ==
    /\ \/ \E outcome \in RT!Outcome : Ends(t, outcome)
       \/ RT!HandlerPanics(t) /\ UNCHANGED metrics
    /\ UNCHANGED storeVars

\* complete_job or fail_job opens its transaction.
Report(t) ==
    /\ slot[t].pc = "reporting"
    /\ \/ slot[t].outcome = "success" /\ CompleteUpdate(t, slot[t].job)
       \/ slot[t].outcome # "success" /\ FailSelect(t, slot[t].job)
    /\ UNCHANGED <<runtimeVars, metrics>>

\* complete_job commits and the success is counted; its answer may be lost, which the
\* task only logs.
Completed(t) ==
    /\ RT!Reported(t)
    /\ CompleteCommit(t)
    /\ Inc("completed") \/ UNCHANGED metrics

\* fail_job commits; the SELECT of fetch_job is still to come.
Failed(t) ==
    /\ RT!FailCommitted(t)
    /\ \E e \in 0 .. TxAge : FailCommit(t, slot[t].outcome = "timeout", e)
    /\ UNCHANGED metrics

\* The COMMIT took effect but its answer was lost: fail_job returns Err.
FailedUnknown(t) ==
    /\ RT!Reported(t)
    /\ \E e \in 0 .. TxAge : FailCommit(t, slot[t].outcome = "timeout", e)
    /\ UNCHANGED metrics

\* The lease was lost, the job is gone, or the database failed.
ReportFails(t) ==
    /\ slot[t].pc = "reporting"
    /\ RT!Reported(t)
    /\ Rollback({t})
    /\ UNCHANGED metrics

ReportEnds(t) == Completed(t) \/ Failed(t) \/ FailedUnknown(t) \/ ReportFails(t)

\* record_failure counts jobs_retried or jobs_dead_lettered by the status it is given.
Counted(status) ==
    IF status \in {"retrying", "dead_lettered"} THEN Inc(status) ELSE UNCHANGED metrics

\* The job as fetch_job finds it, which others may have moved on since the COMMIT; the
\* SELECT may also fail, or find the row purged.
Fetched(t) ==
    /\ slot[t].pc = "fetching"
    /\ RT!Reported(t)
    /\ Counted(jobs[slot[t].job].status) \/ UNCHANGED metrics
    /\ UNCHANGED storeVars

SlotStep(t) ==
    \/ Lease(t) \/ Leased(t) \/ LeasedUnknown(t) \/ LeaseFails(t)
    \/ Renew(t) \/ RenewUnknown(t) \/ RenewFails(t)
    \/ Run(t)
    \/ Report(t) \/ ReportEnds(t) \/ Fetched(t)

-----------------------------------------------------------------------------
(* The steps of a worker process.                                          *)

\* Dropping a Transaction, or losing its connection, rolls it back.
ProcessStep(w) ==
    \/ /\ RT!Start(w) \/ RT!Shutdown(w) \/ RT!LoopEnds(w) \/ RT!Drained(w)
       /\ UNCHANGED <<storeVars, metrics>>
    \/ /\ RT!GraceElapses(w) \/ RT!Crash(w)
       /\ Rollback(RT!SlotsOf(w))
       /\ UNCHANGED metrics

-----------------------------------------------------------------------------
EnvironmentStep == (QueueStep \/ OperatorStep) /\ UNCHANGED <<runtimeVars, metrics>>

MaintenanceStep == (\E r \in Reapers : ReaperStep(r)) /\ UNCHANGED <<runtimeVars, metrics>>

TimePasses == Tick /\ UNCHANGED <<runtimeVars, metrics>>

SysNext ==
    \/ \E t \in Tasks : SlotStep(t)
    \/ \E w \in Workers : ProcessStep(w)
    \/ EnvironmentStep
    \/ MaintenanceStep
    \/ TimePasses

SysSpec == SysInit /\ [][SysNext]_sysVars

-----------------------------------------------------------------------------
(* Fairness.                                                               *)

\* Time passes and the maintenance loop goes on: the ticker fires again after every
\* sweep, failed or not, and a statement that keeps being tried succeeds in the end.
MaintenanceFairness ==
    /\ WF_sysVars(TimePasses)
    /\ \A r \in Reapers :
         /\ SF_sysVars(RecoverRetrying(r) /\ UNCHANGED <<runtimeVars, metrics>>)
         /\ SF_sysVars(RecoverDeadLettered(r) /\ UNCHANGED <<runtimeVars, metrics>>)
         /\ SF_sysVars(RecoverFailed(r) /\ UNCHANGED <<runtimeVars, metrics>>)
         /\ SF_sysVars(RecoverClose(r) /\ UNCHANGED <<runtimeVars, metrics>>)

\* An open transaction ends one way or the other.
TransactionsEnd == \A t \in Tasks :
    WF_sysVars(Leased(t) \/ LeasedUnknown(t) \/ LeaseFails(t)
                 \/ (tx[t] # NoTx /\ ReportEnds(t)))

\* A live worker polls again after poll_interval and its tasks go on: the database
\* answers, and the timeout ends a handler that does not return.
WorkerFairness == \A t \in Tasks :
    /\ SF_sysVars(Lease(t))
    /\ SF_sysVars(Leased(t))
    /\ WF_sysVars(Renew(t) \/ RenewFails(t))
    /\ WF_sysVars(Run(t))
    /\ WF_sysVars(ReportEnds(t))
    /\ WF_sysVars(Fetched(t))

\* Workers may hang or die at any time, only maintenance goes on.
SysSpecMaintained == SysSpec /\ MaintenanceFairness /\ TransactionsEnd

-----------------------------------------------------------------------------
(* What the system promises.                                               *)

Executing(t) == slot[t].pc \in {"renewing", "running", "reporting"}

\* The only fence complete_job, fail_job and renew_lease have is the worker id.  A task
\* that has lost its lease passes it again in one case only, whatever its worker's
\* concurrency: another slot of the same worker process leases the same job anew.  No other
\* worker's lease, no recovery, operator, crash or lost answer lets a late task back in.
LostLeaseStaysLost == [][\A t \in Tasks :
    LET j == slot[t].job
    IN  /\ Executing(t) /\ ~HoldsLease(t, j)
        /\ Executing(t)' /\ slot'[t].job = j
        /\ HoldsLease(t, slot[t].job)'
        => \E u \in RT!SlotsOf(WorkerOf[t]) \ {t} :
             slot[u].pc = "leasing" /\ tx[u].job = j /\ tx'[u] = NoTx]_sysVars

\* The ids of all attempt rows.
AttemptRows == UNION {{<<j, k>> : k \in DOMAIN history[j]} : j \in JobIds}

\* What the workers count is never more than what happened, through lost answers, repeated
\* attempts, refused reports, late reads of the job and crashes: a job is counted completed
\* at most once, an attempt counted completed or failed at most once, and a retry or dead
\* letter counted at most once per failure.
CountsAreBounded ==
    /\ metrics["completed"]
         <= Cardinality({j \in JobIds : jobs[j].status \in {"completed", "purged"}})
    /\ (\A j \in JobIds : jobs[j].status # "purged") =>
         metrics["completed"] + metrics["failed"] <= Cardinality(AttemptRows)
    /\ metrics["retrying"] + metrics["dead_lettered"] <= metrics["failed"]

\* No job is stuck with a worker: even if every worker hangs or dies, the reaper takes
\* a leased job back once the lease has expired ("work is never lost").
AbandonedJobsRecovered == \A j \in JobIds :
    (jobs[j].status = "processing") ~> (jobs[j].status # "processing")

Settled(j) == jobs[j].status \in {"completed", "cancelled", "failed", "dead_lettered", "purged"}

\* If live workers go on, one of them stays up and the queues are not left paused, every
\* submitted job is completed, cancelled, or out of attempts in the end, whatever crashes.
EveryJobSettles ==
    /\ WorkerFairness
    /\ \E w \in Workers : <>[](worker[w] = "up")
    /\ <>[](\A q \in Queues : queues[q] # "paused")
    => \A j \in JobIds : Exists(j) ~> Settled(j)
=============================================================================
