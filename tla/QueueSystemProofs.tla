-------------------------- MODULE QueueSystemProofs --------------------------
(***************************************************************************)
(* Proofs about QueueSystem, for any number of jobs, workers and slots.    *)
(*                                                                         *)
(* Every step of a worker is a step of the store or leaves the store alone *)
(* provided that a slot and its transaction belong together; that is what  *)
(* SysInv adds to the invariant of the store.  With it the system uses the *)
(* store correctly, and what JobStoreSteps says of one row and its log is  *)
(* available here: for the fence, and for the counters, whose invariant    *)
(* CountInv leaves room for what the slots at work may still count.        *)
(***************************************************************************)
EXTENDS QueueSystem, JobStoreSteps, FiniteSetTheorems

Slot == [pc : {"idle", "leasing", "renewing", "running", "reporting", "fetching"},
         job : JobIds \cup {NULL}, attempt : Nat, outcome : RT!Outcome \cup {NULL}]

\* A slot and the transaction it has open belong together: it leases, or reports the
\* job it was given in the way its handler ended.
SlotTx(s, x) ==
    /\ s.pc \in {"renewing", "running", "reporting", "fetching"} => s.job \in JobIds
    /\ s.pc = "leasing" <=> x.op = "lease"
    /\ x.op = "complete" => s.pc = "reporting" /\ s.outcome = "success" /\ s.job = x.job
    /\ x.op = "fail" => s.pc = "reporting" /\ s.outcome # "success" /\ s.job = x.job

SlotsInv ==
    /\ SlotOK
    /\ metrics \in [Counters -> Nat]
    /\ \A t \in Tasks : SlotTx(slot[t], tx[t])

SysInv == StoreInv /\ SlotsInv

-----------------------------------------------------------------------------
(* Lemmas about slots.                                                     *)

\* A step of the store and of one slot; the other slots and transactions stay.
LEMMA OneSlotInv ==
    ASSUME SlotsInv, NEW t \in Tasks, NEW s \in Slot, NEW x, SlotTx(s, x),
           worker' = worker, slot' = [slot EXCEPT ![t] = s],
           metrics' \in [Counters -> Nat],
           \A u \in Tasks : tx'[u] = IF u = t THEN x ELSE tx[u]
    PROVE  SlotsInv'
<1>1. slot \in [Tasks -> Slot]
  BY DEF SlotsInv, SlotOK, Slot
<1>2. SlotOK'
  BY <1>1 DEF SlotsInv, SlotOK, Slot
<1>3. \A u \in Tasks : SlotTx(slot'[u], tx'[u])
  BY <1>1 DEF SlotsInv
<1> QED
  BY <1>2, <1>3 DEF SlotsInv

\* Counting keeps the counters counters.
LEMMA IncType ==
    ASSUME metrics \in [Counters -> Nat], NEW c, Inc(c) \/ UNCHANGED metrics
    PROVE  metrics' \in [Counters -> Nat]
  BY DEF Inc

-----------------------------------------------------------------------------
(* The inductive invariant.                                                *)

\* Nothing has been leased when the system starts.
LEMMA SysInitInv == SysInit => SysInv
<1> SUFFICES ASSUME SysInit PROVE SlotsInv
  BY InitInv DEF SysInit, SysInv
<1>1. RT!Idle \in Slot /\ RT!Idle.pc = "idle"
  BY DEF Slot, RT!Idle
<1>2. SlotOK /\ metrics \in [Counters -> Nat]
  BY <1>1 DEF SysInit, RT!RuntimeInit, SlotOK, Slot
<1>3. \A t \in Tasks : SlotTx(slot[t], tx[t])
  BY <1>1 DEF SysInit, RT!RuntimeInit, StoreInit, NoTx, SlotTx
<1> QED
  BY <1>2, <1>3 DEF SlotsInv

\* Every step of a slot keeps slots and transactions together.
LEMMA SlotStepInv ==
    ASSUME SysInv, NEW t \in Tasks, SlotStep(t)
    PROVE  SlotsInv'
<1>0. /\ SlotsInv /\ TypeOK /\ TransactionsHoldRows
      /\ slot \in [Tasks -> Slot] /\ slot[t] \in Slot /\ SlotTx(slot[t], tx[t])
      /\ metrics \in [Counters -> Nat]
      /\ \A c : Inc(c) \/ UNCHANGED metrics => metrics' \in [Counters -> Nat]
  BY IncType DEF SysInv, SlotsInv, StoreInv, SlotOK, Slot
<1>1. RT!Idle \in Slot /\ SlotTx(RT!Idle, NoTx)
  BY DEF Slot, RT!Idle, SlotTx, NoTx
<1>2. ASSUME slot' = [slot EXCEPT ![t] = RT!Idle], worker' = worker,
             tx' = [tx EXCEPT ![t] = NoTx] \/ Rollback({t}),
             metrics' \in [Counters -> Nat]
      PROVE  SlotsInv'
  <2>1. \A u \in Tasks : tx'[u] = IF u = t THEN NoTx ELSE tx[u]
    BY <1>0, <1>2 DEF Rollback, TypeOK
  <2> QED
    BY <1>0, <1>1, <1>2, <2>1, OneSlotInv
<1>3. CASE Lease(t)
  <2> DEFINE s == [RT!Idle EXCEPT !.pc = "leasing"]
  <2>1. s \in Slot /\ s.pc = "leasing"
    BY DEF Slot, RT!Idle
  <2>2. /\ slot' = [slot EXCEPT ![t] = s] /\ worker' = worker
        /\ metrics' \in [Counters -> Nat]
    BY <1>0, <1>3 DEF Lease, RT!LeaseCall
  <2>3. PICK j \in JobIds : tx' = [tx EXCEPT ![t] = [op |-> "lease", job |-> j]]
    BY <1>3 DEF Lease, LeaseUpdate
  <2>4. SlotTx(s, [op |-> "lease", job |-> j])
    BY <2>1 DEF SlotTx
  <2>5. \A u \in Tasks : tx'[u] = IF u = t THEN [op |-> "lease", job |-> j] ELSE tx[u]
    BY <1>0, <2>3 DEF TypeOK
  <2> HIDE DEF s
  <2> QED
    BY <1>0, <2>1, <2>2, <2>4, <2>5, OneSlotInv
<1>4. CASE Leased(t)
  <2> DEFINE j == tx[t].job
             n == jobs[tx[t].job].attempts + 1
             s == [RT!Idle EXCEPT !.pc = "renewing", !.job = j, !.attempt = n]
  <2>1. j \in JobIds /\ n \in Nat
    BY <1>0, <1>4 DEF Leased, LeaseCommit, TransactionsHoldRows, TypeOK, JobRow
  <2>2. s \in Slot /\ s.pc = "renewing" /\ s.job = j
    <3> HIDE DEF j, n
    <3> QED
      BY <2>1 DEF Slot, RT!Idle
  <2>3. /\ slot' = [slot EXCEPT ![t] = s] /\ worker' = worker
        /\ metrics' \in [Counters -> Nat]
    BY <1>0, <1>4 DEF Leased, RT!LeaseGot
  <2>4. \A u \in Tasks : tx'[u] = IF u = t THEN NoTx ELSE tx[u]
    BY <1>0, <1>4 DEF Leased, LeaseCommit, TypeOK
  <2> HIDE DEF s, j, n
  <2>5. SlotTx(s, NoTx)
    BY <2>1, <2>2 DEF SlotTx, NoTx
  <2> QED
    BY <1>0, <2>2, <2>3, <2>4, <2>5, OneSlotInv
<1>5. CASE LeasedUnknown(t) \/ LeaseFails(t)
  BY <1>0, <1>2, <1>5 DEF LeasedUnknown, LeaseFails, RT!LeaseNothing, LeaseCommit
<1>6. CASE Renew(t)
  <2> DEFINE s == [slot[t] EXCEPT !.pc = "running"]
  <2>1. s \in Slot /\ s.pc = "running" /\ s.job = slot[t].job
    BY <1>0 DEF Slot
  <2>2. /\ slot' = [slot EXCEPT ![t] = s] /\ worker' = worker /\ tx' = tx
        /\ metrics' \in [Counters -> Nat] /\ slot[t].pc = "renewing"
    BY <1>0, <1>6 DEF Renew, RT!RenewOk, RenewLease
  <2> HIDE DEF s
  <2>3. SlotTx(s, tx[t])
    BY <1>0, <2>1, <2>2 DEF SlotTx
  <2> QED
    BY <1>0, <2>1, <2>2, <2>3, OneSlotInv
<1>7. CASE RenewUnknown(t) \/ RenewFails(t)
  <2>1. /\ slot' = [slot EXCEPT ![t] = RT!Idle] /\ worker' = worker /\ tx' = tx
        /\ metrics' \in [Counters -> Nat] /\ slot[t].pc = "renewing"
    BY <1>0, <1>7 DEF RenewUnknown, RenewFails, RT!RenewErr, RenewLease, storeVars
  <2>2. SlotTx(RT!Idle, tx[t])
    BY <1>0, <2>1 DEF SlotTx, RT!Idle
  <2> QED
    BY <1>0, <1>1, <2>1, <2>2, OneSlotInv
<1>8. ASSUME NEW o \in RT!Outcome, Ends(t, o), UNCHANGED storeVars PROVE SlotsInv'
  <2> DEFINE s == [slot[t] EXCEPT !.pc = "reporting", !.outcome = o]
  <2>1. s \in Slot /\ s.pc = "reporting" /\ s.job = slot[t].job
    BY <1>0 DEF Slot
  <2>2. /\ slot' = [slot EXCEPT ![t] = s] /\ worker' = worker /\ tx' = tx
        /\ metrics' \in [Counters -> Nat] /\ slot[t].pc = "running"
    BY <1>0, <1>8 DEF Ends, RT!HandlerEnds, storeVars
  <2> HIDE DEF s
  <2>3. SlotTx(s, tx[t])
    BY <1>0, <2>1, <2>2 DEF SlotTx
  <2> QED
    BY <1>0, <2>1, <2>2, <2>3, OneSlotInv
<1>9. CASE RT!HandlerPanics(t) /\ UNCHANGED metrics /\ UNCHANGED storeVars
  <2>1. /\ slot' = [slot EXCEPT ![t] = RT!Idle] /\ worker' = worker /\ tx' = tx
        /\ metrics' \in [Counters -> Nat] /\ slot[t].pc = "running"
    BY <1>0, <1>9 DEF RT!HandlerPanics, storeVars
  <2>2. SlotTx(RT!Idle, tx[t])
    BY <1>0, <2>1 DEF SlotTx, RT!Idle
  <2> QED
    BY <1>0, <1>1, <2>1, <2>2, OneSlotInv
<1>10. CASE Report(t)
  <2>1. /\ slot[t].pc = "reporting" /\ slot' = slot /\ worker' = worker
        /\ metrics' \in [Counters -> Nat]
    BY <1>0, <1>10 DEF Report, runtimeVars
  <2>2. slot' = [slot EXCEPT ![t] = slot[t]]
    BY <1>0, <2>1
  <2>3. PICK op \in {"complete", "fail"} :
          /\ tx' = [tx EXCEPT ![t] = [op |-> op, job |-> slot[t].job]]
          /\ op = "complete" <=> slot[t].outcome = "success"
    BY <1>10 DEF Report, CompleteUpdate, FailSelect
  <2>4. SlotTx(slot[t], [op |-> op, job |-> slot[t].job])
    BY <1>0, <2>1, <2>3 DEF SlotTx
  <2>5. \A u \in Tasks : tx'[u] = IF u = t THEN [op |-> op, job |-> slot[t].job] ELSE tx[u]
    BY <1>0, <2>3 DEF TypeOK
  <2> QED
    BY <1>0, <2>1, <2>2, <2>4, <2>5, OneSlotInv
<1>11. CASE Completed(t) \/ FailedUnknown(t)
  <2>1. /\ slot' = [slot EXCEPT ![t] = RT!Idle] /\ worker' = worker
        /\ tx' = [tx EXCEPT ![t] = NoTx]
    BY <1>11 DEF Completed, FailedUnknown, RT!Reported, CompleteCommit, FailCommit
  <2>2. metrics' \in [Counters -> Nat]
    BY <1>0, <1>11 DEF Completed, FailedUnknown
  <2> QED
    BY <1>2, <2>1, <2>2
<1>14. CASE Failed(t)
  <2> DEFINE s == [slot[t] EXCEPT !.pc = "fetching"]
  <2>1. s \in Slot /\ s.pc = "fetching" /\ s.job = slot[t].job
    BY <1>0 DEF Slot
  <2>2. /\ slot' = [slot EXCEPT ![t] = s] /\ worker' = worker
        /\ tx' = [tx EXCEPT ![t] = NoTx]
        /\ metrics' \in [Counters -> Nat] /\ slot[t].pc = "reporting"
    BY <1>0, <1>14 DEF Failed, RT!FailCommitted, FailCommit
  <2>3. \A u \in Tasks : tx'[u] = IF u = t THEN NoTx ELSE tx[u]
    BY <1>0, <2>2 DEF TypeOK
  <2> HIDE DEF s
  <2>4. SlotTx(s, NoTx)
    BY <1>0, <2>1, <2>2 DEF SlotTx, NoTx
  <2> QED
    BY <1>0, <2>1, <2>2, <2>3, <2>4, OneSlotInv
<1>15. CASE Fetched(t)
  <2>1. /\ slot' = [slot EXCEPT ![t] = RT!Idle] /\ worker' = worker /\ tx' = tx
        /\ slot[t].pc = "fetching"
    BY <1>15 DEF Fetched, RT!Reported, storeVars
  <2>2. metrics' \in [Counters -> Nat]
    BY <1>0, <1>15 DEF Fetched, Counted
  <2>3. SlotTx(RT!Idle, tx[t])
    BY <1>0, <2>1 DEF SlotTx, RT!Idle
  <2> QED
    BY <1>0, <1>1, <2>1, <2>2, <2>3, OneSlotInv
<1>12. CASE ReportFails(t)
  BY <1>0, <1>2, <1>12 DEF ReportFails, RT!Reported
<1>13. CASE Run(t)
  BY <1>8, <1>9, <1>13 DEF Run
<1> QED
  BY <1>3, <1>4, <1>5, <1>6, <1>7, <1>10, <1>11, <1>12, <1>13, <1>14, <1>15
     DEF SlotStep, ReportEnds

\* So does every step of a process: the slots of a worker that dies are rolled back.
LEMMA ProcessStepInv ==
    ASSUME SysInv, NEW w \in Workers, ProcessStep(w)
    PROVE  SlotsInv'
<1>0. /\ SlotsInv /\ TypeOK /\ metrics \in [Counters -> Nat] /\ slot \in [Tasks -> Slot]
      /\ worker \in [Workers -> {"new", "up", "stopping", "draining", "stopped"}]
      /\ \A t \in Tasks : SlotTx(slot[t], tx[t])
  BY DEF SysInv, SlotsInv, StoreInv, SlotOK, Slot
<1>1. RT!Idle \in Slot /\ SlotTx(RT!Idle, NoTx)
  BY DEF Slot, RT!Idle, SlotTx, NoTx
<1>2. worker' \in [Workers -> {"new", "up", "stopping", "draining", "stopped"}]
  BY <1>0 DEF ProcessStep, RT!Start, RT!Shutdown, RT!LoopEnds, RT!Drained,
              RT!GraceElapses, RT!Crash
<1>3. metrics' \in [Counters -> Nat]
  BY <1>0 DEF ProcessStep
<1>4. CASE /\ RT!Start(w) \/ RT!Shutdown(w) \/ RT!LoopEnds(w) \/ RT!Drained(w)
           /\ UNCHANGED <<storeVars, metrics>>
  <2>1. slot' = slot /\ tx' = tx
    BY <1>4 DEF RT!Start, RT!Shutdown, RT!LoopEnds, RT!Drained, storeVars
  <2> QED
    BY <1>0, <1>2, <1>3, <2>1 DEF SlotsInv, SlotOK, Slot
<1>5. CASE (RT!GraceElapses(w) \/ RT!Crash(w)) /\ Rollback(RT!SlotsOf(w))
  <2>1. slot' = [t \in Tasks |-> IF WorkerOf[t] = w THEN RT!Idle ELSE slot[t]]
    BY <1>5 DEF RT!GraceElapses, RT!Crash, RT!Abandon
  <2>2. \A t \in Tasks : tx'[t] = IF WorkerOf[t] = w THEN NoTx ELSE tx[t]
    BY <1>5 DEF Rollback, RT!SlotsOf
  <2>3. slot' \in [Tasks -> Slot] /\ \A t \in Tasks : SlotTx(slot'[t], tx'[t])
    BY <1>0, <1>1, <2>1, <2>2
  <2> QED
    BY <1>2, <1>3, <2>3 DEF SlotsInv, SlotOK, Slot
<1> QED
  BY <1>4, <1>5 DEF ProcessStep

\* A transaction that was never opened may be rolled back all the same.
LEMMA RollbackStep ==
    ASSUME TypeOK, NEW T \in SUBSET Tasks, Rollback(T)
    PROVE  StoreNext
<1>1. T \cap OpenTx \in SUBSET OpenTx
  OBVIOUS
<1>2. [t \in Tasks |-> IF t \in T THEN NoTx ELSE tx[t]]
        = [t \in Tasks |-> IF t \in T \cap OpenTx THEN NoTx ELSE tx[t]]
  BY DEF OpenTx
<1>3. Rollback(T \cap OpenTx)
  BY <1>2 DEF Rollback
<1> QED
  BY <1>1, <1>3 DEF StoreNext

\* What a slot does to the store is what some client of the store may do.
LEMMA SlotStoreStep ==
    ASSUME SysInv, NEW t \in Tasks, SlotStep(t)
    PROVE  StoreNext \/ UNCHANGED storeVars
<1>0. /\ TypeOK
      /\ slot[t].pc \in {"renewing", "running", "reporting", "fetching"}
            => slot[t].job \in JobIds
  BY DEF SysInv, SlotsInv, StoreInv, SlotTx
<1>1. ASSUME TaskStep(t) PROVE StoreNext
  BY <1>1 DEF StoreNext
<1>2. CASE Lease(t)
  BY <1>1, <1>2 DEF Lease, TaskStep
<1>3. CASE Leased(t) \/ LeasedUnknown(t)
  BY <1>1, <1>3 DEF Leased, LeasedUnknown, TaskStep
<1>4. CASE LeaseFails(t) \/ ReportFails(t)
  BY <1>0, <1>4, RollbackStep DEF LeaseFails, ReportFails
<1>5. CASE Renew(t) \/ RenewUnknown(t)
  <2>1. \E j \in JobIds, e \in 0 .. TxAge : RenewLease(t, j, e)
    BY <1>0, <1>5 DEF Renew, RenewUnknown, RT!RenewOk, RT!RenewErr
  <2> QED
    BY <1>1, <2>1 DEF TaskStep
<1>6. CASE RenewFails(t) \/ Run(t) \/ Fetched(t)
  BY <1>6 DEF RenewFails, Run, Fetched
<1>7. CASE Report(t)
  <2>1. \E j \in JobIds : CompleteUpdate(t, j) \/ FailSelect(t, j)
    BY <1>0, <1>7 DEF Report
  <2> QED
    BY <1>1, <2>1 DEF TaskStep
<1>8. CASE Completed(t) \/ Failed(t) \/ FailedUnknown(t)
  <2>1. (slot[t].outcome = "timeout") \in BOOLEAN
    OBVIOUS
  <2>2. \/ CompleteCommit(t)
        \/ \E e \in 0 .. TxAge, timed_out \in BOOLEAN : FailCommit(t, timed_out, e)
    BY <1>8, <2>1 DEF Completed, Failed, FailedUnknown
  <2> QED
    BY <1>1, <2>2 DEF TaskStep
<1> QED
  BY <1>2, <1>3, <1>4, <1>5, <1>6, <1>7, <1>8 DEF SlotStep, ReportEnds

\* The same for every step of the system.
LEMMA SysStoreStep == SysInv /\ [SysNext]_sysVars => [StoreNext]_storeVars
<1> SUFFICES ASSUME SysInv, [SysNext]_sysVars PROVE StoreNext \/ UNCHANGED storeVars
  OBVIOUS
<1>1. CASE UNCHANGED sysVars
  BY <1>1 DEF sysVars
<1>2. CASE \E t \in Tasks : SlotStep(t)
  BY <1>2, SlotStoreStep
<1>3. ASSUME NEW w \in Workers, ProcessStep(w) PROVE StoreNext \/ UNCHANGED storeVars
  <2>1. TypeOK /\ RT!SlotsOf(w) \in SUBSET Tasks
    BY DEF SysInv, StoreInv, RT!SlotsOf
  <2> QED
    BY <1>3, <2>1, RollbackStep DEF ProcessStep
<1>4. CASE EnvironmentStep \/ MaintenanceStep \/ TimePasses
  BY <1>4 DEF EnvironmentStep, MaintenanceStep, TimePasses, StoreNext
<1> QED
  BY <1>1, <1>2, <1>3, <1>4 DEF SysNext

\* Callers of the API, sweeps and time open no transaction of a slot and end none.
LEMMA OthersLeaveTx ==
    ASSUME EnvironmentStep \/ MaintenanceStep \/ TimePasses
    PROVE  UNCHANGED <<tx, slot, worker, metrics>>
<1>1. UNCHANGED <<runtimeVars, metrics>>
  BY DEF EnvironmentStep, MaintenanceStep, TimePasses
<1>2. CASE EnvironmentStep
  BY <1>2 DEF EnvironmentStep, QueueStep, OperatorStep, EnsureQueue, SetQueuePaused, Submit,
              CancelJob, RetryUpdate, RetryDelete, RetryAbort, PurgeFinished, runtimeVars
<1>3. CASE MaintenanceStep
  BY <1>3 DEF MaintenanceStep, ReaperStep, RecoverRetrying, RecoverDeadLettered,
              RecoverFailed, RecoverClose, RecoverAbort, runtimeVars
<1>4. CASE TimePasses
  BY <1>4 DEF TimePasses, Tick, runtimeVars
<1> QED
  BY <1>2, <1>3, <1>4

\* SysInv is inductive.
LEMMA SysNextInv == SysInv /\ [SysNext]_sysVars => SysInv'
<1> SUFFICES ASSUME SysInv, [SysNext]_sysVars PROVE SlotsInv'
  BY SysStoreStep, NextInv DEF SysInv
<1>1. CASE UNCHANGED <<tx, slot, worker, metrics>>
  BY <1>1 DEF SysInv, SlotsInv, SlotOK
<1>2. CASE UNCHANGED sysVars
  BY <1>1, <1>2 DEF sysVars, storeVars, runtimeVars
<1>3. CASE SysNext
  BY <1>1, <1>3, SlotStepInv, ProcessStepInv, OthersLeaveTx DEF SysNext
<1> QED
  BY <1>2, <1>3

\* SysInv is an invariant of the system.
THEOREM SysInvariant == SysSpec => []SysInv
  BY SysInitInv, SysNextInv, PTL DEF SysSpec

\* The rows, the worker processes, their slots and the counters keep their types, and
\* slots executing a job hold a job.
THEOREM SysTypeCorrect == SysSpec => []SysTypeOK
<1>1. SysInv => SysTypeOK
  BY DEF SysInv, StoreInv, SlotsInv, SysTypeOK
<1> QED
  BY <1>1, SysInvariant, PTL

\* The system implements the store's general client: workers that lease, renew, report,
\* lose answers, drain and crash make the store take no step that JobStore does not
\* describe, so that everything proved of StoreSpec holds of the system.
THEOREM SystemUsesStore == SysSpec => StoreSpec
<1>1. SysInit => StoreInit
  BY DEF SysInit
<1> QED
  BY <1>1, SysStoreStep, SysInvariant, PTL DEF SysSpec, StoreSpec

\* Workers over the store are a lease queue: through crashes, drains, lost answers and
\* late reports a job has one holder, uses one attempt per lease and stays finished.
THEOREM SystemImplementsLeaseQueue == SysSpec => ImplementsLeaseQueue
  BY SystemUsesStore, StoreImplementsLeaseQueue, PTL

-----------------------------------------------------------------------------
(* The worker id as a fence.                                               *)

\* The task whose worker comes to hold the row again, and the slot that leased it.
LEMMA RegainedBySibling ==
    ASSUME SysInv, [SysNext]_sysVars, NEW t \in Tasks, Executing(t), NEW j \in JobIds,
           ~HoldsLease(t, j),
           jobs'[j].status = "processing", jobs'[j].locked_by = WorkerOf[t]
    PROVE  \E u \in RT!SlotsOf(WorkerOf[t]) \ {t} :
             slot[u].pc = "leasing" /\ tx[u].job = j /\ tx'[u] = NoTx
<1>1. LogStep(j)
  BY SysStoreStep, StepLogs DEF SysInv
<1>2. ~LogRestarts(j)
  BY DEF LogRestarts
<1>3. ~LogKept(j)
  BY DEF LogKept, SameHold, HoldsLease
<1>4. LogGrows(j)
  BY <1>1, <1>2, <1>3 DEF LogStep
<1>5. PICK u \in Tasks : /\ tx[u].op = "lease" /\ tx[u].job = j /\ tx'[u] = NoTx
                         /\ jobs'[j].locked_by = WorkerOf[u]
  BY <1>4 DEF LogGrows
<1>6. slot[u].pc = "leasing"
  BY <1>5 DEF SysInv, SlotsInv, SlotTx
<1>7. u # t
  BY <1>6 DEF Executing
<1> QED
  BY <1>5, <1>6, <1>7 DEF RT!SlotsOf

\* The worker id as a fence, for any number of slots per worker: a task that lost its lease
\* through expiry, recovery or cancel never passes the WHERE clause of renew_lease,
\* complete_job or fail_job again, unless another slot of its own worker process leases the
\* job anew.
THEOREM WorkerIdFences == SysSpec => LostLeaseStaysLost
<1>1. SysInv /\ [SysNext]_sysVars =>
        [\A t \in Tasks :
            LET j == slot[t].job
            IN  /\ Executing(t) /\ ~HoldsLease(t, j)
                /\ Executing(t)' /\ slot'[t].job = j
                /\ HoldsLease(t, slot[t].job)'
                => \E u \in RT!SlotsOf(WorkerOf[t]) \ {t} :
                     slot[u].pc = "leasing" /\ tx[u].job = j /\ tx'[u] = NoTx]_sysVars
  <2> SUFFICES ASSUME SysInv, [SysNext]_sysVars, NEW t \in Tasks,
                      Executing(t), ~HoldsLease(t, slot[t].job), slot'[t].job = slot[t].job,
                      HoldsLease(t, slot[t].job)'
               PROVE  \E u \in RT!SlotsOf(WorkerOf[t]) \ {t} :
                        slot[u].pc = "leasing" /\ tx[u].job = slot[t].job /\ tx'[u] = NoTx
    OBVIOUS
  <2>1. slot[t].job \in JobIds
    BY DEF SysInv, SlotsInv, SlotTx, Executing
  <2>2. /\ jobs'[slot[t].job].status = "processing"
        /\ jobs'[slot[t].job].locked_by = WorkerOf[t]
    BY DEF HoldsLease
  <2> QED
    BY <2>1, <2>2, RegainedBySibling
<1> QED
  BY <1>1, SysInvariant, PTL DEF SysSpec, LostLeaseStaysLost

-----------------------------------------------------------------------------
(* The counters.                                                           *)

\* Slots whose attempt is not counted yet and may still be, and slots whose failure is
\* counted while fail_job has not returned yet.
Pending == {t \in Tasks : \/ slot[t].pc \in {"renewing", "running"}
                          \/ slot[t].pc = "reporting" /\ slot[t].outcome = "success"}
Failing == {t \in Tasks : \/ slot[t].pc = "reporting" /\ slot[t].outcome # "success"
                          \/ slot[t].pc = "fetching"}

FinishedJobs == {j \in JobIds : jobs[j].status \in {"completed", "purged"}}
NonePurged == \A j \in JobIds : jobs[j].status # "purged"

\* CountsAreBounded with room for what the slots at work may still count.
CountInv ==
    /\ IsFiniteSet(AttemptRows)
    /\ metrics["completed"] <= Cardinality(FinishedJobs)
    /\ NonePurged => metrics["completed"] + metrics["failed"] + Cardinality(Pending)
                        <= Cardinality(AttemptRows)
    /\ metrics["retrying"] + metrics["dead_lettered"] + Cardinality(Failing)
          <= metrics["failed"]

\* The attempt rows, member by member.
LEMMA AttemptRowsMembers ==
    /\ \A x : x \in AttemptRows <=> \E j \in JobIds : \E k \in DOMAIN history[j] : x = <<j, k>>
    /\ \A x : x \in AttemptRows' <=> \E j \in JobIds : \E k \in DOMAIN history'[j] : x = <<j, k>>
  BY DEF AttemptRows

\* The sets that are counted are finite.
LEMMA CountedSetsFinite ==
    /\ IsFiniteSet(Pending) /\ IsFiniteSet(Pending') /\ IsFiniteSet(Failing)
    /\ IsFiniteSet(Failing') /\ IsFiniteSet(FinishedJobs) /\ IsFiniteSet(FinishedJobs')
    /\ Cardinality(Pending) \in Nat /\ Cardinality(Pending') \in Nat
    /\ Cardinality(Failing) \in Nat /\ Cardinality(Failing') \in Nat
    /\ Cardinality(FinishedJobs) \in Nat /\ Cardinality(FinishedJobs') \in Nat
<1>1. Pending \in SUBSET Tasks /\ Pending' \in SUBSET Tasks
  BY DEF Pending
<1>2. Failing \in SUBSET Tasks /\ Failing' \in SUBSET Tasks
  BY DEF Failing
<1>3. FinishedJobs \in SUBSET JobIds /\ FinishedJobs' \in SUBSET JobIds
  BY DEF FinishedJobs
<1>4. /\ IsFiniteSet(Pending) /\ IsFiniteSet(Pending') /\ IsFiniteSet(Failing)
      /\ IsFiniteSet(Failing')
  BY <1>1, <1>2, SlotsAssumption, FS_Subset
<1>5. IsFiniteSet(FinishedJobs) /\ IsFiniteSet(FinishedJobs')
  BY <1>3, SetsAssumption, FS_Subset
<1> QED
  BY <1>4, <1>5, FS_CardinalityType

\* A step of one slot changes the counted sets by that slot only.
LEMMA SlotCounts ==
    ASSUME NEW t \in Tasks, \A u \in Tasks \ {t} : slot'[u] = slot[u]
    PROVE  /\ Cardinality(Pending') - (IF t \in Pending' THEN 1 ELSE 0)
                = Cardinality(Pending) - (IF t \in Pending THEN 1 ELSE 0)
           /\ Cardinality(Failing') - (IF t \in Failing' THEN 1 ELSE 0)
                = Cardinality(Failing) - (IF t \in Failing THEN 1 ELSE 0)
<1>1. Pending' \ {t} = Pending \ {t}
  BY DEF Pending
<1>2. Failing' \ {t} = Failing \ {t}
  BY DEF Failing
<1>3. ASSUME NEW S, IsFiniteSet(S), Cardinality(S) \in Nat
      PROVE  Cardinality(S \ {t}) = Cardinality(S) - (IF t \in S THEN 1 ELSE 0)
  <2>1. Cardinality(S \ {t}) = IF t \in S THEN Cardinality(S) - 1 ELSE Cardinality(S)
    BY <1>3, FS_RemoveElement
  <2> QED
    BY <1>3, <2>1
<1> HIDE DEF Pending, Failing
<1>4. Cardinality(Pending') - (IF t \in Pending' THEN 1 ELSE 0)
        = Cardinality(Pending) - (IF t \in Pending THEN 1 ELSE 0)
  BY <1>1, <1>3, CountedSetsFinite
<1>5. Cardinality(Failing') - (IF t \in Failing' THEN 1 ELSE 0)
        = Cardinality(Failing) - (IF t \in Failing THEN 1 ELSE 0)
  BY <1>2, <1>3, CountedSetsFinite
<1> QED
  BY <1>4, <1>5

\* Slots that stay or become idle leave the counted sets.
LEMMA IdleCounts ==
    ASSUME \A u \in Tasks : slot'[u] = slot[u] \/ slot'[u].pc = "idle"
    PROVE  /\ Cardinality(Pending') <= Cardinality(Pending)
           /\ Cardinality(Failing') <= Cardinality(Failing)
<1>1. Pending' \in SUBSET Pending /\ Failing' \in SUBSET Failing
  BY DEF Pending, Failing
<1> QED
  BY <1>1, CountedSetsFinite, FS_Subset

\* Finished jobs stay finished, purged jobs purged, and attempt rows go only by a purge.
LEMMA OnlyPurgeForgets ==
    ASSUME SysInv, [SysNext]_sysVars, IsFiniteSet(AttemptRows), IsFiniteSet(AttemptRows')
    PROVE  /\ Cardinality(FinishedJobs) <= Cardinality(FinishedJobs')
           /\ Cardinality(AttemptRows) \in Nat /\ Cardinality(AttemptRows') \in Nat
           /\ NonePurged' => NonePurged /\ Cardinality(AttemptRows) <= Cardinality(AttemptRows')
<1>0. StoreInv /\ [StoreNext]_storeVars
  BY SysStoreStep DEF SysInv
<1>1. FinishedJobs \in SUBSET FinishedJobs'
  <2>1. \A j \in JobIds : jobs[j].status \in {"completed", "purged"}
                            => jobs'[j].status \in {"completed", "purged"}
    BY <1>0, StepRows DEF StepRow, Kept, SameHold, Moved, StatusEdges
  <2> QED
    BY <2>1 DEF FinishedJobs
<1>2. NonePurged' => NonePurged
  <2>1. \A j \in JobIds : jobs[j].status = "purged" => jobs'[j].status = "purged"
    BY <1>0, StepRows DEF StepRow, Kept, SameHold, Moved, StatusEdges
  <2> QED
    BY <2>1 DEF NonePurged
<1>3. NonePurged' => AttemptRows \in SUBSET AttemptRows'
  <2> SUFFICES ASSUME NonePurged', NEW j \in JobIds
               PROVE  DOMAIN history[j] \in SUBSET DOMAIN history'[j]
    BY AttemptRowsMembers
  <2>1. history[j] \in Seq(AttemptRow) /\ jobs[j].attempts \in Nat
    BY <1>0 DEF StoreInv, TypeOK, JobRow
  <2>2. LogStep(j)
    BY <1>0, StepLogs
  <2>3. CASE LogKept(j)
    BY <2>1, <2>3, CloseRunningRows DEF LogKept
  <2>4. CASE LogGrows(j)
    <3>1. PICK t \in Tasks :
            history'[j] = Append(history[j], [attempt |-> jobs[j].attempts + 1,
                                              worker |-> WorkerOf[t], status |-> "running"])
      BY <2>4 DEF LogGrows
    <3>2. DOMAIN history'[j] = 1 .. Len(history[j]) + 1 /\ DOMAIN history[j] = 1 .. Len(history[j])
      BY <2>1, <3>1
    <3> QED
      BY <2>1, <3>2
  <2>5. CASE LogRestarts(j)
    BY <2>5 DEF LogRestarts, NonePurged
  <2> QED
    BY <2>2, <2>3, <2>4, <2>5 DEF LogStep
<1>4. Cardinality(FinishedJobs) <= Cardinality(FinishedJobs')
  BY <1>1, CountedSetsFinite, FS_Subset
<1>5. Cardinality(AttemptRows) \in Nat /\ Cardinality(AttemptRows') \in Nat
  BY FS_CardinalityType
<1>6. NonePurged' => Cardinality(AttemptRows) <= Cardinality(AttemptRows')
  BY <1>3, FS_Subset
<1> QED
  BY <1>2, <1>4, <1>5, <1>6

\* Commits of reports, callers of the API and sweeps insert no attempt rows.
LEMMA NoNewRows ==
    ASSUME TypeOK,
           \/ UNCHANGED history
           \/ \E j \in JobIds, s \in AttemptStatus :
                history' = [history EXCEPT ![j] = CloseRunning(@, s)]
           \/ EnvironmentStep \/ MaintenanceStep \/ TimePasses
    PROVE  AttemptRows' \in SUBSET AttemptRows
<1> SUFFICES ASSUME NEW j \in JobIds
             PROVE  DOMAIN history'[j] \in SUBSET DOMAIN history[j]
  BY AttemptRowsMembers
<1>0. /\ history \in [JobIds -> Seq(AttemptRow)]
      /\ \A s : DOMAIN CloseRunning(history[j], s) = DOMAIN history[j]
  BY DEF CloseRunning, TypeOK
<1>1. CASE UNCHANGED history
  BY <1>1
<1>2. CASE \E i \in JobIds, s \in AttemptStatus :
                history' = [history EXCEPT ![i] = CloseRunning(@, s)]
  BY <1>0, <1>2
<1>3. CASE EnvironmentStep
  <2>1. UNCHANGED history \/ \E S \in SUBSET JobIds : PurgeFinished(S)
    BY <1>3 DEF EnvironmentStep, QueueStep, OperatorStep, EnsureQueue, SetQueuePaused, Submit,
                CancelJob, RetryUpdate, RetryDelete, RetryAbort
  <2>2. history'[j] = history[j] \/ history'[j] = <<>>
    BY <2>1 DEF PurgeFinished
  <2> QED
    BY <2>2
<1>4. CASE MaintenanceStep
  <2>1. UNCHANGED history \/ \E r \in Reapers : RecoverClose(r)
    BY <1>4 DEF MaintenanceStep, ReaperStep, RecoverRetrying, RecoverDeadLettered,
                RecoverFailed, RecoverAbort
  <2> QED
    BY <1>0, <2>1 DEF RecoverClose
<1>5. CASE TimePasses
  BY <1>5 DEF TimePasses, Tick
<1> QED
  BY <1>1, <1>2, <1>3, <1>4, <1>5

\* A step after which no more is counted, and no slot has more left to count.
LEMMA QuietCounts ==
    ASSUME SysInv, CountInv, [SysNext]_sysVars, metrics' = metrics,
           IsFiniteSet(AttemptRows'),
           Cardinality(Pending') <= Cardinality(Pending),
           Cardinality(Failing') <= Cardinality(Failing)
    PROVE  CountInv'
<1>1. metrics \in [Counters -> Nat]
  BY DEF SysInv, SlotsInv
<1>2. \A c \in Counters : metrics[c] \in Nat
  BY <1>1
<1>3. /\ Cardinality(FinishedJobs) <= Cardinality(FinishedJobs')
      /\ Cardinality(AttemptRows) \in Nat /\ Cardinality(AttemptRows') \in Nat
      /\ NonePurged' => NonePurged /\ Cardinality(AttemptRows) <= Cardinality(AttemptRows')
  BY OnlyPurgeForgets DEF CountInv
<1>4. metrics["completed"] <= Cardinality(FinishedJobs')
  BY <1>2, <1>3, CountedSetsFinite DEF CountInv, Counters
<1>5. NonePurged' => metrics["completed"] + metrics["failed"] + Cardinality(Pending')
                        <= Cardinality(AttemptRows')
  BY <1>2, <1>3, CountedSetsFinite DEF CountInv, Counters
<1>6. metrics["retrying"] + metrics["dead_lettered"] + Cardinality(Failing')
          <= metrics["failed"]
  BY <1>2, CountedSetsFinite DEF CountInv, Counters
<1> QED
  BY <1>4, <1>5, <1>6 DEF CountInv

\* A lease that is committed inserts one attempt row.
LEMMA LeaseAddsRow ==
    ASSUME SysInv, NEW t \in Tasks, NEW e \in 0 .. TxAge, LeaseCommit(t, e),
           IsFiniteSet(AttemptRows)
    PROVE  /\ IsFiniteSet(AttemptRows')
           /\ Cardinality(AttemptRows') = Cardinality(AttemptRows) + 1
<1> DEFINE j == tx[t].job
           k == Len(history[j]) + 1
<1>0. TypeOK /\ j \in JobIds /\ history[j] \in Seq(AttemptRow) /\ jobs[j].attempts \in Nat
  BY DEF SysInv, StoreInv, TypeOK, TransactionsHoldRows, LeaseCommit, JobRow
<1>1. history' = [history EXCEPT ![j] = Append(history[j],
          [attempt |-> jobs[j].attempts + 1, worker |-> WorkerOf[t], status |-> "running"])]
  BY DEF LeaseCommit
<1> HIDE DEF j
<1>2. Len(history[j]) \in Nat /\ DOMAIN history[j] = 1 .. Len(history[j])
  BY <1>0, LenProperties
<1>3. DOMAIN history'[j] = DOMAIN history[j] \cup {k} /\ k \notin DOMAIN history[j]
  <2>1. DOMAIN history'[j] = 1 .. Len(history[j]) + 1
    BY <1>0, <1>1 DEF TypeOK
  <2> QED
    BY <1>2, <2>1
<1>4. \A i \in JobIds \ {j} : history'[i] = history[i]
  BY <1>0, <1>1 DEF TypeOK
<1> HIDE DEF k
<1>5. AttemptRows' = AttemptRows \cup {<<j, k>>}
  BY <1>0, <1>3, <1>4, AttemptRowsMembers
<1>6. <<j, k>> \notin AttemptRows
  BY <1>3, AttemptRowsMembers
<1> QED
  BY <1>5, <1>6, FS_AddElement

\* A slot may count one more once it is given a job, whose row is then inserted.
LEMMA LeasedCounts ==
    ASSUME SysInv, CountInv, NEW t \in Tasks, Leased(t)
    PROVE  CountInv'
<1>0. /\ slot \in [Tasks -> Slot] /\ slot[t].pc = "leasing" /\ metrics' = metrics
      /\ \A c \in Counters : metrics[c] \in Nat
      /\ tx[t].job \in JobIds
      /\ \E e \in 0 .. TxAge : LeaseCommit(t, e)
  BY DEF SysInv, StoreInv, SlotsInv, SlotOK, Slot, Leased, LeaseCommit, TransactionsHoldRows,
         TypeOK
<1>1. SysNext
  BY DEF SysNext, SlotStep
<1>2. slot' = [slot EXCEPT ![t] = [RT!Idle EXCEPT !.pc = "renewing", !.job = tx[t].job,
                                     !.attempt = jobs[tx[t].job].attempts + 1]]
  BY DEF Leased, RT!LeaseGot
<1>3. slot'[t].pc = "renewing" /\ \A u \in Tasks \ {t} : slot'[u] = slot[u]
  BY <1>0, <1>2 DEF RT!Idle
<1>4. t \in Pending' /\ t \notin Failing' /\ t \notin Pending /\ t \notin Failing
  BY <1>0, <1>3 DEF Pending, Failing
<1>5. /\ Cardinality(Pending') = Cardinality(Pending) + 1
      /\ Cardinality(Failing') = Cardinality(Failing)
  BY <1>3, <1>4, SlotCounts, CountedSetsFinite
<1>6. /\ IsFiniteSet(AttemptRows')
      /\ Cardinality(AttemptRows') = Cardinality(AttemptRows) + 1
  BY <1>0, LeaseAddsRow DEF CountInv
<1>7. /\ Cardinality(FinishedJobs) <= Cardinality(FinishedJobs')
      /\ Cardinality(AttemptRows) \in Nat
      /\ NonePurged' => NonePurged
  BY <1>1, <1>6, OnlyPurgeForgets DEF CountInv
<1>8. metrics["completed"] <= Cardinality(FinishedJobs')
  BY <1>0, <1>7, CountedSetsFinite DEF CountInv, Counters
<1>9. NonePurged' => metrics["completed"] + metrics["failed"] + Cardinality(Pending')
                        <= Cardinality(AttemptRows')
  BY <1>0, <1>5, <1>6, <1>7, CountedSetsFinite DEF CountInv, Counters
<1>10. metrics["retrying"] + metrics["dead_lettered"] + Cardinality(Failing')
          <= metrics["failed"]
  BY <1>5 DEF CountInv
<1> QED
  BY <1>0, <1>6, <1>8, <1>9, <1>10 DEF CountInv

\* A failure is counted when its report begins.
LEMMA EndsCounts ==
    ASSUME SysInv, CountInv, NEW t \in Tasks, NEW o \in RT!Outcome, Ends(t, o),
           UNCHANGED storeVars
    PROVE  CountInv'
<1>0. /\ slot \in [Tasks -> Slot] /\ slot[t].pc = "running" /\ TypeOK
      /\ metrics \in [Counters -> Nat] /\ \A c \in Counters : metrics[c] \in Nat
      /\ slot' = [slot EXCEPT ![t].pc = "reporting", ![t].outcome = o]
  BY DEF SysInv, StoreInv, SlotsInv, SlotOK, Slot, Ends, RT!HandlerEnds
<1>1. SysNext
  BY DEF SysNext, SlotStep, Run
<1>2. /\ slot'[t].pc = "reporting" /\ slot'[t].outcome = o
      /\ \A u \in Tasks \ {t} : slot'[u] = slot[u]
  BY <1>0 DEF Slot
<1>3. t \in Pending /\ t \notin Failing /\ (t \in Pending' <=> o = "success")
      /\ (t \in Failing' <=> o # "success")
  BY <1>0, <1>2 DEF Pending, Failing
<1>4. AttemptRows' = AttemptRows /\ IsFiniteSet(AttemptRows')
      /\ FinishedJobs' = FinishedJobs /\ NonePurged' = NonePurged
  BY DEF AttemptRows, FinishedJobs, NonePurged, storeVars, CountInv
<1>5. CASE o = "success"
  <2>1. /\ Cardinality(Pending') = Cardinality(Pending)
        /\ Cardinality(Failing') = Cardinality(Failing)
    BY <1>2, <1>3, <1>5, SlotCounts, CountedSetsFinite
  <2>2. metrics' = metrics
    BY <1>5 DEF Ends
  <2> QED
    BY <1>1, <1>4, <2>1, <2>2, CountedSetsFinite, QuietCounts
<1>6. CASE o # "success"
  <2>1. /\ Cardinality(Pending') = Cardinality(Pending) - 1
        /\ Cardinality(Failing') = Cardinality(Failing) + 1
    BY <1>2, <1>3, <1>6, SlotCounts, CountedSetsFinite
  <2>2. /\ metrics'["failed"] = metrics["failed"] + 1
        /\ metrics'["completed"] = metrics["completed"]
        /\ metrics'["retrying"] = metrics["retrying"]
        /\ metrics'["dead_lettered"] = metrics["dead_lettered"]
    BY <1>0, <1>6 DEF Ends, Inc, Counters
  <2>3. Cardinality(AttemptRows) \in Nat
    BY <1>4, FS_CardinalityType
  <2>4. NonePurged => metrics'["completed"] + metrics'["failed"] + Cardinality(Pending')
                        <= Cardinality(AttemptRows)
    BY <1>0, <2>1, <2>2, <2>3, CountedSetsFinite DEF CountInv, Counters
  <2>5. metrics'["retrying"] + metrics'["dead_lettered"] + Cardinality(Failing')
          <= metrics'["failed"]
    BY <1>0, <2>1, <2>2, CountedSetsFinite DEF CountInv, Counters
  <2> QED
    BY <1>4, <2>2, <2>4, <2>5 DEF CountInv
<1> QED
  BY <1>5, <1>6

\* A success is counted with the COMMIT that completes the job.
LEMMA CompletedCounts ==
    ASSUME SysInv, CountInv, NEW t \in Tasks, Completed(t)
    PROVE  CountInv'
<1> DEFINE j == tx[t].job
<1>0. /\ slot \in [Tasks -> Slot] /\ TypeOK /\ TransactionsHoldRows
      /\ metrics \in [Counters -> Nat] /\ \A c \in Counters : metrics[c] \in Nat
      /\ slot' = [slot EXCEPT ![t] = RT!Idle]
      /\ SlotTx(slot[t], tx[t])
  BY DEF SysInv, StoreInv, SlotsInv, SlotOK, Slot, Completed, RT!Reported
<1>1. SysNext
  BY DEF SysNext, SlotStep, ReportEnds
<1>2. slot'[t].pc = "idle" /\ \A u \in Tasks \ {t} : slot'[u] = slot[u]
  BY <1>0 DEF RT!Idle
<1>3. CompleteCommit(t)
  BY DEF Completed
<1>4. /\ j \in JobIds /\ slot[t].pc = "reporting" /\ slot[t].outcome = "success"
      /\ HoldsLease(t, j) /\ jobs[j] \in JobRow
  BY <1>0, <1>3 DEF CompleteCommit, SlotTx, TransactionsHoldRows, TypeOK
<1>5. jobs'[j].status = "completed" /\ \A i \in JobIds \ {j} : jobs'[i] = jobs[i]
  <2>1. jobs' = [jobs EXCEPT ![j] = Release(jobs[j], "completed")]
    BY <1>3 DEF CompleteCommit
  <2>2. Release(jobs[j], "completed").status = "completed"
    BY <1>4, ReleaseRow DEF Status
  <2> HIDE DEF j
  <2> QED
    BY <1>0, <1>4, <2>1, <2>2 DEF TypeOK
<1>6. t \in Pending /\ t \notin Failing /\ t \notin Pending' /\ t \notin Failing'
  BY <1>2, <1>4 DEF Pending, Failing
<1>7. /\ Cardinality(Pending') = Cardinality(Pending) - 1
      /\ Cardinality(Failing') = Cardinality(Failing)
  BY <1>2, <1>6, SlotCounts, CountedSetsFinite
<1>8. IsFiniteSet(AttemptRows')
  <2>1. history' = [history EXCEPT ![j] = CloseRunning(@, "succeeded")]
    BY <1>3 DEF CompleteCommit
  <2>2. AttemptRows' \in SUBSET AttemptRows
    BY <1>0, <1>4, <2>1, NoNewRows DEF AttemptStatus
  <2> QED
    BY <2>2, FS_Subset DEF CountInv
<1>9. Cardinality(FinishedJobs') = Cardinality(FinishedJobs) + 1
  <2>1. j \notin FinishedJobs
    BY <1>4 DEF FinishedJobs, HoldsLease
  <2>2. FinishedJobs' = FinishedJobs \cup {j}
    BY <1>4, <1>5 DEF FinishedJobs
  <2> QED
    BY <2>1, <2>2, CountedSetsFinite, FS_AddElement
<1>10. /\ Cardinality(AttemptRows) \in Nat /\ Cardinality(AttemptRows') \in Nat
       /\ NonePurged' => NonePurged /\ Cardinality(AttemptRows) <= Cardinality(AttemptRows')
  BY <1>1, <1>8, OnlyPurgeForgets DEF CountInv
<1>11. /\ metrics'["completed"] \in {metrics["completed"], metrics["completed"] + 1}
       /\ metrics'["failed"] = metrics["failed"]
       /\ metrics'["retrying"] = metrics["retrying"]
       /\ metrics'["dead_lettered"] = metrics["dead_lettered"]
  BY <1>0 DEF Completed, Inc, Counters
<1>12. metrics'["completed"] <= Cardinality(FinishedJobs')
  BY <1>0, <1>9, <1>11, CountedSetsFinite DEF CountInv, Counters
<1>13. NonePurged' => metrics'["completed"] + metrics'["failed"] + Cardinality(Pending')
                        <= Cardinality(AttemptRows')
  BY <1>0, <1>7, <1>10, <1>11, CountedSetsFinite DEF CountInv, Counters
<1>14. metrics'["retrying"] + metrics'["dead_lettered"] + Cardinality(Failing')
          <= metrics'["failed"]
  BY <1>7, <1>11 DEF CountInv
<1> QED
  BY <1>8, <1>12, <1>13, <1>14 DEF CountInv

\* The COMMIT of a failure, which was counted before, counts nothing.
LEMMA FailedCounts ==
    ASSUME SysInv, CountInv, NEW t \in Tasks, Failed(t) \/ FailedUnknown(t)
    PROVE  CountInv'
<1> DEFINE j == tx[t].job
<1>0. /\ slot \in [Tasks -> Slot] /\ TypeOK /\ TransactionsHoldRows
      /\ SlotTx(slot[t], tx[t]) /\ metrics' = metrics
      /\ RT!FailCommitted(t) \/ RT!Reported(t)
  BY DEF SysInv, StoreInv, SlotsInv, SlotOK, Slot, Failed, FailedUnknown
<1>1. SysNext
  BY DEF SysNext, SlotStep, ReportEnds
<1>2. PICK e \in 0 .. TxAge : FailCommit(t, slot[t].outcome = "timeout", e)
  BY DEF Failed, FailedUnknown
<1>3. j \in JobIds /\ slot[t].pc = "reporting" /\ slot[t].outcome # "success"
  BY <1>0, <1>2 DEF FailCommit, SlotTx, TransactionsHoldRows, TypeOK
<1>4. slot'[t].pc \in {"idle", "fetching"} /\ \A u \in Tasks \ {t} : slot'[u] = slot[u]
  BY <1>0 DEF RT!FailCommitted, RT!Reported, RT!Idle, Slot
<1>5. t \notin Pending /\ t \in Failing /\ t \notin Pending'
  BY <1>3, <1>4 DEF Pending, Failing
<1>6. /\ Cardinality(Pending') <= Cardinality(Pending)
      /\ Cardinality(Failing') <= Cardinality(Failing)
  BY <1>4, <1>5, SlotCounts, CountedSetsFinite
<1>7. IsFiniteSet(AttemptRows')
  <2>1. \E s \in AttemptStatus : history' = [history EXCEPT ![j] = CloseRunning(@, s)]
    BY <1>2 DEF FailCommit, AttemptStatus
  <2>2. AttemptRows' \in SUBSET AttemptRows
    BY <1>0, <1>3, <2>1, NoNewRows
  <2> QED
    BY <2>2, FS_Subset DEF CountInv
<1> QED
  BY <1>0, <1>1, <1>6, <1>7, QuietCounts

\* Whatever status fetch_job finds, at most one retry or dead letter is counted for the
\* failure that was counted before.
LEMMA FetchedCounts ==
    ASSUME SysInv, CountInv, NEW t \in Tasks, Fetched(t)
    PROVE  CountInv'
<1>0. /\ slot \in [Tasks -> Slot] /\ slot[t].pc = "fetching"
      /\ metrics \in [Counters -> Nat] /\ \A c \in Counters : metrics[c] \in Nat
      /\ slot' = [slot EXCEPT ![t] = RT!Idle]
  BY DEF SysInv, SlotsInv, SlotOK, Slot, Fetched, RT!Reported
<1>1. slot'[t].pc = "idle" /\ \A u \in Tasks \ {t} : slot'[u] = slot[u]
  BY <1>0 DEF RT!Idle
<1>2. t \notin Pending /\ t \in Failing /\ t \notin Pending' /\ t \notin Failing'
  BY <1>0, <1>1 DEF Pending, Failing
<1>3. /\ Cardinality(Pending') = Cardinality(Pending)
      /\ Cardinality(Failing') = Cardinality(Failing) - 1
  BY <1>1, <1>2, SlotCounts, CountedSetsFinite
<1>4. /\ AttemptRows' = AttemptRows /\ FinishedJobs' = FinishedJobs
      /\ NonePurged' = NonePurged
  BY DEF Fetched, storeVars, AttemptRows, FinishedJobs, NonePurged
<1>5. /\ metrics'["completed"] = metrics["completed"]
      /\ metrics'["failed"] = metrics["failed"]
      /\ metrics'["retrying"] + metrics'["dead_lettered"]
            <= metrics["retrying"] + metrics["dead_lettered"] + 1
      /\ metrics'["retrying"] \in Nat /\ metrics'["dead_lettered"] \in Nat
  <2>1. metrics' = metrics \/ Inc("retrying") \/ Inc("dead_lettered")
    BY DEF Fetched, Counted
  <2> QED
    BY <1>0, <2>1 DEF Inc, Counters
<1>6. metrics'["retrying"] + metrics'["dead_lettered"] + Cardinality(Failing')
          <= metrics'["failed"]
  BY <1>0, <1>3, <1>5, CountedSetsFinite DEF CountInv, Counters
<1> QED
  BY <1>3, <1>4, <1>5, <1>6 DEF CountInv

\* All other steps count nothing.
LEMMA OtherCounts ==
    ASSUME SysInv, CountInv, SysNext, metrics' = metrics,
           \/ UNCHANGED history \/ EnvironmentStep \/ MaintenanceStep \/ TimePasses
           \/ \E t \in Tasks, e \in 0 .. TxAge : LeaseCommit(t, e),
           \A u \in Tasks : slot'[u] = slot[u] \/ slot'[u].pc = "idle"
    PROVE  CountInv'
<1>1. CASE \E t \in Tasks, e \in 0 .. TxAge : LeaseCommit(t, e)
  BY <1>1, LeaseAddsRow, IdleCounts, QuietCounts DEF CountInv
<1>2. CASE UNCHANGED history \/ EnvironmentStep \/ MaintenanceStep \/ TimePasses
  <2>1. AttemptRows' \in SUBSET AttemptRows
    BY <1>2, NoNewRows DEF SysInv, StoreInv
  <2>2. IsFiniteSet(AttemptRows')
    BY <2>1, FS_Subset DEF CountInv
  <2> QED
    BY <2>2, IdleCounts, QuietCounts
<1> QED
  BY <1>1, <1>2

\* Polling and renewing count nothing and give a slot nothing more to count.
LEMMA LeaseRenewCounts ==
    ASSUME SysInv, CountInv, NEW t \in Tasks, Lease(t) \/ Renew(t)
    PROVE  CountInv'
<1>0. slot \in [Tasks -> Slot] /\ metrics' = metrics /\ UNCHANGED history
  BY DEF SysInv, SlotsInv, SlotOK, Slot, Lease, LeaseUpdate, Renew, RenewLease
<1>1. SysNext
  BY DEF SysNext, SlotStep
<1>2. IsFiniteSet(AttemptRows')
  BY <1>0 DEF CountInv, AttemptRows
<1>3. /\ \A u \in Tasks \ {t} : slot'[u] = slot[u]
      /\ t \in Pending' <=> t \in Pending
      /\ t \in Failing' <=> t \in Failing
  <2>1. CASE Lease(t)
    <3>1. slot' = [slot EXCEPT ![t] = [RT!Idle EXCEPT !.pc = "leasing"]] /\ slot[t] = RT!Idle
      BY <2>1 DEF Lease, RT!LeaseCall
    <3>2. slot[t].pc = "idle" /\ slot'[t].pc = "leasing"
      BY <1>0, <3>1 DEF RT!Idle
    <3> QED
      BY <1>0, <3>1, <3>2 DEF Pending, Failing
  <2>2. CASE Renew(t)
    <3>1. slot' = [slot EXCEPT ![t].pc = "running"] /\ slot[t].pc = "renewing"
      BY <2>2 DEF Renew, RT!RenewOk
    <3>2. slot'[t].pc = "running"
      BY <1>0, <3>1 DEF Slot
    <3> QED
      BY <1>0, <3>1, <3>2 DEF Pending, Failing
  <2> QED
    BY <2>1, <2>2
<1>4. /\ Cardinality(Pending') = Cardinality(Pending)
      /\ Cardinality(Failing') = Cardinality(Failing)
  BY <1>3, SlotCounts, CountedSetsFinite
<1> QED
  BY <1>0, <1>1, <1>2, <1>4, CountedSetsFinite, QuietCounts

\* CountInv is inductive.
LEMMA CountNext == SysInv /\ CountInv /\ [SysNext]_sysVars => CountInv'
<1> SUFFICES ASSUME SysInv, CountInv, [SysNext]_sysVars PROVE CountInv'
  OBVIOUS
<1>0. slot \in [Tasks -> Slot] /\ RT!Idle.pc = "idle"
  BY DEF SysInv, SlotsInv, SlotOK, Slot, RT!Idle
<1>1. CASE UNCHANGED sysVars
  BY <1>1 DEF sysVars, storeVars, runtimeVars, CountInv, AttemptRows, Pending, Failing,
              FinishedJobs, NonePurged
<1>2. ASSUME NEW t \in Tasks, SlotStep(t) PROVE CountInv'
  <2>0. SysNext
    BY <1>2 DEF SysNext
  <2>1. CASE Lease(t) \/ Renew(t)
    BY <2>1, LeaseRenewCounts
  <2>2. CASE Leased(t)
    BY <2>2, LeasedCounts
  <2>3. CASE Completed(t)
    BY <2>3, CompletedCounts
  <2>7. CASE Failed(t) \/ FailedUnknown(t)
    BY <2>7, FailedCounts
  <2>8. CASE Fetched(t)
    BY <2>8, FetchedCounts
  <2>4. ASSUME NEW o \in RT!Outcome, Ends(t, o), UNCHANGED storeVars PROVE CountInv'
    BY <2>4, EndsCounts
  <2>5. CASE \/ LeasedUnknown(t) \/ LeaseFails(t) \/ RenewUnknown(t) \/ RenewFails(t)
             \/ ReportFails(t)
             \/ RT!HandlerPanics(t) /\ UNCHANGED metrics /\ UNCHANGED storeVars
    <3>1. slot' = [slot EXCEPT ![t] = RT!Idle] /\ metrics' = metrics
      BY <2>5 DEF LeasedUnknown, LeaseFails, RenewUnknown, RenewFails, ReportFails,
                  RT!LeaseNothing, RT!RenewErr, RT!Reported, RT!HandlerPanics
    <3>2. UNCHANGED history \/ \E e \in 0 .. TxAge : LeaseCommit(t, e)
      BY <2>5 DEF LeasedUnknown, LeaseFails, RenewUnknown, RenewFails, ReportFails, RenewLease,
                  Rollback, storeVars
    <3>3. \A u \in Tasks : slot'[u] = slot[u] \/ slot'[u].pc = "idle"
      BY <1>0, <3>1
    <3> QED
      BY <2>0, <3>1, <3>2, <3>3, OtherCounts
  <2>6. CASE Report(t)
    BY <2>0, <2>6, OtherCounts DEF Report, CompleteUpdate, FailSelect, runtimeVars
  <2> QED
    BY <1>2, <2>1, <2>2, <2>3, <2>4, <2>5, <2>6, <2>7, <2>8 DEF SlotStep, ReportEnds, Run
<1>3. ASSUME NEW w \in Workers, ProcessStep(w) PROVE CountInv'
  <2>0. SysNext
    BY <1>3 DEF SysNext
  <2>1. slot' = slot \/ slot' = [t \in Tasks |-> IF WorkerOf[t] = w THEN RT!Idle ELSE slot[t]]
    BY <1>3 DEF ProcessStep, RT!Start, RT!Shutdown, RT!LoopEnds, RT!Drained,
                RT!GraceElapses, RT!Crash, RT!Abandon
  <2>2. \A u \in Tasks : slot'[u] = slot[u] \/ slot'[u].pc = "idle"
    BY <1>0, <2>1
  <2>3. UNCHANGED history /\ metrics' = metrics
    BY <1>3 DEF ProcessStep, Rollback, storeVars
  <2> QED
    BY <2>0, <2>2, <2>3, OtherCounts
<1>4. CASE EnvironmentStep \/ MaintenanceStep \/ TimePasses
  <2>1. SysNext
    BY <1>4 DEF SysNext
  <2> QED
    BY <1>4, <2>1, OthersLeaveTx, OtherCounts
<1> QED
  BY <1>1, <1>2, <1>3, <1>4 DEF SysNext

\* What the workers count is never more than what happened: a job is counted completed at
\* most once, an attempt counted completed or failed at most once, and a retry or dead
\* letter at most once per failure, through lost answers, refused reports, late reads of the
\* job and crashes.
THEOREM CountsBounded == SysSpec => []CountsAreBounded
<1>1. SysInit => CountInv
  <2> SUFFICES ASSUME SysInit PROVE CountInv
    OBVIOUS
  <2>1. AttemptRows = {}
    BY AttemptRowsMembers DEF SysInit, StoreInit
  <2>2. Pending = {} /\ Failing = {}
    BY DEF SysInit, RT!RuntimeInit, RT!Idle, Pending, Failing
  <2>3. \A c \in Counters : metrics[c] = 0
    BY DEF SysInit
  <2>4. Cardinality(FinishedJobs) \in Nat /\ IsFiniteSet({}) /\ Cardinality({}) = 0
    BY CountedSetsFinite, FS_EmptySet
  <2> QED
    BY <2>1, <2>2, <2>3, <2>4 DEF CountInv, Counters
<1>2. SysInv /\ CountInv => CountsAreBounded
  <2> SUFFICES ASSUME SysInv, CountInv PROVE CountsAreBounded
    OBVIOUS
  <2>1. \A c \in Counters : metrics[c] \in Nat
    BY DEF SysInv, SlotsInv
  <2>2. Cardinality(Pending) \in Nat /\ Cardinality(Failing) \in Nat
    BY CountedSetsFinite
  <2>3. Cardinality(AttemptRows) \in Nat
    BY FS_CardinalityType DEF CountInv
  <2>4. NonePurged =>
          metrics["completed"] + metrics["failed"] <= Cardinality(AttemptRows)
    BY <2>1, <2>2, <2>3 DEF CountInv, Counters
  <2>5. metrics["retrying"] + metrics["dead_lettered"] <= metrics["failed"]
    BY <2>1, <2>2 DEF CountInv, Counters
  <2> QED
    BY <2>4, <2>5 DEF CountInv, CountsAreBounded, FinishedJobs, NonePurged
<1> QED
  BY <1>1, <1>2, CountNext, SysInvariant, PTL DEF SysSpec
=============================================================================
