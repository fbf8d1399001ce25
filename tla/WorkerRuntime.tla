----------------------------- MODULE WorkerRuntime -----------------------------
(***************************************************************************)
(* The worker process of crates/worker/src/runtime.rs: the run loop with   *)
(* its semaphore, the tasks that execute jobs, graceful drain, and what a  *)
(* crash leaves behind.  This module holds the worker's own state only;    *)
(* QueueSystem joins each step to the store call it makes.                 *)
(*                                                                         *)
(* A slot is one permit of the semaphore and the task it is given to.  The *)
(* run loop awaits lease_next before it takes the next permit, so at most  *)
(* one slot of a worker is leasing.                                        *)
(***************************************************************************)
CONSTANTS JobIds, Workers, Tasks, WorkerOf, NULL

VARIABLES
    worker,   \* life of each worker process; an id is never reused
    slot      \* what each slot is doing, and the Job value its task was given

Outcome == {"success", "failure", "timeout"}

Idle == [pc |-> "idle", job |-> NULL, attempt |-> 0, outcome |-> NULL]

RuntimeInit ==
    /\ worker = [w \in Workers |-> "new"]
    /\ slot = [t \in Tasks |-> Idle]

SlotsOf(w) == {t \in Tasks : WorkerOf[t] = w}

Alive(w) == worker[w] \in {"up", "stopping", "draining"}

\* The tasks of w end without another word: abort_all, or the process is gone.
Abandon(w) == slot' = [t \in Tasks |-> IF WorkerOf[t] = w THEN Idle ELSE slot[t]]

Start(w) ==
    /\ worker[w] = "new"
    /\ worker' = [worker EXCEPT ![w] = "up"]
    /\ UNCHANGED slot

\* acquire_owned succeeds and the loop awaits lease_next.  tokio::select! takes either
\* ready branch, so this may still happen after shutdown was asked.
LeaseCall(t) ==
    /\ worker[WorkerOf[t]] \in {"up", "stopping"}
    /\ slot[t] = Idle
    /\ \A u \in SlotsOf(WorkerOf[t]) : slot[u].pc # "leasing"
    /\ slot' = [slot EXCEPT ![t] = [Idle EXCEPT !.pc = "leasing"]]
    /\ UNCHANGED worker

\* Ok(Some(job)): execute_job is spawned.
LeaseGot(t, j, n) ==
    /\ slot[t].pc = "leasing"
    /\ slot' = [slot EXCEPT ![t] = [Idle EXCEPT !.pc = "renewing", !.job = j, !.attempt = n]]
    /\ UNCHANGED worker

\* Ok(None) or Err: the permit is dropped.
LeaseNothing(t) ==
    /\ slot[t].pc = "leasing"
    /\ slot' = [slot EXCEPT ![t] = Idle]
    /\ UNCHANGED worker

RenewOk(t) ==
    /\ slot[t].pc = "renewing"
    /\ slot' = [slot EXCEPT ![t].pc = "running"]
    /\ UNCHANGED worker

\* "could not renew lease; skipping (lease lost)"
RenewErr(t) ==
    /\ slot[t].pc = "renewing"
    /\ slot' = [slot EXCEPT ![t] = Idle]
    /\ UNCHANGED worker

\* The handler returns, is missing, or is cut off by its timeout.
HandlerEnds(t, outcome) ==
    /\ slot[t].pc = "running"
    /\ slot' = [slot EXCEPT ![t].pc = "reporting", ![t].outcome = outcome]
    /\ UNCHANGED worker

\* The handler panics: the task is gone, its permit dropped, nothing is reported.
HandlerPanics(t) ==
    /\ slot[t].pc = "running"
    /\ slot' = [slot EXCEPT ![t] = Idle]
    /\ UNCHANGED worker

\* fail_job has committed and reads the job again before it returns.
FailCommitted(t) ==
    /\ slot[t].pc = "reporting"
    /\ slot' = [slot EXCEPT ![t].pc = "fetching"]
    /\ UNCHANGED worker

\* report_outcome returned; an error is logged and not retried.
Reported(t) ==
    /\ slot[t].pc \in {"reporting", "fetching"}
    /\ slot' = [slot EXCEPT ![t] = Idle]
    /\ UNCHANGED worker

Shutdown(w) ==
    /\ worker[w] = "up"
    /\ worker' = [worker EXCEPT ![w] = "stopping"]
    /\ UNCHANGED slot

\* The loop sees the token between two lease calls and breaks.
LoopEnds(w) ==
    /\ worker[w] = "stopping"
    /\ \A t \in SlotsOf(w) : slot[t].pc # "leasing"
    /\ worker' = [worker EXCEPT ![w] = "draining"]
    /\ UNCHANGED slot

\* Every task was joined within shutdown_grace.
Drained(w) ==
    /\ worker[w] = "draining"
    /\ \A t \in SlotsOf(w) : slot[t] = Idle
    /\ worker' = [worker EXCEPT ![w] = "stopped"]
    /\ UNCHANGED slot

\* shutdown_grace elapsed: abort_all.
GraceElapses(w) ==
    /\ worker[w] = "draining"
    /\ \E t \in SlotsOf(w) : slot[t] # Idle
    /\ worker' = [worker EXCEPT ![w] = "stopped"]
    /\ Abandon(w)

Crash(w) ==
    /\ Alive(w)
    /\ worker' = [worker EXCEPT ![w] = "stopped"]
    /\ Abandon(w)
=============================================================================
