------------------------------ MODULE LeaseCover ------------------------------
(***************************************************************************)
(* One job under the clock: how long lease_next, renew_lease, the handler  *)
(* and the report may take before the lease that covers them runs out.     *)
(* JobStore lets any deadline pass at any moment; here the length of every *)
(* phase of execute_job (crates/worker/src/runtime.rs) is counted in       *)
(* seconds against lease_expires_at, for any number of slots and workers.  *)
(*                                                                         *)
(* A statement takes its now() when it is sent or later and takes effect   *)
(* later still, for it may wait for a row lock; its answer comes after     *)
(* that.  The attempt budget is left out: a failure may or may not be the  *)
(* last one.                                                               *)
(***************************************************************************)
EXTENDS Integers

CONSTANTS
    Slots,         \* concurrency slots of all workers
    Workers,       \* worker process ids
    WorkerOf,      \* the worker a slot belongs to
    NULL,          \* SQL NULL
    lease_secs,    \* WorkerConfig::lease_secs
    timeout_secs,  \* column timeout_secs of the job
    Slack,         \* what execute_job adds to it, 30
    LeaseDelay,    \* bound: from lease_next's BEGIN to the sending of renew_lease
    RenewDelay,    \* bound: from the sending of renew_lease to its answer
    ReportDelay    \* bound: from the end of the handler to the report's row lock

ASSUME SlotsAssumption ==
    /\ WorkerOf \in [Slots -> Workers]
    /\ NULL \notin Workers

ASSUME LengthsAssumption ==
    /\ lease_secs \in Nat
    /\ timeout_secs \in Nat \ {0}
    /\ Slack \in Nat
    /\ LeaseDelay \in Nat
    /\ RenewDelay \in Nat
    /\ ReportDelay \in Nat

\* How prompt the database and the scheduler must be for the leases to cover the work.
ASSUME PromptnessAssumption ==
    /\ LeaseDelay + RenewDelay <= lease_secs
    /\ RenewDelay + ReportDelay <= Slack

VARIABLES
    status,            \* of the job, "waiting" for the leaseable ones, "parked" for
                       \* failed and dead_lettered, "final" for completed and cancelled
    locked_by,
    lease_expires_at,  \* relative to now(), told apart down to -1
    pc,                \* what each slot is doing with the job
    clock              \* seconds each slot has spent on it

vars == <<status, locked_by, lease_expires_at, pc, clock>>

Phase == {"idle", "leasing", "leased", "renewing", "renewed", "running", "reporting"}

TypeOK ==
    /\ status \in {"waiting", "processing", "parked", "final"}
    /\ locked_by \in Workers \cup {NULL}
    /\ lease_expires_at \in Int
    /\ pc \in [Slots -> Phase]
    /\ clock \in [Slots -> Nat]

Init ==
    /\ status = "waiting"
    /\ locked_by = NULL
    /\ lease_expires_at = 0
    /\ pc = [t \in Slots |-> "idle"]
    /\ clock = [t \in Slots |-> 0]

-----------------------------------------------------------------------------
\* Slot t enters a phase and starts to count its seconds, or goes on counting.
Enter(t, phase) ==
    /\ pc' = [pc EXCEPT ![t] = phase]
    /\ clock' = [clock EXCEPT ![t] = 0]

Continue(t, phase) ==
    /\ pc' = [pc EXCEPT ![t] = phase]
    /\ UNCHANGED clock

\* The row is nobody's any more.
Release(s) ==
    /\ status' = s
    /\ locked_by' = NULL
    /\ lease_expires_at' = 0

rowVars == <<status, locked_by, lease_expires_at>>

HoldsLease(t) == status = "processing" /\ locked_by = WorkerOf[t]

-----------------------------------------------------------------------------
(* The slot.                                                               *)

LeaseBegin(t) ==
    /\ pc[t] = "idle"
    /\ Enter(t, "leasing")
    /\ UNCHANGED rowVars

\* Mutant: the subquery also takes processing rows.
LeaseCommit_Steals(t) ==
    /\ pc[t] = "leasing"
    /\ status \in {"waiting", "processing"}
    /\ status' = "processing"
    /\ locked_by' = WorkerOf[t]
    /\ \E e \in 0 .. clock[t] : lease_expires_at' = lease_secs - e
    /\ Continue(t, "leased")

\* The transaction commits; its now() is e seconds old.
LeaseCommit(t) ==
    /\ pc[t] = "leasing"
    /\ status = "waiting"
    /\ status' = "processing"
    /\ locked_by' = WorkerOf[t]
    /\ \E e \in 0 .. clock[t] : lease_expires_at' = lease_secs - e
    /\ Continue(t, "leased")

\* execute_job starts and sends renew_lease.
RenewSend(t) ==
    /\ pc[t] = "leased"
    /\ Enter(t, "renewing")
    /\ UNCHANGED rowVars

\* Mutant: the lease is as long as the timeout.
cover_Bare == timeout_secs

cover == timeout_secs + Slack

Renew(t) ==
    /\ pc[t] = "renewing"
    /\ HoldsLease(t)
    /\ \E e \in 0 .. clock[t] : lease_expires_at' = cover - e
    /\ Continue(t, "renewed")
    /\ UNCHANGED <<status, locked_by>>

\* The answer to the renewal arrives and the handler is called.
HandlerStarts(t) ==
    /\ pc[t] = "renewed"
    /\ Enter(t, "running")
    /\ UNCHANGED rowVars

\* It returns, or its timeout drops it.
HandlerEnds(t) ==
    /\ pc[t] = "running"
    /\ Enter(t, "reporting")
    /\ UNCHANGED rowVars

\* complete_job or fail_job, which ask for the lease.
Report(t) ==
    /\ pc[t] = "reporting"
    /\ HoldsLease(t)
    /\ \E s \in {"final", "waiting", "parked"} : Release(s)
    /\ Enter(t, "idle")

\* A lease call finds nothing, a statement fails or matches no row, an answer is lost,
\* the handler panics, the worker aborts its tasks or dies.
GiveUp(t) ==
    /\ pc[t] # "idle"
    /\ Enter(t, "idle")
    /\ UNCHANGED rowVars

SlotStep(t) ==
    \/ LeaseBegin(t) \/ LeaseCommit(t)
    \/ RenewSend(t) \/ Renew(t)
    \/ HandlerStarts(t) \/ HandlerEnds(t)
    \/ Report(t)
    \/ GiveUp(t)

-----------------------------------------------------------------------------
(* The others.                                                             *)

\* Mutant: a lease that ends this very second is taken for expired.
Expired_AtDeadline == status = "processing" /\ lease_expires_at <= 0

Expired == status = "processing" /\ lease_expires_at < 0

Recover ==
    /\ Expired
    /\ \E s \in {"waiting", "parked"} : Release(s)
    /\ UNCHANGED <<pc, clock>>

Cancel ==
    /\ status \in {"waiting", "processing"}
    /\ Release("final")
    /\ UNCHANGED <<pc, clock>>

Retry ==
    /\ status = "parked"
    /\ Release("waiting")
    /\ UNCHANGED <<pc, clock>>

-----------------------------------------------------------------------------
(* Time.                                                                   *)

\* The longest a slot may stay in its phase; a lease call that found no row holds nothing.
Bound(phase) ==
    CASE phase \in {"leasing", "leased"}     -> LeaseDelay
      [] phase \in {"renewing", "renewed"}   -> RenewDelay
      [] phase = "running"                   -> timeout_secs
      [] phase = "reporting"                 -> ReportDelay
      [] OTHER                               -> 0

Tick ==
    /\ \A t \in Slots : pc[t] = "idle" \/ clock[t] < Bound(pc[t])
    /\ clock' = [t \in Slots |-> IF pc[t] = "idle" THEN 0 ELSE clock[t] + 1]
    /\ lease_expires_at' = IF status = "processing" /\ lease_expires_at >= 0
                           THEN lease_expires_at - 1 ELSE lease_expires_at
    /\ UNCHANGED <<status, locked_by, pc>>

Next ==
    \/ \E t \in Slots : SlotStep(t)
    \/ Recover
    \/ Cancel
    \/ Retry
    \/ Tick

Spec == Init /\ [][Next]_vars

-----------------------------------------------------------------------------
(* What the lengths of the leases are chosen for.                          *)

Owns(t) == pc[t] \in {"leased", "renewing", "renewed", "running", "reporting"}

\* What is left of the lease at least, clock[t] seconds into the phase.
Left(t) ==
    CASE pc[t] = "leased"    -> lease_secs - clock[t]
      [] pc[t] = "renewing"  -> lease_secs - LeaseDelay - clock[t]
      [] pc[t] = "renewed"   -> cover - clock[t]
      [] pc[t] = "running"   -> cover - RenewDelay - clock[t]
      [] pc[t] = "reporting" -> Slack - RenewDelay - clock[t]

\* Why: one slot at most has the job, from the commit of its lease to its report, and
\* in each phase so much of the lease is left that it outlasts the phase.
LeaseOutlastsPhase ==
    /\ \A t \in Slots : clock[t] <= Bound(pc[t])
    /\ \A t, u \in Slots : Owns(t) /\ Owns(u) => t = u
    /\ \A t \in Slots :
         Owns(t) => status = "final" \/ (HoldsLease(t) /\ lease_expires_at >= Left(t))

\* A job is "never run by two workers at once" (README.md), nor by two slots of one
\* worker, although the renewal is asked for the worker only and execute_job never
\* looks at the lease again once the handler has started.
OneRunner == \A t, u \in Slots : pc[t] = "running" /\ pc[u] = "running" => t = u

\* A handler that ended within its timeout has not worked in vain: when the report
\* reaches the row, the lease is still the slot's, unless the job was cancelled.
WorkIsNotLost == \A t \in Slots :
    pc[t] = "reporting" => status = "final" \/ (HoldsLease(t) /\ ~Expired)
=============================================================================
