---------------------------- MODULE WorkerRegistry ----------------------------
(***************************************************************************)
(* The table workers: register_worker, heartbeat, deregister_worker,       *)
(* prune_dead_workers and list_active_workers of PgStore, called by the    *)
(* worker process with its heartbeat task (crates/worker/src/runtime.rs)   *)
(* and by the sweep of the maintenance loop                                *)
(* (crates/queue/src/maintenance.rs), against the clock.                   *)
(*                                                                         *)
(* A statement whose future was dropped may still reach the database; only *)
(* the INSERT matters then, for it brings a row back.                      *)
(***************************************************************************)
EXTENDS Integers, FiniteSets

CONSTANTS
    Workers,             \* worker process ids, never reused
    NULL,                \* no row
    heartbeat_interval, worker_ttl_secs, active_window_secs,
    Delay,               \* bound: from a tick of the interval to the end of its calls
    StopTime,            \* bound: from the shutdown token to deregister_worker,
                         \* the last lease_next and shutdown_grace included
    MaxMissed            \* heartbeats in a row that may get lost

ASSUME RegistryAssumption ==
    /\ IsFiniteSet(Workers)
    /\ NULL \notin Int
    /\ heartbeat_interval \in Nat \ {0}
    /\ worker_ttl_secs \in Nat
    /\ active_window_secs \in Nat
    /\ Delay \in 0 .. heartbeat_interval
    /\ StopTime \in Nat
    /\ MaxMissed \in Nat

\* worker_ttl_secs leaves room for lost heartbeats and for a drain, which sends none.
ASSUME TtlAssumption ==
    (MaxMissed + 1) * heartbeat_interval + Delay + StopTime <= worker_ttl_secs

VARIABLES
    age,      \* table workers: seconds since last_heartbeat, or NULL
    life,     \* of the worker process
    beat,     \* heartbeat task: waiting for a tick, heartbeat sent, register sent
    timer,    \* seconds since the interval's last tick
    stopping, \* seconds since the shutdown token was cancelled
    missed,   \* heartbeats lost since the last one that counted, up to MaxMissed + 1
    late,     \* workers with an INSERT on its way that nobody waits for
    maint,    \* next statement of the sweep
    gauge     \* active_workers

processVars == <<life, beat, timer, stopping, missed>>
maintVars == <<maint, gauge>>
vars == <<age, processVars, late, maintVars>>

TypeOK ==
    /\ age \in [Workers -> Nat \cup {NULL}]
    /\ life \in [Workers -> {"new", "up", "stopping", "deregistering", "gone"}]
    /\ beat \in [Workers -> {"off", "waiting", "sent", "registering"}]
    /\ timer \in [Workers -> Nat]
    /\ stopping \in [Workers -> Nat]
    /\ missed \in [Workers -> Nat]
    /\ late \in SUBSET Workers
    /\ maint \in {"prune", "count"}
    /\ gauge \in Nat

Init ==
    /\ age = [w \in Workers |-> NULL]
    /\ life = [w \in Workers |-> "new"]
    /\ beat = [w \in Workers |-> "off"]
    /\ timer = [w \in Workers |-> 0]
    /\ stopping = [w \in Workers |-> 0]
    /\ missed = [w \in Workers |-> 0]
    /\ late = {}
    /\ maint = "prune"
    /\ gauge = 0

-----------------------------------------------------------------------------
(* The statements.                                                         *)

\* Mutant: an existing row is left as it is.
Touch_KeepsOld(w, since) == age' = [age EXCEPT ![w] = IF @ = NULL THEN 0 ELSE @]

\* INSERT ... ON CONFLICT DO UPDATE, or UPDATE, whose now() is up to `since` seconds old.
Touch(w, since) == \E e \in 0 .. since : age' = [age EXCEPT ![w] = e]

Delete(S) == age' = [w \in Workers |-> IF w \in S THEN NULL ELSE age[w]]

\* The process is gone, and with it its heartbeat task.
Ends(w) ==
    /\ life' = [life EXCEPT ![w] = "gone"]
    /\ beat' = [beat EXCEPT ![w] = "off"]
    /\ timer' = [timer EXCEPT ![w] = 0]
    /\ stopping' = [stopping EXCEPT ![w] = 0]
    /\ missed' = [missed EXCEPT ![w] = 0]

\* The heartbeat task is dropped; a register it has sent may still take effect.
DropsBeat(w) ==
    \/ UNCHANGED late
    \/ beat[w] = "registering" /\ late' = late \cup {w}

-----------------------------------------------------------------------------
(* WorkerRuntime::run.                                                     *)

\* register_worker, then the heartbeat task, whose interval ticks at once.
Register(w) ==
    /\ life[w] = "new"
    /\ Touch(w, Delay)
    /\ life' = [life EXCEPT ![w] = "up"]
    /\ beat' = [beat EXCEPT ![w] = "waiting"]
    /\ timer' = [timer EXCEPT ![w] = heartbeat_interval]
    /\ UNCHANGED <<stopping, missed, late, maintVars>>

\* `?` ends the process, although the row may be there.
RegisterFails(w) ==
    /\ life[w] = "new"
    /\ Ends(w)
    /\ UNCHANGED age \/ Touch(w, 0)
    /\ UNCHANGED <<late, maintVars>>

Shutdown(w) ==
    /\ life[w] = "up"
    /\ life' = [life EXCEPT ![w] = "stopping"]
    /\ UNCHANGED <<age, beat, timer, stopping, missed, late, maintVars>>

\* The jobs are drained or abandoned: hb.abort().
StopsBeating(w) ==
    /\ life[w] = "stopping"
    /\ life' = [life EXCEPT ![w] = "deregistering"]
    /\ beat' = [beat EXCEPT ![w] = "off"]
    /\ timer' = [timer EXCEPT ![w] = 0]
    /\ DropsBeat(w)
    /\ UNCHANGED <<age, stopping, missed, maintVars>>

\* deregister_worker; an error is logged and the process ends all the same.
Deregister(w) ==
    /\ life[w] = "deregistering"
    /\ Ends(w)
    /\ Delete({w}) \/ UNCHANGED age
    /\ UNCHANGED <<late, maintVars>>

Crash(w) ==
    /\ life[w] \in {"up", "stopping", "deregistering"}
    /\ Ends(w)
    /\ DropsBeat(w)
    /\ UNCHANGED <<age, maintVars>>

-----------------------------------------------------------------------------
(* heartbeat_loop.                                                         *)

\* ticker.tick(); select! may prefer it to a token that is already cancelled.
BeatTick(w) ==
    /\ beat[w] = "waiting"
    /\ timer[w] = heartbeat_interval
    /\ beat' = [beat EXCEPT ![w] = "sent"]
    /\ timer' = [timer EXCEPT ![w] = 0]
    /\ UNCHANGED <<age, life, stopping, missed, late, maintVars>>

BeatSeesShutdown(w) ==
    /\ beat[w] = "waiting"
    /\ life[w] = "stopping"
    /\ beat' = [beat EXCEPT ![w] = "off"]
    /\ timer' = [timer EXCEPT ![w] = 0]
    /\ UNCHANGED <<age, life, stopping, missed, late, maintVars>>

\* Ok(true)
Heartbeat(w) ==
    /\ beat[w] = "sent"
    /\ age[w] # NULL
    /\ Touch(w, timer[w])
    /\ beat' = [beat EXCEPT ![w] = "waiting"]
    /\ missed' = [missed EXCEPT ![w] = 0]
    /\ UNCHANGED <<life, timer, stopping, late, maintVars>>

\* Mutant: a heartbeat that finds no row is taken for sent.
HeartbeatFindsNoRow_Ignored(w) ==
    /\ beat[w] = "sent"
    /\ age[w] = NULL
    /\ beat' = [beat EXCEPT ![w] = "waiting"]
    /\ UNCHANGED <<age, life, timer, stopping, missed, late, maintVars>>

\* Ok(false): "worker row missing; re-registering"
HeartbeatFindsNoRow(w) ==
    /\ beat[w] = "sent"
    /\ age[w] = NULL
    /\ beat' = [beat EXCEPT ![w] = "registering"]
    /\ UNCHANGED <<age, life, timer, stopping, missed, late, maintVars>>

Reregister(w) ==
    /\ beat[w] = "registering"
    /\ Touch(w, timer[w])
    /\ beat' = [beat EXCEPT ![w] = "waiting"]
    /\ missed' = [missed EXCEPT ![w] = 0]
    /\ UNCHANGED <<life, timer, stopping, late, maintVars>>

\* Either call fails, which is logged; a lost answer may hide that it took effect.
BeatFails(w) ==
    /\ beat[w] \in {"sent", "registering"}
    /\ \/ UNCHANGED age
       \/ (age[w] # NULL \/ beat[w] = "registering") /\ Touch(w, timer[w])
    /\ beat' = [beat EXCEPT ![w] = "waiting"]
    /\ missed' = [missed EXCEPT ![w] = IF @ <= MaxMissed THEN @ + 1 ELSE @]
    /\ UNCHANGED <<life, timer, stopping, late, maintVars>>

\* An INSERT nobody waits for takes effect, or the connection took it along.
LateInsert(w) ==
    /\ w \in late
    /\ late' = late \ {w}
    /\ Touch(w, 0) \/ UNCHANGED age
    /\ UNCHANGED <<processVars, maintVars>>

-----------------------------------------------------------------------------
(* The sweep of the maintenance loop, from prune_dead_workers on.          *)

\* Mutant: the window of the gauge is used for pruning.
Dead_Window(w) == age[w] # NULL /\ age[w] > active_window_secs

Dead(w) == age[w] # NULL /\ age[w] > worker_ttl_secs

\* Mutant: nothing is deleted.
Prune_Nothing ==
    /\ maint = "prune"
    /\ maint' = "count"
    /\ UNCHANGED <<age, processVars, late, gauge>>

Prune ==
    /\ maint = "prune"
    /\ Delete({w \in Workers : Dead(w)})
    /\ maint' = "count"
    /\ UNCHANGED <<processVars, late, gauge>>

Active(w) == age[w] # NULL /\ age[w] < active_window_secs

\* Mutant: the gauge is only ever raised.
CountActive_Raises ==
    /\ maint = "count"
    /\ LET n == Cardinality({w \in Workers : Active(w)})
       IN  gauge' = IF n > gauge THEN n ELSE gauge
    /\ maint' = "prune"
    /\ UNCHANGED <<age, processVars, late>>

CountActive ==
    /\ maint = "count"
    /\ gauge' = Cardinality({w \in Workers : Active(w)})
    /\ maint' = "prune"
    /\ UNCHANGED <<age, processVars, late>>

\* A failing statement is logged and the sweep goes on.
SweepFails ==
    /\ maint' = IF maint = "prune" THEN "count" ELSE "prune"
    /\ UNCHANGED <<age, processVars, late, gauge>>

-----------------------------------------------------------------------------
\* Calls of the heartbeat end within Delay, the interval ticks when it is due, and a
\* shutdown takes StopTime at most.
MayPass(w) ==
    /\ beat[w] = "waiting" => timer[w] < heartbeat_interval
    /\ beat[w] \in {"sent", "registering"} => timer[w] < Delay
    /\ life[w] = "stopping" => stopping[w] < StopTime

Tick ==
    /\ \A w \in Workers : MayPass(w)
    /\ age' = [w \in Workers |->
                 IF age[w] # NULL /\ age[w] <= worker_ttl_secs THEN age[w] + 1 ELSE age[w]]
    /\ timer' = [w \in Workers |-> IF beat[w] = "off" THEN 0 ELSE timer[w] + 1]
    /\ stopping' = [w \in Workers |-> IF life[w] = "stopping" THEN stopping[w] + 1 ELSE stopping[w]]
    /\ UNCHANGED <<life, beat, missed, late, maintVars>>

ProcessStep(w) ==
    \/ Register(w) \/ RegisterFails(w)
    \/ Shutdown(w) \/ StopsBeating(w) \/ Deregister(w)
    \/ Crash(w)

BeatStep(w) ==
    \/ BeatTick(w) \/ BeatSeesShutdown(w)
    \/ Heartbeat(w) \/ HeartbeatFindsNoRow(w) \/ Reregister(w) \/ BeatFails(w)
    \/ LateInsert(w)

Next ==
    \/ \E w \in Workers : ProcessStep(w) \/ BeatStep(w)
    \/ Prune \/ CountActive \/ SweepFails
    \/ Tick

\* Time passes, the interval ticks, a call ends one way or the other and so does a
\* shutdown, a statement that is tried again and again gets through in the end, and one
\* that nobody waits for arrives or is lost.
Fairness ==
    /\ WF_vars(Tick)
    /\ SF_vars(Prune)
    /\ SF_vars(CountActive)
    /\ \A w \in Workers :
         /\ WF_vars(BeatStep(w))
         /\ WF_vars(StopsBeating(w))
         /\ SF_vars(HeartbeatFindsNoRow(w))
         /\ SF_vars(Reregister(w))
         /\ WF_vars(LateInsert(w))

Spec == Init /\ [][Next]_vars /\ Fairness

-----------------------------------------------------------------------------
(* What the registry promises.                                             *)

Alive(w) == life[w] \in {"up", "stopping"}

\* A live worker is listed, and stays listed while it drains and sends no heartbeat,
\* unless more than MaxMissed of its heartbeats in a row were lost: pruning never takes
\* it for dead before.
LiveWorkersListed == \A w \in Workers :
    Alive(w) /\ missed[w] <= MaxMissed => age[w] # NULL

\* The longest the database has not heard of a live worker.
Silence(w) ==
    CASE life[w] = "up" /\ beat[w] = "waiting" -> missed[w] * heartbeat_interval + timer[w]
      [] life[w] = "up" /\ beat[w] # "waiting" ->
            (missed[w] + 1) * heartbeat_interval + timer[w]
      [] OTHER -> (missed[w] + 1) * heartbeat_interval + Delay + stopping[w]

\* Why: the row is no older than the heartbeats that were lost, the one that is due, and
\* the time the worker has been stopping.
RowsAreFresh == \A w \in Workers :
    Alive(w) /\ missed[w] <= MaxMissed => age[w] # NULL /\ age[w] <= Silence(w)

\* A worker that was pruned although it is up puts itself back on the list.
PrunedWorkerReturns == \A w \in Workers :
    (life[w] = "up" /\ age[w] = NULL) ~> (life[w] # "up" \/ age[w] # NULL)

\* The row of a worker that has stopped or died goes and never comes back, even if
\* deregister_worker failed or a late re-registration was overtaken by it.
DeadWorkersForgotten == \A w \in Workers : (life[w] = "gone") ~> [](age[w] = NULL)

\* When all workers are gone the gauge says so.
GaugeSettles == (\A w \in Workers : life[w] = "gone") ~> [](gauge = 0)
=============================================================================
