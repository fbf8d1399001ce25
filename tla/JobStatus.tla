------------------------------ MODULE JobStatus ------------------------------
(***************************************************************************)
(* The job statuses of crates/core/src/status.rs, the predicates on them   *)
(* and the transition table that file calls authoritative.  Statuses keep  *)
(* the spelling of JobStatus::as_str, the one stored in Postgres.          *)
(***************************************************************************)

Status == {"queued", "scheduled", "processing", "completed",
           "failed", "retrying", "cancelled", "dead_lettered"}

is_terminal(s) == s \in {"completed", "cancelled", "dead_lettered"}

\* Mutants: a status list that forgets retries, one that takes parked jobs up again.
is_leaseable_NoRetry(s) == s \in {"queued", "scheduled"}
is_leaseable_Parked(s) == s \in {"queued", "scheduled", "retrying", "dead_lettered"}

is_leaseable(s) == s \in {"queued", "scheduled", "retrying"}

\* Mutant: completed jobs can be cancelled too.
is_cancellable_Late(s) == s \in {"queued", "scheduled", "retrying", "processing", "completed"}

is_cancellable(s) == s \in {"queued", "scheduled", "retrying", "processing"}

\* JobStatus::can_transition_to: the legal edges, as documented.
can_transition_to(s, next) ==
    <<s, next>> \in
        ({"queued"} \X {"processing", "scheduled", "cancelled"})
            \cup ({"scheduled"} \X {"queued", "processing", "cancelled"})
            \cup ({"processing"} \X {"completed", "failed", "retrying",
                                     "queued", "cancelled"})
            \cup ({"retrying"} \X {"processing", "queued", "cancelled",
                                   "dead_lettered"})
            \cup ({"failed"} \X {"dead_lettered", "retrying"})

\* Statuses of a job_attempts row (migrations/0001_init.sql).
AttemptStatus == {"running", "succeeded", "failed", "timeout"}
=============================================================================
