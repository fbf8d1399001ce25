------------------------------- MODULE Backoff -------------------------------
(***************************************************************************)
(* Retry delays.  The policy is computed twice in the repository: in Rust  *)
(* (crates/core/src/backoff.rs) when a worker reports a failure, and in    *)
(* SQL inside recover_expired_leases when the reaper takes a job back.     *)
(* Both work in f64 on whole seconds and powers of two, which f64 holds    *)
(* exactly over the range of the columns, so integers stand for them.      *)
(***************************************************************************)
EXTENDS Integers

CONSTANT ExpCap   \* the exponent guard of delay_for_attempt, 32 in the code

AtLeast(x, low) == IF x < low THEN low ELSE x
AtMost(x, high) == IF x > high THEN high ELSE x

\* NewJob::normalized, its backoff part: what submission makes of the caller's two numbers.
normalized_backoff(base_secs, max_secs) ==
    LET base == AtLeast(base_secs, 1)
    IN  [base |-> base, max |-> AtLeast(max_secs, base)]

\* BackoffPolicy::exponential
exponential(base_secs, max_secs) ==
    LET base == AtLeast(base_secs, 1)
    IN  [base |-> base, max |-> AtLeast(max_secs, base)]

\* Mutant: a guard too small for the range of the columns.
delay_for_attempt_ShortGuard(p, attempt) ==
    AtMost(p.base * 2 ^ AtMost(AtLeast(attempt, 1) - 1, ExpCap - 4), p.max)

delay_for_attempt(p, attempt) ==
    AtMost(p.base * 2 ^ AtMost(AtLeast(attempt, 1) - 1, ExpCap), p.max)

\* Mutant: a jittered delay that is not cut at the ceiling again.
delay_with_jitter_NoCeiling(p, jitter, attempt, rand) ==
    10000 * delay_for_attempt(p, attempt)
        + (2 * rand - 100) * delay_for_attempt(p, attempt) * jitter

\* jitter and rand are percentages; the delay is in units of 1/10000 second.
delay_with_jitter(p, jitter, attempt, rand) ==
    LET d == delay_for_attempt(p, attempt)
        offset == (2 * rand - 100) * d * jitter
    IN  IF jitter <= 0 THEN 10000 * d
        ELSE AtMost(AtLeast(10000 * d + offset, 0), 10000 * p.max)

\* fail_job: the delay written to run_at when a worker reports a failure.
WorkerDelay(row, attempts) ==
    delay_for_attempt(exponential(AtLeast(row.base, 1), AtLeast(row.max, 1)), attempts)

\* Mutant: the SQL copy grows linearly.
ReaperDelay_Linear(row, attempts) == AtMost(row.base * attempts, row.max)

\* recover_expired_leases: the same delay when the lease expired.
ReaperDelay(row, attempts) == AtMost(row.base * 2 ^ AtLeast(attempts - 1, 0), row.max)
=============================================================================
