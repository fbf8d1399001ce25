---------------------------- MODULE RetrySchedule ----------------------------
(***************************************************************************)
(* The delays one job meets from its submission to the end of its budget,  *)
(* when each attempt ends either by a worker's report or by the reaper.    *)
(***************************************************************************)
EXTENDS Backoff

CONSTANTS BaseInputs, MaxInputs,   \* backoff_base_secs, backoff_max_secs requested
          MaxAttempts,             \* bound on the budget
          Percents                 \* sampled jitter and random values

\* The columns are i32 and the exponent guard of the Rust code is 32: no ceiling a
\* row can hold reaches two to the guard.
ASSUME ScheduleAssumption ==
    /\ ExpCap \in Nat \ {0} /\ MaxAttempts \in Nat
    /\ BaseInputs \subseteq Int /\ MaxInputs \subseteq Int
    /\ \A x \in BaseInputs \cup MaxInputs : x < 2 ^ ExpCap
    /\ Percents \subseteq 0 .. 100

VARIABLES row, attempts, delay

Init ==
    /\ \E b \in BaseInputs, m \in MaxInputs : row = normalized_backoff(b, m)
    /\ attempts = 0
    /\ delay = 0

Reported ==
    /\ attempts < MaxAttempts
    /\ attempts' = attempts + 1
    /\ delay' = WorkerDelay(row, attempts')
    /\ UNCHANGED row

Recovered ==
    /\ attempts < MaxAttempts
    /\ attempts' = attempts + 1
    /\ delay' = ReaperDelay(row, attempts')
    /\ UNCHANGED row

Next == Reported \/ Recovered

Spec == Init /\ [][Next]_<<row, attempts, delay>>

-----------------------------------------------------------------------------
\* The delay after each attempt: the base at first, doubled each time, saturating.
Doubling ==
    LET d[n \in 1 .. MaxAttempts] ==
            IF n = 1 THEN row.base
            ELSE IF 2 * d[n - 1] > row.max THEN row.max ELSE 2 * d[n - 1]
    IN  d

\* Whoever ends an attempt, the delay is min(base * 2^(n-1), max): the exponent guard
\* of the Rust code never shows, and the SQL copy of the formula agrees with it.
DelayIsDoubling == attempts > 0 => delay = Doubling[attempts]

\* A job backs off further with every attempt, even when workers and the reaper take
\* turns ending its attempts.
DelaysNeverShrink == [][delay' >= delay]_<<row, attempts, delay>>

\* A jittered delay stays within its fraction of the plain one, never below zero and
\* never above the ceiling of the policy.
JitterWithinBounds ==
    attempts > 0 => \A jitter, rand \in Percents :
        LET p == exponential(row.base, row.max)
            d == 100 * delay_for_attempt(p, attempts)
            x == delay_with_jitter(p, jitter, attempts, rand)
        IN  /\ x \in 0 .. 10000 * p.max
            /\ x \in (d * (100 - jitter)) .. (d * (100 + jitter))
=============================================================================
