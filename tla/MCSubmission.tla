----------------------------- MODULE MCSubmission -----------------------------
(* Small instances of Submission.                                            *)
EXTENDS Submission, TLC

Lengths == [s \in {"", "q", "p", "t", "k", "long"} |->
              CASE s = "" -> 0 [] s = "long" -> 256 [] OTHER -> 1]

Plain == [queue |-> "q", job_type |-> "t", idempotency_key |-> NULL, header |-> "",
          max_attempts |-> NULL, delay_secs |-> NULL, run_at |-> NULL,
          timeout_secs |-> NULL, backoff_base_secs |-> NULL, backoff_max_secs |-> NULL]

Keyed == [Plain EXCEPT !.idempotency_key = "k"]

\* The same key by body and by header, an empty key, another queue, no key.
KeyRequests ==
    {Plain, Keyed, [Plain EXCEPT !.header = "k"],
     [Plain EXCEPT !.idempotency_key = "", !.header = "k"], [Keyed EXCEPT !.queue = "p"]}

\* The least and the greatest values validation accepts, and backoffs it corrects.
LimitRequests ==
    {[Keyed EXCEPT !.max_attempts = 1, !.timeout_secs = 1, !.run_at = -1,
                   !.backoff_base_secs = -1, !.backoff_max_secs = -1],
     [Keyed EXCEPT !.max_attempts = 100, !.timeout_secs = 86400, !.delay_secs = MaxDelay,
                   !.backoff_base_secs = 30, !.backoff_max_secs = 5],
     [Keyed EXCEPT !.run_at = 1, !.delay_secs = -1,
                   !.backoff_base_secs = 0, !.backoff_max_secs = 0]}

\* One field of each just beyond its limit.
InvalidRequests ==
    {[Keyed EXCEPT !.max_attempts = n] : n \in {0, 101}}
        \cup {[Keyed EXCEPT !.timeout_secs = n] : n \in {0, 86401}}
        \cup {[Keyed EXCEPT !.queue = s] : s \in {"", "long"}}
        \cup {[Keyed EXCEPT !.job_type = ""], [Plain EXCEPT !.header = "long"]}

\* A delay that passes validation and leaves the range of dates; run_at overrides it.
OverflowRequests ==
    {[Keyed EXCEPT !.delay_secs = MaxDelay + 1],
     [Keyed EXCEPT !.delay_secs = MaxDelay + 1, !.run_at = 0]}

Requests == KeyRequests \cup LimitRequests \cup InvalidRequests \cup OverflowRequests

\* Clients are interchangeable.
ClientSymmetry == Permutations(Clients)
=============================================================================
