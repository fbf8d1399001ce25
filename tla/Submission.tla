------------------------------ MODULE Submission ------------------------------
(***************************************************************************)
(* Submitting a job: the handler submit_job, QueueService::submit with its *)
(* validation and defaults, and PgStore::submit, whose statements run one  *)
(* by one on the pool.  Clients submit concurrently, statements fail, an   *)
(* INSERT may take effect without its answer, clients send a request again *)
(* after an error, and finished jobs are purged meanwhile.                 *)
(*                                                                         *)
(* Times are relative to the now of the request.  A string is a value and  *)
(* its length.                                                             *)
(***************************************************************************)
EXTENDS Integers, FiniteSets

CONSTANTS
    Clients,    \* concurrent HTTP requests
    RowIds,     \* ids gen_random_uuid() may produce
    NewJobs,    \* requests a client may send
    StrLen,     \* length of each string, zero for blanks
    NULL,       \* an absent field
    MaxDelay,   \* the longest delay, in seconds, that added to now is still a DateTime
    MaxCalls    \* bound: times a client sends its request

Strings == DOMAIN StrLen

\* The fields of NewJob and the Idempotency-Key header, absent or of their type.
Request == [queue : Strings, job_type : Strings,
            idempotency_key : Strings \cup {NULL}, header : Strings,
            max_attempts : Int \cup {NULL}, delay_secs : Int \cup {NULL},
            run_at : Int \cup {NULL}, timeout_secs : Int \cup {NULL},
            backoff_base_secs : Int \cup {NULL}, backoff_max_secs : Int \cup {NULL}]

ASSUME RequestsAssumption ==
    /\ StrLen \in [Strings -> Nat]
    /\ NewJobs \subseteq Request
    /\ MaxCalls \in Nat /\ MaxDelay \in Nat

ASSUME IdsAssumption ==
    /\ IsFiniteSet(RowIds)
    /\ NULL \notin RowIds /\ NULL \notin Strings /\ NULL \notin Int
    /\ NULL \notin {"created", "existing", "rejected", "error"}

VARIABLES
    rows,        \* table jobs: key, columns and life of each row
    call,        \* the request each client is sending, where it is, how it was answered
    calls,       \* how often each client has sent it
    submitted    \* counter djq_jobs_submitted_total

vars == <<rows, call, calls, submitted>>

Backoff == INSTANCE Backoff WITH ExpCap <- 32

unwrap_or(x, default) == IF x = NULL THEN default ELSE x

-----------------------------------------------------------------------------
(* Validation and defaults.                                                *)

Day == 86400   \* the longest timeout, in seconds

\* submit_job: the header counts only if the body has no key, and not if empty.
EffectiveKey(new) ==
    IF new.idempotency_key # NULL \/ new.header = "" THEN new.idempotency_key ELSE new.header

\* Mutant: the range of max_attempts starts at zero.
Valid_ZeroAttempts(new) ==
    /\ StrLen[new.queue] > 0 /\ StrLen[new.job_type] > 0
    /\ unwrap_or(new.max_attempts, 5) \in 0 .. 100
    /\ unwrap_or(new.timeout_secs, 300) \in 1 .. Day

\* NewJob::normalized, the checks.
Valid(new) ==
    /\ StrLen[new.queue] > 0 /\ StrLen[new.job_type] > 0
    /\ StrLen[new.queue] <= 128
    /\ EffectiveKey(new) # NULL => StrLen[EffectiveKey(new)] <= 255
    /\ unwrap_or(new.max_attempts, 5) \in 1 .. 100
    /\ unwrap_or(new.timeout_secs, 300) \in 1 .. Day

\* now + Duration::seconds(delay_secs) has no checked form: past the range of a date
\* it panics, after every check of the request has passed.
Overflows(new) == new.run_at = NULL /\ unwrap_or(new.delay_secs, 0) > MaxDelay

\* The due time, where it does not overflow.
RunAt(new) ==
    CASE new.run_at # NULL                            -> new.run_at
      [] new.run_at = NULL /\ unwrap_or(new.delay_secs, 0) > 0 -> new.delay_secs
      [] OTHER                                        -> 0

\* NewJob::normalized, the values persisted.
Normalized(new) ==
    LET backoff == Backoff!normalized_backoff(unwrap_or(new.backoff_base_secs, 2),
                                              unwrap_or(new.backoff_max_secs, 300))
    IN  [queue |-> new.queue,
         key |-> EffectiveKey(new),
         status |-> IF RunAt(new) > 0 THEN "scheduled" ELSE "queued",
         run_at |-> RunAt(new),
         max_attempts |-> unwrap_or(new.max_attempts, 5),
         timeout_secs |-> unwrap_or(new.timeout_secs, 300),
         backoff_base_secs |-> backoff.base,
         backoff_max_secs |-> backoff.max]

\* The CHECK constraints of table jobs (migrations/0001_init.sql); NeverRefused shows
\* that the INSERT always meets them.
SchemaAccepts(job) ==
    /\ job.max_attempts >= 1
    /\ job.timeout_secs >= 1
    /\ job.backoff_base_secs >= 1
    /\ job.backoff_max_secs >= 1

-----------------------------------------------------------------------------
Free == [life |-> "free", job |-> NULL]
NoCall == [at |-> "idle", new |-> NULL, answer |-> NULL, id |-> NULL]

Init ==
    /\ rows = [i \in RowIds |-> Free]
    /\ call = [c \in Clients |-> NoCall]
    /\ calls = [c \in Clients |-> 0]
    /\ submitted = 0

Present(i) == rows[i].life \in {"live", "finished"}

Key(c) == EffectiveKey(call[c].new)

\* Mutant: the index and the look-ups forget the queue.
SameKey_AnyQueue(c) ==
    {i \in RowIds : Present(i) /\ Key(c) # NULL /\ rows[i].job.key = Key(c)}

\* Rows the unique index jobs_idem_uniq has under the request's queue and key.
SameKey(c) ==
    {i \in RowIds : /\ Present(i)
                    /\ Key(c) # NULL
                    /\ rows[i].job.key = Key(c)
                    /\ rows[i].job.queue = call[c].new.queue}

Goes(c, at) == call' = [call EXCEPT ![c].at = at]

Answers(c, answer, id) ==
    call' = [call EXCEPT ![c].at = "answered", ![c].answer = answer, ![c].id = id]

-----------------------------------------------------------------------------
(* The statements of a submission.                                         *)

\* A client sends a request, or sends it again after an error.
Send(c, new) ==
    /\ calls[c] < MaxCalls
    /\ \/ call[c].at = "idle"
       \/ call[c].at = "answered" /\ call[c].answer = "error" /\ call[c].new = new
    /\ calls' = [calls EXCEPT ![c] = @ + 1]
    /\ call' = [call EXCEPT ![c] = [NoCall EXCEPT !.at = "validate", !.new = new]]
    /\ UNCHANGED <<rows, submitted>>

\* The checks, then the defaults; a handler that panics drops the connection.
Validate(c) ==
    /\ call[c].at = "validate"
    /\ LET new == call[c].new
       IN  \/ ~Valid(new) /\ Answers(c, "rejected", NULL)
           \/ Valid(new) /\ Overflows(new) /\ Answers(c, "error", NULL)
           \/ Valid(new) /\ ~Overflows(new) /\ Goes(c, "ensure_queue")
    /\ UNCHANGED <<rows, calls, submitted>>

EnsureQueue(c) ==
    /\ call[c].at = "ensure_queue"
    /\ Goes(c, IF Key(c) = NULL THEN "insert" ELSE "lookup")
    /\ UNCHANGED <<rows, calls, submitted>>

\* The fast path: SELECT ... WHERE queue = $1 AND idempotency_key = $2
Lookup(c) ==
    /\ call[c].at = "lookup"
    /\ IF SameKey(c) = {} THEN Goes(c, "insert")
       ELSE \E i \in SameKey(c) : Answers(c, "existing", i)
    /\ UNCHANGED <<rows, calls, submitted>>

\* What the INSERT writes.
NewRow(c) == [life |-> "live", job |-> Normalized(call[c].new)]

\* Mutant: no unique index.
Insert_NoIndex(c, i) ==
    /\ call[c].at = "insert"
    /\ rows[i] = Free
    /\ rows' = [rows EXCEPT ![i] = NewRow(c)]
    /\ Answers(c, "created", i)
    /\ submitted' = submitted + 1
    /\ UNCHANGED calls

\* INSERT ... RETURNING, its answer received.
Insert(c, i) ==
    /\ call[c].at = "insert"
    /\ SameKey(c) = {}
    /\ rows[i] = Free
    /\ rows' = [rows EXCEPT ![i] = NewRow(c)]
    /\ Answers(c, "created", i)
    /\ submitted' = submitted + 1
    /\ UNCHANGED calls

\* The same INSERT, its answer lost: the caller sees a storage error.
InsertUnknown(c, i) ==
    /\ call[c].at = "insert"
    /\ SameKey(c) = {}
    /\ rows[i] = Free
    /\ rows' = [rows EXCEPT ![i] = NewRow(c)]
    /\ Answers(c, "error", NULL)
    /\ UNCHANGED <<calls, submitted>>

\* Error 23505: another writer was first.
InsertConflict(c) ==
    /\ call[c].at = "insert"
    /\ SameKey(c) # {}
    /\ Goes(c, "fetch")
    /\ UNCHANGED <<rows, calls, submitted>>

\* Mutants: the loser reports the job as its own creation, or as a conflict.
FetchExisting_Created(c) ==
    /\ call[c].at = "fetch"
    /\ \E i \in SameKey(c) : Answers(c, "created", i)
    /\ UNCHANGED <<rows, calls, submitted>>

FetchExisting_Conflict(c) ==
    /\ call[c].at = "fetch"
    /\ Answers(c, "conflict", NULL)
    /\ UNCHANGED <<rows, calls, submitted>>

\* Fetch the row the other writer inserted; fetch_one fails if it is gone again.
FetchExisting(c) ==
    /\ call[c].at = "fetch"
    /\ IF SameKey(c) = {} THEN Answers(c, "error", NULL)
       ELSE \E i \in SameKey(c) : Answers(c, "existing", i)
    /\ UNCHANGED <<rows, calls, submitted>>

\* Any statement may fail before it takes effect.
StatementFails(c) ==
    /\ call[c].at \in {"ensure_queue", "lookup", "insert", "fetch"}
    /\ Answers(c, "error", NULL)
    /\ UNCHANGED <<rows, calls, submitted>>

-----------------------------------------------------------------------------
(* The rest of the system: jobs are finished, and purged.                  *)

FinishJob(i) ==
    /\ rows[i].life = "live"
    /\ rows' = [rows EXCEPT ![i].life = "finished"]
    /\ UNCHANGED <<call, calls, submitted>>

Purge(i) ==
    /\ rows[i].life = "finished"
    /\ rows' = [rows EXCEPT ![i].life = "purged"]
    /\ UNCHANGED <<call, calls, submitted>>

SubmitStep(c) ==
    \/ Validate(c) \/ EnsureQueue(c) \/ Lookup(c)
    \/ InsertConflict(c) \/ FetchExisting(c)
    \/ \E i \in RowIds : Insert(c, i)

Next ==
    \/ \E c \in Clients :
         \/ \E new \in NewJobs : Send(c, new)
         \/ SubmitStep(c)
         \/ StatementFails(c)
         \/ \E i \in RowIds : InsertUnknown(c, i)
    \/ \E i \in RowIds : FinishJob(i) \/ Purge(i)

Spec == Init /\ [][Next]_vars

-----------------------------------------------------------------------------
(* What submission promises.                                               *)

Jobs == {Normalized(new) : new \in NewJobs}

TypeOK ==
    /\ rows \in [RowIds -> [life : {"free", "live", "finished", "purged"},
                            job : Jobs \cup {NULL}]]
    /\ call \in [Clients -> [at : {"idle", "validate", "ensure_queue", "lookup", "insert",
                                   "fetch", "answered"},
                             new : NewJobs \cup {NULL},
                             answer : {NULL, "created", "existing", "rejected", "error"},
                             id : RowIds \cup {NULL}]]
    /\ calls \in [Clients -> 0 .. MaxCalls]
    /\ submitted \in Nat

Ok(c) == call[c].answer \in {"created", "existing"}

\* Callers that use the same idempotency key are given the same job of a queue, through races,
\* lost answers and repeated requests; a second job exists only after the first was
\* purged.  Without a key, or with different keys, no two callers share a job.
OneJobPerKey == \A c, d \in Clients :
    c # d /\ Ok(c) /\ Ok(d) =>
        IF Key(c) # NULL /\ Key(c) = Key(d) /\ call[c].new.queue = call[d].new.queue
        THEN call[c].id = call[d].id
               \/ \E i \in {call[c].id, call[d].id} : rows[i].life = "purged"
        ELSE call[c].id # call[d].id

\* Each job is reported as created (201) to at most one caller, and the counter
\* djq_jobs_submitted_total never runs ahead of the jobs that exist or existed.
CreatedOnce ==
    /\ \A c, d \in Clients :
         c # d /\ call[c].answer = "created" /\ call[d].answer = "created"
             => call[c].id # call[d].id
    /\ submitted <= Cardinality({i \in RowIds : rows[i].life # "free"})

\* A request that reaches the INSERT meets the table's CHECK constraints: validation
\* leaves none to the database to refuse.  (A delay past the range of dates never gets
\* there: it passes validation and panics, which is an error of its own.)
NeverRefused == \A c \in Clients :
    call[c].at = "insert" => SchemaAccepts(Normalized(call[c].new))

-----------------------------------------------------------------------------
LifeOf(l) == CASE l = "free"                 -> "free"
               [] l \in {"live", "finished"} -> "here"
               [] l = "purged"               -> "gone"

Entry(queue, key) == IF key = NULL THEN {} ELSE {<<queue, key>>}

IS == INSTANCE IdempotentSubmit WITH
        Ids      <- RowIds,
        Requests <- NewJobs,
        Accepted <- {new \in NewJobs : Valid(new)},
        EntryOf  <- [new \in NewJobs |-> Entry(new.queue, EffectiveKey(new))],
        None     <- NULL,
        life     <- [i \in RowIds |-> LifeOf(rows[i].life)],
        entry    <- [i \in RowIds |-> IF rows[i].life = "free" THEN {}
                                      ELSE Entry(rows[i].job.queue, rows[i].job.key)],
        asks     <- [c \in Clients |-> call[c].new],
        says     <- [c \in Clients |-> call[c].answer],
        job      <- [c \in Clients |-> call[c].id]

\* The statements of concurrent submissions, which look up, insert, lose the race and
\* fetch one by one, act as if each request were decided in one step: created under a
\* key nobody holds, answered with the job that is there when the answer is given,
\* rejected, or failed.
ImplementsIdempotentSubmit == IS!Spec
=============================================================================
