--------------------------- MODULE SubmissionProofs ---------------------------
(***************************************************************************)
(* Proofs about Submission, for any number of clients, requests, rows and  *)
(* repetitions.                                                            *)
(*                                                                         *)
(* The inductive invariant SubmitInv says what the unique index keeps true *)
(* of the table, and what every call has learnt from it: a call that was   *)
(* given a job was given one with its own queue and key.  Rows are never   *)
(* given back, so what a call has learnt stays true while jobs finish and  *)
(* are purged.                                                             *)
(***************************************************************************)
EXTENDS Submission, FiniteSetTheorems, TLAPS

Row == [life : {"free", "live", "finished", "purged"}, job : Jobs \cup {NULL}]

Call == [at : {"idle", "validate", "ensure_queue", "lookup", "insert", "fetch", "answered"},
         new : NewJobs \cup {NULL},
         answer : {NULL, "created", "existing", "rejected", "error"},
         id : RowIds \cup {NULL}]

\* A row that is not free holds a job.
RowsHoldJobs == \A i \in RowIds :
    IF rows[i].life = "free" THEN rows[i] = Free ELSE rows[i].job \in Jobs

\* The unique index on queue and key, over the rows that are there.
UniqueIndex == \A i, k \in RowIds :
    /\ Present(i) /\ Present(k)
    /\ rows[i].job.key # NULL
    /\ rows[i].job.key = rows[k].job.key
    /\ rows[i].job.queue = rows[k].job.queue
    => i = k

\* The row x was given, created or found, is one for its queue and key.
OwnRow(x, table) ==
    /\ x.id \in RowIds
    /\ table[x.id].life # "free"
    /\ table[x.id].job.key = EffectiveKey(x.new)
    /\ table[x.id].job.queue = x.new.queue

\* Where a call is tells what is known of its request and its answer.
CallOK(x, table) ==
    /\ IF x.at = "idle" THEN x.new = NULL ELSE x.new \in NewJobs
    /\ x.at = "answered" <=> x.answer # NULL
    /\ x.at \in {"ensure_queue", "lookup", "insert", "fetch"} => Valid(x.new)
    /\ x.at \in {"lookup", "fetch"} => EffectiveKey(x.new) # NULL
    /\ x.answer \in {"created", "existing"} => OwnRow(x, table)
    /\ x.answer = "existing" => EffectiveKey(x.new) # NULL

CreatedByOne == \A c, d \in Clients :
    c # d /\ call[c].answer = "created" /\ call[d].answer = "created"
        => call[c].id # call[d].id

Used == {i \in RowIds : rows[i].life # "free"}

SubmitInv ==
    /\ TypeOK
    /\ RowsHoldJobs
    /\ UniqueIndex
    /\ \A c \in Clients : CallOK(call[c], rows)
    /\ CreatedByOne
    /\ submitted <= Cardinality(Used)

\* Rows that are in use stay in use, with the same job.
Grows == \A i \in RowIds :
    rows[i].life # "free" => rows'[i].life # "free" /\ rows'[i].job = rows[i].job

-----------------------------------------------------------------------------
(* Lemmas about requests.                                                  *)

\* What is persisted carries the request's queue and effective key.
LEMMA NormalizedKey ==
    ASSUME NEW new
    PROVE  Normalized(new).queue = new.queue /\ Normalized(new).key = EffectiveKey(new)
  BY DEF Normalized

\* NewJob::normalized lets nothing through that a CHECK constraint refuses.
LEMMA ValidIsAccepted ==
    ASSUME NEW new \in NewJobs, Valid(new)
    PROVE  SchemaAccepts(Normalized(new))
<1>1. /\ new.backoff_base_secs \in Int \cup {NULL}
      /\ new.backoff_max_secs \in Int \cup {NULL}
      /\ new.max_attempts \in Int \cup {NULL}
      /\ new.timeout_secs \in Int \cup {NULL}
  BY RequestsAssumption DEF Request
<1>2. unwrap_or(new.backoff_base_secs, 2) \in Int /\ unwrap_or(new.backoff_max_secs, 300) \in Int
  BY <1>1 DEF unwrap_or
<1>3. \A b, m \in Int : /\ Backoff!normalized_backoff(b, m).base \in Int
                        /\ Backoff!normalized_backoff(b, m).base >= 1
                        /\ Backoff!normalized_backoff(b, m).max >= 1
  BY DEF Backoff!normalized_backoff, Backoff!AtLeast
<1>4. unwrap_or(new.max_attempts, 5) >= 1 /\ unwrap_or(new.timeout_secs, 300) >= 1
  BY <1>1 DEF Valid, unwrap_or
<1> DEFINE b == Backoff!normalized_backoff(unwrap_or(new.backoff_base_secs, 2),
                                           unwrap_or(new.backoff_max_secs, 300))
<1>5. /\ Normalized(new).max_attempts = unwrap_or(new.max_attempts, 5)
      /\ Normalized(new).timeout_secs = unwrap_or(new.timeout_secs, 300)
      /\ Normalized(new).backoff_base_secs = b.base
      /\ Normalized(new).backoff_max_secs = b.max
  BY DEF Normalized
<1>6. b.base >= 1 /\ b.max >= 1
  BY <1>2, <1>3
<1> QED
  BY <1>4, <1>5, <1>6 DEF SchemaAccepts

-----------------------------------------------------------------------------
(* Lemmas about rows and calls.                                            *)

\* The rows in use can be counted.
LEMMA UsedFinite ==
    /\ IsFiniteSet(Used) /\ Cardinality(Used) \in Nat
    /\ IsFiniteSet(Used') /\ Cardinality(Used') \in Nat
<1>1. Used \in SUBSET RowIds /\ Used' \in SUBSET RowIds
  BY DEF Used
<1>2. IsFiniteSet(Used) /\ IsFiniteSet(Used')
  BY <1>1, IdsAssumption, FS_Subset
<1> QED
  BY <1>2, FS_CardinalityType

\* What a call knows stays true while the table grows.
LEMMA CallOKKept ==
    ASSUME Grows, NEW x, CallOK(x, rows)
    PROVE  CallOK(x, rows')
  BY DEF Grows, CallOK, OwnRow

\* A step of one client, with what it leaves in the table.
LEMMA ClientStep ==
    ASSUME SubmitInv, Grows, rows' \in [RowIds -> Row], RowsHoldJobs', UniqueIndex',
           NEW c \in Clients, NEW y \in Call, CallOK(y, rows'),
           call' = [call EXCEPT ![c] = y],
           y.answer = "created" =>
               \A d \in Clients : call[d].answer = "created" => call[d].id # y.id,
           calls' \in [Clients -> 0 .. MaxCalls],
           submitted' \in Nat, submitted' <= Cardinality(Used')
    PROVE  SubmitInv'
<1>1. call \in [Clients -> Call]
  BY DEF SubmitInv, TypeOK, Call
<1>2. \A d \in Clients : call'[d] = IF d = c THEN y ELSE call[d]
  BY <1>1
<1>3. TypeOK'
  BY <1>1 DEF TypeOK, Call, Row
<1>4. \A d \in Clients : CallOK(call'[d], rows')
  BY <1>2, CallOKKept DEF SubmitInv
<1>5. CreatedByOne'
  BY <1>2 DEF SubmitInv, CreatedByOne
<1> QED
  BY <1>3, <1>4, <1>5 DEF SubmitInv

\* The same for a step that only reads the table.
LEMMA ReadStep ==
    ASSUME SubmitInv, UNCHANGED <<rows, submitted>>,
           NEW c \in Clients, NEW y \in Call, CallOK(y, rows), y.answer # "created",
           call' = [call EXCEPT ![c] = y],
           calls' \in [Clients -> 0 .. MaxCalls]
    PROVE  SubmitInv'
<1>1. /\ Grows /\ rows' \in [RowIds -> Row] /\ RowsHoldJobs' /\ UniqueIndex'
      /\ CallOK(y, rows') /\ submitted' \in Nat /\ submitted' <= Cardinality(Used')
  BY DEF SubmitInv, TypeOK, Row, Grows, RowsHoldJobs, UniqueIndex, Present, Used
<1> QED
  BY <1>1, ClientStep

\* The same for a statement that inserts the row of its call.
LEMMA InsertStep ==
    ASSUME SubmitInv, NEW c \in Clients, NEW i \in RowIds,
           call[c].at = "insert", SameKey(c) = {}, rows[i] = Free,
           rows' = [rows EXCEPT ![i] = NewRow(c)],
           NEW y \in Call, CallOK(y, rows'),
           call' = [call EXCEPT ![c] = y],
           y.answer = "created" => y.id = i,
           submitted' \in {submitted, submitted + 1}, UNCHANGED calls
    PROVE  SubmitInv'
<1>0. /\ rows \in [RowIds -> Row] /\ submitted \in Nat
      /\ calls \in [Clients -> 0 .. MaxCalls]
      /\ \A d \in Clients : CallOK(call[d], rows)
      /\ RowsHoldJobs /\ UniqueIndex
  BY DEF SubmitInv, TypeOK, Row
<1> DEFINE new == call[c].new
           job == Normalized(new)
<1>1. /\ new \in NewJobs /\ job \in Jobs
      /\ job.queue = new.queue /\ job.key = EffectiveKey(new)
  BY <1>0, NormalizedKey DEF CallOK, Jobs
<1>2. /\ NewRow(c) \in Row /\ NewRow(c).life = "live" /\ NewRow(c).job = job
  BY <1>1 DEF NewRow, Row
<1>3. \A k \in RowIds : rows'[k] = IF k = i THEN NewRow(c) ELSE rows[k]
  BY <1>0
<1>4. rows' \in [RowIds -> Row]
  BY <1>0, <1>2
<1>5. rows[i].life = "free"
  BY DEF Free
<1>6. Grows
  BY <1>3, <1>5 DEF Grows
<1>7. RowsHoldJobs'
  BY <1>0, <1>1, <1>2, <1>3 DEF RowsHoldJobs
<1>8. UniqueIndex'
  <2>1. \A k \in RowIds : Present(k)' <=> k = i \/ Present(k)
    BY <1>2, <1>3, <1>5 DEF Present
  <2>2. \A k \in RowIds : /\ Present(k) /\ job.key # NULL
                          => ~(rows[k].job.key = job.key /\ rows[k].job.queue = job.queue)
    BY <1>1 DEF SameKey, Key
  <2>3. ~Present(i)
    BY <1>5 DEF Present
  <2> HIDE DEF job
  <2>4. \A k \in RowIds : rows'[k].job = IF k = i THEN job ELSE rows[k].job
    BY <1>2, <1>3
  <2> QED
    BY <1>0, <2>1, <2>2, <2>3, <2>4 DEF UniqueIndex
<1>9. submitted' \in Nat /\ submitted' <= Cardinality(Used')
  <2>1. Used' = Used \cup {i} /\ i \notin Used
    BY <1>2, <1>3, <1>5 DEF Used
  <2>2. Cardinality(Used') = Cardinality(Used) + 1
    BY <2>1, UsedFinite, FS_AddElement
  <2> QED
    BY <1>0, <2>2, UsedFinite DEF SubmitInv
<1>10. y.answer = "created" =>
         \A d \in Clients : call[d].answer = "created" => call[d].id # y.id
  BY <1>0, <1>5 DEF CallOK, OwnRow
<1> QED
  BY <1>0, <1>4, <1>6, <1>7, <1>8, <1>9, <1>10, ClientStep

-----------------------------------------------------------------------------
(* SubmitInv is inductive: one lemma for each action.                      *)

LEMMA InitInv == Init => SubmitInv
<1> SUFFICES ASSUME Init PROVE SubmitInv
  OBVIOUS
<1>1. Free.life = "free" /\ Free \in Row
  BY DEF Free, Row
<1>2. NoCall \in Call /\ NoCall.at = "idle" /\ NoCall.new = NULL /\ NoCall.answer = NULL
  BY DEF NoCall, Call
<1>3. \A i \in RowIds : rows[i] = Free
  BY DEF Init
<1>4. \A c \in Clients : call[c] = NoCall
  BY DEF Init
<1>5. TypeOK
  BY <1>1, <1>2, RequestsAssumption DEF Init, TypeOK, Row, Call
<1>6. RowsHoldJobs
  BY <1>1, <1>3 DEF RowsHoldJobs
<1>7. UniqueIndex
  BY <1>1, <1>3 DEF UniqueIndex, Present
<1>8. \A c \in Clients : CallOK(call[c], rows)
  BY <1>2, <1>4, IdsAssumption DEF CallOK
<1>9. CreatedByOne
  BY <1>2, <1>4, IdsAssumption DEF CreatedByOne
<1>10. submitted <= Cardinality(Used)
  BY UsedFinite DEF Init
<1> QED
  BY <1>5, <1>6, <1>7, <1>8, <1>9, <1>10 DEF SubmitInv

\* What the invariant says of the call of one client.
LEMMA CallKnown ==
    ASSUME SubmitInv, NEW c \in Clients
    PROVE  call[c] \in Call /\ CallOK(call[c], rows) /\ calls[c] \in 0 .. MaxCalls
  BY DEF SubmitInv, TypeOK, Call

LEMMA SendInv ==
    ASSUME SubmitInv, NEW c \in Clients, NEW new \in NewJobs, Send(c, new)
    PROVE  SubmitInv'
<1> DEFINE y == [NoCall EXCEPT !.at = "validate", !.new = new]
<1>1. y \in Call /\ y.at = "validate" /\ y.new = new /\ y.answer = NULL
  BY DEF NoCall, Call
<1>2. CallOK(y, rows) /\ y.answer # "created"
  BY <1>1, IdsAssumption DEF CallOK
<1>3. calls' \in [Clients -> 0 .. MaxCalls]
  BY RequestsAssumption DEF SubmitInv, TypeOK, Send
<1>4. call' = [call EXCEPT ![c] = y] /\ UNCHANGED <<rows, submitted>>
  BY DEF Send
<1> HIDE DEF y
<1> QED
  BY <1>1, <1>2, <1>3, <1>4, ReadStep

\* A call that goes on to its next statement.
LEMMA GoesInv ==
    ASSUME SubmitInv, NEW c \in Clients, UNCHANGED <<rows, calls, submitted>>,
           NEW at \in {"ensure_queue", "lookup", "insert", "fetch"}, Goes(c, at),
           call[c].at \notin {"idle", "answered"},
           Valid(call[c].new),
           at \in {"lookup", "fetch"} => Key(c) # NULL
    PROVE  SubmitInv'
<1> DEFINE y == [call[c] EXCEPT !.at = at]
<1>1. call[c] \in Call /\ CallOK(call[c], rows)
  BY CallKnown
<1>2. /\ y \in Call /\ y.at = at /\ y.new = call[c].new /\ y.answer = call[c].answer
  BY <1>1 DEF Call
<1>3. call[c].answer = NULL /\ call[c].new \in NewJobs
  BY <1>1 DEF CallOK
<1>4. CallOK(y, rows) /\ y.answer # "created"
  BY <1>2, <1>3, IdsAssumption DEF CallOK, Key
<1>5. call' = [call EXCEPT ![c] = y]
  BY DEF Goes
<1>6. calls' \in [Clients -> 0 .. MaxCalls] /\ UNCHANGED <<rows, submitted>>
  BY DEF SubmitInv, TypeOK
<1> HIDE DEF y
<1> QED
  BY <1>2, <1>4, <1>5, <1>6, ReadStep

\* A call that is answered without a job.
LEMMA RefusedInv ==
    ASSUME SubmitInv, NEW c \in Clients, UNCHANGED <<rows, calls, submitted>>,
           NEW answer \in {"rejected", "error"}, Answers(c, answer, NULL),
           call[c].at # "idle"
    PROVE  SubmitInv'
<1> DEFINE y == [call[c] EXCEPT !.at = "answered", !.answer = answer, !.id = NULL]
<1>1. call[c] \in Call /\ CallOK(call[c], rows)
  BY CallKnown
<1>2. y \in Call /\ y.at = "answered" /\ y.new = call[c].new /\ y.answer = answer
  BY <1>1 DEF Call
<1>3. CallOK(y, rows) /\ y.answer # "created"
  BY <1>1, <1>2, IdsAssumption DEF CallOK
<1>4. call' = [call EXCEPT ![c] = y]
  BY DEF Answers
<1>5. calls' \in [Clients -> 0 .. MaxCalls] /\ UNCHANGED <<rows, submitted>>
  BY DEF SubmitInv, TypeOK
<1> HIDE DEF y
<1> QED
  BY <1>2, <1>3, <1>4, <1>5, ReadStep

\* A call that is answered with a job that was there.
LEMMA ExistingInv ==
    ASSUME SubmitInv, NEW c \in Clients, UNCHANGED <<rows, calls, submitted>>,
           NEW i \in SameKey(c), Answers(c, "existing", i), call[c].at # "idle"
    PROVE  SubmitInv'
<1> DEFINE y == [call[c] EXCEPT !.at = "answered", !.answer = "existing", !.id = i]
<1>1. call[c] \in Call /\ CallOK(call[c], rows)
  BY CallKnown
<1>2. /\ i \in RowIds /\ rows[i].life # "free"
      /\ EffectiveKey(call[c].new) # NULL
      /\ rows[i].job.key = EffectiveKey(call[c].new)
      /\ rows[i].job.queue = call[c].new.queue
  BY DEF SameKey, Present, Key
<1>3. /\ y \in Call /\ y.at = "answered" /\ y.new = call[c].new
      /\ y.answer = "existing" /\ y.id = i
  BY <1>1, <1>2 DEF Call
<1>4. CallOK(y, rows) /\ y.answer # "created"
  BY <1>1, <1>2, <1>3, IdsAssumption DEF CallOK, OwnRow
<1>5. call' = [call EXCEPT ![c] = y]
  BY DEF Answers
<1>6. calls' \in [Clients -> 0 .. MaxCalls] /\ UNCHANGED <<rows, submitted>>
  BY DEF SubmitInv, TypeOK
<1> HIDE DEF y
<1> QED
  BY <1>3, <1>4, <1>5, <1>6, ReadStep

\* The INSERT, with its answer or without.
LEMMA InsertInv ==
    ASSUME SubmitInv, NEW c \in Clients, NEW i \in RowIds,
           Insert(c, i) \/ InsertUnknown(c, i)
    PROVE  SubmitInv'
<1>0. /\ call[c] \in Call /\ CallOK(call[c], rows)
      /\ rows \in [RowIds -> Row] /\ call[c].at = "insert"
      /\ SameKey(c) = {} /\ rows[i] = Free
      /\ rows' = [rows EXCEPT ![i] = NewRow(c)] /\ UNCHANGED calls
  BY CallKnown DEF SubmitInv, TypeOK, Row, Insert, InsertUnknown
<1>1. call[c].new \in NewJobs
  BY <1>0 DEF CallOK
<1>2. /\ rows'[i].life # "free"
      /\ rows'[i].job.key = EffectiveKey(call[c].new)
      /\ rows'[i].job.queue = call[c].new.queue
  BY <1>0, NormalizedKey DEF NewRow
<1>3. CASE Insert(c, i)
  <2> DEFINE y == [call[c] EXCEPT !.at = "answered", !.answer = "created", !.id = i]
  <2>1. /\ y \in Call /\ y.at = "answered" /\ y.new = call[c].new
        /\ y.answer = "created" /\ y.id = i
    BY <1>0 DEF Call
  <2>2. CallOK(y, rows')
    BY <1>1, <1>2, <2>1, IdsAssumption DEF CallOK, OwnRow
  <2>3. call' = [call EXCEPT ![c] = y] /\ submitted' \in {submitted, submitted + 1}
    BY <1>3 DEF Insert, Answers
  <2> HIDE DEF y
  <2> QED
    BY <1>0, <2>1, <2>2, <2>3, InsertStep
<1>4. CASE InsertUnknown(c, i)
  <2> DEFINE y == [call[c] EXCEPT !.at = "answered", !.answer = "error", !.id = NULL]
  <2>1. y \in Call /\ y.at = "answered" /\ y.new = call[c].new /\ y.answer = "error"
    BY <1>0 DEF Call
  <2>2. CallOK(y, rows')
    BY <1>1, <2>1, IdsAssumption DEF CallOK
  <2>3. call' = [call EXCEPT ![c] = y] /\ submitted' \in {submitted, submitted + 1}
    BY <1>4 DEF InsertUnknown, Answers
  <2> HIDE DEF y
  <2> QED
    BY <1>0, <2>1, <2>2, <2>3, InsertStep
<1> QED
  BY <1>3, <1>4

\* The steps of one client.
LEMMA SubmitStepInv ==
    ASSUME SubmitInv, NEW c \in Clients, SubmitStep(c) \/ StatementFails(c)
    PROVE  SubmitInv'
<1>0. CallOK(call[c], rows)
  BY CallKnown
<1>1. CASE Validate(c)
  <2>1. UNCHANGED <<rows, calls, submitted>> /\ call[c].at = "validate"
    BY <1>1 DEF Validate
  <2>2. CASE Valid(call[c].new) /\ Goes(c, "ensure_queue")
    BY <2>1, <2>2, GoesInv
  <2>3. CASE Answers(c, "rejected", NULL) \/ Answers(c, "error", NULL)
    BY <2>1, <2>3, RefusedInv
  <2> QED
    BY <1>1, <2>2, <2>3 DEF Validate
<1>2. CASE EnsureQueue(c)
  <2>1. /\ UNCHANGED <<rows, calls, submitted>>
        /\ call[c].at = "ensure_queue" /\ Valid(call[c].new)
    BY <1>0, <1>2 DEF EnsureQueue, CallOK
  <2>2. CASE Key(c) = NULL
    BY <1>2, <2>1, <2>2, GoesInv DEF EnsureQueue
  <2>3. CASE Key(c) # NULL
    BY <1>2, <2>1, <2>3, GoesInv DEF EnsureQueue
  <2> QED
    BY <2>2, <2>3
<1>3. CASE Lookup(c)
  <2>1. /\ UNCHANGED <<rows, calls, submitted>>
        /\ call[c].at = "lookup" /\ Valid(call[c].new)
    BY <1>0, <1>3 DEF Lookup, CallOK
  <2>2. CASE SameKey(c) = {}
    BY <1>3, <2>1, <2>2, GoesInv DEF Lookup
  <2>3. CASE SameKey(c) # {}
    BY <1>3, <2>1, <2>3, ExistingInv DEF Lookup
  <2> QED
    BY <2>2, <2>3
<1>4. CASE InsertConflict(c)
  <2>1. /\ UNCHANGED <<rows, calls, submitted>>
        /\ call[c].at = "insert" /\ Valid(call[c].new) /\ Goes(c, "fetch")
    BY <1>0, <1>4 DEF InsertConflict, CallOK
  <2>2. Key(c) # NULL
    BY <1>4 DEF InsertConflict, SameKey
  <2> QED
    BY <2>1, <2>2, GoesInv
<1>5. CASE FetchExisting(c)
  <2>1. UNCHANGED <<rows, calls, submitted>> /\ call[c].at = "fetch"
    BY <1>5 DEF FetchExisting
  <2>2. CASE SameKey(c) = {}
    BY <1>5, <2>1, <2>2, RefusedInv DEF FetchExisting
  <2>3. CASE SameKey(c) # {}
    BY <1>5, <2>1, <2>3, ExistingInv DEF FetchExisting
  <2> QED
    BY <2>2, <2>3
<1>6. CASE \E i \in RowIds : Insert(c, i)
  BY <1>6, InsertInv
<1>7. CASE StatementFails(c)
  BY <1>7, RefusedInv DEF StatementFails
<1> QED
  BY <1>1, <1>2, <1>3, <1>4, <1>5, <1>6, <1>7 DEF SubmitStep

\* A job that is finished, or purged: its row is not given back.
LEMMA RowStepInv ==
    ASSUME SubmitInv, NEW i \in RowIds, FinishJob(i) \/ Purge(i)
    PROVE  SubmitInv'
<1>1. rows \in [RowIds -> Row] /\ UNCHANGED <<call, calls, submitted>>
  BY DEF SubmitInv, TypeOK, Row, FinishJob, Purge
<1>2. PICK life \in {"finished", "purged"} : rows' = [rows EXCEPT ![i].life = life]
  BY DEF FinishJob, Purge
<1>3. Present(i)
  BY DEF FinishJob, Purge, Present
<1>4. rows' \in [RowIds -> Row]
  BY <1>1, <1>2 DEF Row
<1>5. \A k \in RowIds : /\ rows'[k].job = rows[k].job
                        /\ rows'[k].life = IF k = i THEN life ELSE rows[k].life
                        /\ k # i => rows'[k] = rows[k]
  BY <1>1, <1>2 DEF Row
<1>6. Grows
  BY <1>5 DEF Grows
<1>7. RowsHoldJobs'
  BY <1>3, <1>5 DEF SubmitInv, RowsHoldJobs, Present
<1>8. UniqueIndex'
  <2>1. \A k \in RowIds : Present(k)' => Present(k)
    BY <1>3, <1>5 DEF Present
  <2> QED
    BY <1>5, <2>1 DEF SubmitInv, UniqueIndex
<1>9. \A c \in Clients : CallOK(call'[c], rows')
  BY <1>1, <1>6, CallOKKept DEF SubmitInv
<1>10. CreatedByOne'
  BY <1>1 DEF SubmitInv, CreatedByOne
<1>11. Used' = Used
  BY <1>3, <1>5 DEF Used, Present
<1>12. TypeOK'
  BY <1>1, <1>4 DEF SubmitInv, TypeOK, Row
<1> QED
  BY <1>1, <1>7, <1>8, <1>9, <1>10, <1>11, <1>12 DEF SubmitInv

LEMMA StutterInv == SubmitInv /\ UNCHANGED vars => SubmitInv'
  BY DEF SubmitInv, vars, TypeOK, RowsHoldJobs, UniqueIndex, Present, CallOK, OwnRow,
         CreatedByOne, Used

\* What the table and every call keep true, through races, lost answers, repeated
\* requests and purges.
THEOREM SubmitInvariant == Spec => []SubmitInv
<1>1. SubmitInv /\ [Next]_vars => SubmitInv'
  BY SendInv, SubmitStepInv, InsertInv, RowStepInv, StutterInv DEF Next
<1> QED
  BY <1>1, InitInv, PTL DEF Spec

-----------------------------------------------------------------------------
(* What follows.                                                           *)

\* Every row and every call has its type.
THEOREM SubmissionTypeCorrect == Spec => []TypeOK
<1>1. SubmitInv => TypeOK
  BY DEF SubmitInv
<1> QED
  BY <1>1, SubmitInvariant, PTL

\* PgStore::submit gives callers of the same queue and key the same job, whatever
\* interleaving of look-ups and INSERTs they take, and never gives one job to callers
\* whose keys differ or are absent.
THEOREM SameKeySameJob == Spec => []OneJobPerKey
<1>1. SubmitInv => OneJobPerKey
  <2> SUFFICES ASSUME SubmitInv, NEW c \in Clients, NEW d \in Clients,
                      c # d, Ok(c), Ok(d)
               PROVE  IF Key(c) # NULL /\ Key(c) = Key(d)
                           /\ call[c].new.queue = call[d].new.queue
                      THEN call[c].id = call[d].id
                             \/ \E i \in {call[c].id, call[d].id} : rows[i].life = "purged"
                      ELSE call[c].id # call[d].id
    BY DEF OneJobPerKey
  <2>1. OwnRow(call[c], rows) /\ OwnRow(call[d], rows)
    BY DEF SubmitInv, CallOK, Ok
  <2>2. \A i \in RowIds : rows[i].life # "free" => Present(i) \/ rows[i].life = "purged"
    BY DEF SubmitInv, TypeOK, Present
  <2>3. ASSUME Key(c) # NULL, Key(c) = Key(d), call[c].new.queue = call[d].new.queue,
               rows[call[c].id].life # "purged", rows[call[d].id].life # "purged"
        PROVE  call[c].id = call[d].id
    <3>1. Present(call[c].id) /\ Present(call[d].id)
      BY <2>1, <2>2, <2>3 DEF OwnRow
    <3> QED
      BY <2>1, <2>3, <3>1 DEF SubmitInv, UniqueIndex, OwnRow, Key
  <2>4. ASSUME call[c].id = call[d].id
        PROVE  Key(c) # NULL /\ Key(c) = Key(d) /\ call[c].new.queue = call[d].new.queue
    <3>1. Key(c) = Key(d) /\ call[c].new.queue = call[d].new.queue
      BY <2>1, <2>4 DEF OwnRow, Key
    <3>2. ~(call[c].answer = "created" /\ call[d].answer = "created")
      BY <2>4 DEF SubmitInv, CreatedByOne
    <3>3. Key(c) # NULL \/ Key(d) # NULL
      BY <3>2 DEF SubmitInv, CallOK, Ok, Key
    <3> QED
      BY <3>1, <3>3
  <2> QED
    BY <2>3, <2>4
<1> QED
  BY <1>1, SubmitInvariant, PTL

\* A job is announced as created to one caller only, and djq_jobs_submitted_total never
\* counts a job that was not inserted.
THEOREM OneCreator == Spec => []CreatedOnce
<1>1. SubmitInv => CreatedOnce
  BY DEF SubmitInv, CreatedByOne, CreatedOnce, Used
<1> QED
  BY <1>1, SubmitInvariant, PTL

\* The INSERT never meets a CHECK constraint that refuses it.
THEOREM SchemaNeverRefuses == Spec => []NeverRefused
<1>1. SubmitInv => NeverRefused
  BY CallKnown, ValidIsAccepted DEF CallOK, NeverRefused
<1> QED
  BY <1>1, SubmitInvariant, PTL

-----------------------------------------------------------------------------
(* Submission implements IdempotentSubmit.                                 *)

\* The refinement mapping, by name.
EntryOf == [new \in NewJobs |-> Entry(new.queue, EffectiveKey(new))]
lifeBar == [i \in RowIds |-> LifeOf(rows[i].life)]
entryBar == [i \in RowIds |-> IF rows[i].life = "free" THEN {}
                              ELSE Entry(rows[i].job.queue, rows[i].job.key)]
asksBar == [c \in Clients |-> call[c].new]
saysBar == [c \in Clients |-> call[c].answer]
jobBar == [c \in Clients |-> call[c].id]

\* A request that is being processed.
Busy(c) == call[c].at \in {"validate", "ensure_queue", "lookup", "insert", "fetch"}

\* The life of each kind of row.
LEMMA Lives ==
    /\ LifeOf("free") = "free" /\ LifeOf("purged") = "gone"
    /\ LifeOf("live") = "here" /\ LifeOf("finished") = "here"
  BY DEF LifeOf

\* Two entries are the same when queue and key are.
LEMMA EntriesMatch ==
    ASSUME NEW p, NEW k, NEW q, NEW l
    PROVE  Entry(p, k) # {} /\ Entry(p, k) = Entry(q, l)
              <=> l # NULL /\ k = l /\ p = q
<1>1. {<<p, k>>} = {<<q, l>>} <=> p = q /\ k = l
  <2>1. {<<p, k>>} = {<<q, l>>} <=> <<p, k>> = <<q, l>>
    OBVIOUS
  <2>2. <<p, k>> = <<q, l>> <=> p = q /\ k = l
    OBVIOUS
  <2> QED
    BY <2>1, <2>2
<1> QED
  BY <1>1 DEF Entry

\* The job listed under the entry of a request is the row the index has.
LEMMA ListedIsSameKey ==
    ASSUME SubmitInv, NEW c \in Clients, call[c].new \in NewJobs
    PROVE  IS!Listed(c) = SameKey(c)
<1>1. ASSUME NEW i \in RowIds
      PROVE  (lifeBar[i] = "here" /\ entryBar[i] # {} /\ entryBar[i] = EntryOf[asksBar[c]])
                <=> i \in SameKey(c)
  <2>1. rows[i].life \in {"free", "live", "finished", "purged"}
    BY DEF SubmitInv, TypeOK
  <2>2. lifeBar[i] = "here" <=> Present(i)
    BY <2>1, Lives DEF Present, lifeBar
  <2>3. Present(i) => entryBar[i] = Entry(rows[i].job.queue, rows[i].job.key)
    BY DEF Present, entryBar
  <2>4. EntryOf[asksBar[c]] = Entry(call[c].new.queue, Key(c))
    BY DEF EntryOf, asksBar, Key
  <2>5. CASE Present(i)
    BY <2>2, <2>3, <2>4, <2>5, EntriesMatch DEF SameKey
  <2>6. CASE ~Present(i)
    BY <2>2, <2>6 DEF SameKey
  <2> QED
    BY <2>5, <2>6
<1> QED
  BY <1>1 DEF IS!Listed, SameKey, lifeBar, entryBar, EntryOf, asksBar

\* The table as it was.
LEMMA RowsKept == rows' = rows => lifeBar' = lifeBar /\ entryBar' = entryBar
  BY DEF lifeBar, entryBar

\* A step of one call, as its client sees it.
LEMMA CallMaps ==
    ASSUME SubmitInv, NEW c \in Clients, NEW y, call' = [call EXCEPT ![c] = y]
    PROVE  /\ asksBar' = [asksBar EXCEPT ![c] = y.new]
           /\ saysBar' = [saysBar EXCEPT ![c] = y.answer]
           /\ jobBar' = [jobBar EXCEPT ![c] = y.id]
<1>1. \A d \in Clients : call'[d] = IF d = c THEN y ELSE call[d]
  BY DEF SubmitInv, TypeOK
<1>2. call'[c] = y /\ \A d \in Clients : d # c => call'[d] = call[d]
  BY <1>1
<1>3. ASSUME NEW d \in Clients
      PROVE  /\ call'[d].new = IF d = c THEN y.new ELSE call[d].new
             /\ call'[d].answer = IF d = c THEN y.answer ELSE call[d].answer
             /\ call'[d].id = IF d = c THEN y.id ELSE call[d].id
  BY <1>2
<1>4. asksBar' = [asksBar EXCEPT ![c] = y.new]
  BY <1>3 DEF asksBar
<1>5. saysBar' = [saysBar EXCEPT ![c] = y.answer]
  BY <1>3 DEF saysBar
<1>6. jobBar' = [jobBar EXCEPT ![c] = y.id]
  BY <1>3 DEF jobBar
<1> QED
  BY <1>4, <1>5, <1>6

\* What the invariant says of a request that is being processed.
LEMMA BusyKnown ==
    ASSUME SubmitInv, NEW c \in Clients, Busy(c)
    PROVE  /\ call[c].new \in NewJobs /\ asksBar[c] = call[c].new
           /\ call[c].answer = NULL /\ saysBar[c] = NULL
           /\ call[c].at # "validate" => Valid(call[c].new)
<1>1. call[c] \in Call /\ CallOK(call[c], rows)
  BY CallKnown
<1> QED
  BY <1>1 DEF Busy, CallOK, asksBar, saysBar

\* Going on to the next statement is not seen.
LEMMA GoesMaps ==
    ASSUME SubmitInv, NEW c \in Clients, NEW at, Goes(c, at), UNCHANGED rows
    PROVE  UNCHANGED IS!vars
<1> DEFINE y == [call[c] EXCEPT !.at = at]
<1>1. call[c] \in Call /\ call' = [call EXCEPT ![c] = y]
  BY CallKnown DEF Goes, SubmitInv, TypeOK
<1>2. y.new = call[c].new /\ y.answer = call[c].answer /\ y.id = call[c].id
  BY <1>1 DEF Call
<1> HIDE DEF y
<1>3. asksBar' = asksBar /\ saysBar' = saysBar /\ jobBar' = jobBar
  BY <1>1, <1>2, CallMaps DEF asksBar, saysBar, jobBar
<1> QED
  BY <1>3, RowsKept DEF IS!vars, asksBar, saysBar, jobBar, lifeBar, entryBar

\* Answering is.
LEMMA AnswersMaps ==
    ASSUME SubmitInv, NEW c \in Clients, Busy(c), NEW answer, NEW i, Answers(c, answer, i)
    PROVE  IS!Told(c, answer, i)
<1> DEFINE y == [call[c] EXCEPT !.at = "answered", !.answer = answer, !.id = i]
<1>1. call[c] \in Call /\ call' = [call EXCEPT ![c] = y]
  BY CallKnown DEF Answers, SubmitInv, TypeOK
<1>2. y.new = call[c].new /\ y.answer = answer /\ y.id = i
  BY <1>1 DEF Call
<1> HIDE DEF y
<1>3. /\ asksBar' = [asksBar EXCEPT ![c] = y.new]
      /\ saysBar' = [saysBar EXCEPT ![c] = y.answer]
      /\ jobBar' = [jobBar EXCEPT ![c] = y.id]
  BY <1>1, CallMaps
<1>4. /\ saysBar' = [saysBar EXCEPT ![c] = answer]
      /\ jobBar' = [jobBar EXCEPT ![c] = i]
  BY <1>2, <1>3
<1>5. asksBar' = asksBar
  BY <1>2, <1>3 DEF asksBar
<1> QED
  BY <1>4, <1>5, BusyKnown DEF IS!Told, asksBar, saysBar, jobBar

\* Reading answers: found, failed or rejected.
LEMMA ReplyMaps ==
    ASSUME SubmitInv, NEW c \in Clients, Busy(c), UNCHANGED rows
    PROVE  /\ \A i \in SameKey(c) : Valid(call[c].new) /\ Answers(c, "existing", i) => IS!Find(c, i)
           /\ Valid(call[c].new) /\ Answers(c, "error", NULL) => IS!Fail(c)
           /\ ~Valid(call[c].new) /\ Answers(c, "rejected", NULL) => IS!Reject(c)
<1>1. call[c].new \in NewJobs /\ asksBar[c] = call[c].new
  BY BusyKnown
<1>2. lifeBar' = lifeBar /\ entryBar' = entryBar
  BY RowsKept
<1>3. IS!Listed(c) = SameKey(c)
  BY <1>1, ListedIsSameKey
<1>4. ASSUME NEW i \in SameKey(c), Valid(call[c].new), Answers(c, "existing", i)
      PROVE  IS!Find(c, i)
  BY <1>1, <1>2, <1>3, <1>4, AnswersMaps DEF IS!Find, lifeBar, entryBar, asksBar
<1>5. ASSUME Valid(call[c].new), Answers(c, "error", NULL) PROVE IS!Fail(c)
  BY <1>1, <1>2, <1>5, AnswersMaps DEF IS!Fail, lifeBar, entryBar, asksBar
<1>6. ASSUME ~Valid(call[c].new), Answers(c, "rejected", NULL) PROVE IS!Reject(c)
  BY <1>1, <1>2, <1>6, AnswersMaps DEF IS!Reject, lifeBar, entryBar, asksBar
<1> QED
  BY <1>4, <1>5, <1>6

\* The INSERT creates, whether or not its answer arrives.
LEMMA InsertMaps ==
    ASSUME SubmitInv, NEW c \in Clients, NEW i \in RowIds,
           Insert(c, i) \/ InsertUnknown(c, i)
    PROVE  IS!Create(c, i)
<1>0. /\ call[c].at = "insert" /\ SameKey(c) = {} /\ rows[i] = Free
      /\ rows' = [rows EXCEPT ![i] = NewRow(c)]
      /\ Answers(c, "created", i) \/ Answers(c, "error", NULL)
  BY DEF Insert, InsertUnknown
<1>1. Busy(c)
  BY <1>0 DEF Busy
<1>2. call[c].new \in NewJobs /\ asksBar[c] = call[c].new /\ Valid(call[c].new)
  BY <1>0, <1>1, BusyKnown
<1>3. IS!Listed(c) = {}
  BY <1>0, <1>2, ListedIsSameKey
<1>4. IS!Told(c, "created", i) \/ IS!Told(c, "error", NULL)
  BY <1>0, <1>1, AnswersMaps
<1> DEFINE r == NewRow(c)
<1>5. /\ r.life = "live"
      /\ Entry(r.job.queue, r.job.key) = EntryOf[asksBar[c]]
  BY <1>2, NormalizedKey DEF NewRow, EntryOf
<1> HIDE DEF r
<1>6. rows[i].life = "free" /\ rows' = [rows EXCEPT ![i] = r] /\ rows \in [RowIds -> Row]
  BY <1>0 DEF Free, r, SubmitInv, TypeOK, Row
<1>7. rows'[i] = r /\ \A k \in RowIds : k # i => rows'[k] = rows[k]
  BY <1>6
<1>8. lifeBar' = [lifeBar EXCEPT ![i] = "here"]
  BY <1>5, <1>7, Lives DEF lifeBar
<1>9. entryBar' = [entryBar EXCEPT ![i] = EntryOf[asksBar[c]]]
  BY <1>5, <1>7 DEF entryBar
<1>10. lifeBar[i] = "free"
  BY <1>6, Lives DEF lifeBar
<1> QED
  BY <1>2, <1>3, <1>4, <1>8, <1>9, <1>10 DEF IS!Create, lifeBar, entryBar, asksBar, EntryOf

\* The statements of one call: each goes on unseen, or decides the request.
LEMMA SubmitStepMaps ==
    ASSUME SubmitInv, NEW c \in Clients, SubmitStep(c) \/ StatementFails(c)
    PROVE  IS!Next \/ UNCHANGED IS!vars
<1>1. CASE Validate(c)
  <2>1. Busy(c) /\ UNCHANGED rows
    BY <1>1 DEF Validate, Busy
  <2>2. CASE Goes(c, "ensure_queue")
    BY <2>1, <2>2, GoesMaps
  <2>3. CASE ~Valid(call[c].new) /\ Answers(c, "rejected", NULL)
    <3>1. IS!Reject(c)
      BY <2>1, <2>3, ReplyMaps
    <3> QED
      BY <3>1 DEF IS!Next
  <2>4. CASE Valid(call[c].new) /\ Answers(c, "error", NULL)
    <3>1. IS!Fail(c)
      BY <2>1, <2>4, ReplyMaps
    <3> QED
      BY <3>1 DEF IS!Next
  <2> QED
    BY <1>1, <2>2, <2>3, <2>4 DEF Validate
<1>2. CASE EnsureQueue(c) \/ InsertConflict(c)
  BY <1>2, GoesMaps DEF EnsureQueue, InsertConflict
<1>3. CASE Lookup(c) \/ FetchExisting(c) \/ StatementFails(c)
  <2>1. Busy(c) /\ call[c].at # "validate" /\ UNCHANGED rows
    BY <1>3 DEF Lookup, FetchExisting, StatementFails, Busy
  <2>2. Valid(call[c].new)
    BY <2>1, BusyKnown
  <2>3. \/ Goes(c, "insert")
        \/ \E i \in SameKey(c) : Answers(c, "existing", i)
        \/ Answers(c, "error", NULL)
    BY <1>3 DEF Lookup, FetchExisting, StatementFails
  <2>4. ASSUME NEW i \in SameKey(c), Answers(c, "existing", i) PROVE IS!Next
    <3>1. i \in RowIds /\ IS!Find(c, i)
      BY <2>1, <2>2, <2>4, ReplyMaps DEF SameKey
    <3> QED
      BY <3>1 DEF IS!Next
  <2>5. ASSUME Answers(c, "error", NULL) PROVE IS!Next
    <3>1. IS!Fail(c)
      BY <2>1, <2>2, <2>5, ReplyMaps
    <3> QED
      BY <3>1 DEF IS!Next
  <2> QED
    BY <2>1, <2>3, <2>4, <2>5, GoesMaps
<1>4. ASSUME NEW i \in RowIds, Insert(c, i) PROVE IS!Next
  BY <1>4, InsertMaps DEF IS!Next
<1> QED
  BY <1>1, <1>2, <1>3, <1>4 DEF SubmitStep

\* A request sent, for the first time or after an error, is asked.
LEMMA SendMaps ==
    ASSUME SubmitInv, NEW c \in Clients, NEW new \in NewJobs, Send(c, new)
    PROVE  IS!Ask(c, new)
<1> DEFINE y == [NoCall EXCEPT !.at = "validate", !.new = new]
<1>1. y.new = new /\ y.answer = NULL /\ y.id = NULL
  BY DEF NoCall
<1>2. call' = [call EXCEPT ![c] = y] /\ rows' = rows
  BY DEF Send
<1> HIDE DEF y
<1>3. /\ asksBar' = [asksBar EXCEPT ![c] = y.new]
      /\ saysBar' = [saysBar EXCEPT ![c] = y.answer]
      /\ jobBar' = [jobBar EXCEPT ![c] = y.id]
  BY <1>2, CallMaps
<1>4. /\ asksBar' = [asksBar EXCEPT ![c] = new]
      /\ saysBar' = [saysBar EXCEPT ![c] = NULL]
      /\ jobBar' = [jobBar EXCEPT ![c] = NULL]
  BY <1>1, <1>3
<1>5. asksBar[c] = NULL \/ (saysBar[c] = "error" /\ asksBar[c] = new)
  BY CallKnown DEF Send, CallOK, asksBar, saysBar
<1>6. lifeBar' = lifeBar /\ entryBar' = entryBar
  BY <1>2, RowsKept
<1> QED
  BY <1>4, <1>5, <1>6 DEF IS!Ask, asksBar, saysBar, jobBar, lifeBar, entryBar

\* A job that finishes is still there; a purged one is forgotten.
LEMMA RowStepMaps ==
    ASSUME SubmitInv, NEW i \in RowIds, FinishJob(i) \/ Purge(i)
    PROVE  IS!Forget(i) \/ UNCHANGED IS!vars
<1>0. rows \in [RowIds -> Row] /\ rows[i] \in Row
  BY DEF SubmitInv, TypeOK, Row
<1>1. asksBar' = asksBar /\ saysBar' = saysBar /\ jobBar' = jobBar
  BY DEF FinishJob, Purge, asksBar, saysBar, jobBar
<1>2. CASE FinishJob(i)
  <2> DEFINE r == [rows[i] EXCEPT !.life = "finished"]
  <2>1. rows' = [rows EXCEPT ![i] = r] /\ rows[i].life = "live"
    BY <1>0, <1>2 DEF FinishJob
  <2>2. r.life = "finished" /\ r.job = rows[i].job
    BY <1>0 DEF Row
  <2> HIDE DEF r
  <2>3. rows'[i] = r /\ \A k \in RowIds : k # i => rows'[k] = rows[k]
    BY <1>0, <2>1
  <2>4. lifeBar' = lifeBar
    BY <2>1, <2>2, <2>3, Lives DEF lifeBar
  <2>5. entryBar' = entryBar
    BY <2>1, <2>2, <2>3 DEF entryBar
  <2> QED
    BY <1>1, <2>4, <2>5 DEF IS!vars, asksBar, saysBar, jobBar, lifeBar, entryBar
<1>3. CASE Purge(i)
  <2> DEFINE r == [rows[i] EXCEPT !.life = "purged"]
  <2>1. rows' = [rows EXCEPT ![i] = r] /\ rows[i].life = "finished"
    BY <1>0, <1>3 DEF Purge
  <2>2. r.life = "purged" /\ r.job = rows[i].job
    BY <1>0 DEF Row
  <2> HIDE DEF r
  <2>3. rows'[i] = r /\ \A k \in RowIds : k # i => rows'[k] = rows[k]
    BY <1>0, <2>1
  <2>4. lifeBar' = [lifeBar EXCEPT ![i] = "gone"]
    BY <2>2, <2>3, Lives DEF lifeBar
  <2>5. lifeBar[i] = "here"
    BY <2>1, Lives DEF lifeBar
  <2>6. entryBar' = entryBar
    BY <2>1, <2>2, <2>3 DEF entryBar
  <2> QED
    BY <1>1, <2>4, <2>5, <2>6 DEF IS!Forget, asksBar, saysBar, jobBar, lifeBar, entryBar
<1> QED
  BY <1>2, <1>3

\* An empty table and idle clients.
LEMMA InitMaps == Init => IS!Init
  BY Lives DEF Init, IS!Init, Free, NoCall

\* Every step of the statements is a step of the abstract submission or invisible.
LEMMA NextMaps == SubmitInv /\ [Next]_vars => [IS!Next]_(IS!vars)
<1> SUFFICES ASSUME SubmitInv, [Next]_vars PROVE IS!Next \/ UNCHANGED IS!vars
  OBVIOUS
<1>1. CASE UNCHANGED vars
  BY <1>1 DEF vars, IS!vars
<1>2. ASSUME NEW c \in Clients, NEW new \in NewJobs, Send(c, new) PROVE IS!Next
  BY <1>2, SendMaps DEF IS!Next
<1>3. ASSUME NEW c \in Clients, NEW i \in RowIds, InsertUnknown(c, i) PROVE IS!Next
  BY <1>3, InsertMaps DEF IS!Next
<1>4. ASSUME NEW i \in RowIds, FinishJob(i) \/ Purge(i)
      PROVE  IS!Next \/ UNCHANGED IS!vars
  BY <1>4, RowStepMaps DEF IS!Next
<1> QED
  BY <1>1, <1>2, <1>3, <1>4, SubmitStepMaps DEF Next

\* PgStore::submit, statement by statement and under any interleaving, failures and
\* purges, decides each request as if in one atomic step: a look-up that missed, a lost
\* race and the second fetch never show.
THEOREM SubmissionIsAtomic == Spec => ImplementsIdempotentSubmit
  BY InitMaps, NextMaps, SubmitInvariant, PTL DEF Spec, ImplementsIdempotentSubmit, IS!Spec
=============================================================================
