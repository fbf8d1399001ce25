-------------------------------- MODULE JobApi --------------------------------
(***************************************************************************)
(* The API process over the store: calls of POST /jobs/{id}/cancel and     *)
(* /retry with what they are answered (crates/api/src/routes.rs, error.rs  *)
(* and core/src/error.rs), the event streams of GET /jobs/{id}/events,     *)
(* which poll the row (crates/api/src/sse.rs), and the life of the         *)
(* process, whose graceful shutdown waits for both while its maintenance   *)
(* loop may have stopped already (crates/api/src/main.rs).                 *)
(*                                                                         *)
(* Workers are the store's general client here, any step of any slot.      *)
(***************************************************************************)
EXTENDS JobStore

CONSTANTS
    Watchers,    \* concurrent event streams
    MAX_POLLS    \* polls after which a stream is closed, 1200

ASSUME ApiAssumption == MAX_POLLS \in Nat

VARIABLES
    api,     \* life of the API process
    loop,    \* its maintenance loop; there is one of Reapers per API process
    call,    \* the cancel or retry each of Operators has made
    stream   \* StreamState of each watcher

processVars == <<api, loop>>
apiVars == <<storeVars, processVars, call, stream>>

NoCall == [op |-> "none", job |-> NULL, at |-> "none", code |-> 0]
Closed == [at |-> "closed", job |-> NULL, last |-> NULL, polls |-> 0]

ApiTypeOK ==
    /\ TypeOK
    /\ api \in {"serving", "stopping", "stopped"}
    /\ loop \in [Reapers -> {"running", "ended"}]
    /\ call \in [Operators -> [op : {"none", "cancel", "retry"}, job : JobIds \cup {NULL},
                               at : {"none", "update", "fetch", "delete", "answered"},
                               code : {0, 200, 404, 409, 500}]]
    /\ stream \in [Watchers -> [at : {"closed", "open", "done"},
                                job : JobIds \cup {NULL}, last : Status \cup {NULL},
                                polls : 0 .. MAX_POLLS]]

ApiInit ==
    /\ StoreInit
    /\ api = "serving"
    /\ loop = [r \in Reapers |-> "running"]
    /\ call = [c \in Operators |-> NoCall]
    /\ stream = [s \in Watchers |-> Closed]

-----------------------------------------------------------------------------
(* cancel_job and retry_job.                                               *)

\* QueueError::category and From<QueueError> for ApiError.
StatusCode(e) ==
    CASE e = "JobNotFound"      -> 404
      [] e = "InvalidOperation" -> 409
      [] e = "Storage"          -> 500

Answer(c, code) == call' = [call EXCEPT ![c].at = "answered", ![c].code = code]

\* A client calls for a job it was told the id of.
Request(c, op, j) ==
    /\ api = "serving"
    /\ call[c].at \in {"none", "answered"}
    /\ jobs[j].status # "unborn"
    /\ call' = [call EXCEPT ![c] = [op |-> op, job |-> j, at |-> "update", code |-> 0]]
    /\ UNCHANGED <<storeVars, processVars, stream>>

\* The UPDATE hits; the answer may be lost between database and server.
Cancels(c) ==
    /\ call[c].at = "update" /\ call[c].op = "cancel"
    /\ CancelJob(call[c].job)
    /\ \E code \in {200, StatusCode("Storage")} : Answer(c, code)
    /\ UNCHANGED <<processVars, stream>>

Retries(c) ==
    /\ call[c].at = "update" /\ call[c].op = "retry"
    /\ RetryUpdate(c, call[c].job)
    /\ call' = [call EXCEPT ![c].at = "delete"]
    /\ UNCHANGED <<processVars, stream>>

RetryEnds(c) ==
    /\ call[c].at = "delete"
    /\ \/ RetryDelete(c) /\ Answer(c, 200)
       \/ RetryAbort(c) /\ Answer(c, StatusCode("Storage"))
    /\ UNCHANGED <<processVars, stream>>

Permitted(op) ==
    IF op = "cancel" THEN {s \in Status : is_cancellable(s)} ELSE Retryable

\* The WHERE clause matches no row.
UpdateMisses(c) ==
    /\ call[c].at = "update"
    /\ jobs[call[c].job].status \notin Permitted(call[c].op)
    /\ call' = [call EXCEPT ![c].at = "fetch"]
    /\ UNCHANGED <<storeVars, processVars, stream>>

\* fetch_job, a statement of its own, tells "not found" from "not permitted".
Explains(c) ==
    /\ call[c].at = "fetch"
    /\ Answer(c, StatusCode(IF Exists(call[c].job) THEN "InvalidOperation" ELSE "JobNotFound"))
    /\ UNCHANGED <<storeVars, processVars, stream>>

\* The UPDATE or the SELECT fails.
CallFails(c) ==
    /\ call[c].at \in {"update", "fetch"}
    /\ Answer(c, StatusCode("Storage"))
    /\ UNCHANGED <<storeVars, processVars, stream>>

CallStep(c) ==
    \/ Cancels(c) \/ Retries(c) \/ RetryEnds(c)
    \/ UpdateMisses(c) \/ Explains(c) \/ CallFails(c)

-----------------------------------------------------------------------------
(* job_event_stream.                                                       *)

Open(s, j) ==
    /\ api = "serving"
    /\ stream[s].at # "open"
    /\ stream' = [stream EXCEPT ![s] = [Closed EXCEPT !.at = "open", !.job = j]]
    /\ UNCHANGED <<storeVars, processVars, call>>

\* st.done: of the StreamState only a terminal status it ended with is kept.
Done(s, last) ==
    stream' = [stream EXCEPT ![s] =
        IF last = NULL THEN Closed
                       ELSE [@ EXCEPT !.at = "done", !.last = last, !.polls = 0]]

\* get_job finds the row: an event when the status is new, the last one when it is
\* terminal.
PollSees(s) ==
    LET new == jobs[stream[s].job].status
    IN  /\ stream[s].at = "open" /\ stream[s].polls < MAX_POLLS
        /\ Exists(stream[s].job)
        /\ IF new # stream[s].last /\ is_terminal(new)
           THEN Done(s, new)
           ELSE stream' = [stream EXCEPT ![s].polls = @ + 1, ![s].last = new]
        /\ UNCHANGED <<storeVars, processVars, call>>

\* No row, or any storage error: event "error", "job not found".
PollErrs(s) ==
    /\ stream[s].at = "open" /\ stream[s].polls < MAX_POLLS
    /\ Done(s, NULL)
    /\ UNCHANGED <<storeVars, processVars, call>>

\* Mutant: the cap sends its event and forgets st.done.
PollCapped_GoesOn(s) ==
    /\ stream[s].at = "open" /\ stream[s].polls >= MAX_POLLS
    /\ UNCHANGED apiVars

\* The cap: event "timeout", "stream closed".
PollCapped(s) ==
    /\ stream[s].at = "open" /\ stream[s].polls >= MAX_POLLS
    /\ Done(s, NULL)
    /\ UNCHANGED <<storeVars, processVars, call>>

\* The client goes away and the stream is dropped.
Leave(s) ==
    /\ stream[s].at = "open"
    /\ stream' = [stream EXCEPT ![s] = Closed]
    /\ UNCHANGED <<storeVars, processVars, call>>

Poll(s) == PollSees(s) \/ PollErrs(s) \/ PollCapped(s)

-----------------------------------------------------------------------------
(* The process.                                                            *)

\* SIGTERM: the server accepts no more requests, the token is cancelled.
Signal ==
    /\ api = "serving"
    /\ api' = "stopping"
    /\ UNCHANGED <<storeVars, loop, call, stream>>

\* Mutant: the loop waits for the server to be gone, which waits for the loop.
LoopEnds_AfterServer(r) ==
    /\ api = "stopped"
    /\ loop[r] = "running" /\ sweep[r] = NoSweep
    /\ loop' = [loop EXCEPT ![r] = "ended"]
    /\ UNCHANGED <<storeVars, api, call, stream>>

\* Between two sweeps select! takes the branch of the cancelled token.
LoopEnds(r) ==
    /\ api = "stopping"
    /\ loop[r] = "running" /\ sweep[r] = NoSweep
    /\ loop' = [loop EXCEPT ![r] = "ended"]
    /\ UNCHANGED <<storeVars, api, call, stream>>

\* server.await has returned and the maintenance loop was joined.
Exit ==
    /\ api = "stopping"
    /\ \A c \in Operators : call[c].at \in {"none", "answered"}
    /\ \A s \in Watchers : stream[s].at # "open"
    /\ \A r \in Reapers : loop[r] = "ended"
    /\ api' = "stopped"
    /\ UNCHANGED <<storeVars, loop, call, stream>>

Restart ==
    /\ api = "stopped"
    /\ api' = "serving"
    /\ loop' = [r \in Reapers |-> "running"]
    /\ UNCHANGED <<storeVars, call, stream>>

\* A tick that is due may be taken in preference to the token: select! is not biased, so
\* a sweep may still start while the process is stopping.
Sweeping(r) == loop[r] = "running" /\ UNCHANGED <<processVars, call, stream>>

Maintain(r) == ReaperStep(r) /\ Sweeping(r)

-----------------------------------------------------------------------------
\* Submissions and purges of other clients; a paused queue only keeps workers idle, which
\* they may be anyway.
OtherRequests ==
    \/ \E q \in Queues : EnsureQueue(q)
    \/ \E j \in JobIds, d \in SubmitDelays : Submit(j, d)
    \/ \E S \in SUBSET JobIds : PurgeFinished(S)

ApiNext ==
    \/ \E c \in Operators : CallStep(c)
    \/ \E c \in Operators, op \in {"cancel", "retry"}, j \in JobIds : Request(c, op, j)
    \/ \E s \in Watchers : Poll(s) \/ Leave(s)
    \/ \E s \in Watchers, j \in JobIds : Open(s, j)
    \/ Signal \/ Exit \/ Restart
    \/ \E r \in Reapers : Maintain(r) \/ LoopEnds(r)
    \/ /\ \/ OtherRequests /\ api = "serving"
          \/ \E t \in Tasks : TaskStep(t)
          \/ \E T \in SUBSET OpenTx : Rollback(T)
          \/ Tick
       /\ UNCHANGED <<processVars, call, stream>>

\* Calls are answered, streams poll every half second, a process that may exit does and
\* is started again, time passes, and a sweep that is tried again and again succeeds.  The
\* loop that comes back to its select! again and again takes the token's branch in the end:
\* it is ready every time, the branches are tried in random order.
\* Nothing is assumed of workers, except that their transactions end.
ApiFairness ==
    /\ \A c \in Operators : WF_apiVars(CallStep(c))
    /\ \A s \in Watchers : WF_apiVars(Poll(s))
    /\ WF_apiVars(Exit)
    /\ WF_apiVars(Restart)
    /\ WF_apiVars(Tick /\ UNCHANGED <<processVars, call, stream>>)
    /\ WF_apiVars(OpenTx # {} /\ Rollback(OpenTx) /\ UNCHANGED <<processVars, call, stream>>)
    /\ \A r \in Reapers :
         /\ SF_apiVars(LoopEnds(r))
         /\ WF_apiVars(Maintain(r))
         /\ SF_apiVars(RecoverRetrying(r) /\ Sweeping(r))
         /\ SF_apiVars(RecoverDeadLettered(r) /\ Sweeping(r))
         /\ SF_apiVars(RecoverFailed(r) /\ Sweeping(r))

ApiSpec == ApiInit /\ [][ApiNext]_apiVars /\ ApiFairness

-----------------------------------------------------------------------------
(* What the API promises.                                                  *)

\* What a client was told is final stays so: a job whose cancellation was answered with
\* 200, or whose stream ended with completed or cancelled, never comes back, and a job
\* answered with 404 is gone for good, whoever else retries, reports, sweeps or purges.
FinalAnswersHold ==
    /\ \A c \in Operators :
         /\ call[c].op = "cancel" /\ call[c].code = 200
              => jobs[call[c].job].status \in {"cancelled", "purged"}
         /\ call[c].code = 404 => jobs[call[c].job].status = "purged"
    /\ \A s \in Watchers :
         stream[s].at = "done" /\ stream[s].last \in {"completed", "cancelled"}
              => jobs[stream[s].job].status \in {stream[s].last, "purged"}

\* Every stream ends, although 'failed' is not terminal and is polled until the cap.
EveryStreamEnds == \A s \in Watchers : (stream[s].at = "open") ~> (stream[s].at # "open")

\* A graceful shutdown comes to its end: no open stream, slow call or sweep, not even one
\* that starts after the signal, holds the process for ever.
ShutdownCompletes == (api = "stopping") ~> (api = "stopped")

\* From some time on no worker does anything any more.
WorkersDie == <>[][~\E t \in Tasks : TaskStep(t)]_apiVars

\* The only maintenance loop stops with each shutdown, while the process still waits for
\* its streams: the leases of dead workers are still recovered in the end, however
\* often the process is restarted.
RecoveredAcrossRestarts ==
    WorkersDie => \A j \in JobIds :
        (jobs[j].status = "processing") ~> (jobs[j].status # "processing")
=============================================================================
