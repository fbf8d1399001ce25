----------------------------- MODULE JobApiProofs -----------------------------
(***************************************************************************)
(* Proofs about JobApi, for any number of jobs, workers, callers, streams  *)
(* and sweeps, and any cap on polls.                                       *)
(*                                                                         *)
(* Every step of the API system is a step of the store or leaves the store *)
(* alone, so the invariant of JobStoreProofs and what JobStoreSteps says   *)
(* of one row hold here too.  ApiInv adds what a call and a stream know of *)
(* the job they are about; final rows stay final, so an answer, once       *)
(* given, stays true while everybody else goes on.                         *)
(***************************************************************************)
EXTENDS JobApi, JobStoreSteps

Codes == {0, 200, 404, 409, 500}
Polls == 0 .. MAX_POLLS

Call == [op : {"none", "cancel", "retry"}, job : JobIds \cup {NULL},
         at : {"none", "update", "fetch", "delete", "answered"}, code : Codes]

Stream == [at : {"closed", "open", "done"}, job : JobIds \cup {NULL},
           last : Status \cup {NULL}, polls : Polls]

\* What a code says of the job it is the answer for.
AnswerTrue(op, code, status) ==
    /\ op = "cancel" /\ code = 200 => status \in {"cancelled", "purged"}
    /\ code = 404 => status = "purged"

\* What a call knows of its job, and what it was told.
CallOK(x, table) ==
    /\ x.at # "none" => x.job \in JobIds /\ table[x.job].status # "unborn"
    /\ x.code # 0 => x.at = "answered"
    /\ x.at = "delete" => x.op = "retry"
    /\ AnswerTrue(x.op, x.code, table[x.job].status)

\* What a stream knows of its job, and the last status it sent.
StreamOK(x, table) ==
    /\ x.at # "closed" => x.job \in JobIds
    /\ x.at = "done" /\ x.last \in {"completed", "cancelled"}
          => table[x.job].status \in {x.last, "purged"}

ApiInv ==
    /\ StoreInv
    /\ ApiTypeOK
    /\ \A c \in Operators : CallOK(call[c], jobs)
    /\ \A s \in Watchers : StreamOK(stream[s], jobs)

-----------------------------------------------------------------------------
(* Lemmas about rows, calls and streams.                                   *)

\* What an answer relies on: a row that was there does not become unborn, and final
\* rows stay, or are purged.
LEMMA FinalRows ==
    ASSUME StoreInv, [StoreNext]_storeVars, NEW j \in JobIds
    PROVE  /\ jobs[j].status # "unborn" => jobs'[j].status # "unborn"
           /\ \A s \in {"completed", "cancelled", "purged"} :
                jobs[j].status = s => jobs'[j].status \in {s, "purged"}
<1>1. StepRow(j)
  BY StepRows
<1>2. CASE Kept(j)
  BY <1>2 DEF Kept, SameHold
<1>3. CASE Moved(j)
  BY <1>3 DEF Moved, StatusEdges
<1> QED
  BY <1>1, <1>2, <1>3 DEF StepRow

\* A call that is answered, a stream that goes on, and one that ends.
Answered(x, code) == [x EXCEPT !.at = "answered", !.code = code]
Polled(x, last, n) == [x EXCEPT !.polls = n, !.last = last]
Ended(x, last, n) == [x EXCEPT !.at = "done", !.last = last, !.polls = n]

LEMMA CallValues ==
    ASSUME NEW x \in Call, NEW code \in Codes
    PROVE  /\ Answered(x, code) \in Call
           /\ Answered(x, code).at = "answered"
           /\ Answered(x, code).code = code
           /\ Answered(x, code).op = x.op
           /\ Answered(x, code).job = x.job
  BY DEF Call, Answered

LEMMA AnsweredCall ==
    ASSUME NEW c, NEW code, Answer(c, code)
    PROVE  call' = [call EXCEPT ![c] = Answered(call[c], code)]
  BY DEF Answer, Answered

LEMMA StreamValues ==
    ASSUME NEW x \in Stream, NEW last \in Status \cup {NULL}, NEW n \in Polls
    PROVE  /\ Polled(x, last, n) \in Stream
           /\ Polled(x, last, n).at = x.at
           /\ Polled(x, last, n).job = x.job
           /\ Ended(x, last, n) \in Stream
           /\ Ended(x, last, n).at = "done"
           /\ Ended(x, last, n).last = last
           /\ Ended(x, last, n).job = x.job
  BY DEF Stream, Polled, Ended

LEMMA OpenValues ==
    ASSUME NEW j \in JobIds
    PROVE  /\ Closed \in Stream /\ Closed.at = "closed"
           /\ LET y == [Closed EXCEPT !.at = "open", !.job = j]
              IN  y \in Stream /\ y.at = "open" /\ y.job = j
<1>1. 0 \in Polls
  BY ApiAssumption DEF Polls
<1> QED
  BY <1>1 DEF Closed, Stream

\* What a call knows and was told stays true.
LEMMA CallOKKept ==
    ASSUME StoreInv, [StoreNext]_storeVars, NEW x \in Call, CallOK(x, jobs)
    PROVE  CallOK(x, jobs')
<1>1. CASE x.at = "none"
  BY <1>1 DEF CallOK, AnswerTrue
<1>2. CASE x.at # "none"
  <2>1. x.job \in JobIds
    BY <1>2 DEF CallOK
  <2> QED
    BY <2>1, FinalRows DEF CallOK, AnswerTrue
<1> QED
  BY <1>1, <1>2

LEMMA StreamOKKept ==
    ASSUME StoreInv, [StoreNext]_storeVars, NEW x \in Stream, StreamOK(x, jobs)
    PROVE  StreamOK(x, jobs')
  BY FinalRows DEF StreamOK

\* What the invariant says of one call, and of one stream.
LEMMA CallKnown ==
    ASSUME ApiInv, NEW c \in Operators
    PROVE  call[c] \in Call /\ CallOK(call[c], jobs)
  BY DEF ApiInv, ApiTypeOK, Call, Codes

LEMMA StreamKnown ==
    ASSUME ApiInv, NEW s \in Watchers
    PROVE  stream[s] \in Stream /\ StreamOK(stream[s], jobs)
  BY DEF ApiInv, ApiTypeOK, Stream, Polls

-----------------------------------------------------------------------------
(* Every step is a step of the store or leaves it alone.                   *)

LEMMA ApiStoreStep == ApiInv /\ [ApiNext]_apiVars => [StoreNext]_storeVars
<1> SUFFICES ASSUME ApiInv, [ApiNext]_apiVars PROVE [StoreNext]_storeVars
  OBVIOUS
<1>1. ASSUME NEW c \in Operators, CallStep(c) PROVE [StoreNext]_storeVars
  <2>1. call[c].at # "none" => call[c].job \in JobIds
    BY CallKnown DEF CallOK
  <2>2. CASE Cancels(c)
    BY <2>1, <2>2 DEF Cancels, StoreNext, OperatorStep
  <2>3. CASE Retries(c)
    BY <2>1, <2>3 DEF Retries, StoreNext, OperatorStep
  <2>4. CASE RetryEnds(c)
    BY <2>4 DEF RetryEnds, StoreNext, OperatorStep
  <2>5. CASE UpdateMisses(c) \/ Explains(c) \/ CallFails(c)
    BY <2>5 DEF UpdateMisses, Explains, CallFails
  <2> QED
    BY <1>1, <2>2, <2>3, <2>4, <2>5 DEF CallStep
<1>2. ASSUME NEW c \in Operators, NEW op, NEW j, Request(c, op, j)
      PROVE  [StoreNext]_storeVars
  BY <1>2 DEF Request
<1>3. ASSUME NEW s \in Watchers, Poll(s) \/ Leave(s) \/ \E j \in JobIds : Open(s, j)
      PROVE  [StoreNext]_storeVars
  BY <1>3 DEF Poll, PollSees, PollErrs, PollCapped, Leave, Open
<1>4. CASE Signal \/ Exit \/ Restart \/ \E r \in Reapers : LoopEnds(r)
  BY <1>4 DEF Signal, Exit, Restart, LoopEnds
<1>5. ASSUME NEW r \in Reapers, Maintain(r) PROVE [StoreNext]_storeVars
  BY <1>5 DEF Maintain, StoreNext
<1>6. CASE OtherRequests
  BY <1>6 DEF OtherRequests, StoreNext, QueueStep, OperatorStep
<1>7. CASE \/ \E t \in Tasks : TaskStep(t)
           \/ \E T \in SUBSET OpenTx : Rollback(T)
           \/ Tick
  BY <1>7 DEF StoreNext
<1>8. CASE UNCHANGED apiVars
  BY <1>8 DEF apiVars
<1> QED
  BY <1>1, <1>2, <1>3, <1>4, <1>5, <1>6, <1>7, <1>8 DEF ApiNext

-----------------------------------------------------------------------------
(* ApiInv is inductive.                                                    *)

LEMMA ApiInitInv == ApiInit => ApiInv
<1> SUFFICES ASSUME ApiInit PROVE ApiInv
  OBVIOUS
<1>1. StoreInv /\ TypeOK
  BY InitInv DEF ApiInit, StoreInv
<1>2. NoCall \in Call /\ NoCall.at = "none" /\ NoCall.code = 0
  BY DEF NoCall, Call, Codes
<1>3. Closed \in Stream /\ Closed.at = "closed"
  BY ApiAssumption DEF Closed, Stream, Polls
<1>4. ApiTypeOK
  BY <1>1, <1>2, <1>3 DEF ApiInit, ApiTypeOK, Call, Codes, Stream, Polls
<1>5. \A c \in Operators : CallOK(call[c], jobs)
  BY <1>2 DEF ApiInit, CallOK, AnswerTrue
<1>6. \A s \in Watchers : StreamOK(stream[s], jobs)
  BY <1>3 DEF ApiInit, StreamOK
<1> QED
  BY <1>1, <1>4, <1>5, <1>6 DEF ApiInv

\* A step of one caller.
LEMMA OneCallInv ==
    ASSUME ApiInv, [StoreNext]_storeVars, NEW c \in Operators,
           NEW y \in Call, CallOK(y, jobs'), call' = [call EXCEPT ![c] = y],
           UNCHANGED <<processVars, stream>>
    PROVE  ApiInv'
<1>1. StoreInv /\ StoreInv' /\ TypeOK'
  BY NextInv DEF ApiInv, StoreInv
<1>2. call \in [Operators -> Call]
  BY DEF ApiInv, ApiTypeOK, Call, Codes
<1>3. \A d \in Operators : call'[d] = IF d = c THEN y ELSE call[d]
  BY <1>2
<1>4. ApiTypeOK'
  BY <1>1, <1>2 DEF ApiInv, ApiTypeOK, Call, Codes, processVars
<1>5. \A d \in Operators : CallOK(call'[d], jobs')
  BY <1>1, <1>3, CallKnown, CallOKKept
<1>6. \A s \in Watchers : StreamOK(stream'[s], jobs')
  BY <1>1, StreamKnown, StreamOKKept
<1> QED
  BY <1>1, <1>4, <1>5, <1>6 DEF ApiInv

\* A step of one stream.
LEMMA OneStreamInv ==
    ASSUME ApiInv, NEW s \in Watchers, NEW y \in Stream, StreamOK(y, jobs),
           stream' = [stream EXCEPT ![s] = y], UNCHANGED <<storeVars, processVars, call>>
    PROVE  ApiInv'
<1>0. UNCHANGED <<jobs, history, dlq, queues, tx, retry, sweep>>
  BY DEF storeVars
<1>1. StoreInv' /\ TypeOK'
  <2>1. [StoreNext]_storeVars
    OBVIOUS
  <2> QED
    BY <2>1, NextInv DEF ApiInv, StoreInv
<1>2. stream \in [Watchers -> Stream]
  BY DEF ApiInv, ApiTypeOK, Stream, Polls
<1>3. \A u \in Watchers : stream'[u] = IF u = s THEN y ELSE stream[u]
  BY <1>2
<1>4. ApiTypeOK'
  BY <1>1, <1>2 DEF ApiInv, ApiTypeOK, Stream, Polls, processVars
<1>5. \A u \in Watchers : StreamOK(stream'[u], jobs')
  BY <1>0, <1>3 DEF ApiInv
<1>6. \A c \in Operators : CallOK(call'[c], jobs')
  BY <1>0 DEF ApiInv
<1> QED
  BY <1>1, <1>4, <1>5, <1>6 DEF ApiInv

\* A step of anybody else.
LEMMA OtherInv ==
    ASSUME ApiInv, [StoreNext]_storeVars, api' \in {"serving", "stopping", "stopped"},
           loop' \in [Reapers -> {"running", "ended"}], UNCHANGED <<call, stream>>
    PROVE  ApiInv'
<1>1. StoreInv /\ StoreInv' /\ TypeOK'
  BY NextInv DEF ApiInv, StoreInv
<1>2. ApiTypeOK'
  BY <1>1 DEF ApiInv, ApiTypeOK
<1>3. \A c \in Operators : CallOK(call'[c], jobs')
  BY <1>1, CallKnown, CallOKKept
<1>4. \A s \in Watchers : StreamOK(stream'[s], jobs')
  BY <1>1, StreamKnown, StreamOKKept
<1> QED
  BY <1>1, <1>2, <1>3, <1>4 DEF ApiInv

\* A call is answered.
LEMMA AnswerInv ==
    ASSUME ApiInv, [StoreNext]_storeVars, NEW c \in Operators, call[c].at # "none",
           NEW code \in Codes, Answer(c, code), UNCHANGED <<processVars, stream>>,
           AnswerTrue(call[c].op, code, jobs'[call[c].job].status)
    PROVE  ApiInv'
<1> DEFINE y == Answered(call[c], code)
<1>1. call[c] \in Call /\ CallOK(call[c], jobs')
  BY CallKnown, CallOKKept DEF ApiInv
<1>2. /\ y \in Call /\ y.at = "answered" /\ y.code = code
      /\ y.op = call[c].op /\ y.job = call[c].job
  BY <1>1, CallValues
<1>3. call' = [call EXCEPT ![c] = y]
  BY AnsweredCall
<1> HIDE DEF y
<1>4. CallOK(y, jobs')
  BY <1>1, <1>2 DEF CallOK
<1> QED
  BY <1>2, <1>3, <1>4, OneCallInv

\* A call goes on to its second statement.
LEMMA SecondStatementInv ==
    ASSUME ApiInv, [StoreNext]_storeVars, NEW c \in Operators, call[c].at = "update",
           NEW at \in {"fetch", "delete"}, call' = [call EXCEPT ![c].at = at],
           at = "delete" => call[c].op = "retry", UNCHANGED <<processVars, stream>>
    PROVE  ApiInv'
<1> DEFINE y == [call[c] EXCEPT !.at = at]
<1>1. call[c] \in Call /\ CallOK(call[c], jobs')
  BY CallKnown, CallOKKept DEF ApiInv
<1>2. /\ y \in Call /\ y.at = at /\ y.code = call[c].code
      /\ y.op = call[c].op /\ y.job = call[c].job
  BY <1>1 DEF Call
<1>3. CallOK(y, jobs')
  BY <1>1, <1>2 DEF CallOK
<1>4. call' = [call EXCEPT ![c] = y]
  OBVIOUS
<1> HIDE DEF y
<1> QED
  BY <1>2, <1>3, <1>4, OneCallInv

LEMMA CallStepInv ==
    ASSUME ApiInv, [StoreNext]_storeVars, NEW c \in Operators, CallStep(c)
    PROVE  ApiInv'
<1>0. /\ call[c] \in Call /\ CallOK(call[c], jobs)
      /\ TypeOK /\ \A j \in JobIds : jobs[j] \in JobRow
  BY CallKnown DEF ApiInv, ApiTypeOK, TypeOK
<1>1. StatusCode("Storage") = 500 /\ StatusCode("JobNotFound") = 404
      /\ StatusCode("InvalidOperation") = 409
  BY DEF StatusCode
<1> DEFINE told(code) == AnswerTrue(call[c].op, code, jobs'[call[c].job].status)
<1>2. /\ 200 \in Codes /\ 404 \in Codes /\ 409 \in Codes /\ 500 \in Codes
      /\ told(409) /\ told(500)
      /\ call[c].op = "retry" => told(200)
  BY DEF Codes, AnswerTrue
<1>3. CASE Cancels(c)
  <2>1. call[c].at = "update" /\ call[c].job \in JobIds /\ UNCHANGED <<processVars, stream>>
    BY <1>0, <1>3 DEF Cancels, CallOK
  <2>2. jobs'[call[c].job].status = "cancelled"
    BY <1>0, <1>3, <2>1, ReleaseRow DEF Cancels, CancelJob, TypeOK, Status
  <2>3. told(200)
    BY <2>2 DEF AnswerTrue
  <2>4. Answer(c, 200) \/ Answer(c, 500)
    BY <1>1, <1>3 DEF Cancels
  <2> QED
    BY <1>2, <2>1, <2>3, <2>4, AnswerInv
<1>4. CASE Retries(c)
  BY <1>4, SecondStatementInv DEF Retries
<1>5. CASE RetryEnds(c)
  <2>1. call[c].at = "delete" /\ call[c].op = "retry" /\ UNCHANGED <<processVars, stream>>
    BY <1>0, <1>5 DEF RetryEnds, CallOK
  <2>2. Answer(c, 200) \/ Answer(c, 500)
    BY <1>1, <1>5 DEF RetryEnds
  <2> QED
    BY <1>2, <2>1, <2>2, AnswerInv
<1>6. CASE UpdateMisses(c)
  BY <1>6, SecondStatementInv DEF UpdateMisses
<1>7. CASE Explains(c)
  <2>1. /\ call[c].at = "fetch" /\ UNCHANGED <<storeVars, processVars, stream>>
        /\ call[c].job \in JobIds /\ jobs[call[c].job].status # "unborn"
    BY <1>0, <1>7 DEF Explains, CallOK
  <2>2. CASE Exists(call[c].job)
    <3>1. Answer(c, 409)
      BY <1>1, <1>7, <2>2 DEF Explains
    <3> QED
      BY <1>2, <2>1, <3>1, AnswerInv
  <2>3. CASE ~Exists(call[c].job)
    <3>1. jobs'[call[c].job].status = "purged"
      BY <1>0, <2>1, <2>3 DEF Exists, JobRow, storeVars
    <3>2. told(404)
      BY <3>1 DEF AnswerTrue
    <3>3. Answer(c, 404)
      BY <1>1, <1>7, <2>3 DEF Explains
    <3> QED
      BY <1>2, <2>1, <3>2, <3>3, AnswerInv
  <2> QED
    BY <2>2, <2>3
<1>8. CASE CallFails(c)
  <2>1. call[c].at # "none" /\ UNCHANGED <<processVars, stream>> /\ Answer(c, 500)
    BY <1>1, <1>8 DEF CallFails
  <2> QED
    BY <1>2, <2>1, AnswerInv
<1> QED
  BY <1>3, <1>4, <1>5, <1>6, <1>7, <1>8 DEF CallStep

LEMMA RequestInv ==
    ASSUME ApiInv, NEW c \in Operators, NEW op \in {"cancel", "retry"}, NEW j \in JobIds,
           Request(c, op, j)
    PROVE  ApiInv'
<1> DEFINE y == [op |-> op, job |-> j, at |-> "update", code |-> 0]
<1>1. y \in Call
  BY DEF Call, Codes
<1>2. CallOK(y, jobs')
  BY DEF CallOK, AnswerTrue, Request, storeVars
<1>3. call' = [call EXCEPT ![c] = y] /\ UNCHANGED <<processVars, stream>> /\ UNCHANGED storeVars
  BY DEF Request
<1> HIDE DEF y
<1> QED
  BY <1>1, <1>2, <1>3, OneCallInv

\* A stream ends, with a status it has just read or without.
LEMMA DoneInv ==
    ASSUME ApiInv, NEW s \in Watchers, stream[s].at = "open",
           NEW last \in Status \cup {NULL}, Done(s, last),
           last # NULL => jobs[stream[s].job].status = last,
           UNCHANGED <<storeVars, processVars, call>>
    PROVE  ApiInv'
<1>1. stream[s] \in Stream /\ StreamOK(stream[s], jobs)
  BY StreamKnown
<1>2. CASE last = NULL
  <2>1. stream' = [stream EXCEPT ![s] = Closed]
    BY <1>2 DEF Done
  <2>2. Closed \in Stream /\ StreamOK(Closed, jobs)
    BY ApiAssumption DEF Closed, Stream, Polls, StreamOK
  <2> QED
    BY <2>1, <2>2, OneStreamInv
<1>3. CASE last # NULL
  <2> DEFINE y == Ended(stream[s], last, 0)
  <2>1. stream' = [stream EXCEPT ![s] = y]
    BY <1>3 DEF Done, Ended
  <2>2. y \in Stream /\ y.at = "done" /\ y.last = last /\ y.job = stream[s].job
    <3>1. 0 \in Polls
      BY ApiAssumption DEF Polls
    <3> QED
      BY <1>1, <3>1, StreamValues
  <2> HIDE DEF y
  <2>3. StreamOK(y, jobs)
    BY <1>1, <1>3, <2>2 DEF StreamOK
  <2> QED
    BY <2>1, <2>2, <2>3, OneStreamInv
<1> QED
  BY <1>2, <1>3

LEMMA PollInv ==
    ASSUME ApiInv, NEW s \in Watchers, Poll(s)
    PROVE  ApiInv'
<1>0. stream[s] \in Stream /\ StreamOK(stream[s], jobs)
  BY StreamKnown
<1>1. CASE PollSees(s)
  <2> DEFINE new == jobs[stream[s].job].status
  <2>1. /\ stream[s].at = "open" /\ stream[s].polls < MAX_POLLS
        /\ new \in Status /\ UNCHANGED <<storeVars, processVars, call>>
    BY <1>1 DEF PollSees, Exists
  <2>2. CASE new # stream[s].last /\ is_terminal(new)
    <3>1. Done(s, new)
      BY <1>1, <2>2 DEF PollSees
    <3> QED
      BY <2>1, <3>1, DoneInv
  <2>3. CASE ~(new # stream[s].last /\ is_terminal(new))
    <3> DEFINE y == Polled(stream[s], new, stream[s].polls + 1)
    <3>1. stream' = [stream EXCEPT ![s] = y]
      BY <1>1, <2>3 DEF PollSees, Polled
    <3> HIDE DEF new
    <3>2. y \in Stream /\ y.at = "open" /\ y.job = stream[s].job
      <4>1. stream[s].polls + 1 \in Polls
        BY <1>0, <2>1, ApiAssumption DEF Stream, Polls
      <4>2. new \in Status \cup {NULL}
        BY <2>1
      <4> QED
        BY <1>0, <2>1, <4>1, <4>2, StreamValues
    <3> HIDE DEF y
    <3>3. StreamOK(y, jobs)
      BY <1>0, <2>1, <3>2 DEF StreamOK
    <3> QED
      BY <2>1, <3>1, <3>2, <3>3, OneStreamInv
  <2> QED
    BY <2>2, <2>3
<1>2. CASE PollErrs(s) \/ PollCapped(s)
  BY <1>2, DoneInv DEF PollErrs, PollCapped
<1> QED
  BY <1>1, <1>2 DEF Poll

LEMMA OpenLeaveInv ==
    ASSUME ApiInv, NEW s \in Watchers, Leave(s) \/ \E j \in JobIds : Open(s, j)
    PROVE  ApiInv'
<1>1. CASE Leave(s)
  <2>1. Closed \in Stream /\ StreamOK(Closed, jobs)
    BY ApiAssumption DEF Closed, Stream, Polls, StreamOK
  <2> QED
    BY <1>1, <2>1, OneStreamInv DEF Leave
<1>2. ASSUME NEW j \in JobIds, Open(s, j) PROVE ApiInv'
  <2> DEFINE y == [Closed EXCEPT !.at = "open", !.job = j]
  <2>1. y \in Stream /\ y.at = "open" /\ y.job = j
    BY OpenValues, Zenon
  <2>2. StreamOK(y, jobs)
    BY <2>1 DEF StreamOK
  <2>3. stream' = [stream EXCEPT ![s] = y] /\ UNCHANGED <<storeVars, processVars, call>>
    BY <1>2 DEF Open
  <2> HIDE DEF y
  <2> QED
    BY <2>1, <2>2, <2>3, OneStreamInv
<1> QED
  BY <1>1, <1>2

LEMMA ApiNextInv == ApiInv /\ [ApiNext]_apiVars => ApiInv'
<1> SUFFICES ASSUME ApiInv, [ApiNext]_apiVars PROVE ApiInv'
  OBVIOUS
<1>0. /\ [StoreNext]_storeVars /\ api \in {"serving", "stopping", "stopped"}
      /\ loop \in [Reapers -> {"running", "ended"}]
  BY ApiStoreStep DEF ApiInv, ApiTypeOK
<1>1. ASSUME NEW c \in Operators, CallStep(c) PROVE ApiInv'
  BY <1>0, <1>1, CallStepInv
<1>2. ASSUME NEW c \in Operators, NEW op \in {"cancel", "retry"}, NEW j \in JobIds,
             Request(c, op, j)
      PROVE  ApiInv'
  BY <1>2, RequestInv
<1>3. ASSUME NEW s \in Watchers, Poll(s) \/ Leave(s) \/ \E j \in JobIds : Open(s, j)
      PROVE  ApiInv'
  BY <1>3, PollInv, OpenLeaveInv
<1>4. CASE Signal \/ Exit \/ Restart \/ \E r \in Reapers : LoopEnds(r)
  <2>1. /\ api' \in {"serving", "stopping", "stopped"}
        /\ loop' \in [Reapers -> {"running", "ended"}]
        /\ UNCHANGED <<call, stream>>
    BY <1>0, <1>4 DEF Signal, Exit, Restart, LoopEnds
  <2> QED
    BY <1>0, <2>1, OtherInv
<1>5. CASE UNCHANGED <<processVars, call, stream>>
  BY <1>0, <1>5, OtherInv DEF processVars
<1>6. ASSUME NEW r \in Reapers, Maintain(r) PROVE ApiInv'
  BY <1>5, <1>6 DEF Maintain, Sweeping
<1>7. CASE UNCHANGED apiVars
  BY <1>5, <1>7 DEF apiVars
<1> QED
  BY <1>1, <1>2, <1>3, <1>4, <1>5, <1>6, <1>7 DEF ApiNext

\* What the store, the calls and the streams keep true together.
THEOREM ApiInvariant == ApiSpec => []ApiInv
  BY ApiInitInv, ApiNextInv, PTL DEF ApiSpec

-----------------------------------------------------------------------------
(* What follows.                                                           *)

\* Every call, every stream and the process have their type.
THEOREM ApiTypeCorrect == ApiSpec => []ApiTypeOK
<1>1. ApiInv => ApiTypeOK
  BY DEF ApiInv
<1> QED
  BY <1>1, ApiInvariant, PTL

\* The API process, its maintenance loop and the workers around it use the store as its
\* general client may: what is proved of StoreSpec is true of the API system.
THEOREM ApiUsesStore == ApiSpec => StoreSpec
<1>1. ApiInit => StoreInit
  BY DEF ApiInit
<1> QED
  BY <1>1, ApiInvariant, ApiStoreStep, PTL DEF ApiSpec, StoreSpec

\* So is the API process with its clients, its sweeps and its restarts: cancels, retries
\* and sweeps of a process that stops half way keep the promises of the lease queue.
THEOREM ApiImplementsLeaseQueue == ApiSpec => ImplementsLeaseQueue
  BY ApiUsesStore, StoreImplementsLeaseQueue, PTL

\* An answer that a job is cancelled, or gone, and the last event of a stream that says
\* completed or cancelled, stay true whatever happens later.
THEOREM AnswersStayTrue == ApiSpec => []FinalAnswersHold
<1>1. ApiInv => FinalAnswersHold
  BY DEF ApiInv, CallOK, AnswerTrue, StreamOK, FinalAnswersHold
<1> QED
  BY <1>1, ApiInvariant, PTL
=============================================================================
