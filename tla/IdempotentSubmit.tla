--------------------------- MODULE IdempotentSubmit ---------------------------
(***************************************************************************)
(* What submission promises its callers, without statements or races: one  *)
(* atomic step decides every request.  It creates a job, unless a job is   *)
(* listed under the request's key; then that job is the answer.  A request *)
(* may fail, and the answer of a creation may be lost: the caller is told  *)
(* of an error and may ask again.  Submission implements this.             *)
(***************************************************************************)
CONSTANTS
    Clients, Ids, Requests,
    Accepted,    \* the requests that are valid
    EntryOf,     \* the index entry of each request, {} without a key
    None         \* no request, answer or job

VARIABLES
    life,        \* of each job: "free", "here" or "gone"
    entry,       \* the index entry of each job
    asks,        \* the request of each client
    says, job    \* the answer it was given

vars == <<life, entry, asks, says, job>>

Init ==
    /\ life = [i \in Ids |-> "free"]
    /\ entry = [i \in Ids |-> {}]
    /\ asks = [c \in Clients |-> None]
    /\ says = [c \in Clients |-> None]
    /\ job = [c \in Clients |-> None]

Listed(c) == {i \in Ids : life[i] = "here" /\ entry[i] # {} /\ entry[i] = EntryOf[asks[c]]}

Ask(c, r) ==
    /\ asks[c] = None \/ (says[c] = "error" /\ asks[c] = r)
    /\ asks' = [asks EXCEPT ![c] = r]
    /\ says' = [says EXCEPT ![c] = None]
    /\ job' = [job EXCEPT ![c] = None]
    /\ UNCHANGED <<life, entry>>

\* The answer to a request that has none yet.
Told(c, answer, i) ==
    /\ asks[c] \in Requests /\ says[c] = None
    /\ says' = [says EXCEPT ![c] = answer]
    /\ job' = [job EXCEPT ![c] = i]
    /\ UNCHANGED asks

Create(c, i) ==
    /\ asks[c] \in Accepted /\ Listed(c) = {} /\ life[i] = "free"
    /\ life' = [life EXCEPT ![i] = "here"]
    /\ entry' = [entry EXCEPT ![i] = EntryOf[asks[c]]]
    /\ Told(c, "created", i) \/ Told(c, "error", None)

Find(c, i) ==
    /\ asks[c] \in Accepted /\ i \in Listed(c)
    /\ Told(c, "existing", i)
    /\ UNCHANGED <<life, entry>>

Fail(c) ==
    /\ asks[c] \in Accepted
    /\ Told(c, "error", None)
    /\ UNCHANGED <<life, entry>>

Reject(c) ==
    /\ asks[c] \notin Accepted
    /\ Told(c, "rejected", None)
    /\ UNCHANGED <<life, entry>>

Forget(i) ==
    /\ life[i] = "here"
    /\ life' = [life EXCEPT ![i] = "gone"]
    /\ UNCHANGED <<entry, asks, says, job>>

Next ==
    \/ \E c \in Clients, r \in Requests : Ask(c, r)
    \/ \E c \in Clients, i \in Ids : Create(c, i) \/ Find(c, i)
    \/ \E c \in Clients : Fail(c) \/ Reject(c)
    \/ \E i \in Ids : Forget(i)

Spec == Init /\ [][Next]_vars
=============================================================================
