------------------------------ MODULE LeaseQueue ------------------------------
(***************************************************************************)
(* What the queue promises its users, without rows, statements, locks,     *)
(* clocks or processes: a job is put, taken by one worker at a time, and   *)
(* every time it is taken it uses up one of its attempts; it comes back    *)
(* while attempts are left and is parked when they are not.  JobStore      *)
(* implements this specification.                                          *)
(***************************************************************************)
EXTENDS Naturals

CONSTANTS
    JobIds,
    Workers,
    Nobody,        \* not a worker
    MaxAttempts    \* the budget of each job, at least one

VARIABLES
    phase,    \* where each job is in its life
    holder,   \* the worker that has taken it
    used      \* attempts used since it was put or revived

vars == <<phase, holder, used>>

Phase == {"absent", "waiting", "held", "parked", "completed", "cancelled", "gone"}

Init ==
    /\ phase = [j \in JobIds |-> "absent"]
    /\ holder = [j \in JobIds |-> Nobody]
    /\ used = [j \in JobIds |-> 0]

Put(j) ==
    /\ phase[j] = "absent"
    /\ phase' = [phase EXCEPT ![j] = "waiting"]
    /\ used' = [used EXCEPT ![j] = 0]
    /\ UNCHANGED holder

Take(j, w) ==
    /\ phase[j] = "waiting"
    /\ used[j] < MaxAttempts[j]
    /\ phase' = [phase EXCEPT ![j] = "held"]
    /\ holder' = [holder EXCEPT ![j] = w]
    /\ used' = [used EXCEPT ![j] = @ + 1]

\* Done, while it is held.
Complete(j) ==
    /\ phase[j] = "held"
    /\ phase' = [phase EXCEPT ![j] = "completed"]
    /\ holder' = [holder EXCEPT ![j] = Nobody]
    /\ UNCHANGED used

\* Called off, before or while it is held.
Cancel(j) ==
    /\ phase[j] \in {"waiting", "held"}
    /\ phase' = [phase EXCEPT ![j] = "cancelled"]
    /\ holder' = [holder EXCEPT ![j] = Nobody]
    /\ UNCHANGED used

\* Jobs given back by their holders or taken from them: each waits for another
\* attempt if it has one left, and is parked otherwise.
GiveBack(S) ==
    /\ \A j \in S : phase[j] = "held"
    /\ phase' = [j \in JobIds |->
                   IF j \notin S THEN phase[j]
                   ELSE IF used[j] < MaxAttempts[j] THEN "waiting" ELSE "parked"]
    /\ holder' = [j \in JobIds |-> IF j \in S THEN Nobody ELSE holder[j]]
    /\ UNCHANGED used

Revive(j) ==
    /\ phase[j] = "parked"
    /\ phase' = [phase EXCEPT ![j] = "waiting"]
    /\ used' = [used EXCEPT ![j] = 0]
    /\ UNCHANGED holder

Forget(S) ==
    /\ \A j \in S : phase[j] \in {"completed", "cancelled"}
    /\ phase' = [j \in JobIds |-> IF j \in S THEN "gone" ELSE phase[j]]
    /\ used' = [j \in JobIds |-> IF j \in S THEN 0 ELSE used[j]]
    /\ UNCHANGED holder

Next ==
    \/ \E j \in JobIds : Put(j) \/ Complete(j) \/ Cancel(j) \/ Revive(j)
    \/ \E j \in JobIds, w \in Workers : Take(j, w)
    \/ \E S \in SUBSET JobIds : GiveBack(S) \/ Forget(S)

Spec == Init /\ [][Next]_vars
=============================================================================
