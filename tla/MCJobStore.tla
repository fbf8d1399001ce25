------------------------------ MODULE MCJobStore ------------------------------
(* Small instances of JobStore.  Times are ticks: a lease lasts one.         *)
EXTENDS JobStore, TLC

CONSTANTS j1, j2, q1, w1, w2, t1, t2, t3

\* One job, two attempts: everybody contends for the same row.
OneQueue == j1 :> q1
OnePriority == j1 :> 0
OneBudget == j1 :> 2
OneShot == j1 :> 1
OneDeadLetter == j1 :> TRUE
OneDelay == j1 :> <<1, 1>>
OneShotDelay == j1 :> <<1>>

\* Two jobs that differ in priority, budget, dead_letter and backoff.
TwoQueues == (j1 :> q1) @@ (j2 :> q1)
TwoPriorities == (j1 :> 1) @@ (j2 :> 0)
TwoBudgets == (j1 :> 1) @@ (j2 :> 2)
TwoDeadLetter == (j1 :> FALSE) @@ (j2 :> TRUE)
TwoDelays == (j1 :> <<1>>) @@ (j2 :> <<1, 2>>)

\* Two slots of one worker, and one slot of another.
ThreeSlots == (t1 :> w1) @@ (t2 :> w1) @@ (t3 :> w2)
OneSlot == t1 :> w1
TwoSlots == (t1 :> w1) @@ (t2 :> w2)
ServeAll == [w \in Workers |-> Queues]

\* Maintenance loops are interchangeable.
ReaperSymmetry == Permutations(Reapers)
=============================================================================
