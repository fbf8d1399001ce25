------------------------- MODULE WorkerRegistryProofs -------------------------
(***************************************************************************)
(* For every number of workers and every interval, delay and TTL that      *)
(* satisfy TtlAssumption: pruning never removes a live worker that has not *)
(* lost more than MaxMissed heartbeats in a row.  The liveness properties  *)
(* of WorkerRegistry stay with TLC.                                        *)
(***************************************************************************)
EXTENDS WorkerRegistry, FiniteSetTheorems, TLAPS

USE RegistryAssumption, TtlAssumption

\* The timers stay within the bounds of MayPass and agree with the life of the process.
TimersBounded == \A w \in Workers :
    /\ timer[w] <= heartbeat_interval
    /\ beat[w] \in {"sent", "registering"} => timer[w] <= Delay
    /\ stopping[w] <= StopTime
    /\ life[w] \in {"new", "up"} => stopping[w] = 0
    /\ life[w] = "new" => missed[w] = 0
    /\ life[w] = "up" => beat[w] # "off"
    /\ life[w] \notin {"up", "stopping"} => beat[w] = "off"

Inv == TypeOK /\ TimersBounded /\ RowsAreFresh

\* IsFiniteSet(Workers), so that the gauge is a number.
LEMMA FewWorkers == \A S \in SUBSET Workers : Cardinality(S) \in Nat
<1> SUFFICES ASSUME NEW S \in SUBSET Workers PROVE Cardinality(S) \in Nat
  OBVIOUS
<1>1. IsFiniteSet(S)
  BY FS_Subset
<1> QED
  BY <1>1, FS_CardinalityType

-----------------------------------------------------------------------------
(* Arithmetic of the silence.                                              *)

\* Fewer lost heartbeats, less silence.
LEMMA FewerIsShorter ==
    ASSUME NEW m \in Nat, NEW n \in Nat, m <= n, NEW p \in Nat
    PROVE  m * p \in Nat /\ m * p <= n * p
<1>1. PICK k \in Nat : n = m + k
  <2> n - m \in Nat /\ n = m + (n - m)
    OBVIOUS
  <2> QED
    OBVIOUS
<1>2. m * p \in Nat /\ k * p \in Nat
  OBVIOUS
<1>3. (m + k) * p = m * p + k * p
  OBVIOUS
<1> QED
  BY <1>1, <1>2, <1>3

\* Within the promised number of lost heartbeats the silence does not exceed the TTL.
LEMMA SilenceWithinTtl ==
    ASSUME Inv, NEW w \in Workers, Alive(w), missed[w] <= MaxMissed
    PROVE  Silence(w) \in Nat /\ Silence(w) <= worker_ttl_secs
<1> DEFINE P == heartbeat_interval
           m == missed[w]
<1>1. m \in Nat /\ timer[w] \in Nat /\ stopping[w] \in Nat /\ P \in Nat
  BY DEF Inv, TypeOK
<1>2. (m + 1) * P \in Nat /\ (m + 1) * P <= (MaxMissed + 1) * P
  <2>1. m + 1 \in Nat /\ MaxMissed + 1 \in Nat /\ m + 1 <= MaxMissed + 1
    BY <1>1
  <2> QED
    BY <2>1, <1>1, FewerIsShorter
<1>3. m * P \in Nat /\ (m + 1) * P = m * P + P
  BY <1>1
<1>4. (MaxMissed + 1) * P \in Nat
  BY <1>1
<1> HIDE DEF m, P
<1>5. timer[w] <= P /\ stopping[w] <= StopTime
  BY DEF Inv, TimersBounded, P
<1>6. beat[w] \in {"sent", "registering"} => timer[w] <= Delay
  BY DEF Inv, TimersBounded
<1>7. life[w] = "up" => beat[w] \in {"waiting", "sent", "registering"}
  BY DEF Inv, TimersBounded, TypeOK
<1>8. (MaxMissed + 1) * P + Delay + StopTime <= worker_ttl_secs
  BY DEF P
<1>9. Silence(w) = CASE life[w] = "up" /\ beat[w] = "waiting" -> m * P + timer[w]
                     [] life[w] = "up" /\ beat[w] # "waiting" -> (m + 1) * P + timer[w]
                     [] OTHER -> (m + 1) * P + Delay + stopping[w]
  BY DEF Silence, m, P
<1>10. CASE life[w] = "up" /\ beat[w] = "waiting"
  BY <1>1, <1>2, <1>3, <1>4, <1>5, <1>8, <1>9, <1>10
<1>11. CASE life[w] = "up" /\ beat[w] # "waiting"
  BY <1>1, <1>2, <1>4, <1>6, <1>7, <1>8, <1>9, <1>11
<1>12. CASE life[w] # "up"
  BY <1>1, <1>2, <1>4, <1>5, <1>8, <1>9, <1>12
<1> QED
  BY <1>10, <1>11, <1>12

-----------------------------------------------------------------------------
(* The invariant is inductive.                                             *)

\* Nothing is registered yet.
LEMMA InitInv == Init => Inv
BY DEF Init, Inv, TypeOK, TimersBounded, RowsAreFresh, Alive

\* The age a statement leaves behind.
LEMMA TouchedAge ==
    ASSUME TypeOK, NEW w \in Workers, NEW since \in Nat, Touch(w, since)
    PROVE  /\ age' \in [Workers -> Nat \cup {NULL}]
           /\ age'[w] \in 0 .. since
           /\ \A u \in Workers \ {w} : age'[u] = age[u]
BY DEF Touch, TypeOK

\* Every step keeps the types.
LEMMA TypeStep == TypeOK /\ [Next]_vars => TypeOK'
<1> SUFFICES ASSUME TypeOK, [Next]_vars PROVE TypeOK'
  OBVIOUS
<1> USE DEF processVars, maintVars
<1>1. ASSUME NEW w \in Workers, ProcessStep(w) PROVE TypeOK'
  <2>1. CASE Register(w)
    BY <2>1, TouchedAge DEF Register, TypeOK
  <2>2. CASE RegisterFails(w)
    BY <2>2, TouchedAge DEF RegisterFails, Ends, TypeOK
  <2>3. CASE Shutdown(w) \/ StopsBeating(w) \/ Crash(w)
    BY <2>3 DEF Shutdown, StopsBeating, Crash, Ends, DropsBeat, TypeOK
  <2>4. CASE Deregister(w)
    BY <2>4 DEF Deregister, Ends, Delete, TypeOK
  <2> QED
    BY <1>1, <2>1, <2>2, <2>3, <2>4 DEF ProcessStep
<1>2. ASSUME NEW w \in Workers, BeatStep(w) PROVE TypeOK'
  <2>0. timer[w] \in Nat
    BY DEF TypeOK
  <2>1. CASE BeatTick(w) \/ BeatSeesShutdown(w) \/ HeartbeatFindsNoRow(w)
    BY <2>1 DEF BeatTick, BeatSeesShutdown, HeartbeatFindsNoRow, TypeOK
  <2>2. CASE Heartbeat(w) \/ Reregister(w)
    BY <2>0, <2>2, TouchedAge DEF Heartbeat, Reregister, TypeOK
  <2>3. CASE BeatFails(w)
    BY <2>0, <2>3, TouchedAge DEF BeatFails, TypeOK
  <2>4. CASE LateInsert(w)
    BY <2>4, TouchedAge DEF LateInsert, TypeOK
  <2> QED
    BY <1>2, <2>1, <2>2, <2>3, <2>4 DEF BeatStep
<1>3. CASE Prune
  BY <1>3 DEF Prune, Delete, TypeOK
<1>4. CASE CountActive
  <2>1. gauge' \in Nat
    BY <1>4, FewWorkers DEF CountActive
  <2> QED
    BY <1>4, <2>1 DEF CountActive, TypeOK
<1>5. CASE SweepFails
  BY <1>5 DEF SweepFails, TypeOK
<1>6. CASE Tick
  BY <1>6 DEF Tick, TypeOK
<1>7. CASE UNCHANGED vars
  BY <1>7 DEF vars, TypeOK
<1> QED
  BY <1>1, <1>2, <1>3, <1>4, <1>5, <1>6, <1>7 DEF Next

\* Every step keeps the timers within their bounds.
LEMMA TimersStep == TypeOK /\ TimersBounded /\ [Next]_vars => TimersBounded'
<1> SUFFICES ASSUME TypeOK, TimersBounded, [Next]_vars PROVE TimersBounded'
  OBVIOUS
<1> USE DEF processVars, maintVars, TypeOK, TimersBounded
<1>1. ASSUME NEW w \in Workers, ProcessStep(w) PROVE TimersBounded'
  <2>1. CASE Register(w)
    BY <2>1 DEF Register
  <2>2. CASE RegisterFails(w) \/ Deregister(w) \/ Crash(w)
    BY <2>2 DEF RegisterFails, Deregister, Crash, Ends
  <2>3. CASE Shutdown(w) \/ StopsBeating(w)
    BY <2>3 DEF Shutdown, StopsBeating
  <2> QED
    BY <1>1, <2>1, <2>2, <2>3 DEF ProcessStep
<1>2. ASSUME NEW w \in Workers, BeatStep(w) PROVE TimersBounded'
  BY <1>2 DEF BeatStep, BeatTick, BeatSeesShutdown, HeartbeatFindsNoRow, Heartbeat,
              Reregister, BeatFails, LateInsert
<1>3. CASE Prune \/ CountActive \/ SweepFails
  BY <1>3 DEF Prune, CountActive, SweepFails
<1>4. CASE Tick
  BY <1>4 DEF Tick, MayPass
<1>5. CASE UNCHANGED vars
  BY <1>5 DEF vars
<1> QED
  BY <1>1, <1>2, <1>3, <1>4, <1>5 DEF Next

Fresh(w) == Alive(w) /\ missed[w] <= MaxMissed => age[w] # NULL /\ age[w] <= Silence(w)

\* A step that leaves the row and the process of w alone leaves it fresh.
LEMMA UntouchedFresh ==
    ASSUME NEW w \in Workers, Fresh(w), age'[w] = age[w], life'[w] = life[w],
           beat'[w] = beat[w], timer'[w] = timer[w], stopping'[w] = stopping[w],
           missed'[w] = missed[w]
    PROVE  Fresh(w)'
BY DEF Fresh, Alive, Silence

\* A process that is not alive promises nothing.
LEMMA NotAliveFresh ==
    ASSUME NEW w \in Workers, ~Alive(w)' PROVE Fresh(w)'
BY DEF Fresh

\* Starting, stopping and dying.
LEMMA ProcessFresh ==
    ASSUME Inv, NEW w \in Workers, ProcessStep(w)
    PROVE  \A u \in Workers : Fresh(u)'
<1> SUFFICES ASSUME NEW u \in Workers PROVE Fresh(u)'
  OBVIOUS
<1> Fresh(u)
  BY DEF Inv, RowsAreFresh, Fresh
<1> USE DEF Inv, TypeOK, processVars
<1>1. CASE u # w
  <2>1. age'[u] = age[u]
    BY <1>1, TouchedAge DEF ProcessStep, Register, RegisterFails, Shutdown, StopsBeating,
                            Deregister, Crash, Delete
  <2>2. /\ life'[u] = life[u] /\ beat'[u] = beat[u] /\ timer'[u] = timer[u]
        /\ stopping'[u] = stopping[u] /\ missed'[u] = missed[u]
    BY <1>1 DEF ProcessStep, Register, RegisterFails, Shutdown, StopsBeating, Deregister,
                Crash, Ends
  <2> QED
    BY <2>1, <2>2, UntouchedFresh
<1>2. CASE u = w /\ Register(w)
  <2>1. age'[w] \in 0 .. Delay
    BY <1>2, TouchedAge DEF Register
  <2>2. /\ life'[w] = "up" /\ beat'[w] = "waiting" /\ timer'[w] = heartbeat_interval
        /\ missed'[w] = 0
    BY <1>2 DEF Register, TimersBounded
  <2>3. Silence(w)' = heartbeat_interval
    BY <2>2 DEF Silence
  <2> QED
    BY <1>2, <2>1, <2>3 DEF Fresh
<1>3. CASE u = w /\ Shutdown(w)
  <2> DEFINE m == missed[w]
             P == heartbeat_interval
  <2>1. /\ life[w] = "up" /\ life'[w] = "stopping" /\ stopping'[w] = 0
        /\ age' = age /\ missed' = missed
    BY <1>3 DEF Shutdown, TimersBounded
  <2>2. Silence(w)' = (m + 1) * P + Delay
    BY <2>1 DEF Silence
  <2>3. Silence(w) = IF beat[w] = "waiting" THEN m * P + timer[w] ELSE (m + 1) * P + timer[w]
    BY <2>1 DEF Silence
  <2>4. m * P \in Nat /\ (m + 1) * P = m * P + P
    OBVIOUS
  <2>5. /\ timer[w] \in Nat /\ timer[w] <= P
        /\ beat[w] # "waiting" => timer[w] <= Delay
    BY <2>1 DEF TimersBounded
  <2>6. age[w] \in Nat \cup {NULL}
    OBVIOUS
  <2> HIDE DEF m, P
  <2>7. P \in Nat /\ Delay \in Nat
    BY DEF P
  <2>8. Silence(w) \in Nat /\ Silence(w)' \in Nat /\ Silence(w) <= Silence(w)'
    BY <2>2, <2>3, <2>4, <2>5, <2>7
  <2> QED
    BY <1>3, <2>1, <2>6, <2>8 DEF Fresh, Alive
<1>4. CASE u = w /\ ~Register(w) /\ ~Shutdown(w)
  <2>1. ~Alive(w)'
    BY <1>4 DEF ProcessStep, RegisterFails, StopsBeating, Deregister, Crash, Ends, Alive
  <2> QED
    BY <1>4, <2>1, NotAliveFresh
<1> QED
  BY <1>1, <1>2, <1>3, <1>4

\* Heartbeats, sent, lost and late.
LEMMA BeatFresh ==
    ASSUME Inv, NEW w \in Workers, BeatStep(w)
    PROVE  \A u \in Workers : Fresh(u)'
<1> SUFFICES ASSUME NEW u \in Workers PROVE Fresh(u)'
  OBVIOUS
<1> Fresh(u)
  BY DEF Inv, RowsAreFresh, Fresh
<1> USE DEF Inv, TypeOK, processVars
<1> DEFINE m == missed[w]
           P == heartbeat_interval
<1>0. /\ m * P \in Nat /\ (m + 1) * P = m * P + P /\ (m + 2) * P = m * P + P + P
      /\ P \in Nat /\ m \in Nat /\ timer[w] \in Nat /\ stopping[w] \in Nat
      /\ age[w] \in Nat \cup {NULL}
  OBVIOUS
<1>1. CASE u # w
  <2>1. age'[u] = age[u]
    BY <1>0, <1>1, TouchedAge DEF BeatStep, BeatTick, BeatSeesShutdown, Heartbeat,
                            HeartbeatFindsNoRow, Reregister, BeatFails, LateInsert
  <2>2. /\ life'[u] = life[u] /\ beat'[u] = beat[u] /\ timer'[u] = timer[u]
        /\ stopping'[u] = stopping[u] /\ missed'[u] = missed[u]
    BY <1>1 DEF BeatStep, BeatTick, BeatSeesShutdown, Heartbeat,
                HeartbeatFindsNoRow, Reregister, BeatFails, LateInsert
  <2> QED
    BY <2>1, <2>2, UntouchedFresh
<1>2. CASE u = w /\ BeatTick(w)
  <2>1. /\ age' = age /\ missed' = missed /\ life' = life /\ stopping' = stopping
        /\ beat[w] = "waiting" /\ beat'[w] = "sent" /\ timer[w] = P /\ timer'[w] = 0
    BY <1>2 DEF BeatTick
  <2>2. Silence(w)' = IF life[w] = "up" THEN (m + 1) * P ELSE (m + 1) * P + Delay + stopping[w]
    BY <2>1 DEF Silence
  <2>3. Silence(w) = IF life[w] = "up" THEN m * P + P ELSE (m + 1) * P + Delay + stopping[w]
    BY <2>1 DEF Silence
  <2>4. Silence(w)' = Silence(w)
    BY <1>0, <2>2, <2>3
  <2> QED
    BY <1>2, <2>1, <2>4 DEF Fresh, Alive
<1>3. CASE u = w /\ BeatSeesShutdown(w)
  <2>1. /\ age' = age /\ missed' = missed /\ life' = life /\ stopping' = stopping
        /\ life[w] = "stopping"
    BY <1>3 DEF BeatSeesShutdown
  <2>2. Silence(w)' = Silence(w)
    BY <2>1 DEF Silence
  <2> QED
    BY <1>3, <2>1, <2>2 DEF Fresh, Alive
<1>4. CASE u = w /\ (Heartbeat(w) \/ Reregister(w))
  <2>1. age'[w] \in 0 .. timer[w]
    BY <1>0, <1>4, TouchedAge DEF Heartbeat, Reregister
  <2>2. /\ life' = life /\ stopping' = stopping /\ timer' = timer /\ missed'[w] = 0
        /\ beat'[w] = "waiting" /\ timer[w] <= P
    BY <1>4 DEF Heartbeat, Reregister, TimersBounded
  <2>3. Silence(w)' = IF life[w] = "up" THEN timer[w] ELSE P + Delay + stopping[w]
    BY <1>0, <2>2 DEF Silence
  <2>4. age'[w] # NULL /\ age'[w] <= Silence(w)'
    BY <1>0, <2>1, <2>2, <2>3
  <2> QED
    BY <1>4, <2>4 DEF Fresh
<1>5. CASE u = w /\ HeartbeatFindsNoRow(w)
  BY <1>5 DEF HeartbeatFindsNoRow, Fresh, Alive
<1>6. CASE u = w /\ BeatFails(w)
  <2> SUFFICES ASSUME Alive(w)', missed'[w] <= MaxMissed
               PROVE  age'[w] # NULL /\ age'[w] <= Silence(w)'
    BY <1>6 DEF Fresh
  <2>1. /\ life' = life /\ stopping' = stopping /\ timer' = timer /\ beat'[w] = "waiting"
        /\ beat[w] \in {"sent", "registering"} /\ timer[w] <= P
    BY <1>6 DEF BeatFails, TimersBounded
  <2>2. missed'[w] = m + 1 /\ m <= MaxMissed
    BY <1>0, <1>6 DEF BeatFails
  <2>3. age'[w] = age[w] \/ age'[w] \in 0 .. timer[w]
    BY <1>0, <1>6, TouchedAge DEF BeatFails
  <2>4. age[w] # NULL /\ age[w] <= Silence(w)
    BY <1>6, <2>1, <2>2 DEF Fresh, Alive
  <2>5. Silence(w)' = IF life[w] = "up" THEN (m + 1) * P + timer[w]
                      ELSE ((m + 1) + 1) * P + Delay + stopping[w]
    BY <2>1, <2>2 DEF Silence
  <2>6. Silence(w) = IF life[w] = "up" THEN (m + 1) * P + timer[w]
                     ELSE (m + 1) * P + Delay + stopping[w]
    BY <2>1 DEF Silence
  <2>7. ((m + 1) + 1) * P = m * P + P + P
    BY <1>0
  <2> HIDE DEF m, P
  <2> QED
    BY <1>0, <2>1, <2>3, <2>4, <2>5, <2>6, <2>7
<1>7. CASE u = w /\ LateInsert(w)
  <2>1. /\ life' = life /\ stopping' = stopping /\ timer' = timer /\ beat' = beat
        /\ missed' = missed /\ Silence(w)' = Silence(w)
    BY <1>7 DEF LateInsert, Silence
  <2>2. age'[w] = age[w] \/ age'[w] = 0
    BY <1>7, TouchedAge DEF LateInsert
  <2>3. Alive(w) /\ missed[w] <= MaxMissed => Silence(w) \in Nat
    BY SilenceWithinTtl
  <2> QED
    BY <1>7, <2>1, <2>2, <2>3 DEF Fresh, Alive
<1> QED
  BY <1>1, <1>2, <1>3, <1>4, <1>5, <1>6, <1>7 DEF BeatStep

\* The sweep and the clock.
LEMMA OtherFresh ==
    ASSUME Inv, Prune \/ CountActive \/ SweepFails \/ Tick \/ UNCHANGED vars
    PROVE  \A u \in Workers : Fresh(u)'
<1> SUFFICES ASSUME NEW u \in Workers PROVE Fresh(u)'
  OBVIOUS
<1> Fresh(u)
  BY DEF Inv, RowsAreFresh, Fresh
<1> USE DEF Inv, TypeOK, processVars
<1>1. CASE Prune
  <2>1. Alive(u) /\ missed[u] <= MaxMissed => ~Dead(u)
    <3>1. Alive(u) /\ missed[u] <= MaxMissed
            => Silence(u) \in Nat /\ Silence(u) <= worker_ttl_secs
      BY SilenceWithinTtl
    <3> QED
      BY <3>1 DEF Fresh, Dead
  <2>2. Silence(u)' = Silence(u)
    BY <1>1 DEF Prune, Silence
  <2>3. ~Dead(u) => age'[u] = age[u]
    BY <1>1 DEF Prune, Delete
  <2> QED
    BY <1>1, <2>1, <2>2, <2>3 DEF Prune, Fresh, Alive
<1>2. CASE CountActive \/ SweepFails
  BY <1>2, UntouchedFresh DEF CountActive, SweepFails
<1>3. CASE Tick
  <2> SUFFICES ASSUME Alive(u), missed[u] <= MaxMissed
               PROVE  age'[u] # NULL /\ age'[u] <= Silence(u)'
    BY <1>3 DEF Tick, Fresh, Alive
  <2> DEFINE m == missed[u]
             P == heartbeat_interval
  <2>1. /\ life' = life /\ beat' = beat /\ missed' = missed
        /\ life[u] = "up" => timer'[u] = timer[u] + 1
        /\ life[u] = "stopping" => stopping'[u] = stopping[u] + 1
        /\ timer[u] \in Nat /\ stopping[u] \in Nat
    BY <1>3 DEF Tick, TimersBounded
  <2>2. age[u] \in Nat /\ age[u] <= Silence(u) /\ Silence(u) \in Nat
    BY SilenceWithinTtl DEF Fresh
  <2>3. age'[u] \in Nat /\ age'[u] <= age[u] + 1
    BY <1>3, <2>2 DEF Tick
  <2>4. m * P \in Nat /\ (m + 1) * P \in Nat
    OBVIOUS
  <2>5. Silence(u)' = Silence(u) + 1
    BY <2>1, <2>4 DEF Silence, Alive
  <2> QED
    BY <2>2, <2>3, <2>5
<1>4. CASE UNCHANGED vars
  BY <1>4, UntouchedFresh DEF vars
<1> QED
  BY <1>1, <1>2, <1>3, <1>4

\* Every step keeps the invariant.
LEMMA InvStep == Inv /\ [Next]_vars => Inv'
<1> SUFFICES ASSUME Inv, [Next]_vars PROVE Inv'
  OBVIOUS
<1>1. TypeOK' /\ TimersBounded'
  BY TypeStep, TimersStep DEF Inv
<1>2. \A u \in Workers : Fresh(u)'
  BY ProcessFresh, BeatFresh, OtherFresh DEF Next
<1> QED
  BY <1>1, <1>2 DEF Inv, RowsAreFresh, Fresh

-----------------------------------------------------------------------------
(* The theorems.                                                           *)

\* The row of a live worker is never older than the heartbeats it has lost explain.
THEOREM RowsStayFresh == Spec => []RowsAreFresh
<1>1. Inv => RowsAreFresh
  BY DEF Inv
<1> QED
  BY <1>1, InitInv, InvStep, PTL DEF Spec

\* prune_dead_workers never removes the row of a live worker that has lost no more than
\* MaxMissed heartbeats in a row, draining workers included.
THEOREM LiveWorkersStayListed == Spec => []LiveWorkersListed
<1>1. Inv => LiveWorkersListed
  BY DEF Inv, RowsAreFresh, LiveWorkersListed
<1> QED
  BY <1>1, InitInv, InvStep, PTL DEF Spec
=============================================================================
