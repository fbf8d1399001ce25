--------------------------- MODULE LeaseCoverProofs ---------------------------
(***************************************************************************)
(* For every timeout, lease length and slack, every number of slots and    *)
(* workers, and every delay within the promptness LeaseCover assumes: the  *)
(* lease outlasts each phase of execute_job, so that one slot at most runs *)
(* the job and its report is not refused.                                  *)
(***************************************************************************)
EXTENDS LeaseCover, TLAPS

USE SlotsAssumption, LengthsAssumption, PromptnessAssumption

Inv == TypeOK /\ LeaseOutlastsPhase

-----------------------------------------------------------------------------
(* A lease that outlasts its phase has not expired.                        *)

\* In every phase something is left, or exactly nothing, which is not yet expired.
LEMMA LeftIsNatural ==
    ASSUME Inv, NEW t \in Slots, Owns(t)
    PROVE  Left(t) \in Nat
<1>1. clock[t] \in Nat /\ clock[t] <= Bound(pc[t])
  BY DEF Inv, TypeOK, LeaseOutlastsPhase
<1> QED
  BY <1>1 DEF Owns, Left, Bound, cover

\* While a slot has the job, the reaper leaves it alone.
LEMMA OwnedNotExpired ==
    ASSUME Inv, NEW t \in Slots, Owns(t)
    PROVE  ~Expired
<1>1. status = "final" \/ lease_expires_at >= Left(t)
  BY DEF Inv, LeaseOutlastsPhase
<1>2. Left(t) \in Nat /\ lease_expires_at \in Int
  BY LeftIsNatural DEF Inv, TypeOK
<1> QED
  BY <1>1, <1>2 DEF Expired

-----------------------------------------------------------------------------
(* The invariant is inductive.                                             *)

\* Nobody has the job at first.
LEMMA InitInv == Init => Inv
BY DEF Init, Inv, TypeOK, LeaseOutlastsPhase, Phase, Bound, Owns

\* Every step keeps the types.
LEMMA TypeStep == TypeOK /\ [Next]_vars => TypeOK'
<1> SUFFICES ASSUME TypeOK, [Next]_vars PROVE TypeOK'
  OBVIOUS
<1> USE DEF TypeOK, Phase, rowVars
<1>1. ASSUME NEW t \in Slots, SlotStep(t) PROVE TypeOK'
  <2>1. CASE LeaseBegin(t) \/ RenewSend(t) \/ HandlerStarts(t) \/ HandlerEnds(t) \/ GiveUp(t)
    BY <2>1 DEF LeaseBegin, RenewSend, HandlerStarts, HandlerEnds, GiveUp, Enter
  <2>2. CASE LeaseCommit(t)
    BY <2>2 DEF LeaseCommit, Continue
  <2>3. CASE Renew(t)
    BY <2>3 DEF Renew, Continue, cover
  <2>4. CASE Report(t)
    BY <2>4 DEF Report, Release, Enter
  <2> QED
    BY <1>1, <2>1, <2>2, <2>3, <2>4 DEF SlotStep
<1>2. CASE Recover \/ Cancel \/ Retry
  BY <1>2 DEF Recover, Cancel, Retry, Release
<1>3. CASE Tick
  BY <1>3 DEF Tick
<1>4. CASE UNCHANGED vars
  BY <1>4 DEF vars
<1> QED
  BY <1>1, <1>2, <1>3, <1>4 DEF Next

\* A slot changes phase without touching the row, and leaves the lease long enough for
\* the phase it enters, or has the job no longer.
LEMMA PhaseChange ==
    ASSUME Inv, TypeOK', NEW t \in Slots, UNCHANGED rowVars,
           NEW phase \in Phase, Enter(t, phase),
           Owns(t)' => Owns(t) /\ Left(t)' <= Left(t)
    PROVE  LeaseOutlastsPhase'
<1> USE DEF Inv, TypeOK, Enter
<1>1. \A u \in Slots \ {t} : /\ pc'[u] = pc[u] /\ clock'[u] = clock[u]
                             /\ Owns(u)' = Owns(u) /\ Left(u)' = Left(u)
  BY DEF Owns, Left
<1>2. \A u \in Slots : clock'[u] <= Bound(pc'[u])
  BY <1>1 DEF LeaseOutlastsPhase, Bound, Phase
<1>3. \A u, v \in Slots : Owns(u)' /\ Owns(v)' => u = v
  BY <1>1 DEF LeaseOutlastsPhase
<1>4. ASSUME NEW u \in Slots, Owns(u)'
      PROVE  (status = "final" \/ (HoldsLease(u) /\ lease_expires_at >= Left(u)))'
  <2>1. Owns(u)
    BY <1>1, <1>4
  <2>2. status = "final" \/ (HoldsLease(u) /\ lease_expires_at >= Left(u))
    BY <2>1 DEF LeaseOutlastsPhase
  <2>3. Left(u) \in Nat /\ lease_expires_at \in Int
    BY <2>1, LeftIsNatural
  <2>4. Left(u)' \in Int
    BY <1>4 DEF Left, Owns, cover
  <2>5. Left(u)' <= Left(u)
    BY <1>1, <1>4, <2>3
  <2> QED
    BY <2>2, <2>3, <2>4, <2>5 DEF HoldsLease, rowVars
<1> QED
  BY <1>2, <1>3, <1>4 DEF LeaseOutlastsPhase

\* Every step keeps the invariant.
LEMMA InvStep == Inv /\ [Next]_vars => Inv'
<1> SUFFICES ASSUME Inv, [Next]_vars PROVE LeaseOutlastsPhase'
  BY TypeStep DEF Inv
<1> TypeOK'
  BY TypeStep DEF Inv
<1>1. ASSUME NEW t \in Slots, SlotStep(t) PROVE LeaseOutlastsPhase'
  <2>1. CASE LeaseBegin(t)
    <3>1. ~Owns(t)'
      BY <2>1 DEF LeaseBegin, Enter, Owns, Inv, TypeOK
    <3> QED
      BY <2>1, <3>1, PhaseChange DEF LeaseBegin, Phase
  <2>2. CASE LeaseCommit(t)
    <3>1. \A u \in Slots : ~Owns(u)
      BY <2>2 DEF LeaseCommit, Inv, LeaseOutlastsPhase, HoldsLease
    <3>2. \A u \in Slots \ {t} : ~Owns(u)'
      BY <2>2, <3>1 DEF LeaseCommit, Continue, Owns, Inv, TypeOK
    <3>3. pc'[t] = "leased" /\ clock' = clock
      BY <2>2 DEF LeaseCommit, Continue, Inv, TypeOK
    <3>4. (HoldsLease(t) /\ lease_expires_at >= Left(t))'
      BY <2>2, <3>3 DEF LeaseCommit, HoldsLease, Left, Inv, TypeOK
    <3>5. \A u \in Slots : clock'[u] <= Bound(pc'[u])
      BY <2>2, <3>3 DEF LeaseCommit, Continue, Bound, Inv, TypeOK, LeaseOutlastsPhase
    <3> QED
      BY <3>2, <3>4, <3>5 DEF LeaseOutlastsPhase
  <2>3. CASE RenewSend(t)
    <3>1. Owns(t) /\ Left(t)' <= Left(t)
      BY <2>3 DEF RenewSend, Enter, Owns, Left, Inv, TypeOK, LeaseOutlastsPhase, Bound
    <3> QED
      BY <2>3, <3>1, PhaseChange DEF RenewSend, Phase
  <2>4. CASE Renew(t)
    <3>1. pc'[t] = "renewed" /\ clock' = clock /\ Owns(t)
      BY <2>4 DEF Renew, Continue, Owns, Inv, TypeOK
    <3>2. \A u \in Slots \ {t} : ~Owns(u)'
      BY <2>4, <3>1 DEF Renew, Continue, Owns, Inv, TypeOK, LeaseOutlastsPhase
    <3>3. (HoldsLease(t) /\ lease_expires_at >= Left(t))'
      BY <2>4, <3>1 DEF Renew, HoldsLease, Left, cover, Inv, TypeOK
    <3>4. \A u \in Slots : clock'[u] <= Bound(pc'[u])
      BY <2>4, <3>1 DEF Renew, Continue, Bound, Inv, TypeOK, LeaseOutlastsPhase
    <3> QED
      BY <3>2, <3>3, <3>4 DEF LeaseOutlastsPhase
  <2>5. CASE HandlerStarts(t)
    <3>1. Owns(t) /\ Left(t)' <= Left(t)
      BY <2>5 DEF HandlerStarts, Enter, Owns, Left, cover, Inv, TypeOK, LeaseOutlastsPhase, Bound
    <3> QED
      BY <2>5, <3>1, PhaseChange DEF HandlerStarts, Phase
  <2>6. CASE HandlerEnds(t)
    <3>1. Owns(t) /\ Left(t)' <= Left(t)
      BY <2>6 DEF HandlerEnds, Enter, Owns, Left, cover, Inv, TypeOK, LeaseOutlastsPhase, Bound
    <3> QED
      BY <2>6, <3>1, PhaseChange DEF HandlerEnds, Phase
  <2>7. CASE Report(t)
    <3>1. \A u \in Slots : ~Owns(u)'
      BY <2>7 DEF Report, Enter, Owns, Inv, TypeOK, LeaseOutlastsPhase
    <3>2. \A u \in Slots : clock'[u] <= Bound(pc'[u])
      BY <2>7 DEF Report, Enter, Bound, Inv, TypeOK, LeaseOutlastsPhase
    <3> QED
      BY <3>1, <3>2 DEF LeaseOutlastsPhase
  <2>8. CASE GiveUp(t)
    <3>1. ~Owns(t)'
      BY <2>8 DEF GiveUp, Enter, Owns, Inv, TypeOK
    <3> QED
      BY <2>8, <3>1, PhaseChange DEF GiveUp, Phase
  <2> QED
    BY <1>1, <2>1, <2>2, <2>3, <2>4, <2>5, <2>6, <2>7, <2>8 DEF SlotStep
<1>2. CASE Recover
  <2>1. \A u \in Slots : ~Owns(u)
    BY <1>2, OwnedNotExpired DEF Recover
  <2> QED
    BY <1>2, <2>1 DEF Recover, Owns, Inv, LeaseOutlastsPhase
<1>3. CASE Cancel
  BY <1>3 DEF Cancel, Release, Owns, Inv, LeaseOutlastsPhase
<1>4. CASE Retry
  <2>1. \A u \in Slots : ~Owns(u)
    BY <1>4 DEF Retry, Inv, LeaseOutlastsPhase, HoldsLease
  <2> QED
    BY <1>4, <2>1 DEF Retry, Owns, Inv, LeaseOutlastsPhase
<1>5. CASE Tick
  <2> USE <1>5 DEF Tick, Inv, TypeOK
  <2>1. \A u \in Slots : clock'[u] <= Bound(pc'[u])
    BY DEF Bound
  <2>2. \A u \in Slots : Owns(u)' = Owns(u)
    BY DEF Owns
  <2>3. ASSUME NEW u \in Slots, Owns(u)
        PROVE  (status = "final" \/ (HoldsLease(u) /\ lease_expires_at >= Left(u)))'
    <3>1. status = "final" \/ (HoldsLease(u) /\ lease_expires_at >= Left(u))
      BY <2>3 DEF LeaseOutlastsPhase
    <3>2. Left(u)' = Left(u) - 1 /\ Left(u) \in Nat
      BY <2>3, LeftIsNatural DEF Left, Owns, cover
    <3> QED
      BY <3>1, <3>2 DEF HoldsLease
  <2> QED
    BY <2>1, <2>2, <2>3 DEF LeaseOutlastsPhase
<1>6. CASE UNCHANGED vars
  BY <1>6 DEF vars, Inv, LeaseOutlastsPhase, Owns, Left, HoldsLease
<1> QED
  BY <1>1, <1>2, <1>3, <1>4, <1>5, <1>6 DEF Next

-----------------------------------------------------------------------------
(* The theorems.                                                           *)

\* In every phase of execute_job the lease taken by lease_next or renew_lease outlasts
\* the phase, and one slot at most has the job.
THEOREM LeaseOutlastsEveryPhase == Spec => []LeaseOutlastsPhase
<1>1. Inv => LeaseOutlastsPhase
  BY DEF Inv
<1> QED
  BY <1>1, InitInv, InvStep, PTL DEF Spec

\* No two handlers run the same job at once, in one worker or in two.
THEOREM OneRunnerAtATime == Spec => []OneRunner
<1>1. Inv => OneRunner
  BY DEF Inv, LeaseOutlastsPhase, OneRunner, Owns
<1> QED
  BY <1>1, InitInv, InvStep, PTL DEF Spec

\* The report of a handler that ended in time finds the lease still held.
THEOREM ReportsFindTheirLease == Spec => []WorkIsNotLost
<1>1. ASSUME Inv PROVE WorkIsNotLost
  <2> SUFFICES ASSUME NEW t \in Slots, pc[t] = "reporting"
               PROVE  status = "final" \/ (HoldsLease(t) /\ ~Expired)
    BY DEF WorkIsNotLost
  <2>1. Owns(t)
    BY DEF Owns
  <2> QED
    BY <1>1, <2>1, OwnedNotExpired DEF Inv, LeaseOutlastsPhase
<1> QED
  BY <1>1, InitInv, InvStep, PTL DEF Spec
=============================================================================
