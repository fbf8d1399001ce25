------------------------- MODULE RetryScheduleProofs -------------------------
(***************************************************************************)
(* The retry delays, proved for every policy, budget and range of columns. *)
(* The provers know nothing of powers of two, and the induction theorems   *)
(* of the library take an operator they cannot instantiate.  Both are      *)
(* rebuilt here: induction over a set of numbers, from the least number    *)
(* of its complement, and the powers of two as the number of subsets of    *)
(* 1 .. n.                                                                 *)
(***************************************************************************)
EXTENDS RetrySchedule, FiniteSetTheorems, WellFoundedInduction, TLAPS

\* Every non-empty set of numbers has a least one.
LEMMA LeastNumber ==
    ASSUME NEW T, T \subseteq Nat, T # {}
    PROVE  \E x \in T : \A y \in T : x <= y
<1> DEFINE R == OpToRel(<, Nat)
<1>1. IsWellFoundedOn(R, Nat)
  BY NatLessThanWellFounded
<1>2. \A x, y \in Nat : x < y => <<x, y>> \in R
  BY DEF OpToRel
<1> HIDE DEF R
<1>3. PICK x \in T : \A y \in T : ~ (<<y, x>> \in R)
  BY <1>1, WFMin
<1>4. ASSUME NEW y \in T PROVE x <= y
  <2>1. x \in Nat /\ y \in Nat /\ ~ (y < x)
    BY <1>2, <1>3
  <2> QED
    BY <2>1
<1> QED
  BY <1>4

\* Induction: a set with zero and the successor of each of its numbers has them all.
LEMMA Induction ==
    ASSUME NEW S, 0 \in S, \A n \in Nat : n \in S => n + 1 \in S
    PROVE  \A n \in Nat : n \in S
<1> SUFFICES ASSUME NEW m \in Nat, m \notin S PROVE FALSE
  OBVIOUS
<1> DEFINE T == {n \in Nat : n \notin S}
<1>1. PICK x \in T : \A y \in T : x <= y
  BY LeastNumber
<1>2. x # 0 /\ x - 1 \in Nat /\ x - 1 \notin T
  BY <1>1
<1> QED
  BY <1>2

-----------------------------------------------------------------------------
\* 2^n counts the subsets of 1 .. n, and is therefore a number.
LEMMA PowerCounts ==
    ASSUME NEW n \in Nat
    PROVE  /\ IsFiniteSet(SUBSET (1 .. n))
           /\ Cardinality(SUBSET (1 .. n)) = 2 ^ n
           /\ 2 ^ n \in Nat
<1>1. IsFiniteSet(1 .. n) /\ Cardinality(1 .. n) = n
  BY FS_Interval
<1>2. IsFiniteSet(SUBSET (1 .. n)) /\ Cardinality(SUBSET (1 .. n)) = 2 ^ n
  BY <1>1, FS_SUBSET
<1> QED
  BY <1>2, FS_CardinalityType

\* One more element doubles the subsets: those with it match those without.
LEMMA PowerDoubles ==
    ASSUME NEW n \in Nat
    PROVE  2 ^ (n + 1) = 2 * 2 ^ n
<1> DEFINE A == SUBSET (1 .. n)
           B == SUBSET (1 .. (n + 1))
           C == B \ A
           f == [s \in A |-> s \cup {n + 1}]
<1>1. f \in Bijection(A, C)
  <2>1. ASSUME NEW s \in A PROVE s \cup {n + 1} \in C
    OBVIOUS
  <2>2. ASSUME NEW s \in A, NEW t \in A, f[s] = f[t] PROVE s = t
    <3>1. n + 1 \notin s /\ n + 1 \notin t
      OBVIOUS
    <3> QED
      BY <3>1, <2>2
  <2>3. ASSUME NEW c \in C PROVE \E s \in A : f[s] = c
    <3>1. n + 1 \in c
      OBVIOUS
    <3>2. c \ {n + 1} \in A
      OBVIOUS
    <3>3. f[c \ {n + 1}] = c
      BY <3>1, <3>2
    <3> QED
      BY <3>2, <3>3
  <2> QED
    BY <2>1, <2>2, <2>3 DEF Bijection, Injection, Surjection, IsInjective
<1>2. IsFiniteSet(C) /\ Cardinality(C) = Cardinality(A)
  BY <1>1, PowerCounts, FS_Bijection DEF ExistsBijection
<1>3. Cardinality(C) = Cardinality(B) - Cardinality(A)
  <2>1. B \cap A = A
    OBVIOUS
  <2>2. IsFiniteSet(B)
    BY PowerCounts, n + 1 \in Nat
  <2>3. Cardinality(B \ A) = Cardinality(B) - Cardinality(B \cap A)
    BY <2>2, FS_Difference
  <2> QED
    BY <2>1, <2>3
<1> HIDE DEF A, B, C, f
<1>4. Cardinality(A) = 2 ^ n /\ 2 ^ n \in Nat
  BY PowerCounts DEF A
<1>5. Cardinality(B) = 2 ^ (n + 1) /\ 2 ^ (n + 1) \in Nat
  BY PowerCounts, n + 1 \in Nat DEF B
<1> QED
  BY <1>2, <1>3, <1>4, <1>5

\* Powers of two are at least one, and grow with the exponent.
LEMMA PowerGrows ==
    ASSUME NEW k \in Nat, NEW n \in Nat, k <= n
    PROVE  1 <= 2 ^ k /\ 2 ^ k <= 2 ^ n
<1> DEFINE S == {m \in Nat : 1 <= 2 ^ m /\ (k <= m => 2 ^ k <= 2 ^ m)}
<1>1. 0 \in S
  <2>1. 2 ^ 0 = 1
    OBVIOUS
  <2>2. ASSUME k <= 0 PROVE 2 ^ k = 1
    <3>1. k = 0
      BY <2>2
    <3> QED
      BY <2>1, <3>1, Zenon
  <2>3. 1 <= 2 ^ 0 /\ (k <= 0 => 2 ^ k <= 2 ^ 0)
    <3> DEFINE u == 2 ^ k
               z == 2 ^ 0
    <3>1. z = 1 /\ (k <= 0 => u = 1)
      BY <2>1, <2>2
    <3> HIDE DEF u, z
    <3>2. 1 <= z /\ (k <= 0 => u <= z)
      BY <3>1
    <3> QED
      BY <3>2 DEF u, z
  <2> QED
    BY <2>3
<1>2. ASSUME NEW m \in Nat, m \in S PROVE m + 1 \in S
  <2>1. 2 ^ (m + 1) = 2 * 2 ^ m /\ 2 ^ m \in Nat /\ 1 <= 2 ^ m
    BY <1>2, PowerDoubles, PowerCounts
  <2>2. CASE k <= m
    BY <1>2, <2>1, <2>2
  <2>3. CASE ~ (k <= m)
    BY <2>1, <2>3, k <= m + 1 => k = m + 1
  <2> QED
    BY <2>2, <2>3
<1>3. \A m \in Nat : m \in S
  BY <1>1, <1>2, Induction
<1>4. k \in S /\ n \in S
  BY <1>3
<1> QED
  BY <1>4

\* Multiplying keeps the order.
LEMMA Times ==
    ASSUME NEW a \in Nat, NEW x \in Nat, NEW y \in Nat, x <= y
    PROVE  a * x \in Nat /\ a * x <= a * y /\ (a >= 1 => x <= a * x)
  OBVIOUS

-----------------------------------------------------------------------------
\* The delay of the policy in closed form: min(base * 2^(n-1), max).
Capped(p, n) == AtMost(p.base * 2 ^ (n - 1), p.max)

\* What submission makes of any two numbers of the columns' range.
Policy == {p \in [base : Nat, max : Nat] :
              1 <= p.base /\ p.base <= p.max /\ p.max < 2 ^ ExpCap}

\* The closed form starts at the base, doubles until the ceiling, and never shrinks.
LEMMA CappedDoubles ==
    ASSUME NEW p \in Policy, NEW n \in Nat, n >= 1
    PROVE  /\ Capped(p, n) \in p.base .. p.max
           /\ Capped(p, 1) = p.base
           /\ Capped(p, n + 1) = AtMost(2 * Capped(p, n), p.max)
           /\ Capped(p, n) <= Capped(p, n + 1)
<1>1. p.base \in Nat /\ p.max \in Nat /\ 1 <= p.base /\ p.base <= p.max
  BY DEF Policy
<1> DEFINE w == 2 ^ (n - 1)
<1>2. n - 1 \in Nat /\ n - 1 + 1 = n
  OBVIOUS
<1>3. w \in Nat /\ 1 <= w /\ 2 ^ n = 2 * w
  BY <1>2, PowerCounts, PowerDoubles, PowerGrows, n - 1 <= n - 1
<1>4. 2 ^ (1 - 1) = 1
  OBVIOUS
<1>5. Capped(p, 1) = p.base
  BY <1>1, <1>4 DEF Capped, AtMost
<1> HIDE DEF w
<1> DEFINE v == p.base * w
<1>6. v \in Nat /\ p.base <= v
  BY <1>1, <1>3, Times
<1>7. p.base * 2 ^ n = 2 * v
  BY <1>1, <1>3
<1>8. Capped(p, n) = AtMost(v, p.max)
  BY DEF Capped, w
<1>9. Capped(p, n + 1) = AtMost(2 * v, p.max)
  BY <1>7, n + 1 - 1 = n DEF Capped
<1> HIDE DEF v
<1> QED
  BY <1>1, <1>5, <1>6, <1>8, <1>9 DEF AtMost

\* It is the recursion: the only function that starts at the base and doubles, cut at
\* the ceiling, agrees with the closed form at every attempt.
LEMMA DoublingIsCapped ==
    ASSUME row \in Policy, NEW n \in 1 .. MaxAttempts
    PROVE  Doubling[n] = Capped(row, n)
<1> DEFINE D == 1 .. MaxAttempts
           step(g, k) == IF k = 1 THEN row.base
                         ELSE IF 2 * g[k - 1] > row.max THEN row.max ELSE 2 * g[k - 1]
           F == [k \in D |-> Capped(row, k)]
           d == CHOOSE g : g = [k \in D |-> step(g, k)]
<1>1. Doubling = d
  BY DEF Doubling
<1>2. MaxAttempts \in Nat
  BY ScheduleAssumption
<1>3. ASSUME NEW k \in D PROVE F[k] = step(F, k)
  <2>1. CASE k = 1
    BY <2>1, CappedDoubles
  <2>2. CASE k # 1
    <3>1. k - 1 \in Nat /\ k - 1 >= 1 /\ k - 1 + 1 = k /\ k - 1 \in D
      BY <1>2, <2>2
    <3>2. Capped(row, k) = AtMost(2 * Capped(row, k - 1), row.max)
      BY <3>1, CappedDoubles
    <3>3. F[k] = Capped(row, k) /\ F[k - 1] = Capped(row, k - 1)
      BY <3>1
    <3> QED
      BY <2>2, <3>2, <3>3 DEF AtMost
  <2> QED
    BY <2>1, <2>2
<1>4. F = [k \in D |-> step(F, k)]
  BY <1>3
<1>5. d = [k \in D |-> step(d, k)]
  BY <1>4
<1> HIDE DEF d, F
<1> DEFINE S == {k \in Nat : k + 1 \in D => d[k + 1] = F[k + 1]}
<1>6. 0 \in S
  <2>1. CASE 1 \in D
    <3>1. d[1] = row.base
      BY <1>5, <2>1
    <3>2. F[1] = row.base
      BY <1>4, <2>1
    <3> QED
      BY <3>1, <3>2
  <2> QED
    BY <2>1
<1>7. ASSUME NEW k \in Nat, k \in S PROVE k + 1 \in S
  <2> SUFFICES ASSUME k + 1 + 1 \in D PROVE d[k + 1 + 1] = F[k + 1 + 1]
    OBVIOUS
  <2>1. k + 1 \in D /\ k + 1 + 1 # 1 /\ k + 1 + 1 - 1 = k + 1
    BY <1>2
  <2>2. d[k + 1] = F[k + 1]
    BY <1>7, <2>1
  <2>3. step(d, k + 1 + 1) = step(F, k + 1 + 1)
    BY <2>1, <2>2
  <2> QED
    BY <1>4, <1>5, <2>3
<1>8. \A k \in Nat : k \in S
  BY <1>6, <1>7, Induction
<1>9. n - 1 \in Nat /\ n - 1 + 1 = n
  BY <1>2
<1>10. d[n] = F[n]
  BY <1>8, <1>9
<1> QED
  BY <1>1, <1>10 DEF F

\* Submission turns any two numbers within the columns' range into a policy.
LEMMA NormalizedIsPolicy ==
    ASSUME NEW b \in BaseInputs, NEW m \in MaxInputs
    PROVE  normalized_backoff(b, m) \in Policy
<1> DEFINE g == 2 ^ ExpCap
<1>1. g \in Nat /\ 2 <= g
  <2>1. 2 ^ (0 + 1) = 2 * 2 ^ 0 /\ 2 ^ 0 = 1 /\ 0 + 1 = 1
    BY PowerDoubles
  <2>2. 2 ^ 1 <= g
    BY ScheduleAssumption, PowerGrows, 1 \in Nat, 1 <= ExpCap
  <2> QED
    BY <2>1, <2>2, ScheduleAssumption, PowerCounts
<1>2. b \in Int /\ m \in Int /\ b < g /\ m < g
  BY ScheduleAssumption
<1> HIDE DEF g
<1>3. /\ AtLeast(b, 1) \in Nat /\ 1 <= AtLeast(b, 1) /\ AtLeast(b, 1) < g
      /\ AtLeast(m, AtLeast(b, 1)) \in Nat /\ AtLeast(m, AtLeast(b, 1)) < g
      /\ AtLeast(b, 1) <= AtLeast(m, AtLeast(b, 1))
  BY <1>1, <1>2 DEF AtLeast
<1> QED
  BY <1>3 DEF normalized_backoff, Policy, g

\* The clamps of fail_job and of BackoffPolicy::exponential leave a policy as it is.
LEMMA ExponentialKeeps ==
    ASSUME NEW p \in Policy
    PROVE  /\ exponential(p.base, p.max) = p
           /\ exponential(AtLeast(p.base, 1), AtLeast(p.max, 1)) = p
<1>1. /\ p \in [base : Nat, max : Nat]
      /\ p.base \in Nat /\ p.max \in Nat /\ 1 <= p.base /\ p.base <= p.max
  BY DEF Policy
<1>2. AtLeast(p.base, 1) = p.base /\ AtLeast(p.max, 1) = p.max
      /\ AtLeast(p.max, p.base) = p.max
  BY <1>1 DEF AtLeast
<1>3. p = [base |-> p.base, max |-> p.max]
  BY <1>1
<1> QED
  BY <1>2, <1>3 DEF exponential

\* The exponent guard of delay_for_attempt never shows: beyond it the ceiling is
\* reached already.
LEMMA GuardNeverShows ==
    ASSUME NEW p \in Policy, NEW n \in Nat, n >= 1
    PROVE  delay_for_attempt(p, n) = Capped(p, n)
<1>1. /\ p.base \in Nat /\ p.max \in Nat /\ 1 <= p.base /\ p.max < 2 ^ ExpCap
      /\ ExpCap \in Nat
  BY ScheduleAssumption DEF Policy
<1>2. AtLeast(n, 1) - 1 = n - 1 /\ n - 1 \in Nat
  BY DEF AtLeast
<1>3. CASE n - 1 <= ExpCap
  <2>1. AtMost(n - 1, ExpCap) = n - 1
    BY <1>1, <1>2, <1>3 DEF AtMost
  <2> QED
    BY <1>2, <2>1 DEF delay_for_attempt, Capped
<1>4. CASE ~ (n - 1 <= ExpCap)
  <2>1. AtMost(n - 1, ExpCap) = ExpCap
    BY <1>1, <1>2, <1>4 DEF AtMost
  <2> DEFINE g == 2 ^ ExpCap
             w == 2 ^ (n - 1)
  <2>2. g \in Nat /\ w \in Nat /\ g <= w
    BY <1>1, <1>2, <1>4, PowerCounts, PowerGrows
  <2>3. delay_for_attempt(p, n) = AtMost(p.base * g, p.max)
    BY <1>2, <2>1 DEF delay_for_attempt
  <2>4. Capped(p, n) = AtMost(p.base * w, p.max) /\ p.max < g
    BY <1>1 DEF Capped
  <2> HIDE DEF g, w
  <2>5. p.base * g \in Int /\ p.base * w \in Int /\ p.base * g > p.max /\ p.base * w > p.max
    BY <1>1, <2>2, <2>4, Times
  <2> QED
    BY <1>1, <2>3, <2>4, <2>5 DEF AtMost
<1> QED
  BY <1>3, <1>4

\* Whoever ends attempt n of a job, a worker (Rust) or the reaper (SQL), the delay
\* written is the same, for every policy the columns can hold and every n: the two
\* copies of the formula agree, guard and clamps included.
THEOREM CopiesAgree ==
    \A p \in Policy, n \in Nat : n >= 1 =>
        WorkerDelay(p, n) = Capped(p, n) /\ ReaperDelay(p, n) = Capped(p, n)
<1> SUFFICES ASSUME NEW p \in Policy, NEW n \in Nat, n >= 1
             PROVE  WorkerDelay(p, n) = Capped(p, n) /\ ReaperDelay(p, n) = Capped(p, n)
  OBVIOUS
<1>1. WorkerDelay(p, n) = Capped(p, n)
  BY ExponentialKeeps, GuardNeverShows DEF WorkerDelay
<1>2. AtLeast(n - 1, 0) = n - 1
  BY DEF AtLeast
<1> QED
  BY <1>1, <1>2 DEF ReaperDelay, Capped

-----------------------------------------------------------------------------
vars == <<row, attempts, delay>>

\* The inductive invariant: the row holds a policy, and the last delay is the closed
\* form at the number of attempts made.
ScheduleInv ==
    /\ row \in Policy
    /\ attempts \in 0 .. MaxAttempts
    /\ delay = IF attempts = 0 THEN 0 ELSE Capped(row, attempts)

\* Submission establishes it.
LEMMA ScheduleInit == Init => ScheduleInv
  BY NormalizedIsPolicy, ScheduleAssumption DEF Init, ScheduleInv

\* Every end of an attempt writes the closed form at the next attempt.
LEMMA ScheduleStep ==
    ASSUME ScheduleInv, Next
    PROVE  /\ row' = row /\ attempts' = attempts + 1 /\ attempts' \in 1 .. MaxAttempts
           /\ delay' = Capped(row, attempts')
<1>1. MaxAttempts \in Nat
  BY ScheduleAssumption
<1>2. row' = row /\ attempts' = attempts + 1 /\ attempts' \in 1 .. MaxAttempts
  BY <1>1 DEF Next, Reported, Recovered, ScheduleInv
<1>3. attempts' \in Nat /\ attempts' >= 1 /\ row \in Policy
  BY <1>1, <1>2 DEF ScheduleInv
<1>4. WorkerDelay(row, attempts') = Capped(row, attempts')
      /\ ReaperDelay(row, attempts') = Capped(row, attempts')
  BY <1>3, CopiesAgree
<1>5. delay' = Capped(row, attempts')
  BY <1>4 DEF Next, Reported, Recovered
<1> QED
  BY <1>2, <1>5

\* The invariant holds.
LEMMA ScheduleInvariant == Spec => []ScheduleInv
<1>1. ScheduleInv /\ [Next]_vars => ScheduleInv'
  <2> SUFFICES ASSUME ScheduleInv, [Next]_vars PROVE ScheduleInv'
    OBVIOUS
  <2>1. CASE Next
    <3>1. /\ row' = row /\ attempts' \in 1 .. MaxAttempts /\ delay' = Capped(row, attempts')
          /\ row \in Policy
      BY <2>1, ScheduleStep DEF ScheduleInv
    <3>2. attempts' # 0 /\ attempts' \in 0 .. MaxAttempts
      BY <3>1, ScheduleAssumption
    <3>3. delay' = Capped(row', attempts')
      BY <3>1
    <3> QED
      BY <3>1, <3>2, <3>3 DEF ScheduleInv
  <2>2. CASE UNCHANGED vars
    BY <2>2 DEF ScheduleInv, vars
  <2> QED
    BY <2>1, <2>2
<1> QED
  BY ScheduleInit, <1>1, PTL DEF Spec, vars

\* Whoever ends an attempt, the delay is the base doubled once per earlier attempt and
\* cut at the ceiling: delay_for_attempt and recover_expired_leases compute the
\* recursion, at every attempt of every budget.
THEOREM DelaysDouble == Spec => []DelayIsDoubling
<1>1. ScheduleInv => DelayIsDoubling
  <2> SUFFICES ASSUME ScheduleInv, attempts > 0 PROVE delay = Doubling[attempts]
    BY DEF DelayIsDoubling
  <2>1. attempts \in 1 .. MaxAttempts /\ row \in Policy /\ delay = Capped(row, attempts)
    BY ScheduleAssumption DEF ScheduleInv
  <2> QED
    BY <2>1, DoublingIsCapped
<1> QED
  BY <1>1, ScheduleInvariant, PTL

\* No retry is sooner than the base or later than the ceiling stored with the job, so
\* the delay fits its column whatever the attempt.
THEOREM DelayWithinPolicy == Spec => [](attempts > 0 => delay \in row.base .. row.max)
<1>1. ScheduleInv => (attempts > 0 => delay \in row.base .. row.max)
  <2> SUFFICES ASSUME ScheduleInv, attempts > 0 PROVE delay \in row.base .. row.max
    OBVIOUS
  <2>1. /\ attempts \in Nat /\ attempts >= 1 /\ row \in Policy
        /\ delay = Capped(row, attempts)
    BY ScheduleAssumption DEF ScheduleInv
  <2> QED
    BY <2>1, CappedDoubles
<1> QED
  BY <1>1, ScheduleInvariant, PTL

\* A job backs off at least as far after each attempt as after the one before, in
\* whatever order workers and the reaper end them.
THEOREM DelaysGrow == Spec => DelaysNeverShrink
<1>1. ScheduleInv /\ [Next]_vars => [delay' >= delay]_vars
  <2> SUFFICES ASSUME ScheduleInv, Next PROVE delay' >= delay
    BY DEF vars
  <2>1. /\ row \in Policy /\ attempts \in Nat /\ attempts' = attempts + 1
        /\ delay' = Capped(row, attempts')
    BY ScheduleStep, ScheduleAssumption DEF ScheduleInv
  <2>2. row.base \in Nat /\ row.max \in Nat
    BY <2>1 DEF Policy
  <2>3. CASE attempts = 0
    <3>1. delay = 0 /\ delay' = row.base
      BY <2>1, <2>3, CappedDoubles, 0 + 1 = 1 DEF ScheduleInv
    <3> QED
      BY <2>2, <3>1
  <2>4. CASE attempts # 0
    <3>1. attempts >= 1 /\ delay = Capped(row, attempts)
      BY <2>1, <2>4 DEF ScheduleInv
    <3>2. /\ Capped(row, attempts) \in row.base .. row.max
          /\ Capped(row, attempts) <= Capped(row, attempts + 1)
      BY <2>1, <3>1, CappedDoubles
    <3>3. attempts + 1 \in Nat /\ attempts + 1 >= 1
      BY <2>1
    <3>4. Capped(row, attempts + 1) \in row.base .. row.max
      BY <2>1, <3>3, CappedDoubles
    <3> QED
      BY <2>1, <2>2, <3>1, <3>2, <3>4
  <2> QED
    BY <2>3, <2>4
<1> QED
  BY <1>1, ScheduleInvariant, PTL DEF Spec, vars, DelaysNeverShrink

\* The arithmetic of jitter: e is the plain delay, j the fraction and r the random
\* number, in percent; m stands for e * j.
LEMMA OffsetBounds ==
    ASSUME NEW e \in Nat, NEW j \in 0 .. 100, NEW r \in 0 .. 100
    PROVE  /\ (2 * r - 100) * e * j \in Int
           /\ e * j \in Nat /\ e * j <= 100 * e
           /\ - (100 * (e * j)) <= (2 * r - 100) * e * j
           /\ (2 * r - 100) * e * j <= 100 * (e * j)
<1> DEFINE m == e * j
<1>1. m \in Nat /\ m <= 100 * e
  BY SMT
<1>2. (2 * r - 100) * e * j = 2 * (r * m) - 100 * m
  BY SMT
<1> HIDE DEF m
<1>3. r * m \in Nat /\ r * m <= 100 * m
  BY <1>1, SMT
<1>4. /\ 2 * (r * m) - 100 * m \in Int
      /\ - (100 * m) <= 2 * (r * m) - 100 * m
      /\ 2 * (r * m) - 100 * m <= 100 * m
  BY <1>1, <1>3, SMT
<1> QED
  BY <1>1, <1>2, <1>4 DEF m

\* What JitterWithinBounds says of one policy and one draw.
Bounded(p, j, n, r) ==
    LET d == 100 * delay_for_attempt(p, n)
        x == delay_with_jitter(p, j, n, r)
    IN  /\ x \in 0 .. 10000 * p.max
        /\ x \in (d * (100 - j)) .. (d * (100 + j))

\* A jittered delay stays within its fraction of the plain one, never below zero and
\* never above the ceiling of the policy (delay_with_jitter), for every fraction and
\* random number up to one, at every attempt.
THEOREM JitterBounded == Spec => []JitterWithinBounds
<1>1. ASSUME NEW p \in Policy, NEW n \in Nat, n >= 1, NEW j \in 0 .. 100, NEW r \in 0 .. 100
      PROVE  Bounded(p, j, n, r)
  <2> DEFINE e == delay_for_attempt(p, n)
             o == (2 * r - 100) * e * j
             m == e * j
             x == delay_with_jitter(p, j, n, r)
  <2>1. e \in Nat /\ p.max \in Nat /\ e <= p.max
    BY <1>1, GuardNeverShows, CappedDoubles DEF Policy
  <2>2. x = IF j <= 0 THEN 10000 * e ELSE AtMost(AtLeast(10000 * e + o, 0), 10000 * p.max)
    BY DEF delay_with_jitter
  <2> HIDE DEF e, x
  <2>3. /\ o \in Int /\ m \in Nat /\ m <= 100 * e
        /\ - (100 * m) <= o /\ o <= 100 * m
    BY <2>1, OffsetBounds
  <2>4. /\ (100 * e) * (100 - j) = 10000 * e - 100 * m
        /\ (100 * e) * (100 + j) = 10000 * e + 100 * m
    BY <2>1, SMT
  <2>5. j <= 0 => m = 0
    BY <2>1, SMT
  <2> HIDE DEF o, m
  <2>6. /\ x \in 0 .. 10000 * p.max
        /\ x \in (10000 * e - 100 * m) .. (10000 * e + 100 * m)
    BY <2>1, <2>2, <2>3, <2>5, SMT DEF AtMost, AtLeast
  <2> QED
    BY <2>4, <2>6 DEF e, x, Bounded
<1>2. ScheduleInv => JitterWithinBounds
  <2> SUFFICES ASSUME ScheduleInv, attempts > 0, NEW j \in Percents, NEW r \in Percents
               PROVE  Bounded(exponential(row.base, row.max), j, attempts, r)
    BY DEF JitterWithinBounds, Bounded
  <2>1. /\ row \in Policy /\ attempts \in Nat /\ attempts >= 1
        /\ j \in 0 .. 100 /\ r \in 0 .. 100
    BY ScheduleAssumption DEF ScheduleInv
  <2>2. exponential(row.base, row.max) = row
    BY <2>1, ExponentialKeeps
  <2> QED
    BY <1>1, <2>1, <2>2
<1> QED
  BY <1>2, ScheduleInvariant, PTL
=============================================================================
