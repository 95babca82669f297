--------------------------- MODULE PollLoopProofs ---------------------------
(***************************************************************************)
(* The spacing of the polls, for every interval, every backoff cap, every  *)
(* number of polls and however long they take.                             *)
(***************************************************************************)
EXTENDS PollLoop, WellFoundedInduction, TLAPS

\* A set of numbers has a least one.
LEMMA LeastOf ==
  ASSUME NEW S, S \subseteq Nat, S # {}
  PROVE  \E m \in S : \A i \in S : m <= i
<1>1. PICK m \in S : \A i \in S : ~(<<i, m>> \in OpToRel(<, Nat))
  <2>1. \A R, U, V : IsWellFoundedOn(R, U) /\ V \subseteq U /\ V # {} =>
          \E x \in V : \A y \in V : ~(<<y, x>> \in R)
    BY WFMin
  <2>2. QED
    BY <2>1, NatLessThanWellFounded
<1>2. \A i \in S : ~(i < m)
  BY <1>1 DEF OpToRel
<1>3. QED
  BY <1>2

-----------------------------------------------------------------------------
(* Powers of two.                                                          *)

\* The first k of them.
Powers(g, k) ==
  /\ g \in [0..k -> Nat] /\ g[0] = 1
  /\ \A n \in 1..k : g[n] = 2 * g[n - 1]

LEMMA PowersExist == \A k \in Nat : \E g : Powers(g, k)
<1> DEFINE S == {k \in Nat : ~\E g : Powers(g, k)}
<1> SUFFICES ASSUME S # {} PROVE FALSE
  OBVIOUS
<1>1. PICK m \in S : \A i \in S : m <= i
  BY LeastOf
<1>2. CASE m = 0
  <2>1. Powers([n \in 0..0 |-> 1], 0)
    BY DEF Powers
  <2>2. QED
    BY <1>1, <1>2, <2>1
<1>3. CASE m # 0
  <2>1. m - 1 \in Nat /\ m - 1 \notin S /\ m \in Nat
    BY <1>1, <1>3
  <2>2. PICK g : Powers(g, m - 1)
    BY <2>1
  <2> DEFINE h == [n \in 0..m |-> IF n = m THEN 2 * g[m - 1] ELSE g[n]]
  <2>3. g \in [0..(m - 1) -> Nat] /\ g[0] = 1 /\ \A n \in 1..(m - 1) : g[n] = 2 * g[n - 1]
    BY <2>2 DEF Powers
  <2>4. h \in [0..m -> Nat] /\ h[0] = 1
    BY <1>3, <2>1, <2>3
  <2>5. ASSUME NEW n \in 1..m PROVE h[n] = 2 * h[n - 1]
    BY <2>1, <2>3
  <2> HIDE DEF h
  <2>6. Powers(h, m)
    BY <2>4, <2>5 DEF Powers
  <2>7. QED
    BY <1>1, <2>6
<1>4. QED
  BY <1>2, <1>3

LEMMA PowersAgree ==
  ASSUME NEW g, NEW h, NEW k \in Nat, NEW l \in Nat, Powers(g, k), Powers(h, l)
  PROVE  \A n \in Nat : n <= k /\ n <= l => g[n] = h[n]
<1> DEFINE S == {n \in Nat : n <= k /\ n <= l /\ g[n] # h[n]}
<1> SUFFICES ASSUME S # {} PROVE FALSE
  OBVIOUS
<1>1. PICK m \in S : \A i \in S : m <= i
  BY LeastOf
<1>2. m # 0
  BY <1>1 DEF Powers
<1>3. m - 1 \in Nat /\ m - 1 \notin S /\ m \in 1..k /\ m \in 1..l
  BY <1>1, <1>2
<1>4. g[m - 1] = h[m - 1]
  BY <1>3
<1>5. g[m] = 2 * g[m - 1] /\ h[m] = 2 * h[m - 1]
  BY <1>3 DEF Powers
<1>6. QED
  BY <1>1, <1>4, <1>5

\* The recursive definition defines a function.
LEMMA TwoToDefined ==
  /\ TwoTo[0] = 1
  /\ \A n \in Nat : TwoTo[n] \in Nat /\ TwoTo[n + 1] = 2 * TwoTo[n]
<1> DEFINE G(n) == CHOOSE g : Powers(g, n)
           F == [n \in Nat |-> G(n)[n]]
<1>1. \A n \in Nat : Powers(G(n), n)
  BY PowersExist
<1> HIDE DEF G
<1>2. F[0] = 1 /\ \A n \in Nat : F[n] \in Nat
  BY <1>1 DEF Powers
<1>3. ASSUME NEW n \in Nat PROVE F[n + 1] = 2 * F[n]
  <2>1. Powers(G(n), n) /\ Powers(G(n + 1), n + 1) /\ n + 1 \in Nat /\ n <= n + 1 /\ n <= n
    BY <1>1
  <2>2. G(n + 1)[n] = G(n)[n]
    BY <2>1, PowersAgree
  <2>3. G(n + 1)[n + 1] = 2 * G(n + 1)[n]
    BY <2>1 DEF Powers
  <2>4. QED
    BY <2>1, <2>2, <2>3
<1>4. F = [n \in Nat |-> IF n = 0 THEN 1 ELSE 2 * F[n - 1]]
  <2>1. ASSUME NEW n \in Nat \ {0} PROVE F[n] = 2 * F[n - 1]
    <3>1. n - 1 \in Nat /\ (n - 1) + 1 = n
      OBVIOUS
    <3>2. QED
      BY <1>3, <3>1
  <2> DEFINE H == [n \in Nat |-> IF n = 0 THEN 1 ELSE 2 * F[n - 1]]
  <2>2. \A n \in Nat : F[n] = H[n]
    BY <1>2, <2>1
  <2>3. F = [n \in Nat |-> F[n]] /\ H = [n \in Nat |-> H[n]]
    OBVIOUS
  <2> HIDE DEF F, H
  <2>4. F = H
    BY <2>2, <2>3
  <2>5. QED
    BY <2>4 DEF H
<1> HIDE DEF F
<1>5. \E f : f = [n \in Nat |-> IF n = 0 THEN 1 ELSE 2 * f[n - 1]]
  BY <1>4
<1>6. TwoTo = [n \in Nat |-> IF n = 0 THEN 1 ELSE 2 * TwoTo[n - 1]]
  BY <1>5 DEF TwoTo
<1>7. TwoTo[0] = 1 /\ \A n \in Nat : TwoTo[n + 1] = 2 * TwoTo[n]
  BY <1>6
<1> DEFINE S == {n \in Nat : TwoTo[n] \notin Nat}
<1>8. ASSUME S # {} PROVE FALSE
  <2>1. PICK m \in S : \A i \in S : m <= i
    BY <1>8, LeastOf
  <2>2. m # 0
    BY <1>7, <2>1
  <2>3. m - 1 \in Nat /\ m - 1 \notin S /\ (m - 1) + 1 = m
    BY <2>1, <2>2
  <2>4. TwoTo[m] = 2 * TwoTo[m - 1] /\ TwoTo[m - 1] \in Nat
    BY <1>7, <2>3
  <2>5. QED
    BY <2>1, <2>4
<1>9. QED
  BY <1>7, <1>8

\* They grow, and past every number.
LEMMA TwoToGrows ==
  /\ \A n \in Nat : TwoTo[n] > n
  /\ \A m, n \in Nat : m <= n => TwoTo[m] <= TwoTo[n]
<1> DEFINE S == {n \in Nat : ~(TwoTo[n] > n)}
<1>1. ASSUME S # {} PROVE FALSE
  <2>1. PICK m \in S : \A i \in S : m <= i
    BY <1>1, LeastOf
  <2>2. m # 0
    BY <2>1, TwoToDefined
  <2>3. m - 1 \in Nat /\ m - 1 \notin S /\ (m - 1) + 1 = m
    BY <2>1, <2>2
  <2>4. TwoTo[m - 1] > m - 1 /\ TwoTo[m] = 2 * TwoTo[m - 1] /\ TwoTo[m - 1] \in Nat
    BY <2>3, TwoToDefined
  <2>5. ~(TwoTo[m] > m) /\ m \in Nat
    BY <2>1
  <2>6. QED
    BY <2>2, <2>4, <2>5
<1>2. ASSUME NEW m \in Nat PROVE \A n \in Nat : m <= n => TwoTo[m] <= TwoTo[n]
  <2> DEFINE T == {n \in Nat : m <= n /\ ~(TwoTo[m] <= TwoTo[n])}
  <2>1. ASSUME T # {} PROVE FALSE
    <3>1. PICK k \in T : \A i \in T : k <= i
      BY <2>1, LeastOf
    <3>2. k # m
      BY <3>1, TwoToDefined
    <3>3. k - 1 \in Nat /\ m <= k - 1 /\ k - 1 \notin T /\ (k - 1) + 1 = k
      BY <3>1, <3>2
    <3>4. /\ TwoTo[m] <= TwoTo[k - 1] /\ TwoTo[k] = 2 * TwoTo[k - 1]
          /\ TwoTo[k - 1] \in Nat /\ TwoTo[m] \in Nat
      BY <3>3, TwoToDefined
    <3>5. QED
      BY <3>1, <3>4
  <2>2. QED
    BY <2>1
<1>3. QED
  BY <1>1, <1>2

-----------------------------------------------------------------------------
(* The delay.                                                              *)

LEMMA Scaled ==
  ASSUME NEW i \in Nat \ {0}
  PROVE  /\ ldexp(i, 0) = i
         /\ \A n \in Nat : ldexp(i, n) \in Nat /\ ldexp(i, n + 1) = 2 * ldexp(i, n)
         /\ \A n \in Nat : ldexp(i, n) > n
         /\ \A m, n \in Nat : m <= n => ldexp(i, m) <= ldexp(i, n)
<1>1. ldexp(i, 0) = i
  BY TwoToDefined DEF ldexp
<1>2. \A p \in Nat : i * p \in Nat /\ i * (2 * p) = 2 * (i * p) /\ i * p >= p
  OBVIOUS
<1>3. \A p, q \in Nat : p <= q => i * p <= i * q
  OBVIOUS
<1>4. ASSUME NEW n \in Nat
      PROVE  ldexp(i, n) \in Nat /\ ldexp(i, n + 1) = 2 * ldexp(i, n) /\ ldexp(i, n) > n
  <2>1. TwoTo[n] \in Nat /\ TwoTo[n + 1] = 2 * TwoTo[n] /\ TwoTo[n] > n
    BY TwoToDefined, TwoToGrows
  <2>2. QED
    BY <1>2, <2>1 DEF ldexp
<1>5. ASSUME NEW m \in Nat, NEW n \in Nat, m <= n PROVE ldexp(i, m) <= ldexp(i, n)
  BY <1>3, <1>5, TwoToDefined, TwoToGrows DEF ldexp
<1>6. QED
  BY <1>1, <1>4, <1>5

\* Enough doublings reach the cap.
LEMMA NeededReaches ==
  ASSUME NEW i \in Nat \ {0}
  PROVE  Needed(i) \in Nat /\ ldexp(i, Needed(i)) >= Cap(i) /\ Cap(i) \in Nat /\ i <= Cap(i)
<1>1. Cap(i) \in Nat /\ i <= Cap(i)
  BY LoopAssumption DEF Cap, Greater
<1> DEFINE S == {n \in 0..Cap(i) : ldexp(i, n) >= Cap(i)}
<1>2. Cap(i) \in S
  <2>1. ldexp(i, Cap(i)) > Cap(i) /\ ldexp(i, Cap(i)) \in Nat
    BY <1>1, Scaled
  <2>2. QED
    BY <1>1, <2>1
<1>3. PICK n \in S : \A m \in S : n <= m
  <2>1. S \subseteq Nat /\ S # {}
    BY <1>1, <1>2
  <2>2. QED
    BY <2>1, LeastOf
<1>4. /\ n \in 0..Cap(i) /\ ldexp(i, n) >= Cap(i)
      /\ \A m \in 0..(n - 1) : ldexp(i, m) < Cap(i)
  <2>1. ASSUME NEW m \in 0..(n - 1) PROVE ldexp(i, m) < Cap(i)
    <3>1. m \in 0..Cap(i) /\ m \in Nat /\ ~(n <= m)
      BY <1>1, <1>3
    <3>2. ldexp(i, m) \in Nat
      BY <3>1, Scaled
    <3>3. QED
      BY <1>1, <1>3, <3>1, <3>2
  <2>2. QED
    BY <1>3, <2>1
<1>5. Needed(i) \in 0..Cap(i) /\ ldexp(i, Needed(i)) >= Cap(i)
  BY <1>4 DEF Needed
<1>6. QED
  BY <1>1, <1>5

\* The delay the code computes is the interval doubled, up to the cap.
LEMMA DelayScaled ==
  ASSUME NEW i \in Nat \ {0}, NEW k \in Nat
  PROVE  next_delay(i, k) = Lesser(ldexp(i, k), Cap(i)) /\ next_delay(i, k) \in Nat
<1>1. /\ Needed(i) \in Nat /\ ldexp(i, Needed(i)) >= Cap(i)
      /\ Cap(i) \in Nat /\ i <= Cap(i)
  BY NeededReaches
<1>2. /\ ldexp(i, 0) = i /\ ldexp(i, k) \in Nat /\ ldexp(i, Needed(i)) \in Nat
      /\ Needed(i) <= k => ldexp(i, Needed(i)) <= ldexp(i, k)
  BY <1>1, Scaled
<1>3. QED
  BY <1>1, <1>2 DEF next_delay, Lesser

LEMMA DoubledScaled ==
  ASSUME interval \in Nat \ {0}, NEW k \in Nat
  PROVE  Doubled[k] = Lesser(ldexp(interval, k), Cap(interval))
<1> DEFINE cap == Cap(interval)
           F == [n \in Nat |-> Lesser(ldexp(interval, n), cap)]
<1>1. cap \in Nat /\ interval <= cap /\ Greater(MaxBackoff, interval) = cap
  BY LoopAssumption DEF Cap, Greater
<1> HIDE DEF cap
<1>2. F[0] = interval
  BY <1>1, Scaled DEF Lesser
<1>3. ASSUME NEW n \in Nat PROVE F[n + 1] = Lesser(2 * F[n], cap)
  <2>1. /\ ldexp(interval, n) \in Nat /\ n + 1 \in Nat
        /\ ldexp(interval, n + 1) = 2 * ldexp(interval, n)
    BY Scaled
  <2>2. F[n] = Lesser(ldexp(interval, n), cap) /\ F[n + 1] = Lesser(ldexp(interval, n + 1), cap)
    BY <2>1
  <2> HIDE DEF F
  <2>3. QED
    BY <1>1, <2>1, <2>2 DEF Lesser
<1>4. F = [n \in Nat |-> IF n = 0 THEN interval
                        ELSE Lesser(2 * F[n - 1], Greater(MaxBackoff, interval))]
  <2> DEFINE H == [n \in Nat |-> IF n = 0 THEN interval
                                 ELSE Lesser(2 * F[n - 1], Greater(MaxBackoff, interval))]
  <2>1. ASSUME NEW n \in Nat PROVE F[n] = H[n]
    <3>1. CASE n = 0
      BY <1>2, <3>1
    <3>2. CASE n # 0
      <4>1. n - 1 \in Nat /\ (n - 1) + 1 = n
        BY <3>2
      <4>2. F[n] = Lesser(2 * F[n - 1], cap)
        BY <1>3, <4>1
      <4> HIDE DEF F
      <4>3. QED
        BY <1>1, <3>2, <4>2
    <3>3. QED
      BY <3>1, <3>2
  <2>2. F = [n \in Nat |-> F[n]] /\ H = [n \in Nat |-> H[n]]
    OBVIOUS
  <2> HIDE DEF F, H
  <2>3. F = H
    BY <2>1, <2>2
  <2>4. QED
    BY <2>3 DEF H
<1> HIDE DEF F
<1>5. Doubled = [n \in Nat |-> IF n = 0 THEN interval
                              ELSE Lesser(2 * Doubled[n - 1], Greater(MaxBackoff, interval))]
  <2>1. \E f : f = [n \in Nat |-> IF n = 0 THEN interval
                                  ELSE Lesser(2 * f[n - 1], Greater(MaxBackoff, interval))]
    BY <1>4
  <2>2. QED
    BY <2>1 DEF Doubled
<1>6. Doubled[0] = interval /\ \A n \in Nat : Doubled[n + 1] = Lesser(2 * Doubled[n], cap)
  BY <1>1, <1>5
<1> DEFINE S == {n \in Nat : Doubled[n] # F[n]}
<1>7. ASSUME S # {} PROVE FALSE
  <2>1. PICK m \in S : \A i \in S : m <= i
    BY <1>7, LeastOf
  <2>2. m # 0
    BY <1>2, <1>6, <2>1
  <2>3. m - 1 \in Nat /\ m - 1 \notin S /\ (m - 1) + 1 = m
    BY <2>1, <2>2
  <2>4. /\ Doubled[m] = Lesser(2 * Doubled[m - 1], cap)
        /\ F[m] = Lesser(2 * F[m - 1], cap) /\ Doubled[m - 1] = F[m - 1]
    BY <1>3, <1>6, <2>3
  <2>5. QED
    BY <2>1, <2>4
<1>8. QED
  BY <1>7 DEF F, cap

-----------------------------------------------------------------------------
(* The loop.                                                               *)

\* The failures counted are those at the end of the history, and the loop slept
\* for what was left of the delay they ask for.
LoopInv ==
  /\ pc \in {"start", "poll", "sleep", "returned"}
  /\ interval \in Intervals /\ results \in Seq(Results)
  /\ remaining \in Nat /\ (pc # "returned" => remaining # 0)
  /\ Len(results) + remaining = Iterations
  /\ failures \in Nat /\ elapsed \in Nat /\ slept \in Nat
  /\ Trailing(failures)
  /\ pc = "sleep" => slept = elapsed
  /\ pc = "start" /\ results # <<>> =>
       elapsed - Greater(next_delay(interval, failures), slept) \in Lateness

LEMMA LoopInit == Init => LoopInv
BY LoopAssumption DEF Init, LoopInv, Trailing

LEMMA PollKeeps == ASSUME LoopInv, Poll PROVE LoopInv'
<1>1. PICK result \in Results, d \in Durations :
        /\ results' = Append(results, result) /\ failures' = Failures(result)
        /\ elapsed' = d
  BY DEF Poll
<1>2. /\ remaining' = remaining - 1 /\ pc' = (IF remaining = 1 THEN "returned" ELSE "sleep")
      /\ slept' = elapsed' /\ interval' = interval /\ pc = "poll"
  BY DEF Poll, IsLastPoll
<1>3. d \in Nat /\ Len(results) \in Nat /\ remaining \in Nat /\ remaining # 0
  BY <1>2, LoopAssumption DEF LoopInv
<1>4. results' \in Seq(Results) /\ Len(results') = Len(results) + 1
  BY <1>1 DEF LoopInv
<1>5. /\ results'[Len(results) + 1] = result
      /\ \A k \in 1..Len(results) : results'[k] = results[k]
  BY <1>1 DEF LoopInv
<1>6. failures' \in Nat /\ Trailing(failures)'
  <2>1. CASE result = "FAILED"
    <3>1. failures' = failures + 1 /\ failures \in Nat /\ Trailing(failures)
      BY <1>1, <2>1 DEF Failures, LoopInv
    <3>2. QED
      BY <1>3, <1>4, <1>5, <2>1, <3>1 DEF Trailing
  <2>2. CASE result # "FAILED"
    <3>1. failures' = 0
      BY <1>1, <2>2 DEF Failures
    <3>2. QED
      BY <1>3, <1>4, <1>5, <2>2, <3>1 DEF Trailing
  <2>3. QED
    BY <2>1, <2>2
<1>7. QED
  BY <1>1, <1>2, <1>3, <1>4, <1>6, LoopAssumption DEF LoopInv

LEMMA SleepKeeps == ASSUME LoopInv, Sleep PROVE LoopInv'
<1>1. PICK late \in Lateness : elapsed' = elapsed + Rest + late
  BY DEF Sleep
<1>2. /\ pc = "sleep" /\ pc' = "start"
      /\ UNCHANGED <<interval, failures, remaining, slept, results>>
  BY DEF Sleep
<1>3. elapsed \in Nat /\ slept = elapsed /\ late \in Nat
  BY <1>2, LoopAssumption DEF LoopInv
<1> DEFINE delay == next_delay(interval, failures)
<1>4. delay \in Nat
  BY DelayScaled, IntervalAssumption DEF LoopInv
<1>5. Rest = Greater(delay - elapsed, 0)
  BY DEF Rest
<1>6. next_delay(interval, failures)' = delay
  BY <1>2 DEF next_delay, Lesser, ldexp, Needed, Cap, Greater
<1> HIDE DEF delay
<1>7. elapsed' \in Nat /\ elapsed' - Greater(delay, slept) = late
  BY <1>1, <1>3, <1>4, <1>5 DEF Greater
<1>8. Trailing(failures)' = Trailing(failures)
  BY <1>2 DEF Trailing
<1>9. (elapsed - Greater(next_delay(interval, failures), slept))' = late
  BY <1>2, <1>6, <1>7 DEF Greater
<1>10. QED
  BY <1>2, <1>7, <1>8, <1>9 DEF LoopInv

LEMMA LoopNext == LoopInv /\ [Next]_vars => LoopInv'
<1> SUFFICES ASSUME LoopInv, [Next]_vars PROVE LoopInv'
  OBVIOUS
<1>1. CASE Start
  BY <1>1 DEF Start, LoopInv, Trailing
<1>2. CASE UNCHANGED vars
  <2>1. next_delay(interval, failures)' = next_delay(interval, failures)
    BY <1>2 DEF vars, next_delay, Lesser, ldexp, Needed, Cap, Greater
  <2>2. Greater(next_delay(interval, failures), slept)' = Greater(next_delay(interval, failures), slept)
    BY <1>2, <2>1 DEF vars, Greater
  <2>3. QED
    BY <1>2, <2>2 DEF vars, LoopInv, Trailing
<1>3. QED
  BY <1>1, <1>2, PollKeeps, SleepKeeps DEF Next, Done

\* Polls start as far apart as the documented delay asks for, or as the poll
\* itself took if that was longer, for every interval and every cap.
THEOREM SpacingCorrect == Spec => []StartToStart
<1>1. LoopInv => StartToStart
  <2> SUFFICES ASSUME LoopInv, pc = "start", results # <<>>
               PROVE  \E n \in 0..Iterations :
                        /\ Trailing(n)
                        /\ elapsed - Greater(Doubled[n], slept) \in Lateness
    BY DEF StartToStart
  <2>1. interval \in Nat \ {0} /\ failures \in Nat /\ Trailing(failures)
    BY IntervalAssumption DEF LoopInv
  <2>2. failures \in 0..Iterations
    BY <2>1, LoopAssumption DEF LoopInv, Trailing
  <2>3. Doubled[failures] = next_delay(interval, failures)
    BY <2>1, DoubledScaled, DelayScaled
  <2>4. QED
    BY <2>1, <2>2, <2>3 DEF LoopInv
<1>2. QED
  BY <1>1, LoopInit, LoopNext, PTL DEF Spec
=============================================================================
