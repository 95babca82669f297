------------------------------ MODULE PollLoop ------------------------------
(***************************************************************************)
(* poll_forever and next_delay (loop.py): one poll per interval, start to  *)
(* start, backing off while polls fail outright.  A poll is a result and   *)
(* the time it took.  Times are integers on the monotonic clock.           *)
(***************************************************************************)
EXTENDS Integers, Sequences

CONSTANTS
  Intervals,    \* the poll intervals a configuration may ask for
  MaxBackoff,   \* MAX_BACKOFF_IN_SECONDS
  Iterations,   \* poll_forever's `iterations`
  Durations,    \* how long a poll may take
  Lateness      \* by how much time.sleep may oversleep

Results == {"OK", "PARTIAL", "FAILED"}

ASSUME IntervalAssumption == Intervals \subseteq Nat \ {0}
ASSUME LoopAssumption ==
  /\ MaxBackoff \in Nat \ {0} /\ Iterations \in Nat \ {0}
  /\ Durations \subseteq Nat /\ Lateness \subseteq Nat

Lesser(x, y) == IF x <= y THEN x ELSE y
Greater(x, y) == IF x <= y THEN y ELSE x

Cap(interval) == Greater(interval, MaxBackoff)

\* ldexp scales by a power of two.
TwoTo[n \in Nat] == IF n = 0 THEN 1 ELSE 2 * TwoTo[n - 1]
ldexp(interval, n) == interval * TwoTo[n]

\* ceil(log2(cap) - log2(interval)): the doublings that reach the cap.
Needed(interval) ==
  CHOOSE n \in 0..Cap(interval) :
    /\ ldexp(interval, n) >= Cap(interval)
    /\ \A m \in 0..(n - 1) : ldexp(interval, m) < Cap(interval)

next_delay(interval, consecutive_failures) ==
  IF consecutive_failures = 0 THEN interval
  ELSE Lesser(ldexp(interval, Lesser(consecutive_failures, Needed(interval))),
              Cap(interval))

VARIABLES
  pc,         \* "start", "poll", "sleep", "returned"
  interval,   \* interval_in_seconds
  failures,   \* consecutive failed polls
  remaining,  \* polls left
  elapsed,    \* clock() - started
  slept,      \* history: elapsed when the loop went to sleep
  results     \* history: the results of the polls so far

vars == <<pc, interval, failures, remaining, elapsed, slept, results>>

Init ==
  /\ pc = "start"
  /\ interval \in Intervals
  /\ failures = 0
  /\ remaining = Iterations
  /\ elapsed = 0 /\ slept = 0
  /\ results = <<>>

\* The count of failed polls in a row after one more result.
Mutant_Failures(result) == IF result # "OK" THEN failures + 1 ELSE 0
Failures(result) == IF result = "FAILED" THEN failures + 1 ELSE 0

\* This poll is the last one asked for.
IsLastPoll == remaining = 1

\* What is left of the delay, if anything; the poll may have used it up.
Rest == Greater(next_delay(interval, failures) - elapsed, 0)

\* started = clock()
Start ==
  /\ pc = "start"
  /\ pc' = "poll"
  /\ elapsed' = 0 /\ slept' = 0
  /\ UNCHANGED <<interval, failures, remaining, results>>

\* service.poll() returns; after the last one the loop does, without sleeping.
Poll ==
  /\ pc = "poll"
  /\ \E result \in Results, d \in Durations :
       /\ results' = Append(results, result)
       /\ failures' = Failures(result)
       /\ elapsed' = d
  /\ remaining' = remaining - 1
  /\ pc' = IF IsLastPoll THEN "returned" ELSE "sleep"
  /\ slept' = elapsed'
  /\ interval' = interval

\* time.sleep: never short, sometimes late.
Sleep ==
  /\ pc = "sleep"
  /\ \E late \in Lateness : elapsed' = elapsed + Rest + late
  /\ pc' = "start"
  /\ UNCHANGED <<interval, failures, remaining, slept, results>>

Done == pc = "returned" /\ UNCHANGED vars

Next == Start \/ Poll \/ Sleep \/ Done

Spec == Init /\ [][Next]_vars /\ WF_vars(Start \/ Poll \/ Sleep)

-----------------------------------------------------------------------------
(* Properties.                                                             *)

\* The failed polls at the end of the history.
Trailing(n) ==
  /\ n <= Len(results)
  /\ \A k \in (Len(results) - n + 1)..Len(results) : results[k] = "FAILED"
  /\ n < Len(results) => results[Len(results) - n] # "FAILED"

\* The documented delay: "doubles the wait per consecutive failed poll, capped
\* at max(60s, poll interval)" (docs/architecture.md:170).
Doubled[n \in Nat] ==
  IF n = 0 THEN interval
  ELSE Lesser(2 * Doubled[n - 1], Greater(MaxBackoff, interval))

\* Polls start as far apart as the documented delay for the failures so far
\* asks for, or as the poll itself took if that was longer: never sooner, and
\* later only by what the sleep was late.
StartToStart ==
  pc = "start" /\ results # <<>> =>
    \E n \in 0..Iterations :
      /\ Trailing(n)
      /\ LET due == Greater(Doubled[n], slept)
         IN elapsed - due \in Lateness
===============================================================================
