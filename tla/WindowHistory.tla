--------------------------- MODULE WindowHistory ---------------------------
(***************************************************************************)
(* The sliding window of a breaker with its clock, next to the exact       *)
(* history of the results recorded since the window was made, so that what *)
(* the window counts can be compared with what really happened and when.   *)
(* CircuitBreaker takes these steps when its methods are called; the       *)
(* specification here lets them come in any order.                         *)
(***************************************************************************)
EXTENDS SlidingWindow

CONSTANT MaxClock     \* horizon of the run

ASSUME HorizonAssumption == MaxClock \in Nat

VARIABLES clock,      \* time.Now
          window,     \* Breaker.window
          ok,         \* history: ok[t] successes were recorded at time t
          bad         \* history: bad[t] failures were recorded at time t

windowVars == <<clock, window, ok, bad>>

Times == 0 .. MaxClock

NoResults == [t \in Times |-> 0]

\* The number of results recorded since the window was made.
Recorded == SumFunction(ok) + SumFunction(bad)

WindowInit == clock = 0 /\ window = newSlidingWindow(0) /\ ok = NoResults /\ bad = NoResults

CountSuccess == /\ window' = recordSuccess(window, clock)
                /\ ok' = [ok EXCEPT ![clock] = @ + 1]
                /\ UNCHANGED bad

CountFailure == /\ window' = recordFailure(window, clock)
                /\ bad' = [bad EXCEPT ![clock] = @ + 1]
                /\ UNCHANGED ok

\* ErrorRate and the trip test read the totals, which rotates the ring.
ReadTotals == window' = advance(window, clock) /\ UNCHANGED <<ok, bad>>

\* A success that closes the breaker puts a new window in place of the old one.
NewWindow == window' = newSlidingWindow(clock) /\ ok' = NoResults /\ bad' = NoResults

TimePasses == clock < MaxClock /\ clock' = clock + 1 /\ UNCHANGED <<window, ok, bad>>

WindowNext == \/ (CountSuccess \/ CountFailure \/ ReadTotals \/ NewWindow) /\ UNCHANGED clock
              \/ TimePasses

WindowSpec == WindowInit /\ [][WindowNext]_windowVars

-----------------------------------------------------------------------------

\* The number of results in history h whose age is at most a.
UpToAge(h, a) == SumFunctionOnSet(h, {t \in Times : t <= clock /\ clock - t <= a})

\* No recent result is lost: whatever the pattern of calls, a result at most
\* NumBuckets - 1 bucket durations old is still in the totals that decide a
\* trip (slidingWindow.advance, totals).
RecentResultsCounted ==
  LET recent == (NumBuckets - 1) * BucketDur
  IN  /\ UpToAge(ok, recent) <= Successes(window, clock)
      /\ UpToAge(bad, recent) <= Failures(window, clock)

\* No result is counted twice or forever: the totals hold at most the results
\* younger than 2 * NumBuckets - 1 bucket durations (slidingWindow.advance).
\* The bound is not the window size because advance sets lastTime to now and
\* thereby forgets the fraction of a bucket that had elapsed: each of the
\* NumBuckets - 1 rotations a counted result can survive takes at most
\* 2 * BucketDur - 1 ticks, and the last one BucketDur - 1.
OldResultsForgotten ==
  LET horizon == (NumBuckets - 1) * (2 * BucketDur - 1) + BucketDur - 1
  IN  /\ Successes(window, clock) <= UpToAge(ok, horizon)
      /\ Failures(window, clock) <= UpToAge(bad, horizon)

=============================================================================
