--------------------------- MODULE SlidingWindow ---------------------------
(***************************************************************************)
(* The sliding window of internal/circuit/breaker.go: a ring of NumBuckets *)
(* buckets, each counting the successes and failures of about BucketDur    *)
(* units of time.  The window is a record passed through pure operators,   *)
(* as the struct is passed by pointer through the methods.  Time is an     *)
(* integer; the code compares durations with integer division, so the      *)
(* unit is immaterial.                                                     *)
(***************************************************************************)
EXTENDS Naturals, Functions

CONSTANTS NumBuckets,  \* numBuckets, 10 in the code
          BucketDur    \* windowSize / numBuckets

ASSUME WindowAssumption == /\ NumBuckets \in Nat \ {0}
                           /\ BucketDur \in Nat \ {0}

Slots == 0 .. NumBuckets - 1

Bucket == [successes : Nat, failures : Nat]

EmptyBucket == [successes |-> 0, failures |-> 0]

Window == [buckets : [Slots -> Bucket], current : Slots, lastTime : Nat]

newSlidingWindow(now) ==
  [buckets |-> [i \in Slots |-> EmptyBucket], current |-> 0, lastTime |-> now]

\* The number of buckets advance rotates through: whole bucket durations
\* since lastTime, at most one full turn of the ring.
Steps(w, now) ==
  LET elapsed == (now - w.lastTime) \div BucketDur
  IN  IF elapsed > NumBuckets THEN NumBuckets ELSE elapsed

\* Bug: the rotation empties the bucket one ahead of the ones it enters too.
MutantEnteredOneTooMany(w, steps) == {(w.current + i) % NumBuckets : i \in 1 .. steps + 1}

\* Bug: the rotation moves on before it empties, and misses the last bucket.
MutantEnteredOneTooFew(w, steps) == {(w.current + i) % NumBuckets : i \in 1 .. steps - 1}

\* The slots the rotation enters, each of which it empties.
Entered(w, steps) == {(w.current + i) % NumBuckets : i \in 1 .. steps}

Rotate(w, now, steps) ==
  [buckets  |-> [i \in Slots |-> IF i \in Entered(w, steps) THEN EmptyBucket
                                                            ELSE w.buckets[i]],
   current  |-> (w.current + steps) % NumBuckets,
   lastTime |-> now]

advance(w, now) ==
  LET steps == Steps(w, now)
  IN  IF steps = 0 THEN w ELSE Rotate(w, now, steps)

recordSuccess(w, now) ==
  LET a == advance(w, now)
  IN  [a EXCEPT !.buckets[a.current].successes = @ + 1]

recordFailure(w, now) ==
  LET a == advance(w, now)
  IN  [a EXCEPT !.buckets[a.current].failures = @ + 1]

\* totals also advances the window it reads; the caller keeps advance(w, now).
Successes(w, now) ==
  SumFunction([i \in Slots |-> advance(w, now).buckets[i].successes])

Failures(w, now) ==
  SumFunction([i \in Slots |-> advance(w, now).buckets[i].failures])

=============================================================================
