----------------------------- MODULE RateLimiter -----------------------------
(***************************************************************************)
(* The token buckets of internal/ratelimit/bucket.go, one per tenant or    *)
(* client address, created full on first use.  Tokens are kept in units of *)
(* 1 / TokenUnits of a token, of which RatePerTick are added per tick, so  *)
(* that the fractions the float64 holds are integers here.  A bucket's     *)
(* mutex covers all of Allow; creating the bucket and asking it are two    *)
(* steps.                                                                  *)
(***************************************************************************)
EXTENDS Naturals

CONSTANTS Keys,         \* rate limit keys (clientKey)
          Burst,        \* Config.Burst
          TokenUnits,   \* units that make one token
          RatePerTick,  \* Registry.rate
          MaxClock      \* horizon of the run

ASSUME RateAssumption == /\ Burst \in Nat \ {0}
                         /\ TokenUnits \in Nat \ {0}
                         /\ RatePerTick \in Nat \ {0}
                         /\ MaxClock \in Nat

VARIABLES clock,        \* time.Now
          created,      \* keys that have a bucket
          tokens,       \* TokenBucket.tokens
          last,         \* TokenBucket.last
          lastGrant,    \* history: when Allow last returned true
          markedAt,     \* history: when an observer of the key began to count
          since         \* history: grants since then

vars == <<clock, created, tokens, last, lastGrant, markedAt, since>>

Capacity == Burst * TokenUnits

Init == /\ clock = 0
        /\ created = {}
        /\ tokens = [k \in Keys |-> Capacity]
        /\ last = [k \in Keys |-> 0]
        /\ lastGrant = [k \in Keys |-> 0]
        /\ markedAt = [k \in Keys |-> 0]
        /\ since = [k \in Keys |-> 0]

\* getOrCreate found no bucket and made a full one.
newBucket(k) == /\ k \notin created
                /\ created' = created \cup {k}
                /\ tokens' = [tokens EXCEPT ![k] = Capacity]
                /\ last' = [last EXCEPT ![k] = clock]
                /\ UNCHANGED <<clock, lastGrant, markedAt, since>>

\* Bug: the refill is not capped, an idle client saves up tokens.
MutantLevel(k) == tokens[k] + RatePerTick * (clock - last[k])

\* What the bucket holds once it is refilled up to now.
Level(k) == LET filled == tokens[k] + RatePerTick * (clock - last[k])
            IN  IF filled > Capacity THEN Capacity ELSE filled

\* Allow returns true.
Grant(k) == /\ k \in created
            /\ Level(k) >= TokenUnits
            /\ tokens' = [tokens EXCEPT ![k] = Level(k) - TokenUnits]
            /\ last' = [last EXCEPT ![k] = clock]
            /\ lastGrant' = [lastGrant EXCEPT ![k] = clock]
            /\ since' = [since EXCEPT ![k] = @ + 1]
            /\ UNCHANGED <<clock, created, markedAt>>

\* Bug: a refused request forfeits the fraction of a token saved so far.
MutantRefuse(k) == /\ k \in created
                   /\ Level(k) < TokenUnits
                   /\ tokens' = [tokens EXCEPT ![k] = 0]
                   /\ last' = [last EXCEPT ![k] = clock]
                   /\ UNCHANGED <<clock, created, lastGrant, markedAt, since>>

\* Allow returns false and the middleware answers 429 with Retry-After.
Refuse(k) == /\ k \in created
             /\ Level(k) < TokenUnits
             /\ tokens' = [tokens EXCEPT ![k] = Level(k)]
             /\ last' = [last EXCEPT ![k] = clock]
             /\ UNCHANGED <<clock, created, lastGrant, markedAt, since>>

\* An observer starts to count the grants of k, at any moment it likes.
Mark(k) == /\ markedAt' = [markedAt EXCEPT ![k] = clock]
           /\ since' = [since EXCEPT ![k] = 0]
           /\ UNCHANGED <<clock, created, tokens, last, lastGrant>>

Tick == /\ clock < MaxClock
        /\ clock' = clock + 1
        /\ UNCHANGED <<created, tokens, last, lastGrant, markedAt, since>>

Next == \/ \E k \in Keys : newBucket(k) \/ Grant(k) \/ Refuse(k) \/ Mark(k)
        \/ Tick

Spec == Init /\ [][Next]_vars

-----------------------------------------------------------------------------

TypeOK == /\ clock \in Nat
          /\ created \in SUBSET Keys
          /\ tokens \in [Keys -> 0 .. Capacity]
          /\ last \in [Keys -> Nat]
          /\ lastGrant \in [Keys -> Nat]
          /\ markedAt \in [Keys -> Nat]
          /\ since \in [Keys -> Nat]
          /\ \A k \in Keys : last[k] <= clock /\ markedAt[k] <= clock /\ lastGrant[k] <= clock

\* In every interval, wherever it begins, a key is granted at most its burst
\* plus what the rate adds in that time: no pattern of bursts, pauses and
\* refused requests gets more (TokenBucket.Allow).
IntervalBound ==
  \A k \in Keys : since[k] * TokenUnits <= Capacity + RatePerTick * (clock - markedAt[k])

\* The middleware's Retry-After: the ticks in which the rate adds one token.
RetryAfter == (TokenUnits + RatePerTick - 1) \div RatePerTick

\* The 429 answer says to retry after Retry-After: a key that was granted
\* nothing for that long is granted its next request, also when it kept
\* asking and was refused in the meantime (Middleware, TokenBucket.Allow).
RetryAfterHonoured ==
  \A k \in created : clock - lastGrant[k] >= RetryAfter => Level(k) >= TokenUnits

=============================================================================
