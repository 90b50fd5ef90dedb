---------------------------- MODULE GatewayProofs ----------------------------
(***************************************************************************)
(* Proofs about the rate limiter and the middleware chain around it, for   *)
(* every set of clients, API keys, tenants and hosts, every burst, rate    *)
(* and unit, whatever parts of the chain are enabled, and whether or not   *)
(* the router is its own classifier.                                       *)
(***************************************************************************)
EXTENDS Gateway, WellFoundedInduction, TLAPS

-----------------------------------------------------------------------------
(* The rate limiter by itself *)

\* Multiplication by a successor, which the provers are not asked to find out
\* inside larger steps.
LEMMA MulSucc == \A a, b \in Nat : a * (b + 1) = a * b + a /\ (b + 1) * a = b * a + a
OBVIOUS

\* Multiplication is monotonic on naturals.
LEMMA MulMono == \A a, b, c \in Nat : b <= c => a * b <= a * c
OBVIOUS

\* Naturals are closed under multiplication.
LEMMA MulNat == \A a, b \in Nat : a * b \in Nat
OBVIOUS

\* Rounding the division up: RetryAfter ticks add at least one token.
LEMMA RetryAfterIsEnough == RetryAfter \in Nat /\ RatePerTick * RetryAfter >= TokenUnits
<1> DEFINE n == TokenUnits + RatePerTick - 1
           d == n \div RatePerTick
<1>1. n \in Nat /\ RatePerTick \in Nat \ {0} /\ TokenUnits \in Nat
  BY RateAssumption
<1>2. d \in Nat /\ n % RatePerTick \in 0 .. RatePerTick - 1
  BY <1>1
<1>3. n = (RatePerTick * d) + (n % RatePerTick)
  BY <1>1
<1>4. RatePerTick * d \in Nat
  BY <1>1, <1>2, MulNat
<1>5. RatePerTick * d >= TokenUnits
  <2> HIDE DEF d
  <2> QED
    BY <1>1, <1>2, <1>3, <1>4
<1> QED
  BY <1>2, <1>5 DEF RetryAfter

\* The capacity holds at least one token, since Burst is positive.
LEMMA CapacityType == Capacity \in Nat /\ Capacity >= TokenUnits /\ TokenUnits \in Nat \ {0}
<1>1. Burst \in Nat /\ Burst >= 1 /\ TokenUnits \in Nat \ {0}
  BY RateAssumption
<1>2. TokenUnits * 1 <= TokenUnits * Burst /\ TokenUnits * Burst \in Nat
  BY <1>1, MulMono, MulNat
<1>3. TokenUnits * Burst = Burst * TokenUnits
  BY <1>1
<1> QED
  BY <1>1, <1>2, <1>3 DEF Capacity

-----------------------------------------------------------------------------
(* How the refilled level of a bucket changes *)

\* The level of a bucket lies between empty and full, and the terms of the
\* invariant are naturals.
LEMMA LevelType ==
  ASSUME TypeOK, NEW k \in Keys
  PROVE  /\ Level(k) \in 0 .. Capacity
         /\ clock - last[k] \in Nat /\ clock - markedAt[k] \in Nat /\ clock - lastGrant[k] \in Nat
         /\ RatePerTick * (clock - last[k]) \in Nat
         /\ RatePerTick * (clock - markedAt[k]) \in Nat
         /\ RatePerTick * (clock - lastGrant[k]) \in Nat
         /\ since[k] * TokenUnits \in Nat
<1>1. /\ clock \in Nat /\ last[k] \in Nat /\ markedAt[k] \in Nat /\ lastGrant[k] \in Nat
      /\ since[k] \in Nat /\ tokens[k] \in 0 .. Capacity
      /\ last[k] <= clock /\ markedAt[k] <= clock /\ lastGrant[k] <= clock
  BY DEF TypeOK
<1>2. clock - last[k] \in Nat /\ clock - markedAt[k] \in Nat /\ clock - lastGrant[k] \in Nat
  BY <1>1
<1>3. RatePerTick \in Nat /\ TokenUnits \in Nat
  BY RateAssumption
<1>4. /\ RatePerTick * (clock - last[k]) \in Nat
      /\ RatePerTick * (clock - markedAt[k]) \in Nat
      /\ RatePerTick * (clock - lastGrant[k]) \in Nat
      /\ since[k] * TokenUnits \in Nat
  BY <1>1, <1>2, <1>3, MulNat
<1>5. Level(k) \in 0 .. Capacity
  BY <1>1, <1>4, CapacityType DEF Level
<1> QED
  BY <1>2, <1>4, <1>5

\* A bucket refilled up to now holds what its tokens say.
LEMMA LevelNow ==
  ASSUME NEW k \in Keys, clock \in Nat, last[k] = clock, tokens[k] \in 0 .. Capacity
  PROVE  Level(k) = tokens[k]
<1>1. clock - last[k] = 0 /\ RatePerTick * 0 = 0
  BY RateAssumption
<1> QED
  BY <1>1, CapacityType DEF Level

\* The same after a step: a bucket just refilled holds what its tokens say.
LEMMA LevelNext ==
  ASSUME NEW k \in Keys, clock' \in Nat, last'[k] = clock', tokens'[k] \in 0 .. Capacity
  PROVE  Level(k)' = tokens'[k]
<1>1. clock' - last'[k] = 0
  <2>1. \A c \in Nat : c - c = 0
    OBVIOUS
  <2>2. clock' - clock' = 0
    BY <2>1
  <2> QED
    BY <2>2, Zenon
<1>2. RatePerTick * 0 = 0
  BY RateAssumption
<1>3. Capacity' = Capacity
  BY DEF Capacity
<1> QED
  BY <1>1, <1>2, <1>3, CapacityType DEF Level

\* A tick adds RatePerTick units, or fills the bucket.
LEMMA LevelTick ==
  ASSUME TypeOK, Tick, NEW k \in Keys
  PROVE  /\ Level(k)' = Capacity \/ Level(k)' = Level(k) + RatePerTick
         /\ Level(k)' <= Level(k) + RatePerTick
         /\ Level(k) = Capacity => Level(k)' = Capacity
         /\ RatePerTick * (clock' - markedAt[k]) = RatePerTick * (clock - markedAt[k]) + RatePerTick
         /\ RatePerTick * (clock' - lastGrant[k]) = RatePerTick * (clock - lastGrant[k]) + RatePerTick
<1> DEFINE filled == tokens[k] + RatePerTick * (clock - last[k])
<1>1. /\ clock \in Nat /\ clock' = clock + 1
      /\ last[k] \in Nat /\ markedAt[k] \in Nat /\ lastGrant[k] \in Nat
      /\ tokens[k] \in Nat /\ tokens'[k] = tokens[k] /\ last'[k] = last[k]
  BY CapacityType DEF TypeOK, Tick
<1>2. /\ clock' - last[k] = (clock - last[k]) + 1
      /\ clock' - markedAt[k] = (clock - markedAt[k]) + 1
      /\ clock' - lastGrant[k] = (clock - lastGrant[k]) + 1
  BY <1>1
<1>3. RatePerTick \in Nat
  BY RateAssumption
<1>4. /\ RatePerTick * (clock' - last[k]) = RatePerTick * (clock - last[k]) + RatePerTick
      /\ RatePerTick * (clock' - markedAt[k]) = RatePerTick * (clock - markedAt[k]) + RatePerTick
      /\ RatePerTick * (clock' - lastGrant[k]) = RatePerTick * (clock - lastGrant[k]) + RatePerTick
  BY <1>2, <1>3, LevelType, MulSucc
<1>5. filled \in Nat /\ filled' = filled + RatePerTick
  BY <1>1, <1>3, <1>4, LevelType
<1>6. /\ Level(k) = IF filled > Capacity THEN Capacity ELSE filled
      /\ Level(k)' = IF filled' > Capacity THEN Capacity ELSE filled'
  BY Zenon DEF Level, Capacity
<1> HIDE DEF filled
<1> QED
  BY <1>3, <1>4, <1>5, <1>6, CapacityType

-----------------------------------------------------------------------------
(* The invariant *)

\* What was granted and what is left never exceed the allowance of the
\* interval: IntervalBound alone is not inductive, since it does not say how
\* much the bucket still holds.
Budget(k) ==
  since[k] * TokenUnits + Level(k) <= Capacity + RatePerTick * (clock - markedAt[k])

\* A bucket is full or holds what the rate has added since the last grant:
\* refusals take nothing away.
Saved(k) == Level(k) = Capacity \/ Level(k) >= RatePerTick * (clock - lastGrant[k])

\* A bucket that does not exist yet counts as full and unused.
Unused(k) == k \notin created => since[k] = 0

IInv == TypeOK /\ \A k \in Keys : Budget(k) /\ Saved(k) /\ Unused(k)

\* Every operation on a bucket preserves the types.
LEMMA TypeStep == TypeOK /\ [Next]_vars => TypeOK'
<1> SUFFICES ASSUME TypeOK, [Next]_vars PROVE TypeOK'
  OBVIOUS
<1> USE DEF TypeOK
<1>0. Capacity' = Capacity /\ Capacity \in Nat
  BY CapacityType DEF Capacity
<1>1. ASSUME NEW k \in Keys, newBucket(k) PROVE TypeOK'
  BY <1>0, <1>1 DEF newBucket
<1>2. ASSUME NEW k \in Keys, Grant(k) PROVE TypeOK'
  <2>1. Level(k) \in 0 .. Capacity /\ Level(k) - TokenUnits \in 0 .. Capacity
    BY <1>2, LevelType, CapacityType DEF Grant
  <2> QED
    BY <1>0, <1>2, <2>1 DEF Grant
<1>3. ASSUME NEW k \in Keys, Refuse(k) PROVE TypeOK'
  BY <1>0, <1>3, LevelType DEF Refuse
<1>4. ASSUME NEW k \in Keys, Mark(k) PROVE TypeOK'
  BY <1>0, <1>4 DEF Mark
<1>5. CASE Tick
  BY <1>0, <1>5 DEF Tick
<1>6. CASE UNCHANGED vars
  BY <1>0, <1>6 DEF vars
<1> QED
  BY <1>1, <1>2, <1>3, <1>4, <1>5, <1>6 DEF Next

\* Every operation on a bucket, and every tick, preserves the invariant.
LEMMA InvStep == IInv /\ [Next]_vars => IInv'
<1> SUFFICES ASSUME IInv, [Next]_vars PROVE IInv'
  OBVIOUS
<1>0. TypeOK /\ TypeOK' /\ Capacity' = Capacity
  BY TypeStep DEF IInv, Capacity
<1> SUFFICES ASSUME NEW j \in Keys PROVE Budget(j)' /\ Saved(j)' /\ Unused(j)'
  BY <1>0 DEF IInv
<1>1. Budget(j) /\ Saved(j) /\ Unused(j)
  BY DEF IInv
<1>2. /\ Level(j) \in 0 .. Capacity
      /\ RatePerTick * (clock - markedAt[j]) \in Nat
      /\ RatePerTick * (clock - lastGrant[j]) \in Nat
      /\ since[j] * TokenUnits \in Nat /\ since[j] \in Nat
      /\ TokenUnits \in Nat /\ Capacity \in Nat /\ RatePerTick \in Nat /\ clock \in Nat
  BY <1>0, LevelType, CapacityType, RateAssumption DEF TypeOK
\* A step that leaves the bucket of j alone.
<1>3. ASSUME clock' = clock, created' \cap {j} = created \cap {j},
             tokens'[j] = tokens[j], last'[j] = last[j], lastGrant'[j] = lastGrant[j],
             markedAt'[j] = markedAt[j], since'[j] = since[j]
      PROVE  Budget(j)' /\ Saved(j)' /\ Unused(j)'
  <2>1. Level(j)' = Level(j)
    BY <1>0, <1>3 DEF Level
  <2> QED
    BY <1>0, <1>1, <1>3, <2>1 DEF Budget, Saved, Unused
<1>4. ASSUME NEW k \in Keys, newBucket(k) PROVE Budget(j)' /\ Saved(j)' /\ Unused(j)'
  <2>1. CASE j = k
    <3>1. /\ last'[j] = clock' /\ tokens'[j] = Capacity' /\ clock' = clock /\ j \in created'
          /\ since'[j] = since[j] /\ since[j] = 0 /\ markedAt' = markedAt /\ tokens'[j] \in 0 .. Capacity'
      BY <1>0, <1>1, <1>2, <1>4, <2>1 DEF newBucket, TypeOK, Unused
    <3>2. Level(j)' = Capacity
      BY <1>0, <1>2, <3>1, LevelNext
    <3> QED
      BY <1>0, <1>1, <1>2, <3>1, <3>2 DEF Budget, Saved, Unused
  <2>2. CASE j # k
    BY <1>0, <1>3, <1>4, <2>2 DEF newBucket, TypeOK
  <2> QED
    BY <2>1, <2>2
<1>5. ASSUME NEW k \in Keys, Grant(k) PROVE Budget(j)' /\ Saved(j)' /\ Unused(j)'
  <2>1. CASE j = k
    <3>1. /\ last'[j] = clock' /\ tokens'[j] = Level(j) - TokenUnits /\ clock' = clock
          /\ lastGrant'[j] = clock /\ since'[j] = since[j] + 1 /\ markedAt' = markedAt
          /\ created' = created /\ j \in created
      BY <1>0, <1>5, <2>1 DEF Grant, TypeOK
    <3>2. tokens'[j] \in 0 .. Capacity'
      BY <1>0 DEF TypeOK
    <3>3. Level(j)' = Level(j) - TokenUnits
      BY <1>0, <1>2, <3>1, <3>2, LevelNext
    <3>4. since'[j] * TokenUnits = since[j] * TokenUnits + TokenUnits
      BY <1>2, <3>1, MulSucc
    <3>5. Budget(j)'
      BY <1>0, <1>1, <1>2, <3>1, <3>3, <3>4 DEF Budget
    <3>6. RatePerTick * (clock' - lastGrant'[j]) = 0
      BY <1>2, <3>1
    <3>7. Saved(j)'
      BY <1>0, <1>2, <3>2, <3>3, <3>1, <3>6 DEF Saved
    <3> QED
      BY <3>1, <3>5, <3>7 DEF Unused
  <2>2. CASE j # k
    BY <1>0, <1>3, <1>5, <2>2 DEF Grant, TypeOK
  <2> QED
    BY <2>1, <2>2
<1>6. ASSUME NEW k \in Keys, Refuse(k) PROVE Budget(j)' /\ Saved(j)' /\ Unused(j)'
  <2>1. CASE j = k
    <3>1. /\ last'[j] = clock' /\ tokens'[j] = Level(j) /\ clock' = clock
          /\ lastGrant' = lastGrant /\ since' = since /\ markedAt' = markedAt /\ created' = created
      BY <1>0, <1>6, <2>1 DEF Refuse, TypeOK
    <3>2. tokens'[j] \in 0 .. Capacity'
      BY <1>0 DEF TypeOK
    <3>3. Level(j)' = Level(j)
      BY <1>0, <1>2, <3>1, <3>2, LevelNext
    <3> QED
      BY <1>0, <1>1, <3>1, <3>3 DEF Budget, Saved, Unused
  <2>2. CASE j # k
    BY <1>0, <1>3, <1>6, <2>2 DEF Refuse, TypeOK
  <2> QED
    BY <2>1, <2>2
<1>7. ASSUME NEW k \in Keys, Mark(k) PROVE Budget(j)' /\ Saved(j)' /\ Unused(j)'
  <2>1. CASE j = k
    <3>1. /\ markedAt'[j] = clock /\ since'[j] = 0 /\ clock' = clock /\ created' = created
          /\ tokens' = tokens /\ last' = last /\ lastGrant' = lastGrant
      BY <1>0, <1>7, <2>1 DEF Mark, TypeOK
    <3>2. Level(j)' = Level(j)
      BY <1>0, <3>1 DEF Level
    <3>3. since'[j] * TokenUnits = 0 /\ RatePerTick * (clock' - markedAt'[j]) = 0
      BY <1>2, <3>1
    <3> QED
      BY <1>0, <1>1, <1>2, <3>1, <3>2, <3>3 DEF Budget, Saved, Unused
  <2>2. CASE j # k
    BY <1>0, <1>3, <1>7, <2>2 DEF Mark, TypeOK
  <2> QED
    BY <2>1, <2>2
<1>8. ASSUME Tick PROVE Budget(j)' /\ Saved(j)' /\ Unused(j)'
  <2>1. /\ Level(j)' = Capacity \/ Level(j)' = Level(j) + RatePerTick
        /\ Level(j)' <= Level(j) + RatePerTick
        /\ Level(j) = Capacity => Level(j)' = Capacity
        /\ RatePerTick * (clock' - markedAt[j]) = RatePerTick * (clock - markedAt[j]) + RatePerTick
        /\ RatePerTick * (clock' - lastGrant[j]) = RatePerTick * (clock - lastGrant[j]) + RatePerTick
    BY <1>0, <1>8, LevelTick
  <2>2. /\ since' = since /\ markedAt' = markedAt /\ lastGrant' = lastGrant /\ created' = created
        /\ Level(j)' \in Nat
    BY <1>2, <1>8, <2>1 DEF Tick
  <2> QED
    BY <1>0, <1>1, <1>2, <2>1, <2>2 DEF Budget, Saved, Unused
<1>9. CASE UNCHANGED vars
  BY <1>3, <1>9 DEF vars
<1> QED
  BY <1>4, <1>5, <1>6, <1>7, <1>8, <1>9 DEF Next

\* The invariant holds in every reachable state of the limiter.
THEOREM Invariance == Spec => []IInv
<1>1. Init => IInv
  <2> SUFFICES ASSUME Init PROVE IInv
    OBVIOUS
  <2>1. TypeOK
    BY CapacityType DEF Init, TypeOK
  <2>2. ASSUME NEW k \in Keys PROVE Budget(k) /\ Saved(k) /\ Unused(k)
    <3>1. /\ last[k] = clock /\ clock = 0 /\ tokens[k] = Capacity
          /\ since[k] = 0 /\ markedAt[k] = 0 /\ lastGrant[k] = 0
      BY DEF Init
    <3>2. Level(k) = Capacity
      BY <2>1, <3>1, CapacityType, LevelNow
    <3>3. since[k] * TokenUnits = 0 /\ RatePerTick * (clock - markedAt[k]) = 0
      BY <3>1, RateAssumption
    <3> QED
      BY <3>1, <3>2, <3>3, CapacityType DEF Budget, Saved, Unused
  <2> QED
    BY <2>1, <2>2 DEF IInv
<1> QED
  BY <1>1, InvStep, PTL DEF Spec

\* The variables of the limiter keep their types; a bucket never holds more
\* than its capacity or less than nothing.
THEOREM TypeCorrect == Spec => []TypeOK
<1>1. IInv => TypeOK
  BY DEF IInv
<1> QED
  BY <1>1, Invariance, PTL

\* No schedule of requests gets more out of a bucket, in any interval, than
\* the burst and what the rate adds meanwhile.
THEOREM IntervalBoundSafe == Spec => []IntervalBound
<1>1. ASSUME IInv PROVE IntervalBound
  <2> SUFFICES ASSUME NEW k \in Keys
               PROVE  since[k] * TokenUnits <= Capacity + RatePerTick * (clock - markedAt[k])
    BY DEF IntervalBound
  <2> QED
    BY <1>1, LevelType, CapacityType DEF IInv, Budget
<1> QED
  BY <1>1, Invariance, PTL

\* A key that was granted nothing for Retry-After is granted its next request,
\* for every burst and every rate.
THEOREM RetryAfterSafe == Spec => []RetryAfterHonoured
<1>1. ASSUME IInv PROVE RetryAfterHonoured
  <2> SUFFICES ASSUME NEW k \in created, clock - lastGrant[k] >= RetryAfter
               PROVE  Level(k) >= TokenUnits
    BY DEF RetryAfterHonoured
  <2>0. TypeOK /\ k \in Keys /\ Saved(k)
    BY <1>1 DEF IInv, TypeOK
  <2>1. clock - lastGrant[k] \in Nat /\ RetryAfter \in Nat /\ RatePerTick \in Nat
    BY <2>0, LevelType, RetryAfterIsEnough, RateAssumption
  <2>2. RatePerTick * RetryAfter <= RatePerTick * (clock - lastGrant[k])
    BY <2>1, MulMono
  <2>3. /\ RatePerTick * RetryAfter \in Nat /\ RatePerTick * (clock - lastGrant[k]) \in Nat
        /\ Level(k) \in Nat /\ TokenUnits \in Nat /\ Capacity \in Nat
    BY <2>0, <2>1, MulNat, LevelType, CapacityType
  <2> QED
    BY <2>0, <2>2, <2>3, RetryAfterIsEnough, CapacityType DEF Saved
<1> QED
  BY <1>1, Invariance, PTL

-----------------------------------------------------------------------------
(* The chain *)

GatewayStages == {"idle", "auth", "limit", "handle", "classify", "await", "route", "answered"}

ChainTypes ==
  /\ stage \in [Slots -> GatewayStages]
  /\ probe \in [Slots -> BOOLEAN]
  /\ host \in [Slots -> Hosts]
  /\ tenant \in [Slots -> Tenants \cup {Absent}]
  /\ status \in [Conns -> Nat]
  /\ classified \in [Slots -> BOOLEAN]

\* The request that the router sends to itself: it comes from the loopback
\* address to no probe's path, is turned away before it could be classified,
\* and its answer is never a success.
SelfCall(c) ==
  /\ stage[Self(c)] \in {"idle", "auth", "limit", "handle", "answered"}
  /\ stage[Self(c)] # "idle" => selfAddress
  /\ host[Self(c)] = Loopback
  /\ probe[Self(c)] = FALSE
  /\ status[c] # 200

\* Who a request counts as: there is a tenant only with authentication, and
\* then every request that the limiter looks at has one.
Identity(s) ==
  /\ tenant[s] # Absent => "auth" \in enabled /\ s[2] = "client"
  /\ stage[s] = "limit" /\ Applies("auth", s) => tenant[s] # Absent

ChainInv == /\ ChainTypes
            /\ \A c \in Conns : SelfCall(c)
            /\ \A s \in Slots : Identity(s)
            /\ \A s \in Slots : selfAddress => classified[s] = FALSE

-----------------------------------------------------------------------------
(* Keys *)

\* A set of numbers that are not above n has a greatest element.
LEMMA Greatest ==
  ASSUME NEW n \in Nat, NEW T \in SUBSET (1 .. n), T # {}
  PROVE  \E i \in T : \A j \in T : j <= i
<1> DEFINE below == {n - i : i \in T}
<1>1. below \subseteq Nat /\ below # {}
  <2>1. \A i \in T : n - i \in Nat
    OBVIOUS
  <2>2. PICK i \in T : TRUE
    OBVIOUS
  <2> QED
    BY <2>1, <2>2
<1>2. PICK x \in below : \A y \in below : ~(<<y, x>> \in OpToRel(<, Nat))
  BY <1>1, NatLessThanWellFounded, WFMin
<1>3. \A y \in below : ~(y < x)
  BY <1>1, <1>2 DEF OpToRel
<1>4. PICK i \in T : x = n - i
  BY <1>2
<1>5. \A j \in T : j <= i
  <2> SUFFICES ASSUME NEW j \in T PROVE j <= i
    OBVIOUS
  <2>1. ~(n - j < n - i)
    BY <1>3, <1>4
  <2> QED
    BY <2>1
<1> QED
  BY <1>5

\* A known key has a tenant.
LEMMA ValidateType ==
  ASSUME NEW k, Known(k)
  PROVE  Validate(k) \in Tenants
<1>1. EntriesOf(k) # {} /\ EntriesOf(k) \in SUBSET (1 .. Len(Entries)) /\ Len(Entries) \in Nat
  BY GatewayAssumption DEF Known, EntriesOf
<1>2. \E i \in EntriesOf(k) : \A j \in EntriesOf(k) : j <= i
  BY <1>1, Greatest
<1> DEFINE i == CHOOSE i \in EntriesOf(k) : \A j \in EntriesOf(k) : j <= i
<1>3. i \in EntriesOf(k)
  BY <1>2
<1> QED
  BY <1>3 DEF Validate, Tenants, EntriesOf

\* The key of a request is a rate limit key.
LEMMA ClientKeyType ==
  ASSUME ChainTypes, NEW s \in Slots
  PROVE  clientKey(s) \in Keys
BY GatewayAssumption DEF ChainTypes, clientKey

\* The bucket that is asked is the one of the client who is held to account.
LEMMA AccountableKey ==
  ASSUME ChainInv, NEW s \in Slots, stage[s] = "limit", Applies("ratelimit", s)
  PROVE  /\ "auth" \in enabled => s[2] = "client" /\ clientKey(s) = tenant[s]
         /\ "auth" \notin enabled => clientKey(s) = host[s]
         /\ \A w : AsksFor(s, w) <=> s[2] = "client" /\ w = clientKey(s)
<1>1. Identity(s) /\ ("auth" \in enabled => Applies("auth", s))
  BY DEF ChainInv, Applies
<1> QED
  BY <1>1 DEF Identity, clientKey, AsksFor

-----------------------------------------------------------------------------
(* The invariant of the chain *)

\* Slots are pairs of a connection and a role.
LEMMA SlotPairs ==
  /\ \A c \in Conns : /\ Client(c) \in Slots /\ Client(c)[1] = c /\ Client(c)[2] = "client"
                      /\ Self(c) \in Slots /\ Self(c)[1] = c /\ Self(c)[2] = "self"
                      /\ \A d \in Conns : Client(c) # Self(d) /\ (Self(c) = Self(d) => c = d)
  /\ \A s \in Slots : /\ s[1] \in Conns /\ s[2] \in {"client", "self"}
                      /\ s[2] = "client" => s = Client(s[1])
                      /\ s[2] = "self" => s = Self(s[1])
BY DEF Slots, Client, Self

\* The chain starts empty.
LEMMA ChainInit == GatewayInit => ChainInv
<1> SUFFICES ASSUME GatewayInit PROVE ChainInv
  OBVIOUS
<1>1. ChainTypes
  BY GatewayAssumption DEF GatewayInit, ChainTypes, GatewayStages, NoStatus
<1>2. \A c \in Conns : SelfCall(c)
  BY SlotPairs DEF GatewayInit, SelfCall, NoStatus
<1>3. \A s \in Slots : Identity(s)
  BY DEF GatewayInit, Identity
<1>4. \A s \in Slots : selfAddress => classified[s] = FALSE
  BY DEF GatewayInit
<1> QED
  BY <1>1, <1>2, <1>3, <1>4 DEF ChainInv

\* What a verdict can be.
LEMMA VerdictType ==
  /\ \A s \in Slots : \A body \in Bodies(s) : Verdict(body) \in {405, 400, Aborted, Routable}
  /\ Verdict("no_messages") = 400
BY DEF Bodies, Verdict, Aborted, Routable

\* An answer ends the request and resets what belongs to it.
LEMMA AnswerEffect ==
  ASSUME ChainTypes, NEW s \in Slots, NEW from \in GatewayStages, NEW code \in Nat, Answer(s, from, code)
  PROVE  /\ stage[s] = from
         /\ stage' = [stage EXCEPT ![s] = IF s[2] = "client" THEN "idle" ELSE "answered"]
         /\ s[2] = "client" => status' = status
         /\ s[2] = "self" => status' = [status EXCEPT ![s[1]] = code]
         /\ probe' = [probe EXCEPT ![s] = FALSE]
         /\ classified' = [classified EXCEPT ![s] = FALSE]
         /\ host' = [host EXCEPT ![s] = Loopback]
         /\ tenant' = [tenant EXCEPT ![s] = Absent]
BY SlotPairs DEF Answer, Goto, Forget

\* Who answers, and with what.
Answers(s) == \E from \in {"auth", "limit", "handle", "route"}, code \in {200, 400, 401, 404, 405, 429, 503, Aborted} :
                /\ Answer(s, from, code)
                /\ s[2] = "self" => from # "route" /\ code # 200

\* Every step that ends a request answers it; the router's own requests never
\* get a 200.
LEMMA AnswerSteps ==
  ASSUME ChainInv, NEW s \in Slots,
         Unauthorized(s) \/ Throttle(s) \/ ServeRead(s) \/ RejectBody(s) \/ Route(s)
  PROVE  Answers(s) /\ UNCHANGED chainVars
<1> USE DEF Answers
<1>1. CASE Unauthorized(s) \/ Throttle(s)
  BY <1>1 DEF Unauthorized, Throttle
<1>2. CASE ServeRead(s)
  BY <1>2 DEF ServeRead
<1>3. CASE RejectBody(s)
  <2>1. PICK body \in Bodies(s) : Verdict(body) # Routable /\ Answer(s, "handle", Verdict(body))
    BY <1>3 DEF RejectBody
  <2>2. Verdict(body) \in {405, 400, Aborted}
    BY <2>1, VerdictType
  <2>3. s[2] = "self" => Verdict(body) = 400
    BY <2>1, VerdictType DEF Bodies
  <2> QED
    BY <1>3, <2>1, <2>2, <2>3 DEF RejectBody
<1>4. CASE Route(s)
  <2>1. stage[s] = "route"
    BY <1>4 DEF Route, Answer, Goto
  <2>2. s[2] # "self"
    BY <2>1, SlotPairs DEF ChainInv, SelfCall
  <2> QED
    BY <1>4, <2>2 DEF Route
<1> QED
  BY <1>1, <1>2, <1>3, <1>4

\* Answering keeps the invariant of the chain.
LEMMA AnswerKeeps ==
  ASSUME ChainInv, NEW s \in Slots, Answers(s), UNCHANGED chainVars
  PROVE  ChainInv'
<1>1. PICK from \in {"auth", "limit", "handle", "route"}, code \in {200, 400, 401, 404, 405, 429, 503, Aborted} :
        /\ Answer(s, from, code)
        /\ s[2] = "self" => from # "route" /\ code # 200
  BY DEF Answers
<1>2. code \in Nat /\ from \in GatewayStages /\ ChainTypes
  BY DEF Aborted, GatewayStages, ChainInv
<1>3. /\ stage[s] = from
      /\ stage' = [stage EXCEPT ![s] = IF s[2] = "client" THEN "idle" ELSE "answered"]
      /\ s[2] = "client" => status' = status
      /\ s[2] = "self" => status' = [status EXCEPT ![s[1]] = code]
      /\ probe' = [probe EXCEPT ![s] = FALSE]
      /\ classified' = [classified EXCEPT ![s] = FALSE]
      /\ host' = [host EXCEPT ![s] = Loopback]
      /\ tenant' = [tenant EXCEPT ![s] = Absent]
  BY <1>1, <1>2, AnswerEffect
<1>4. ChainTypes'
  <2>1. stage' \in [Slots -> GatewayStages]
    BY <1>2, <1>3 DEF ChainTypes, GatewayStages
  <2>2. probe' \in [Slots -> BOOLEAN] /\ classified' \in [Slots -> BOOLEAN]
    BY <1>2, <1>3 DEF ChainTypes
  <2>3. host' \in [Slots -> Hosts] /\ tenant' \in [Slots -> Tenants \cup {Absent}]
    BY <1>2, <1>3, GatewayAssumption DEF ChainTypes
  <2>4. status' \in [Conns -> Nat]
    BY <1>2, <1>3, SlotPairs DEF ChainTypes
  <2> QED
    BY <2>1, <2>2, <2>3, <2>4 DEF ChainTypes
<1>5. ASSUME NEW c \in Conns PROVE SelfCall(c)'
  <2>1. SelfCall(c) /\ selfAddress' = selfAddress
    BY DEF ChainInv, chainVars
  <2>2. CASE s = Self(c)
    <3>1. stage[Self(c)] # "idle"
      BY <1>1, <1>3, <2>2
    <3>2. s[2] = "self" /\ s[1] = c /\ s \in Slots
      BY <2>2, SlotPairs
    <3>3. stage'[s] = "answered" /\ host'[s] = Loopback /\ probe'[s] = FALSE
      BY <1>2, <1>3, <3>2 DEF ChainTypes
    <3>4. status'[c] = code
      BY <1>2, <1>3, <3>2 DEF ChainTypes
    <3> QED
      BY <1>1, <2>1, <2>2, <3>1, <3>2, <3>3, <3>4 DEF SelfCall
  <2>3. CASE s # Self(c)
    <3>1. (s[2] = "self" => s[1] # c) /\ s[2] \in {"client", "self"} /\ s[1] \in Conns /\ Self(c) \in Slots
      BY <2>3, SlotPairs
    <3>2. /\ stage'[Self(c)] = stage[Self(c)] /\ host'[Self(c)] = host[Self(c)]
          /\ probe'[Self(c)] = probe[Self(c)]
      BY <1>2, <1>3, <2>3, <3>1 DEF ChainTypes
    <3>3. status'[c] = status[c]
      BY <1>2, <1>3, <3>1 DEF ChainTypes
    <3> QED
      BY <2>1, <3>2, <3>3 DEF SelfCall
  <2> QED
    BY <2>2, <2>3
<1>6. ASSUME NEW t \in Slots PROVE Identity(t)'
  <2>1. CASE t = s
    BY <1>2, <1>3, <2>1 DEF Identity, ChainTypes
  <2>2. CASE t # s
    <3>1. stage'[t] = stage[t] /\ tenant'[t] = tenant[t] /\ probe'[t] = probe[t] /\ enabled' = enabled
      BY <1>2, <1>3, <2>2 DEF ChainTypes, chainVars
    <3> QED
      BY <3>1 DEF Identity, Applies, ChainInv
  <2> QED
    BY <2>1, <2>2
<1>7. ASSUME NEW t \in Slots, selfAddress' PROVE classified'[t] = FALSE
  BY <1>2, <1>3, <1>7 DEF ChainTypes, ChainInv, chainVars
<1> QED
  BY <1>4, <1>5, <1>6, <1>7 DEF ChainInv

\* What belongs to slot t stays as it is.
SameSlot(t) == /\ stage'[t] = stage[t] /\ probe'[t] = probe[t] /\ host'[t] = host[t]
               /\ tenant'[t] = tenant[t] /\ classified'[t] = classified[t]

\* A step that touches slot s alone, and no answer, keeps the invariant if it
\* keeps what the invariant says of s.
LEMMA OneSlot ==
  ASSUME ChainInv, NEW s \in Slots, ChainTypes', UNCHANGED chainVars, UNCHANGED status,
         \A t \in Slots \ {s} : SameSlot(t),
         s[2] = "self" => SelfCall(s[1])', Identity(s)', selfAddress => classified'[s] = FALSE
  PROVE  ChainInv'
<1>1. ASSUME NEW c \in Conns PROVE SelfCall(c)'
  <2>1. CASE s = Self(c)
    BY <2>1, SlotPairs
  <2>2. CASE s # Self(c)
    <3>1. SameSlot(Self(c)) /\ SelfCall(c) /\ selfAddress' = selfAddress
      BY <2>2, SlotPairs DEF ChainInv, chainVars
    <3> QED
      BY <3>1 DEF SameSlot, SelfCall
  <2> QED
    BY <2>1, <2>2
<1>2. ASSUME NEW t \in Slots PROVE Identity(t)'
  <2>1. CASE t # s
    <3>1. SameSlot(t) /\ Identity(t) /\ enabled' = enabled
      BY <2>1 DEF ChainInv, chainVars
    <3> QED
      BY <3>1 DEF SameSlot, Identity, Applies
  <2> QED
    BY <2>1
<1>3. ASSUME NEW t \in Slots, selfAddress' PROVE classified'[t] = FALSE
  <2>1. selfAddress
    BY <1>3 DEF chainVars
  <2>2. CASE t # s
    <3>1. SameSlot(t) /\ classified[t] = FALSE
      BY <2>1, <2>2 DEF ChainInv
    <3> QED
      BY <3>1 DEF SameSlot
  <2> QED
    BY <2>1, <2>2
<1> QED
  BY <1>1, <1>2, <1>3 DEF ChainInv

\* Authentication keeps the invariant: it leaves a tenant, or does not apply.
LEMMA AuthKeeps ==
  ASSUME ChainInv, NEW s \in Slots, SkipAuth(s) \/ Authenticate(s)
  PROVE  ChainInv'
<1>1. /\ ChainTypes /\ stage' = [stage EXCEPT ![s] = "limit"] /\ stage[s] = "auth"
      /\ UNCHANGED <<chainVars, status, probe, host, classified>>
      /\ s[2] = "self" => SelfCall(s[1]) /\ s = Self(s[1])
      /\ Identity(s)
  BY SlotPairs DEF ChainInv, SkipAuth, Authenticate, Goto
<1>2. CASE SkipAuth(s)
  <2>1. tenant' = tenant /\ ~Applies("auth", s)
    BY <1>2 DEF SkipAuth
  <2>2. ChainTypes'
    BY <1>1, <2>1 DEF ChainTypes, GatewayStages
  <2>3. \A t \in Slots \ {s} : SameSlot(t)
    BY <1>1, <2>1 DEF ChainTypes, SameSlot
  <2>4. s[2] = "self" => SelfCall(s[1])'
    BY <1>1 DEF SelfCall, ChainTypes, chainVars
  <2>5. Identity(s)'
    BY <1>1, <2>1 DEF Identity, Applies, chainVars
  <2>6. selfAddress => classified'[s] = FALSE
    BY <1>1 DEF ChainInv
  <2> QED
    BY <1>1, <2>2, <2>3, <2>4, <2>5, <2>6, OneSlot
<1>3. CASE Authenticate(s)
  <2>1. PICK k \in KeysOf(s) : Known(k) /\ tenant' = [tenant EXCEPT ![s] = Validate(k)]
    BY <1>3 DEF Authenticate
  <2>2. Validate(k) \in Tenants /\ Validate(k) # Absent
    BY <2>1, ValidateType, GatewayAssumption
  <2>3. s[2] = "client" /\ "auth" \in enabled
    <3>1. s[2] # "self"
      BY <2>1 DEF KeysOf, Known
    <3> QED
      BY <1>3, <3>1, SlotPairs DEF Authenticate, Applies
  <2>4. ChainTypes'
    BY <1>1, <2>1, <2>2 DEF ChainTypes, GatewayStages
  <2>5. \A t \in Slots \ {s} : SameSlot(t)
    BY <1>1, <2>1 DEF ChainTypes, SameSlot
  <2>6. Identity(s)'
    BY <1>1, <2>1, <2>2, <2>3 DEF Identity, ChainTypes, chainVars
  <2>7. selfAddress => classified'[s] = FALSE
    BY <1>1 DEF ChainInv
  <2> QED
    BY <1>1, <2>3, <2>4, <2>5, <2>6, <2>7, OneSlot
<1> QED
  BY <1>2, <1>3

\* So does leaving the limiter, which is the last to use host and tenant.
LEMMA LimitKeeps ==
  ASSUME ChainInv, NEW s \in Slots, SkipLimit(s) \/ Admit(s)
  PROVE  ChainInv'
<1>1. /\ ChainTypes /\ stage' = [stage EXCEPT ![s] = "handle"] /\ stage[s] = "limit"
      /\ host' = [host EXCEPT ![s] = Loopback] /\ tenant' = [tenant EXCEPT ![s] = Absent]
      /\ UNCHANGED <<chainVars, status, probe, classified>>
      /\ s[2] = "self" => SelfCall(s[1]) /\ s = Self(s[1])
  BY SlotPairs DEF ChainInv, SkipLimit, Admit, Goto, Forget
<1>2. ChainTypes'
  BY <1>1, GatewayAssumption DEF ChainTypes, GatewayStages
<1>3. \A t \in Slots \ {s} : SameSlot(t)
  BY <1>1 DEF ChainTypes, SameSlot
<1>4. s[2] = "self" => SelfCall(s[1])'
  BY <1>1 DEF SelfCall, ChainTypes, chainVars
<1>5. Identity(s)'
  BY <1>1 DEF Identity, ChainTypes
<1>6. selfAddress => classified'[s] = FALSE
  BY <1>1 DEF ChainInv
<1> QED
  BY <1>1, <1>2, <1>3, <1>4, <1>5, <1>6, OneSlot

\* So do the steps of a client's request around the limiter: the router's own
\* requests take none of them.
LEMMA HandleKeeps ==
  ASSUME ChainInv, NEW s \in Slots, AcceptBody(s) \/ AskService(s)
  PROVE  ChainInv'
<1>1. s[2] # "self"
  <2>1. CASE AcceptBody(s)
    BY <2>1, VerdictType DEF AcceptBody, Bodies, Routable
  <2>2. CASE AskService(s)
    BY <2>2, SlotPairs DEF AskService, Goto, ChainInv, SelfCall
  <2> QED
    BY <2>1, <2>2
<1>2. PICK to \in {"classify", "route"} : stage' = [stage EXCEPT ![s] = to]
  BY DEF AcceptBody, AskService, Goto
<1>3. /\ ChainTypes /\ Identity(s) /\ UNCHANGED <<chainVars, status, probe, host, tenant>>
  BY DEF ChainInv, AcceptBody, AskService
<1>4. PICK ok \in BOOLEAN : classified' = [classified EXCEPT ![s] = ok] /\ (selfAddress => ok = FALSE)
  <2>1. CASE AcceptBody(s)
    <3>1. classified' = classified /\ classified[s] \in BOOLEAN /\ (selfAddress => classified[s] = FALSE)
      BY <1>3, <2>1 DEF AcceptBody, ChainTypes, ChainInv
    <3>2. classified' = [classified EXCEPT ![s] = classified[s]]
      BY <1>3, <3>1 DEF ChainTypes
    <3> QED
      BY <3>1, <3>2
  <2>2. CASE AskService(s)
    BY <2>2 DEF AskService
  <2> QED
    BY <2>1, <2>2
<1>5. ChainTypes'
  BY <1>2, <1>3, <1>4 DEF ChainTypes, GatewayStages
<1>6. \A t \in Slots \ {s} : SameSlot(t)
  BY <1>2, <1>3, <1>4 DEF ChainTypes, SameSlot
<1>7. Identity(s)'
  BY <1>2, <1>3 DEF Identity, ChainTypes, chainVars
<1>8. selfAddress => classified'[s] = FALSE
  BY <1>3, <1>4 DEF ChainTypes
<1> QED
  BY <1>1, <1>3, <1>5, <1>6, <1>7, <1>8, OneSlot

\* So do the arrival of a request and a client that gives up on its answer.
LEMMA ClientKeeps ==
  ASSUME ChainInv, NEW c \in Conns, Arrive(c) \/ GiveUp(c)
  PROVE  ChainInv'
<1> DEFINE s == Client(c)
<1>1. s \in Slots /\ s[2] = "client"
  BY SlotPairs
<1>2. /\ ChainTypes /\ Identity(s) /\ UNCHANGED <<chainVars, status, tenant, classified>>
      /\ stage' = [stage EXCEPT ![s] = stage'[s]] /\ stage'[s] \in {"auth", "route"}
      /\ probe' = [probe EXCEPT ![s] = probe'[s]] /\ probe'[s] \in BOOLEAN
      /\ host' = [host EXCEPT ![s] = host'[s]] /\ host'[s] \in Hosts
  <2>1. ChainTypes /\ Identity(s)
    BY <1>1 DEF ChainInv
  <2>2. CASE Arrive(c)
    <3>1. PICK p \in BOOLEAN, h \in Hosts : /\ probe' = [probe EXCEPT ![s] = p]
                                            /\ host' = [host EXCEPT ![s] = h]
      BY <2>2 DEF Arrive
    <3>2. probe'[s] = p /\ host'[s] = h
      BY <1>1, <2>1, <3>1 DEF ChainTypes
    <3> QED
      BY <1>1, <2>1, <2>2, <3>1, <3>2 DEF Arrive, Goto, ChainTypes
  <2>3. CASE GiveUp(c)
    BY <1>1, <2>1, <2>3 DEF GiveUp, Goto, ChainTypes
  <2> QED
    BY <2>2, <2>3
<1> HIDE DEF s
<1>3. ChainTypes'
  BY <1>1, <1>2 DEF ChainTypes, GatewayStages
<1>4. \A t \in Slots \ {s} : SameSlot(t)
  BY <1>1, <1>2 DEF ChainTypes, SameSlot
<1>5. Identity(s)'
  BY <1>2 DEF Identity, chainVars
<1>6. selfAddress => classified'[s] = FALSE
  BY <1>1, <1>2 DEF ChainInv
<1> QED
  BY <1>1, <1>2, <1>3, <1>4, <1>5, <1>6, OneSlot

\* So do the start and the end of a call of the router to itself.
LEMMA SelfKeeps ==
  ASSUME ChainInv, NEW c \in Conns, AskSelf(c) \/ HearSelf(c) \/ Discard(c)
  PROVE  ChainInv'
<1>1. /\ ChainTypes /\ UNCHANGED <<chainVars, probe, host, tenant>>
      /\ Client(c) \in Slots /\ Self(c) \in Slots /\ Client(c) # Self(c)
  BY SlotPairs DEF ChainInv, AskSelf, HearSelf, Discard
<1>2. /\ stage' \in [Slots -> GatewayStages]
      /\ stage'[Self(c)] \in {"auth", "idle"} /\ (stage'[Self(c)] = "auth" => selfAddress)
      /\ \A t \in Slots : stage'[t] # stage[t] => t \in {Client(c), Self(c)} /\ stage'[t] # "limit"
  BY <1>1 DEF AskSelf, HearSelf, Discard, Goto, ChainTypes, GatewayStages
<1>3. status' \in [Conns -> Nat] /\ \A d \in Conns : status'[d] \in {status[d], NoStatus}
  BY <1>1 DEF AskSelf, HearSelf, Discard, ChainTypes, NoStatus
<1>4. /\ classified' \in [Slots -> BOOLEAN]
      /\ \A t \in Slots : selfAddress => classified'[t] = FALSE
  <2>1. CASE AskSelf(c) \/ Discard(c)
    BY <1>1, <2>1 DEF AskSelf, Discard, ChainTypes, ChainInv
  <2>2. CASE HearSelf(c)
    <3>1. (status[c] = 200) = FALSE
      BY DEF ChainInv, SelfCall
    <3>2. classified' = [classified EXCEPT ![Client(c)] = FALSE]
      BY <2>2, <3>1 DEF HearSelf
    <3> QED
      BY <1>1, <3>2 DEF ChainTypes, ChainInv
  <2> QED
    BY <2>1, <2>2
<1>5. ChainTypes'
  BY <1>1, <1>2, <1>3, <1>4 DEF ChainTypes
<1>6. ASSUME NEW d \in Conns PROVE SelfCall(d)'
  <2>1. SelfCall(d) /\ selfAddress' = selfAddress /\ Self(d) \in Slots
    BY <1>1, SlotPairs DEF ChainInv, chainVars
  <2>2. status'[d] # 200
    BY <1>3, <2>1 DEF SelfCall, NoStatus
  <2>3. \/ /\ stage'[Self(d)] \in {"auth", "idle"}
           /\ stage'[Self(d)] = "auth" => selfAddress
        \/ stage'[Self(d)] = stage[Self(d)]
    <3>1. CASE d = c
      BY <1>2, <3>1
    <3>2. CASE d # c
      BY <1>2, <2>1, <3>2, SlotPairs
    <3> QED
      BY <3>1, <3>2
  <2> QED
    BY <1>1, <2>1, <2>2, <2>3 DEF SelfCall
<1>7. ASSUME NEW t \in Slots PROVE Identity(t)'
  BY <1>1, <1>2 DEF ChainInv, Identity, Applies, chainVars
<1>8. ASSUME NEW t \in Slots, selfAddress' PROVE classified'[t] = FALSE
  BY <1>1, <1>4, <1>8 DEF chainVars
<1> QED
  BY <1>5, <1>6, <1>7, <1>8 DEF ChainInv

\* Every step keeps the invariant of the chain.
LEMMA ChainStep == ChainInv /\ [GatewayNext]_gatewayVars => ChainInv'
<1> SUFFICES ASSUME ChainInv, [GatewayNext]_gatewayVars PROVE ChainInv'
  OBVIOUS
<1>1. ASSUME UNCHANGED <<chainVars, reqVars>> PROVE ChainInv'
  BY <1>1 DEF ChainInv, ChainTypes, SelfCall, Identity, Applies, chainVars, reqVars
<1>2. ASSUME NEW s \in Slots, MakeBucket(s) PROVE ChainInv'
  BY <1>1, <1>2 DEF MakeBucket
<1>3. ASSUME NEW s \in Slots, Serve(s), ~MakeBucket(s) PROVE ChainInv'
  BY <1>3, AuthKeeps, LimitKeeps, HandleKeeps, AnswerSteps, AnswerKeeps DEF Serve
<1>4. ASSUME NEW c \in Conns, Arrive(c) \/ AskSelf(c) \/ HearSelf(c) \/ GiveUp(c) \/ Discard(c) PROVE ChainInv'
  BY <1>4, ClientKeeps, SelfKeeps
<1>5. CASE (\E k \in Watched : Observe(k)) \/ TimePasses \/ UNCHANGED gatewayVars
  BY <1>1, <1>5 DEF Observe, TimePasses, gatewayVars
<1> QED
  BY <1>2, <1>3, <1>4, <1>5 DEF GatewayNext

\* The invariant of the chain holds in every reachable state.
THEOREM ChainInvariance == GatewaySpec => []ChainInv
BY ChainInit, ChainStep, PTL DEF GatewaySpec

\* The router never answers its own request for a classification, whatever is
\* enabled and however calls, timeouts and late answers interleave.
THEOREM SelfCallFallsBackSafe == GatewaySpec => []SelfCallFallsBack
<1>1. ASSUME ChainInv PROVE SelfCallFallsBack
  BY <1>1, SlotPairs DEF ChainInv, SelfCall, SelfCallFallsBack
<1> QED
  BY <1>1, ChainInvariance, PTL

-----------------------------------------------------------------------------
(* The limiter behind the chain *)

\* Every step of the gateway is a step of the rate limiter or none of its
\* business: GatewaySpec implements the limiter's specification.
LEMMA LimiterStep == ChainInv /\ [GatewayNext]_gatewayVars => [Next]_vars
<1> SUFFICES ASSUME ChainInv, [GatewayNext]_gatewayVars, ~UNCHANGED vars PROVE Next
  OBVIOUS
<1>1. ASSUME NEW s \in Slots, Serve(s) PROVE MakeBucket(s) \/ Admit(s) \/ Throttle(s)
  BY <1>1 DEF Serve, SkipAuth, Authenticate, Unauthorized, SkipLimit, ServeRead, RejectBody, AcceptBody,
     AskService, Route
<1>2. ASSUME NEW s \in Slots, Serve(s) PROVE \E k \in Keys : newBucket(k) \/ Grant(k) \/ Refuse(k)
  BY <1>1, <1>2, ClientKeyType DEF ChainInv, MakeBucket, Admit, Throttle
<1>3. \A c \in Conns : ~Arrive(c) /\ ~AskSelf(c) /\ ~HearSelf(c) /\ ~GiveUp(c) /\ ~Discard(c)
  BY DEF Arrive, AskSelf, HearSelf, GiveUp, Discard
<1>4. ASSUME NEW k \in Watched, Observe(k) PROVE k \in Keys /\ Mark(k)
  BY <1>4, GatewayAssumption DEF Observe
<1> QED
  BY <1>2, <1>3, <1>4 DEF GatewayNext, TimePasses, Next, gatewayVars

\* The middleware chain uses the limiter as its own specification allows.
THEOREM GatewayImplementsLimiter == GatewaySpec => Spec
<1>1. GatewayInit => Init
  BY DEF GatewayInit
<1> QED
  BY <1>1, LimiterStep, ChainInvariance, PTL DEF GatewaySpec, Spec

\* The bound on every interval holds behind the chain.
THEOREM GatewayIntervalBound == GatewaySpec => []IntervalBound
BY GatewayImplementsLimiter, IntervalBoundSafe, PTL

\* So does the promise of Retry-After.
THEOREM GatewayRetryAfter == GatewaySpec => []RetryAfterHonoured
BY GatewayImplementsLimiter, RetryAfterSafe, PTL

\* What a client is held to account for, its bucket has granted.
Counted == /\ reached \in [Keys -> Nat]
           /\ \A w \in Keys : reached[w] <= since[w]

\* Whatever reaches the handler on a client's account was granted by its bucket.
LEMMA CountStep == ChainInv /\ IInv /\ Counted /\ [GatewayNext]_gatewayVars => Counted'
<1> SUFFICES ASSUME ChainInv, IInv, Counted, [GatewayNext]_gatewayVars PROVE Counted'
  OBVIOUS
<1> USE DEF Counted
<1>0. since \in [Keys -> Nat]
  BY DEF IInv, TypeOK
<1>1. ASSUME UNCHANGED <<since, reached>> PROVE Counted'
  BY <1>1
<1>2. ASSUME NEW s \in Slots, Admit(s) PROVE Counted'
  <2>1. /\ stage[s] = "limit" /\ Applies("ratelimit", s)
        /\ reached' = [w \in Keys |-> IF AsksFor(s, w) THEN reached[w] + 1 ELSE reached[w]]
        /\ since' = [since EXCEPT ![clientKey(s)] = @ + 1]
    BY <1>2 DEF Admit, Goto, Grant
  <2>2. \A w : AsksFor(s, w) => w = clientKey(s)
    BY <2>1, AccountableKey
  <2> QED
    BY <1>0, <2>1, <2>2
<1>3. ASSUME NEW s \in Slots, MakeBucket(s) \/ Throttle(s) PROVE Counted'
  BY <1>1, <1>3 DEF MakeBucket, newBucket, Throttle, Refuse, countVars
<1>4. ASSUME NEW s \in Slots, Serve(s), ~MakeBucket(s), ~Throttle(s), ~Admit(s) PROVE Counted'
  BY <1>1, <1>4 DEF Serve, SkipAuth, Authenticate, Unauthorized, SkipLimit, ServeRead, RejectBody, AcceptBody,
     AskService, Route, vars, countVars
<1>5. ASSUME NEW c \in Conns, Arrive(c) \/ AskSelf(c) \/ HearSelf(c) \/ GiveUp(c) \/ Discard(c) PROVE Counted'
  BY <1>1, <1>5 DEF Arrive, AskSelf, HearSelf, GiveUp, Discard, vars, countVars
<1>6. ASSUME NEW k \in Watched, Observe(k) PROVE Counted'
  <2>1. since' = [since EXCEPT ![k] = 0] /\ reached' = [reached EXCEPT ![k] = 0] /\ k \in Keys
    BY <1>6, GatewayAssumption DEF Observe, Mark
  <2>2. reached' \in [Keys -> Nat]
    BY <2>1
  <2>3. ASSUME NEW w \in Keys PROVE reached'[w] <= since'[w]
    <3>1. CASE w = k
      BY <1>0, <2>1, <3>1
    <3>2. CASE w # k
      BY <1>0, <2>1, <3>2
    <3> QED
      BY <3>1, <3>2
  <2> QED
    BY <2>2, <2>3
<1>7. CASE TimePasses \/ UNCHANGED gatewayVars
  BY <1>1, <1>7 DEF TimePasses, Tick, gatewayVars, vars, countVars
<1> QED
  BY <1>2, <1>3, <1>4, <1>5, <1>6, <1>7 DEF GatewayNext

\* A client gets one quota, for every number of its keys, hosts and connections
\* and every schedule.
THEOREM QuotaPerClientSafe == GatewaySpec => []QuotaPerClient
<1>1. GatewayInit => Counted
  BY DEF GatewayInit, Init, Counted
<1>2. GatewaySpec => []IInv
  BY GatewayImplementsLimiter, Invariance, PTL
<1>3. GatewaySpec => []Counted
  BY <1>1, <1>2, CountStep, ChainInvariance, PTL DEF GatewaySpec
<1>4. ASSUME IInv, IntervalBound, Counted PROVE QuotaPerClient
  <2> SUFFICES ASSUME NEW w \in Keys
               PROVE  reached[w] * TokenUnits <= Capacity + RatePerTick * (clock - markedAt[w])
    BY DEF QuotaPerClient
  <2>1. reached[w] \in Nat /\ since[w] \in Nat /\ reached[w] <= since[w] /\ TokenUnits \in Nat
    BY <1>4, RateAssumption DEF Counted, IInv, TypeOK
  <2>2. TokenUnits * reached[w] <= TokenUnits * since[w]
    BY <2>1, MulMono
  <2>3. /\ TokenUnits * reached[w] = reached[w] * TokenUnits /\ TokenUnits * since[w] = since[w] * TokenUnits
        /\ reached[w] * TokenUnits \in Nat /\ since[w] * TokenUnits \in Nat
    BY <2>1, MulNat
  <2>4. since[w] * TokenUnits <= Capacity + RatePerTick * (clock - markedAt[w])
    BY <1>4 DEF IntervalBound
  <2>5. Capacity + RatePerTick * (clock - markedAt[w]) \in Nat
    BY <1>4, LevelType, CapacityType DEF IInv
  <2> QED
    BY <2>2, <2>3, <2>4, <2>5
<1> QED
  BY <1>2, <1>3, <1>4, GatewayIntervalBound, PTL

-----------------------------------------------------------------------------
(* Who uses a bucket up *)

\* Clients whose bucket nobody else takes from.
Accountable(w) == IF "auth" \in enabled THEN w \in Tenants
                  ELSE w \in Hosts /\ (selfAddress => w # Loopback)

\* The bucket of such a client is as good as new, or its last grant was a
\* request of that client.
OwnUse ==
  \A w \in Keys : Accountable(w) => tokens[w] = Capacity \/ lastReached[w] = lastGrant[w]

\* Whoever takes from the bucket of such a client is that client.
LEMMA OwnKey ==
  ASSUME ChainInv, NEW s \in Slots, stage[s] = "limit", Applies("ratelimit", s), Accountable(clientKey(s))
  PROVE  AsksFor(s, clientKey(s))
<1>1. CASE "auth" \in enabled
  BY <1>1, AccountableKey
<1>2. CASE "auth" \notin enabled /\ s[2] = "self"
  <2>1. SelfCall(s[1]) /\ s = Self(s[1])
    BY <1>2, SlotPairs DEF ChainInv
  <2>2. host[s] = Loopback /\ selfAddress
    BY <2>1 DEF SelfCall
  <2> QED
    BY <1>2, <2>2, AccountableKey DEF Accountable
<1>3. CASE "auth" \notin enabled /\ s[2] = "client"
  BY <1>3, AccountableKey
<1> QED
  BY <1>1, <1>2, <1>3, SlotPairs

\* A full bucket is full at every later time.
LEMMA FullStaysFull ==
  ASSUME TypeOK, NEW k \in Keys, tokens[k] = Capacity
  PROVE  Level(k) = Capacity
BY LevelType, CapacityType DEF Level

\* Every step keeps it so: refusals and the time between do not count.
LEMMA OwnStep == ChainInv /\ IInv /\ OwnUse /\ [GatewayNext]_gatewayVars => OwnUse'
<1> SUFFICES ASSUME ChainInv, IInv, OwnUse, [GatewayNext]_gatewayVars,
                    NEW w \in Keys, Accountable(w)'
             PROVE  tokens'[w] = Capacity \/ lastReached'[w] = lastGrant'[w]
  BY DEF OwnUse, Capacity
<1>0. /\ TypeOK /\ tokens \in [Keys -> 0 .. Capacity] /\ lastGrant \in [Keys -> Nat]
  BY DEF IInv, TypeOK
<1>1. UNCHANGED chainVars
  BY DEF GatewayNext, Serve, SkipAuth, Authenticate, Unauthorized, SkipLimit, MakeBucket, Admit, Throttle,
     ServeRead, RejectBody, AcceptBody, AskService, Route, Arrive, AskSelf, HearSelf, GiveUp, Discard,
     Observe, TimePasses, gatewayVars
<1>2. Accountable(w) /\ (tokens[w] = Capacity \/ lastReached[w] = lastGrant[w])
  BY <1>1 DEF Accountable, OwnUse, chainVars
<1>3. ASSUME NEW s \in Slots, MakeBucket(s) PROVE tokens'[w] = Capacity \/ lastReached'[w] = lastGrant'[w]
  BY <1>0, <1>2, <1>3 DEF MakeBucket, newBucket, countVars
<1>4. ASSUME NEW s \in Slots, Admit(s) PROVE tokens'[w] = Capacity \/ lastReached'[w] = lastGrant'[w]
  <2>1. /\ stage[s] = "limit" /\ Applies("ratelimit", s) /\ Grant(clientKey(s))
        /\ lastReached' = [v \in Keys |-> IF AsksFor(s, v) THEN clock ELSE lastReached[v]]
    BY <1>4 DEF Admit, Goto
  <2>2. CASE w = clientKey(s)
    <3>1. AsksFor(s, w)
      BY <1>2, <2>1, <2>2, OwnKey
    <3> QED
      BY <1>0, <2>1, <2>2, <3>1 DEF Grant
  <2>3. CASE w # clientKey(s)
    <3>1. ~AsksFor(s, w)
      BY <2>1, <2>3, AccountableKey
    <3> QED
      BY <1>0, <1>2, <2>1, <2>3, <3>1 DEF Grant
  <2> QED
    BY <2>2, <2>3
<1>5. ASSUME NEW s \in Slots, Throttle(s) PROVE tokens'[w] = Capacity \/ lastReached'[w] = lastGrant'[w]
  <2>1. /\ tokens' = [tokens EXCEPT ![clientKey(s)] = Level(clientKey(s))]
        /\ lastGrant' = lastGrant /\ lastReached' = lastReached
    BY <1>5 DEF Throttle, Refuse, countVars
  <2>2. tokens[w] = Capacity => Level(w) = Capacity
    BY <1>0, FullStaysFull
  <2> QED
    BY <1>0, <1>2, <2>1, <2>2
<1>6. ASSUME UNCHANGED <<tokens, lastGrant, lastReached>>
      PROVE  tokens'[w] = Capacity \/ lastReached'[w] = lastGrant'[w]
  BY <1>2, <1>6
<1>7. ASSUME NEW s \in Slots, Serve(s), ~MakeBucket(s), ~Throttle(s), ~Admit(s)
      PROVE  tokens'[w] = Capacity \/ lastReached'[w] = lastGrant'[w]
  BY <1>6, <1>7 DEF Serve, SkipAuth, Authenticate, Unauthorized, SkipLimit, ServeRead, RejectBody, AcceptBody,
     AskService, Route, vars, countVars
<1>8. CASE \/ \E c \in Conns : Arrive(c) \/ AskSelf(c) \/ HearSelf(c) \/ GiveUp(c) \/ Discard(c)
           \/ \E k \in Watched : Observe(k)
           \/ TimePasses \/ UNCHANGED gatewayVars
  BY <1>6, <1>8 DEF Arrive, AskSelf, HearSelf, GiveUp, Discard, Observe, Mark, TimePasses, Tick,
     gatewayVars, vars, countVars
<1> QED
  BY <1>3, <1>4, <1>5, <1>7, <1>8 DEF GatewayNext

\* A step that sends a client back from the limiter is a refusal of its bucket.
LEMMA SentBack ==
  ASSUME ChainInv, [GatewayNext]_gatewayVars, NEW c \in Conns,
         stage[Client(c)] = "limit", stage'[Client(c)] = "idle"
  PROVE  Throttle(Client(c))
<1>1. ChainTypes /\ Client(c) \in Slots
  BY SlotPairs DEF ChainInv
<1>2. ASSUME NEW s \in Slots, Serve(s) PROVE s = Client(c)
  <2>1. \E to : stage' = [stage EXCEPT ![s] = to] \/ stage' = stage
    BY <1>2 DEF Serve, SkipAuth, Authenticate, Unauthorized, SkipLimit, MakeBucket, Admit, Throttle, ServeRead,
       RejectBody, AcceptBody, AskService, Route, Answer, Goto, reqVars
  <2> QED
    BY <1>1, <1>2, <2>1 DEF ChainTypes
<1>3. ASSUME Serve(Client(c)) PROVE Throttle(Client(c))
  BY <1>1, <1>3 DEF Serve, SkipAuth, Authenticate, Unauthorized, SkipLimit, MakeBucket, Admit, ServeRead,
     RejectBody, AcceptBody, AskService, Route, Answer, Goto, reqVars, ChainTypes
<1>4. ASSUME NEW d \in Conns, Arrive(d) \/ AskSelf(d) \/ HearSelf(d) \/ GiveUp(d) \/ Discard(d) PROVE FALSE
  <2>1. Client(c) # Self(d) /\ Client(d) \in Slots /\ Self(d) \in Slots /\ stage \in [Slots -> GatewayStages]
    BY <1>1, SlotPairs DEF ChainTypes
  <2> QED
    BY <1>1, <1>4, <2>1 DEF Arrive, AskSelf, HearSelf, GiveUp, Discard, Goto
<1>5. ASSUME stage' = stage PROVE FALSE
  BY <1>5
<1> QED
  BY <1>2, <1>3, <1>4, <1>5 DEF GatewayNext, Observe, TimePasses, gatewayVars, reqVars

\* Nobody but the client itself makes the limiter refuse it, whatever the
\* number of clients, except on the router's own host.
THEOREM RefusedForOwnUseSafe == GatewaySpec => RefusedForOwnUse
<1>1. GatewayInit => OwnUse
  BY DEF GatewayInit, Init, OwnUse
<1>2. GatewaySpec => []IInv
  BY GatewayImplementsLimiter, Invariance, PTL
<1>3. GatewaySpec => []OwnUse
  BY <1>1, <1>2, OwnStep, ChainInvariance, PTL DEF GatewaySpec
<1>4. ASSUME ChainInv, IInv, OwnUse, RetryAfterHonoured, [GatewayNext]_gatewayVars, NEW c \in Conns,
             stage[Client(c)] = "limit", stage'[Client(c)] = "idle",
             "auth" \in enabled \/ ~selfAddress \/ host[Client(c)] # Loopback
      PROVE  \E w \in Keys : AsksFor(Client(c), w) /\ clock - lastReached[w] < RetryAfter
  <2> DEFINE s == Client(c)
             k == clientKey(s)
  <2>1. /\ s \in Slots /\ s[2] = "client" /\ ChainTypes /\ Throttle(s)
    BY <1>4, SentBack, SlotPairs DEF ChainInv
  <2>2. /\ Applies("ratelimit", s) /\ Refuse(k) /\ k \in Keys
    BY <2>1, ClientKeyType DEF Throttle
  <2>3. AsksFor(s, k) /\ Accountable(k)
    <3>1. CASE "auth" \in enabled
      <4>1. Identity(s) /\ Applies("auth", s) /\ tenant[s] \in Tenants \cup {Absent}
        BY <1>4, <2>1, <2>2, <3>1 DEF ChainInv, Applies, ChainTypes
      <4> QED
        BY <1>4, <2>1, <2>2, <3>1, <4>1, AccountableKey DEF Identity, Accountable
    <3>2. CASE "auth" \notin enabled
      BY <1>4, <2>1, <2>2, <3>2, AccountableKey DEF Accountable, ChainTypes
    <3> QED
      BY <3>1, <3>2
  <2>4. k \in created /\ Level(k) < TokenUnits
    BY <2>2 DEF Refuse
  <2>5. TypeOK /\ Level(k) \in 0 .. Capacity /\ clock - lastGrant[k] \in Nat
    BY <1>4, <2>2, LevelType DEF IInv
  <2>6. tokens[k] # Capacity
    BY <2>2, <2>4, <2>5, CapacityType, FullStaysFull
  <2>7. lastReached[k] = lastGrant[k]
    BY <1>4, <2>2, <2>3, <2>6 DEF OwnUse
  <2>8. ~(clock - lastGrant[k] >= RetryAfter)
    BY <1>4, <2>4, <2>5, CapacityType DEF RetryAfterHonoured
  <2> QED
    BY <2>2, <2>3, <2>5, <2>7, <2>8, RetryAfterIsEnough
<1>5. ChainInv /\ IInv /\ OwnUse /\ RetryAfterHonoured /\ [GatewayNext]_gatewayVars =>
        [\A c \in Conns : LET s == Client(c) IN
           /\ stage[s] = "limit" /\ stage'[s] = "idle"
           /\ "auth" \in enabled \/ ~selfAddress \/ host[s] # Loopback
           => \E w \in Keys : AsksFor(s, w) /\ clock - lastReached[w] < RetryAfter]_gatewayVars
  BY <1>4
<1> QED
  BY <1>2, <1>3, <1>5, ChainInvariance, GatewayRetryAfter, PTL DEF GatewaySpec, RefusedForOwnUse

=============================================================================
