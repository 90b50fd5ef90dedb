------------------------ MODULE CircuitBreakerProofs ------------------------
(***************************************************************************)
(* Proofs about CircuitBreaker, for every number of buckets, bucket        *)
(* duration, cooldown, threshold and set of callers.  What they need of    *)
(* the window comes from WindowProofs, because the breaker does to its     *)
(* window only what WindowHistory allows.                                  *)
(***************************************************************************)
EXTENDS CircuitBreaker, WindowProofs

-----------------------------------------------------------------------------
(* The window of a breaker *)

\* Both reports count a result or start the window afresh.
LEMMA ReportCounts ==
  ASSUME RecordSuccess \/ RecordFailure
  PROVE  CountSuccess \/ CountFailure \/ NewWindow
BY Zenon DEF RecordSuccess, RecordFailure

\* Every step of the breaker and its callers is a step of the window or
\* leaves it alone.
LEMMA WindowSimulation == [Next]_vars => [WindowNext]_windowVars
<1> SUFFICES ASSUME [Next]_vars PROVE [WindowNext]_windowVars
  OBVIOUS
<1>1. ASSUME NEW c \in Callers, CallerAllow(c) \/ CallerRefused(c) \/ PickOther(c) \/ Finish(c)
      PROVE  UNCHANGED windowVars
  BY <1>1 DEF CallerAllow, CallerRefused, PickOther, Finish, vars
<1>2. ASSUME NEW c \in Callers,
             Answer(c) \/ Fail(c) \/ Disconnect(c) \/ StreamFault(c) \/ NoDone(c)
      PROVE  WindowNext
  <2>1. (RecordSuccess \/ RecordFailure) /\ UNCHANGED clock
    BY <1>2 DEF Answer, Fail, Disconnect, StreamFault, NoDone
  <2> QED
    BY <2>1, ReportCounts, Zenon DEF WindowNext
<1>3. CASE ReadState
  BY <1>3 DEF ReadState
<1>4. CASE ReadErrorRate
  BY <1>4 DEF ReadErrorRate, WindowNext
<1>5. CASE Tick
  BY <1>5 DEF Tick, WindowNext
<1>6. CASE UNCHANGED vars
  BY <1>6 DEF vars
<1> QED
  BY <1>1, <1>2, <1>3, <1>4, <1>5, <1>6 DEF Next

\* A breaker drives its window by one of the schedules of WindowHistory.
THEOREM WindowDriven == Spec => WindowSpec
<1>1. Init => WindowInit
  BY DEF Init
<1> QED
  BY <1>1, WindowSimulation, PTL DEF Spec, WindowSpec

\* A breaker counts every result that is at most NumBuckets - 1 bucket
\* durations old and was recorded since it last closed.
THEOREM RecentCounted == Spec => []RecentResultsCounted
BY WindowDriven, RecentResultsCountedSafe, PTL

\* A breaker counts no result twice, from before its last closing, or when it
\* is older than the longest time its ring can take to turn.
THEOREM OldForgotten == Spec => []OldResultsForgotten
BY WindowDriven, OldResultsForgottenSafe, PTL

\* What is needed of the window below: its type, and that it does not lie in
\* the future.
LEMMA WindowTyped ==
  ASSUME WindowInv
  PROVE  /\ clock \in Times /\ clock \in Nat
         /\ window \in Window
         /\ ok \in [Times -> Nat] /\ bad \in [Times -> Nat]
BY HorizonAssumption DEF WindowInv, Settled, Times

-----------------------------------------------------------------------------
(* The invariant *)

\* Reports change the state, the window and openedAt, and nothing else: what
\* both methods guarantee, without the window.
LEMMA ReportStep ==
  ASSUME state \in {"closed", "open", "half_open"}, RecordSuccess \/ RecordFailure
  PROVE  \/ state' = "open" /\ openedAt' = clock /\ state # "open"
         \/ state' = state /\ openedAt' = openedAt /\ state # "half_open"
         \/ state = "half_open" /\ state' = "closed" /\ openedAt' = openedAt
BY DEF RecordSuccess, RecordFailure, Opens

\* CooldownRespected needs openedAt, which the guards test, to be the time of
\* the last opening, also after a failed probe.
IInv == /\ state \in {"closed", "open", "half_open"}
        /\ openedAt \in Int /\ tripped \in Int
        /\ pc \in [Callers -> {"idle", "granted", "streaming"}]
        /\ admitted \in Nat
        /\ faulted \in BOOLEAN
        /\ openedAt = tripped
        /\ CooldownRespected
        /\ SingleProbe

\* Every action of the breaker and its callers preserves the invariant.
LEMMA InvStep == WindowInv /\ IInv /\ [Next]_vars => IInv'
<1> SUFFICES ASSUME WindowInv, IInv, [Next]_vars PROVE IInv'
  OBVIOUS
<1>0. clock \in Nat
  BY WindowTyped
<1> USE <1>0, BreakerAssumption DEF IInv, CooldownRespected, SingleProbe, Cooled
<1>1. ASSUME NEW c \in Callers, CallerAllow(c) PROVE IInv'
  BY <1>1 DEF CallerAllow, Allow, Goto, windowVars
<1>2. ASSUME NEW c \in Callers, CallerRefused(c) PROVE IInv'
  BY <1>2 DEF CallerRefused, vars, windowVars
<1>3. ASSUME NEW c \in Callers, PickOther(c) \/ Finish(c) PROVE IInv'
  BY <1>3 DEF PickOther, Finish, Goto, windowVars
<1>4. ASSUME NEW c \in Callers,
             Answer(c) \/ Fail(c) \/ Disconnect(c) \/ StreamFault(c) \/ NoDone(c)
      PROVE  IInv'
  <2>1. /\ clock' = clock /\ admitted' = admitted /\ faulted' \in BOOLEAN /\ NoteTrip
        /\ RecordSuccess \/ RecordFailure
        /\ pc' \in [Callers -> {"idle", "granted", "streaming"}]
    BY <1>4 DEF Answer, Fail, Disconnect, StreamFault, NoDone, Goto
  <2>2. \/ state' = "open" /\ openedAt' = clock /\ state # "open"
        \/ state' = state /\ openedAt' = openedAt /\ state # "half_open"
        \/ state = "half_open" /\ state' = "closed" /\ openedAt' = openedAt
    BY <2>1, ReportStep
  <2>3. tripped' \in Int /\ openedAt' = tripped'
    BY <2>1, <2>2 DEF NoteTrip
  <2> QED
    BY <2>1, <2>2, <2>3
<1>5. CASE ReadState
  BY <1>5 DEF ReadState, windowVars
<1>6. CASE ReadErrorRate
  BY <1>6 DEF ReadErrorRate
<1>7. CASE Tick
  BY <1>7 DEF Tick, TimePasses
<1>8. CASE UNCHANGED vars
  BY <1>8 DEF vars, windowVars
<1> QED
  BY <1>1, <1>2, <1>3, <1>4, <1>5, <1>6, <1>7, <1>8 DEF Next

\* The invariant holds in every reachable state of the breaker.
THEOREM Invariance == Spec => [](WindowInv /\ IInv)
<1>1. Init => IInv
  <2> SUFFICES ASSUME Init PROVE IInv
    OBVIOUS
  <2>1. faulted \in BOOLEAN
    BY Zenon DEF Init
  <2>2. clock \in Nat /\ openedAt \in Int /\ tripped = openedAt /\ clock - openedAt = Cooldown
    BY BreakerAssumption DEF Init, WindowInit
  <2>3. /\ state \in {"closed", "open", "half_open"} /\ state # "half_open"
        /\ pc \in [Callers -> {"idle", "granted", "streaming"}]
        /\ admitted \in Nat
    BY DEF Init
  <2>4. CooldownRespected /\ SingleProbe
    BY <2>2, <2>3, BreakerAssumption DEF CooldownRespected, SingleProbe
  <2> QED
    BY <2>1, <2>2, <2>3, <2>4, Zenon DEF IInv
<1>2. Spec => []WindowInv
  BY WindowDriven, WindowInvariance, PTL
<1> QED
  BY <1>1, <1>2, InvStep, PTL DEF Spec

\* The variables keep their types in every behaviour of the breaker.
THEOREM TypeCorrect == Spec => []TypeOK
<1>1. WindowInv /\ IInv => TypeOK
  BY WindowTyped, Zenon DEF IInv, TypeOK
<1> QED
  BY <1>1, Invariance, PTL

\* A breaker that opened lets nothing through before its cooldown is over,
\* for every cooldown and every schedule of late and unordered reports.
THEOREM CooldownSafe == Spec => []CooldownRespected
<1>1. IInv => CooldownRespected
  BY DEF IInv
<1> QED
  BY <1>1, Invariance, PTL

\* Each half-open episode admits at most one request, for every number of
\* callers racing in Allow.
THEOREM SingleProbeSafe == Spec => []SingleProbe
<1>1. IInv => SingleProbe
  BY DEF IInv
<1> QED
  BY <1>1, Invariance, PTL

-----------------------------------------------------------------------------
(* The evidence of a trip *)

\* The totals that decide a trip are at most what was recorded since the
\* breaker last closed (slidingWindow.totals).
Evidence == /\ Successes(window, clock) + Failures(window, clock) \in Nat
            /\ Recorded \in Nat
            /\ Successes(window, clock) + Failures(window, clock) <= Recorded

\* Everything counted is in the history up to the horizon, and so in all of it.
LEMMA CountedWereRecorded ==
  ASSUME WindowInv
  PROVE  Evidence
<1> DEFINE horizon == (NumBuckets - 1) * (2 * BucketDur - 1) + BucketDur - 1
           recent == {t \in Times : t <= clock /\ clock - t <= horizon}
<1>1. Successes(window, clock) <= UpToAge(ok, horizon) /\ Failures(window, clock) <= UpToAge(bad, horizon)
  BY TotalsBounds DEF OldResultsForgotten
<1>2. recent \in SUBSET Times
  OBVIOUS
<1>3. UpToAge(ok, horizon) = Total(ok, recent) /\ UpToAge(bad, horizon) = Total(bad, recent)
  BY Zenon DEF UpToAge, Total
<1> HIDE DEF horizon, recent
<1>4. /\ IsFiniteSet(Times) /\ IsFiniteSet(recent)
      /\ \A t \in Times : ok[t] \in Nat /\ bad[t] \in Nat
      /\ \A t \in recent : ok[t] \in Nat /\ bad[t] \in Nat
  BY <1>2, Finite, WindowTyped
<1>5. /\ Total(ok, recent) <= Total(ok, Times) /\ Total(bad, recent) <= Total(bad, Times)
      /\ Total(ok, recent) \in Nat /\ Total(bad, recent) \in Nat
      /\ Total(ok, Times) \in Nat /\ Total(bad, Times) \in Nat
  BY <1>2, <1>4, TotalSubset, TotalType
<1>6. Recorded = Total(ok, Times) + Total(bad, Times)
  <2>1. DOMAIN ok = Times /\ DOMAIN bad = Times
    BY WindowTyped
  <2> QED
    BY <2>1, Zenon DEF Recorded, SumFunction, Total
<1>7. Successes(window, clock) \in Nat /\ Failures(window, clock) \in Nat
  <2> DEFINE v == advance(window, clock)
             c == okOf(v)
             d == badOf(v)
  <2>1. v \in Window
    BY WindowTyped, AdvanceSettled DEF WindowInv, Settled
  <2>2. \A s \in Slots : c[s] \in Nat /\ d[s] \in Nat
    BY <2>1 DEF Window, Bucket, okOf, badOf
  <2>3. Successes(window, clock) = SumFunction(c) /\ Failures(window, clock) = SumFunction(d)
    BY Zenon DEF Successes, Failures, okOf, badOf
  <2>4. DOMAIN c = Slots /\ DOMAIN d = Slots
    BY DEF okOf, badOf
  <2> HIDE DEF c, d
  <2>5. Total(c, Slots) \in Nat /\ Total(d, Slots) \in Nat
    BY <2>2, Finite, TotalType
  <2> QED
    BY <2>3, <2>4, <2>5, Zenon DEF SumFunction, Total
<1> QED
  BY <1>1, <1>3, <1>5, <1>6, <1>7 DEF Evidence

\* A closed breaker opens only on results recorded since it last closed, and
\* on at least MinSamples of them, for every window, threshold and schedule.
THEOREM FreshEvidence == Spec => TripNeedsFreshEvidence
<1>1. ASSUME Evidence', [Next]_vars, state = "closed", state' = "open"
      PROVE  Recorded' >= MinSamples
  <2>1. Trips(window') /\ clock' = clock
    BY <1>1 DEF Next, CallerAllow, Allow, CallerRefused, PickOther, Answer, RecordSuccess, Fail,
       Disconnect, Finish, StreamFault, NoDone, ReadState, ReadErrorRate, Tick, RecordFailure, vars
  <2>2. Successes(window', clock') + Failures(window', clock') >= MinSamples
    BY <2>1 DEF Trips
  <2>3. Successes(window', clock') + Failures(window', clock') <= Recorded'
    BY <1>1 DEF Evidence
  <2>4. Recorded' \in Nat /\ Successes(window', clock') + Failures(window', clock') \in Nat
    BY <1>1 DEF Evidence
  <2> QED
    BY <2>2, <2>3, <2>4, BreakerAssumption
<1>2. Evidence' /\ [Next]_vars => [state = "closed" /\ state' = "open" => Recorded' >= MinSamples]_vars
  BY <1>1
<1>3. WindowInv => Evidence
  BY CountedWereRecorded
<1> QED
  BY <1>2, <1>3, Invariance, PTL DEF Spec, TripNeedsFreshEvidence

-----------------------------------------------------------------------------
(* The wedge *)

\* Once half-open with no request that owes a report, the breaker stays so
\* for ever: no later call of Allow, State or ErrorRate and no time leads out.
THEOREM WedgeForever == Spec => WedgeIsPermanent
<1>1. ASSUME Wedged, [Next]_vars PROVE Wedged'
  <2> USE DEF Wedged
  <2>1. ASSUME NEW c \in Callers, CallerAllow(c) PROVE FALSE
    BY <1>1, <2>1 DEF CallerAllow, Allow
  <2>2. ASSUME NEW c \in Callers, CallerRefused(c) PROVE Wedged'
    BY <1>1, <2>2 DEF CallerRefused, vars
  <2>3. ASSUME NEW c \in Callers,
               \/ PickOther(c) \/ Answer(c) \/ Fail(c) \/ Disconnect(c)
               \/ Finish(c) \/ StreamFault(c) \/ NoDone(c)
        PROVE  FALSE
    BY <1>1, <2>3 DEF PickOther, Answer, Fail, Disconnect, Finish, StreamFault, NoDone, Goto
  <2>4. CASE ReadState \/ ReadErrorRate \/ Tick
    BY <1>1, <2>4 DEF ReadState, ReadErrorRate, Tick
  <2>5. CASE UNCHANGED vars
    BY <1>1, <2>5 DEF vars
  <2> QED
    BY <1>1, <2>1, <2>2, <2>3, <2>4, <2>5 DEF Next
<1>2. [Next]_vars => [Wedged => Wedged']_vars
  BY <1>1
<1> QED
  BY <1>2, PTL DEF Spec, WedgeIsPermanent

-----------------------------------------------------------------------------
(* Refinement *)

\* Every step of the breaker is a step of the abstract breaker or stutters.
LEMMA RefinementStep == WindowInv /\ IInv /\ [Next]_vars => [AB!Next]_breakerBar
<1> SUFFICES ASSUME WindowInv, IInv, [Next]_vars PROVE [AB!Next]_breakerBar
  OBVIOUS
<1>0. clock \in Nat
  BY WindowTyped
<1> USE <1>0, BreakerAssumption DEF IInv, breakerBar, Cooled, windowVars
<1>1. ASSUME NEW c \in Callers, CallerAllow(c) PROVE AB!Allow
  BY <1>1 DEF CallerAllow, Allow, AB!Allow, AB!Admits, AB!AfterAllow
<1>2. ASSUME NEW c \in Callers, CallerRefused(c) PROVE UNCHANGED breakerBar
  BY <1>2 DEF CallerRefused, vars
<1>3. ASSUME NEW c \in Callers, PickOther(c) \/ Finish(c) PROVE UNCHANGED breakerBar
  BY <1>3 DEF PickOther, Finish
<1>4. ASSUME NEW c \in Callers, Answer(c) PROVE AB!RecordSuccess
  BY <1>4 DEF Answer, RecordSuccess, AB!RecordSuccess, AB!AfterSuccess
<1>5. ASSUME NEW c \in Callers,
             Fail(c) \/ Disconnect(c) \/ StreamFault(c) \/ NoDone(c)
      PROVE  AB!RecordFailure
  <2>1. RecordFailure /\ clock' = clock
    BY <1>5 DEF Fail, Disconnect, StreamFault, NoDone
  <2>2. CASE state = "closed"
    BY <2>1, <2>2 DEF RecordFailure, Opens, AB!RecordFailure, AB!AfterFailure
  <2>3. CASE state = "half_open"
    BY <2>1, <2>3 DEF RecordFailure, Opens, AB!RecordFailure, AB!AfterFailure
  <2>4. CASE state = "open"
    BY <2>1, <2>4 DEF RecordFailure, Opens, AB!RecordFailure, AB!AfterFailure
  <2> QED
    BY <2>2, <2>3, <2>4
<1>6. CASE ReadState
  BY <1>6 DEF ReadState, AB!Next, AB!State, AB!AfterState
<1>7. CASE ReadErrorRate
  BY <1>7 DEF ReadErrorRate
<1>8. CASE Tick
  BY <1>8 DEF Tick, TimePasses, AB!Next, AB!CooldownElapses, AB!AfterCooldown
<1>9. CASE UNCHANGED vars
  BY <1>9 DEF vars
<1> QED
  BY <1>1, <1>2, <1>3, <1>4, <1>5, <1>6, <1>7, <1>8, <1>9 DEF Next, AB!Next

\* The breaker with its clock, its window and its concurrent callers keeps
\* the contract of AbstractBreaker for every value of its parameters.
THEOREM Refinement == Spec => ImplementsAbstractBreaker
<1>1. Init => AB!Init
  BY BreakerAssumption DEF Init, WindowInit, AB!Init, breakerBar
<1> QED
  BY <1>1, RefinementStep, Invariance, PTL DEF Spec, ImplementsAbstractBreaker, AB!Spec

=============================================================================
