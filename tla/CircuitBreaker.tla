--------------------------- MODULE CircuitBreaker ---------------------------
(***************************************************************************)
(* One circuit breaker of internal/circuit/breaker.go with its window and  *)
(* its clock, and the requests that use it.  Every method holds the mutex  *)
(* for its whole body, so each is one action.  A request asks Allow, may   *)
(* be dropped by the scorer in favour of another replica, reports a        *)
(* success when the first byte arrives and possibly a failure when its     *)
(* stream ends (internal/proxy/handler.go): reports can come late, in any  *)
(* order, and after the breaker has moved on.  The registry creates a      *)
(* breaker on first use; clock 0 is that moment.                           *)
(***************************************************************************)
EXTENDS WindowHistory, Integers

CONSTANTS Callers,       \* requests that may use the breaker concurrently
          Cooldown,      \* Config.Cooldown
          MinSamples,    \* Config.MinSamples
          ThresholdNum,  \* Config.ErrorThreshold = ThresholdNum / ThresholdDen
          ThresholdDen,
          Benign,        \* ways a request ends as a failure though the
                         \* replica did nothing wrong
          MaxResults     \* results recorded between two closings

ASSUME BreakerAssumption == /\ Cooldown \in Nat \ {0}
                            /\ MinSamples \in Nat \ {0}
                            /\ ThresholdNum \in Nat
                            /\ ThresholdDen \in Nat \ {0}
                            /\ Benign \subseteq {"disconnect", "no_done"}
                            /\ MaxResults \in Nat

VARIABLES state,         \* Breaker.state
          openedAt,      \* Breaker.openedAt
          pc,            \* what each caller holds: nothing, a grant of Allow,
                         \* or an open response stream
          tripped,       \* history: when the breaker last became open
          admitted,      \* history: grants issued in this half-open episode
          faulted        \* history: the replica has really misbehaved

vars == <<windowVars, state, openedAt, pc, tripped, admitted, faulted>>

\* The zero time.Time of openedAt lies before every cooldown.
Init == /\ WindowInit
        /\ state = "closed"
        /\ openedAt = 0 - Cooldown
        /\ tripped = 0 - Cooldown
        /\ pc = [c \in Callers |-> "idle"]
        /\ admitted = 0
        /\ faulted = FALSE

Cooled == clock - openedAt >= Cooldown

Goto(c, from, to) == pc[c] = from /\ pc' = [pc EXCEPT ![c] = to]

-----------------------------------------------------------------------------
(* The methods of Breaker *)

\* Bug: the half-open state lets everyone through.
MutantAllow == \/ state \in {"closed", "half_open"} /\ UNCHANGED state
               \/ state = "open" /\ Cooled /\ state' = "half_open"

\* Allow returned true; only the caller that ends the cooldown is admitted.
Allow == \/ state = "closed" /\ UNCHANGED state
         \/ state = "open" /\ Cooled /\ state' = "half_open"

Refuses == state = "half_open" \/ (state = "open" /\ ~Cooled)

\* Bug: closing keeps the window that tripped the breaker.
MutantRecordSuccess ==
  /\ Recorded < MaxResults
  /\ \/ /\ state = "half_open"
        /\ state' = "closed"
        /\ window' = recordSuccess(window, clock)
        /\ ok' = NoResults /\ bad' = NoResults
     \/ /\ state # "half_open"
        /\ CountSuccess
        /\ UNCHANGED state
  /\ UNCHANGED openedAt

\* Bug: any success closes the breaker, also one that was sent before it
\* opened.
MutantRecordSuccessAlwaysCloses ==
  /\ Recorded < MaxResults
  /\ IF state = "closed" THEN CountSuccess ELSE NewWindow
  /\ state' = "closed"
  /\ UNCHANGED openedAt

RecordSuccess ==
  /\ Recorded < MaxResults
  /\ \/ state = "half_open" /\ state' = "closed" /\ NewWindow
     \/ state # "half_open" /\ UNCHANGED state /\ CountSuccess
  /\ UNCHANGED openedAt

\* float64(failures) / float64(total) >= threshold, over enough samples.
Trips(w) ==
  LET failures == Failures(w, clock)
      total    == Successes(w, clock) + failures
  IN  total >= MinSamples /\ failures * ThresholdDen >= ThresholdNum * total

\* Bug: a failed probe re-opens the breaker but keeps the old openedAt.
MutantRecordFailure ==
  /\ Recorded < MaxResults
  /\ CountFailure
  /\ state' = IF state = "half_open" \/ (state = "closed" /\ Trips(window'))
                THEN "open" ELSE state
  /\ openedAt' = IF state = "closed" /\ state' = "open" THEN clock ELSE openedAt

Opens == state' = "open" /\ openedAt' = clock

RecordFailure ==
  /\ Recorded < MaxResults
  /\ CountFailure
  /\ \/ state = "closed" /\ Trips(window') /\ Opens
     \/ state = "closed" /\ ~Trips(window') /\ UNCHANGED <<state, openedAt>>
     \/ state = "half_open" /\ Opens
     \/ state = "open" /\ UNCHANGED <<state, openedAt>>

-----------------------------------------------------------------------------
(* The callers: Scorer.Pick, Handler.ServeHTTP and the status endpoints *)

NoteTrip == tripped' = IF state # "open" /\ state' = "open" THEN clock ELSE tripped

CallerAllow(c) == /\ Goto(c, "idle", "granted")
                  /\ Allow
                  /\ admitted' = IF state' = "half_open"
                                  THEN (IF state = "half_open" THEN admitted ELSE 0) + 1
                                  ELSE 0
                  /\ UNCHANGED <<windowVars, openedAt, tripped, faulted>>

\* Allow returned false and changed nothing.
CallerRefused(c) == pc[c] = "idle" /\ Refuses /\ UNCHANGED vars

\* Pick was told that it may use the replica and chose another one.
PickOther(c) == /\ Goto(c, "granted", "idle")
                /\ UNCHANGED <<windowVars, state, openedAt, tripped, admitted, faulted>>

\* The first byte of a non-5xx answer.
Answer(c) == /\ Goto(c, "granted", "streaming")
             /\ RecordSuccess /\ NoteTrip
             /\ UNCHANGED <<clock, admitted, faulted>>

\* The replica failed: connection error, 5xx, or no first byte in time.
Fail(c) == /\ Goto(c, "granted", "idle")
           /\ RecordFailure /\ NoteTrip
           /\ faulted' = TRUE
           /\ UNCHANGED <<clock, admitted>>

\* The client went away before the first byte, and its context cancelled the
\* upstream request.
Disconnect(c) == /\ "disconnect" \in Benign
                 /\ Goto(c, "granted", "idle")
                 /\ RecordFailure /\ NoteTrip
                 /\ UNCHANGED <<clock, admitted, faulted>>

\* The stream ended with the [DONE] sentinel.
Finish(c) == /\ Goto(c, "streaming", "idle")
             /\ UNCHANGED <<windowVars, state, openedAt, tripped, admitted, faulted>>

\* The replica went silent or broke off in mid-stream.
StreamFault(c) == /\ Goto(c, "streaming", "idle")
                  /\ RecordFailure /\ NoteTrip
                  /\ faulted' = TRUE
                  /\ UNCHANGED <<clock, admitted>>

\* The body was complete but not a server-sent event stream, or the client went
\* away before its end, so the interceptor saw no [DONE].
NoDone(c) == /\ "no_done" \in Benign
             /\ Goto(c, "streaming", "idle")
             /\ RecordFailure /\ NoteTrip
             /\ UNCHANGED <<clock, admitted, faulted>>

\* State(), called for the gauge of every request and by the status endpoint.
ReadState == /\ state = "open" /\ Cooled
             /\ state' = "half_open"
             /\ admitted' = 0
             /\ UNCHANGED <<windowVars, openedAt, pc, tripped, faulted>>

\* ErrorRate(), called by the status endpoint, rotates the window.
ReadErrorRate == /\ ReadTotals
                 /\ UNCHANGED <<clock, state, openedAt, pc, tripped, admitted, faulted>>

Tick == TimePasses /\ UNCHANGED <<state, openedAt, pc, tripped, admitted, faulted>>

Next == \/ \E c \in Callers :
             \/ CallerAllow(c) \/ CallerRefused(c) \/ PickOther(c)
             \/ Answer(c) \/ Fail(c) \/ Disconnect(c)
             \/ Finish(c) \/ StreamFault(c) \/ NoDone(c)
        \/ ReadState \/ ReadErrorRate \/ Tick

Spec == Init /\ [][Next]_vars

-----------------------------------------------------------------------------
(* Properties *)

TypeOK == /\ clock \in Times
          /\ window \in Window
          /\ ok \in [Times -> Nat]
          /\ bad \in [Times -> Nat]
          /\ state \in {"closed", "open", "half_open"}
          /\ openedAt \in Int
          /\ tripped \in Int
          /\ pc \in [Callers -> {"idle", "granted", "streaming"}]
          /\ admitted \in Nat
          /\ faulted \in BOOLEAN

\* However late, early or unordered the reports arrive, a breaker that opened
\* lets nothing through before its cooldown has elapsed: it is closed or
\* half-open only Cooldown after it last became open (Allow, State,
\* RecordFailure).
CooldownRespected == state # "open" => clock - tripped >= Cooldown

\* Between two openings at most one request is admitted as a probe (Allow).
SingleProbe == state = "half_open" => admitted <= 1

\* The evidence that trips the breaker is fresh: a closed breaker opens only
\* after at least MinSamples results recorded since it last closed, never on
\* what tripped it before (RecordSuccess resets the window, RecordFailure
\* reads it).
TripNeedsFreshEvidence ==
  [][state = "closed" /\ state' = "open" => Recorded' >= MinSamples]_vars

\* A half-open breaker that nobody owes a report.
Wedged == state = "half_open" /\ \A c \in Callers : pc[c] = "idle"

\* Only a report leaves the half-open state: once no request owes one, no
\* call of Allow, State or ErrorRate and no time that passes ever leads out.
WedgeIsPermanent == [][Wedged => Wedged']_vars

\* The refinement mapping: an open breaker is cooled when its time has come.
breakerBar == IF state = "open" /\ Cooled THEN "cooled" ELSE state

AB == INSTANCE AbstractBreaker WITH breaker <- breakerBar

\* The breaker keeps the contract of AbstractBreaker, which Router relies on.
ImplementsAbstractBreaker == AB!Spec

\* The comments on Breaker and in Allow, for a replica that never misbehaved:
\* if the requests it served brought its breaker to half-open at all, the one
\* request that may try it is on its way, and its result will close the
\* breaker (Allow, State; what ServeHTTP reports as a failure).
HealthyReplicaHasProbe ==
  ~faulted /\ state = "half_open" => \E c \in Callers : pc[c] = "granted"

=============================================================================
