------------------------------- MODULE Poller -------------------------------
(***************************************************************************)
(* The health poller of internal/poller/poller.go.  One goroutine per      *)
(* replica scrapes /metrics on a ticker and applies the result under the   *)
(* mutex; requests read a copy of all states (Snapshot).  Only the healthy *)
(* flag is kept: the queue depth and cache use of a scrape are assigned in *)
(* the branch that a successful scrape never reaches, so they keep the     *)
(* zero value they start with.                                             *)
(***************************************************************************)
EXTENDS Naturals

CONSTANTS Replicas,      \* the configured replicas
          FailureLimit   \* failed scrapes in a row that mark one unhealthy: 3

ASSUME PollerAssumption == FailureLimit \in Nat \ {0}

VARIABLES up,            \* the router process is running
          failures,      \* Poller.failures, counted up to FailureLimit
          healthy        \* Poller.states[r].Healthy

pollerVars == <<up, failures, healthy>>

\* What New gives every replica.
NoFailures == [r \in Replicas |-> 0]
AllHealthy == [r \in Replicas |-> TRUE]

PollerInit == up = TRUE /\ failures = NoFailures /\ healthy = AllHealthy

\* A scrape that could not reach the replica.  Counting beyond FailureLimit
\* makes no difference, so the counter saturates there.
PollFailure(r) ==
  /\ up
  /\ failures' = [failures EXCEPT ![r] = IF @ < FailureLimit THEN @ + 1 ELSE @]
  /\ healthy' = [healthy EXCEPT ![r] = @ /\ failures'[r] < FailureLimit]
  /\ UNCHANGED up

\* A scrape that got an answer.  pollLoop prints err.Error() before it tests
\* err for nil: the nil method call panics the goroutine and with it the
\* process.  Its memory is gone; New builds it again on the next start.
PollSuccess(r) == up /\ up' = FALSE /\ failures' = NoFailures /\ healthy' = AllHealthy

Snapshot == {r \in Replicas : healthy[r]}

=============================================================================
