--------------------------- MODULE BreakerStates ---------------------------
(***************************************************************************)
(* What a circuit breaker promises, as operators on its abstract state.    *)
(* "cooled" is StateOpen whose cooldown has elapsed: the code keeps one    *)
(* state for both and compares openedAt with the clock on every call.      *)
(* AbstractBreaker makes these operators a specification that              *)
(* CircuitBreaker implements; Router uses them for the breaker of each     *)
(* replica.                                                                *)
(***************************************************************************)

BreakerState == {"closed", "open", "cooled", "half_open"}

\* Bug: a half-open breaker keeps admitting requests.
MutantAdmits(s) == s # "open"

\* Allow returns true exactly in these states ...
Admits(s) == s \in {"closed", "cooled"}

\* ... and spends the probe when it does.
AfterAllow(s) == IF s = "cooled" THEN "half_open" ELSE s

\* State() also leaves the cooled state, though it sends nothing.
AfterState(s) == IF s = "cooled" THEN "half_open" ELSE s

AfterSuccess(s) == IF s = "half_open" THEN "closed" ELSE s

\* Whether a failure trips a closed breaker depends on the sliding window:
\* here both outcomes are possible.
AfterFailure(s) == IF s = "closed"    THEN {"closed", "open"} ELSE
                   IF s = "half_open" THEN {"open"}           ELSE {s}

AfterCooldown(s) == IF s = "open" THEN "cooled" ELSE s

=============================================================================
