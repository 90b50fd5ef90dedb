-------------------------- MODULE AbstractBreaker --------------------------
(***************************************************************************)
(* The contract of one circuit breaker: no clock and no window, only the   *)
(* states a caller can tell apart and the ways between them.               *)
(***************************************************************************)
EXTENDS BreakerStates

VARIABLE breaker

Init == breaker = "closed"

Allow == Admits(breaker) /\ breaker' = AfterAllow(breaker)

State == breaker' = AfterState(breaker)

RecordSuccess == breaker' = AfterSuccess(breaker)

RecordFailure == breaker' \in AfterFailure(breaker)

CooldownElapses == breaker' = AfterCooldown(breaker)

Next == Allow \/ State \/ RecordSuccess \/ RecordFailure \/ CooldownElapses

Spec == Init /\ [][Next]_breaker

=============================================================================
