-------------------------- MODULE MCCircuitBreaker --------------------------
(* CircuitBreaker for TLC: the callers are interchangeable. *)
EXTENDS CircuitBreaker, TLC

CallerSymmetry == Permutations(Callers)

=============================================================================
