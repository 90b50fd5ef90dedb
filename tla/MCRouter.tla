------------------------------ MODULE MCRouter ------------------------------
(* Router for TLC: a small and a large replica, and requests that are turns   *)
(* of one conversation.                                                       *)
EXTENDS Router, TLC

CONSTANTS r1, r2

MCTwo == {r1, r2}
MCTwoOrder == <<r1, r2>>
MCTwoTiers == (r1 :> 1) @@ (r2 :> 2)

MCOneKey == [q \in Requests |-> "k"]

RequestSymmetry == Permutations(Requests)

=============================================================================
