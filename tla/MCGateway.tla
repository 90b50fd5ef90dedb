----------------------------- MODULE MCGateway -----------------------------
(* Gateway for TLC: two tenants, one of them with two keys, one key given     *)
(* twice, an empty one, and two hosts.                                        *)
EXTENDS Gateway, TLC

MCEntries == <<<<"a1", "beta">>, <<"a1", "acme">>, <<"a2", "acme">>, <<"b1", "beta">>, <<"", "beta">>>>

ConnSymmetry == Permutations(Conns)

=============================================================================
