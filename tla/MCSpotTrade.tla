---------------------------- MODULE MCSpotTrade ----------------------------
(* Finite values for the constants of SpotTrade. *)
EXTENDS SpotTrade, TLC

CONSTANTS a, b, o1, o2, o3, k1, k2, empty

\* Every function of SpotTrade that signs.
AllOperations == DOMAIN Endpoint
KeepaliveOperations == {"createUserDataStream", "keepaliveUserDataStream"}

Symmetric == Permutations({a, b}) \cup Permutations({o1, o2, o3}) \cup Permutations({k1, k2})

=============================================================================
