------------------------- MODULE QueryRangeCacheMC -------------------------
(* An instance of QueryRangeCache for TLC: two clients and a short time.   *)
EXTENDS QueryRangeCache, TLC

CONSTANTS alice, bob

SymmetricClients == Permutations({alice, bob})
=============================================================================
