--------------------------- MODULE RuleManagerMC ---------------------------
(* An instance of RuleManager for TLC: two clients, conditions that are     *)
(* loadable and one that is not.                                            *)
EXTENDS RuleManager, TLC

CONSTANTS alice, bob, cpu, disk, broken

SymmetricClients == Permutations({alice, bob})
=============================================================================
