---------------------------- MODULE AgentConfigMC ----------------------------
(* An instance of AgentConfig for TLC: two agents that share the rollouts, *)
(* or one that leaves and comes back on a connection of its own.           *)
EXTENDS AgentConfig, TLC

CONSTANTS a1, a2, c1, c2, base, edited

Symmetric == Permutations({a1, a2}) \cup Permutations({c1, c2})
=============================================================================
