---------------------------- MODULE AlertRuleMC ----------------------------
(* Instances of AlertRule for TLC; the .cfg files give the delays.          *)
EXTENDS AlertRule, TLC

CONSTANTS s1, s2

GroupedSeries == {s1, s2}

SymmetricSeries == Permutations(GroupedSeries)
=============================================================================
