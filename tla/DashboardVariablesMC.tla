------------------------- MODULE DashboardVariablesMC -------------------------
(* Instances of DashboardVariables for TLC: a list that is typed in, and three  *)
(* query variables; hosts may be set to several values.                         *)
EXTENDS DashboardVariables

CONSTANTS env, cluster, host, pod, day, week

MCParents == [v \in {env, cluster, host, pod} |->
    CASE v = env -> {} [] v = cluster -> {env} [] v = host -> {env, cluster}
      [] v = pod -> {cluster}]

MCCustom == [v \in {env} |-> <<1, 2>>]

\* Of the choices 3 is a number, and 4 the string that is shown for it.
MCToString == [c \in 1 .. 4 |-> IF c = 3 THEN 4 ELSE c]

\* One environment has a cluster more than the other; hosts are those of a cluster,
\* and in the shorter range one is missing, or all are; the pod is another one in it.
MCOffered(v, values, t) ==
    CASE v = cluster -> IF values[env] = <<1>> THEN <<1, 2>> ELSE <<1>>
      [] v = pod -> IF t = day THEN <<3>> ELSE <<1>>
      [] v = host -> IF values[cluster] = <<2>> THEN (IF t = day THEN <<>> ELSE <<2>>)
                     ELSE IF values[env] = <<1>> /\ t = week THEN <<1, 3>> ELSE <<3>>

MCInitial ==
    {[v \in {env, cluster, host, pod} |->
        [selectedValue |-> CASE v = host -> <<1, 3>> [] v = pod -> <<3>> [] OTHER -> <<2>>,
         isArray |-> v = host,
         allSelected |-> v = host]]}
=============================================================================
