------------------------------ MODULE LiveTailMC ------------------------------
(* Instances of LiveTail for TLC: a filter that lets everything through and one *)
(* that leaves out some logs; the explorer hands over nothing, a list of the    *)
(* oldest logs, or the newest without what is before them.                      *)
EXTENDS LiveTail

CONSTANTS everything, part

MCFound == [f \in {everything, part} |-> IF f = everything THEN 1 .. MaxLog ELSE {1, 3}]

MCPrefetched == {<<>>, <<2, 1>>, <<3, 2>>}
=============================================================================
