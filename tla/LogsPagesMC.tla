---------------------------- MODULE LogsPagesMC ----------------------------
(* Instances of LogsPages for TLC: a query in each order, two of them with  *)
(* a limit, with logs of their own in each range; in one, two logs of one  *)
(* millisecond are on different pages.                                      *)
EXTENDS LogsPages, TLC

CONSTANTS newest, oldest, slowest, today, week

MCOrder == (newest :> "desc") @@ (oldest :> "asc") @@ (slowest :> "other")
MCLimit == (newest :> 3) @@ (oldest :> 0) @@ (slowest :> 5)

Stamped(first, times) == [i \in DOMAIN times |-> [id |-> first + i, ts |-> times[i]]]

MCFound ==
    (newest :> (today :> Stamped(0, <<18, 16, 14, 12>>)
                @@ week :> Stamped(10, <<17, 15, 15>>)))
    @@ (oldest :> (today :> Stamped(20, <<12, 14, 16>>) @@ week :> Stamped(30, <<2>>)))
    @@ (slowest :> (today :> Stamped(40, <<14, 18, 12, 16, 13, 17>>)
                    @@ week :> Stamped(50, <<>>)))
=============================================================================
