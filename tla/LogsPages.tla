------------------------------ MODULE LogsPages ------------------------------
(***************************************************************************)
(* The list of the logs explorer (LogsExplorerViews): pages of logs that   *)
(* are requested when the end of the list is reached and appended when     *)
(* they arrive, and the list that starts anew when another query is staged *)
(* or the time range changes.  What is shown is put together by effects    *)
(* from the state of a render and from the data that react-query has for   *)
(* the key of that render: only the answer for the key observed last       *)
(* counts, earlier data is kept until it arrives, and keys asked for       *)
(* before are answered from its cache first.                               *)
(*                                                                         *)
(* Flush is the effects of one render.  The logs of a query and a range    *)
(* are a sequence in the order of the query, as they are when its first    *)
(* page is asked for; a relative range moves on, and logs leave it, before *)
(* the next page is.  Time is in ticks, of which a millisecond has         *)
(* TicksPerMs.  Logs that arrive later, and cached data that is given up   *)
(* after some minutes, are left out.                                       *)
(***************************************************************************)
EXTENDS Integers, Sequences, FiniteSets

CONSTANTS
    Queries,     \* ids of queries that are staged
    Ranges,      \* time ranges that are selected (minTime)
    Relative,    \* those that are an interval up to now
    Order,       \* of a query: "desc" and "asc" by timestamp, or "other"
    Limit,       \* of a query: the limit, 0 for none
    Found,       \* of a query and a range: the logs, in the order of the query
    PageSize,    \* pageSize
    TicksPerMs,
    None,
    MaxSteps     \* bound: what the user does

Logs == UNION {{Found[q][r][i] : i \in DOMAIN Found[q][r]} : q \in Queries, r \in Ranges}

ASSUME LogsPagesAssumption ==
    /\ Relative \subseteq Ranges
    /\ Order \in [Queries -> {"desc", "asc", "other"}]
    /\ Limit \in [Queries -> Nat]
    /\ \A q \in Queries, r \in Ranges : Found[q][r] \in Seq(Logs)
    /\ \A log \in Logs : log.id # None /\ log.ts \in Nat
    /\ \A q \in Queries, r \in Ranges : \A i, j \in DOMAIN Found[q][r] :
          i < j => /\ Found[q][r][i].id # Found[q][r][j].id
                   /\ Order[q] = "desc" => Found[q][r][i].ts >= Found[q][r][j].ts
                   /\ Order[q] = "asc" => Found[q][r][i].ts <= Found[q][r][j].ts
    /\ PageSize \in Nat \ {0} /\ TicksPerMs \in Nat \ {0} /\ MaxSteps \in Nat

VARIABLES
    staged, range,   \* stagedQuery and minTime
    minTimeRef,      \* currentMinTimeRef
    request,         \* requestData
    logs, page,
    lastLog,         \* lastLogLineTimestamp
    observed,        \* the key react-query answers
    fetching,        \* what is being fetched for it
    failed,          \* isError
    data, seen,      \* data, and what the effects saw of it last
    cache,           \* by key, what has been fetched
    from,            \* what is older has left the range since the first page
    reached,         \* the length of which the list has reported the end
    mishaps,         \* history: what went wrong since the list started anew
    steps            \* what the user has done

inputs == <<staged, range>>
list == <<request, logs, page, lastLog, minTimeRef>>
client == <<observed, fetching, failed, data, seen, cache>>
vars == <<inputs, list, client, from, reached, mishaps, steps>>

-----------------------------------------------------------------------------
Requests == [query : Queries, page : Nat \ {0}, offset : Nat, size : 0 .. PageSize,
             after : {log.id : log \in Logs} \cup {None}]

Keys == [request : Requests, range : Ranges]

\* The times that are sent with a request: those of a relative range are others each time.
Params == [end : Nat \cup {None}, from : Nat, turn : {0, 1}]

ASSUME NoneIsNothing ==
    /\ None \notin Requests \cup Keys \cup Params \cup Nat
    /\ None \notin [key : Keys, rows : Seq(Logs), params : Params]

Smaller(a, b) == IF a < b THEN a ELSE b

isLimit == Limit[staged] > 0 /\ Len(logs) >= Limit[staged]

\* getRequestData for the first page.
FirstPage(q) == [query |-> q, page |-> 1, offset |-> 0, size |-> PageSize, after |-> None]

NextSize ==
    IF Limit[staged] > 0 /\ Len(logs) + PageSize >= Limit[staged]
    THEN Limit[staged] - Len(logs) ELSE PageSize

(* Mutant: the next page starts where the one before did. *)
SamePage ==
    [query |-> staged, page |-> page + 1, offset |-> (page - 1) * NextSize,
     size |-> NextSize, after |-> request.after]

\* getRequestData for the next page: after the last log, or at an offset.
NextPage ==
    [query |-> staged, page |-> page + 1, offset |-> page * NextSize, size |-> NextSize,
     after |-> IF Order[staged] = "other" THEN None ELSE logs[Len(logs)].id]

Key == [request |-> request, range |-> range]

Enabled == request # None /\ ~isLimit

\* The time that is sent is in milliseconds.
Millisecond(ts) == (ts \div TicksPerMs) * TicksPerMs

\* lastLogLineTimestamp is sent for descending timestamps only.
EndSent ==
    IF Order[request.query] = "desc" /\ lastLog # None THEN Millisecond(lastLog) ELSE None

-----------------------------------------------------------------------------
\* The server: the rows of a page, which start after a log or at an offset, and, if a
\* time is sent, which is when they are in descending order, no later than that.
TooFar(rq) == Limit[rq.query] > 0 /\ rq.offset >= Limit[rq.query]

RowLimit(rq) ==
    IF Limit[rq.query] > 0 /\ (rq.size = 0 \/ rq.offset + rq.size > Limit[rq.query])
    THEN Limit[rq.query] - rq.offset ELSE rq.size

\* The logs after the one the page comes after that are neither too new nor too old.
Candidates(rq, r, params) ==
    {i \in DOMAIN Found[rq.query][r] :
        /\ Order[rq.query] # "other" =>
              \A j \in i .. Len(Found[rq.query][r]) : Found[rq.query][r][j].id # rq.after
        /\ params.end # None => Found[rq.query][r][i].ts <= params.end
        /\ Found[rq.query][r][i].ts >= params.from}

Nth(S, n) == CHOOSE i \in S : Cardinality({j \in S : j <= i}) = n

Rows(rq, r, params) ==
    LET candidates == Candidates(rq, r, params)
        offset == IF Order[rq.query] = "other" THEN rq.offset ELSE 0
    IN  [n \in 1 .. Smaller(RowLimit(rq), Cardinality(candidates) - offset) |->
            Found[rq.query][r][Nth(candidates, offset + n)]]

\* Requests of a page after a log have a new id, and so a key that never comes back.
Kept(key) == key.request.after = None

-----------------------------------------------------------------------------
ResetNeeded ==
    IF request = None THEN TRUE ELSE request.query # staged \/ minTimeRef # range

FetchNeeded == Enabled /\ Key # observed

\* data in a render: what is cached for its key, else what there was before.
DataShown ==
    IF Key # observed /\ Key \in DOMAIN cache
    THEN cache[Key] ELSE data

\* What is sent for the key of a render: a first page is asked for the range as it is.
ParamsSent ==
    [end |-> EndSent, from |-> IF request.page = 1 THEN 0 ELSE from,
     turn |-> IF range \in Relative /\ DataShown # None /\ DataShown.key = Key
              THEN 1 - DataShown.params.turn ELSE 0]

EffectsFire == ResetNeeded \/ FetchNeeded \/ DataShown # seen

Init ==
    /\ staged \in Queries /\ range \in Ranges
    /\ minTimeRef = range
    /\ request = None
    /\ logs = <<>> /\ page = 1 /\ lastLog = None
    /\ observed = None /\ fetching = None /\ failed = FALSE
    /\ data = None /\ seen = None
    /\ cache = <<>>
    /\ from = 0 /\ reached = 0
    /\ mishaps = {}
    /\ steps = 0

-----------------------------------------------------------------------------
\* The effects of one render, in their order.
\* useQuery: a new key is observed, and fetched.
Observe ==
    /\ observed' = IF FetchNeeded THEN Key ELSE observed
    /\ fetching' = IF FetchNeeded THEN ParamsSent ELSE fetching
    /\ from' = IF FetchNeeded THEN ParamsSent.from ELSE from
    /\ failed' = (failed /\ ~FetchNeeded)
    /\ data' = DataShown
    /\ seen' = DataShown
    /\ UNCHANGED cache

Appended ==
    IF DataShown # seen /\ DataShown # None THEN logs \o DataShown.rows ELSE logs

(* Mutant: the data effect comes after the reset, and appends to the empty list. *)
ListAppendedLast ==
    /\ logs' = IF ResetNeeded
               THEN (IF DataShown # seen /\ DataShown # None THEN DataShown.rows ELSE <<>>)
               ELSE Appended
    /\ IF ResetNeeded
       THEN /\ page' = 1 /\ request' = FirstPage(staged)
            /\ minTimeRef' = range /\ reached' = 0
       ELSE UNCHANGED <<page, request, minTimeRef, reached>>

(* Mutant: the range that the list is for is not remembered. *)
ListForgetsRange ==
    IF ResetNeeded
    THEN /\ logs' = <<>> /\ page' = 1 /\ request' = FirstPage(staged)
         /\ minTimeRef' = minTimeRef /\ reached' = 0
    ELSE /\ logs' = Appended
         /\ UNCHANGED <<page, request, minTimeRef, reached>>

\* New data is appended; then the list starts anew for another query or range.
UpdateList ==
    IF ResetNeeded
    THEN /\ logs' = <<>> /\ page' = 1 /\ request' = FirstPage(staged)
         /\ minTimeRef' = range /\ reached' = 0
    ELSE /\ logs' = Appended
         /\ UNCHANGED <<page, request, minTimeRef, reached>>

\* Logs have left the range that are not shown yet, or that the offset counts.
RangeMoved ==
    \E i \in DOMAIN Found[request.query][range] :
        /\ Found[request.query][range][i].ts < ParamsSent.from
        /\ \/ Order[request.query] = "asc" /\ i > Len(logs)
           \/ Order[request.query] = "other"

\* A first page that is asked for from the time of an earlier list on, or again; and a
\* next page of a range that has moved on.
NoteMishaps ==
    mishaps' = (IF ResetNeeded THEN {} ELSE mishaps) \cup
        IF ~FetchNeeded THEN {}
        ELSE IF request.page = 1
        THEN (IF EndSent # None THEN {"cut"} ELSE {})
             \cup (IF Key \in DOMAIN cache THEN {"revisited"} ELSE {})
        ELSE IF RangeMoved /\ ~ResetNeeded THEN {"moved"} ELSE {}

Flush ==
    /\ EffectsFire
    /\ Observe
    /\ UpdateList
    /\ lastLog' = IF DataShown # seen THEN None ELSE lastLog
    /\ NoteMishaps
    /\ UNCHANGED <<inputs, steps>>

\* The answer for the observed key: before the effects of what the user did, or after
\* all that follow from one another.
Answered == fetching # None /\ (ResetNeeded \/ ~EffectsFire)

Succeed ==
    /\ Answered /\ ~TooFar(observed.request)
    /\ data' = [key |-> observed, params |-> fetching,
                rows |-> Rows(observed.request, observed.range, fetching)]
    /\ cache' = IF Kept(observed)
                THEN [k \in DOMAIN cache \cup {observed} |->
                         IF k = observed THEN data' ELSE cache[k]]
                ELSE cache
    /\ fetching' = None
    /\ UNCHANGED <<inputs, list, observed, failed, seen, from, reached, mishaps, steps>>

\* An error, which replaces the list, unless the request is given up.
Fail ==
    /\ Answered
    /\ fetching' = None /\ failed' = TRUE
    /\ data' = IF data # None /\ data.key = observed THEN data ELSE None
    /\ reached' = 0
    /\ UNCHANGED <<inputs, list, observed, seen, cache, from, mishaps, steps>>

-----------------------------------------------------------------------------
\* What the user does; effects have been run before.
UserStep == ~EffectsFire /\ steps < MaxSteps /\ steps' = steps + 1

\* Another query is run, or an earlier one returned to.
Stage(q) ==
    /\ UserStep /\ q # staged
    /\ staged' = q
    /\ UNCHANGED <<range, list, client, from, reached, mishaps>>

SelectRange(r) ==
    /\ UserStep /\ r # range
    /\ range' = r
    /\ UNCHANGED <<staged, list, client, from, reached, mishaps>>

ListMounted == ~failed /\ logs # <<>> /\ data # None

\* What is wrong with the next page: an offset that is not the number of logs shown,
\* and logs between the last one and the millisecond that is sent for it.
NextMishaps ==
    (IF Order[staged] = "other" /\ NextPage.offset # Len(logs) THEN {"offset"} ELSE {})
    \cup
    (IF /\ Order[staged] = "desc"
        /\ \E log \in Logs : /\ log.ts <= logs[Len(logs)].ts
                             /\ log.ts > Millisecond(logs[Len(logs)].ts)
                             /\ log.id \notin {logs[i].id : i \in DOMAIN logs}
     THEN {"millisecond"} ELSE {})

\* The list reports its end once for what it shows.
handleEndReached ==
    /\ UserStep
    /\ ListMounted /\ reached # Len(logs)
    /\ reached' = Len(logs)
    /\ IF isLimit \/ Len(logs) < PageSize
       THEN UNCHANGED <<list, mishaps>>
       ELSE /\ lastLog' = logs[Len(logs)].ts
            /\ page' = page + 1
            /\ request' = NextPage
            /\ mishaps' = mishaps \cup NextMishaps
            /\ UNCHANGED <<logs, minTimeRef>>
    /\ UNCHANGED <<inputs, client, from>>

\* The list is shown in another format, and reports its end again.
ChangeFormat ==
    /\ UserStep
    /\ ListMounted /\ reached # 0
    /\ reached' = 0
    /\ UNCHANGED <<inputs, list, client, from, mishaps>>

\* What is fetched again differs from what the list has, if only by its times.
RefetchMishaps ==
    (IF data # None /\ data.key = observed /\ data.params # ParamsSent
     THEN {"refetched"} ELSE {})
    \cup (IF request.page > 1 /\ RangeMoved THEN {"moved"} ELSE {})

\* The network is back: what is shown, or has failed, is fetched again.
Reconnect ==
    /\ UserStep
    /\ Enabled /\ fetching = None
    /\ fetching' = ParamsSent /\ from' = ParamsSent.from
    /\ failed' = FALSE
    /\ mishaps' = mishaps \cup RefetchMishaps
    /\ UNCHANGED <<inputs, list, observed, data, seen, cache, reached>>

\* Time passes: logs leave a relative range.
Pass ==
    /\ range \in Relative
    /\ \E i \in DOMAIN Found[staged][range] :
          /\ from <= Found[staged][range][i].ts
          /\ from' = Found[staged][range][i].ts + 1
    /\ UNCHANGED <<inputs, list, client, reached, mishaps, steps>>

Next ==
    \/ Flush
    \/ Succeed
    \/ Fail
    \/ \E q \in Queries : Stage(q)
    \/ \E r \in Ranges : SelectRange(r)
    \/ handleEndReached
    \/ ChangeFormat
    \/ Reconnect
    \/ Pass

\* Effects are run, and requests end.
Spec == Init /\ [][Next]_vars /\ WF_vars(Flush) /\ WF_vars(Succeed \/ Fail)

-----------------------------------------------------------------------------
Times == {log.ts : log \in Logs} \cup {None}

TypeOK ==
    /\ staged \in Queries /\ range \in Ranges /\ minTimeRef \in Ranges
    /\ request \in Requests \cup {None}
    /\ logs \in Seq(Logs) /\ page \in Nat \ {0} /\ lastLog \in Times
    /\ observed \in Keys \cup {None}
    /\ fetching # None => observed # None
    /\ failed \in BOOLEAN
    /\ \A d \in {data, seen} \ {None} :
          d.key \in Keys /\ d.rows \in Seq(Logs) /\ d.params \in Params
    /\ from \in Nat
    /\ DOMAIN cache \subseteq Keys
    /\ reached \in 0 .. Len(logs)
    /\ mishaps \subseteq {"cut", "revisited", "refetched", "moved", "offset", "millisecond"}
    /\ steps \in 0 .. MaxSteps

Idle == ~EffectsFire /\ fetching = None /\ ~failed

\* As many logs as there are, and as the query asks for.
Available ==
    LET n == Len(Found[staged][range])
    IN  IF Limit[staged] = 0 THEN n ELSE Smaller(n, Limit[staged])

\* Whatever was staged and selected while pages were on their way, failed or were
\* answered from the cache, the list ends up with the logs of the staged query and the
\* range from the first one on, without gaps or repeats: at least one page of them,
\* and another one when its end was reached, but for what has left the range by then.
PagesComplete ==
    Idle /\ mishaps = {} =>
        /\ Len(logs) >= Smaller(PageSize, Available) /\ Len(logs) <= Available
        /\ logs = SubSeq(Found[staged][range], 1, Len(logs))
        /\ reached = Len(logs) =>
              \A i \in Len(logs) + 1 .. Available : Found[staged][range][i].ts < from

\* The list never shows what was not asked for, not even for a moment: a log of another
\* query or range than the ones that are staged and selected, when an answer is late, or
\* more logs than the limit of the query, whatever pages were missed; unless one was
\* shown from the cache, or fetched again when the network was back, and appended twice.
OnlyStaged ==
    ~ResetNeeded =>
        /\ \A i \in DOMAIN logs : \E j \in DOMAIN Found[staged][range] :
              logs[i] = Found[staged][range][j]
        /\ mishaps \cap {"revisited", "refetched"} = {} /\ Limit[staged] > 0 =>
              Len(logs) <= Limit[staged]

\* Once the user rests, effects do, and the list is complete or shows an error.
ComesToRest == <>[](Idle \/ (failed /\ ~EffectsFire))
=============================================================================
