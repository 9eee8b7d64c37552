--------------------------- MODULE QueryRangeCache ---------------------------
(***************************************************************************)
(* The cache of time series results (querycache/query_range_cache.go), as  *)
(* the querier uses it (app/querier/v2/helper.go): a query looks up which  *)
(* parts of its time range are missing, fetches those from ClickHouse one  *)
(* after the other, merges them with what is cached by then, stores the    *)
(* result and answers from it.                                             *)
(*                                                                         *)
(* One cache key and one series, with a point at every timestamp.  What    *)
(* matters of a point is when it was fetched: there is none before its     *)
(* time has come, and late data may change it until it is FluxInterval old. *)
(***************************************************************************)
EXTENDS Integers, SequencesExt

CONSTANTS
    Clients,        \* whoever sends queries, each one at a time
    FluxInterval,   \* queryCache.fluxInterval
    Round,          \* the granularity of the clock in FindMissingTimeRanges
    Faulty,         \* whether cache and ClickHouse may fail
    Start,          \* bound: the clock at the start
    MaxNow,         \* bound: the clock
    MaxQueries,     \* bound: queries in all
    None            \* nothing under the key

ASSUME QueryRangeCacheAssumption ==
    /\ FluxInterval \in Nat
    /\ Round \in Nat \ {0}
    /\ Faulty \in BOOLEAN
    /\ Start \in Nat
    /\ MaxNow \in Nat
    /\ MaxQueries \in Nat

VARIABLES
    now,       \* the clock
    cache,     \* what the cache holds under the key: a list of intervals, or None
    req,       \* per client, the query under way
    queries,   \* how many queries there have been
    early      \* history: timestamps fetched before their time had come

cacheVars == <<now, cache, req, queries, early>>

-----------------------------------------------------------------------------
(* CachedSeriesData: an interval and its points, each with the time at     *)
(* which it was fetched; there are none from that time on, but the interval *)
(* goes to the end that was asked for.                                     *)
Within(interval) == interval.start .. interval.end - 1

Interval(start, end, fetchedAt) ==
    [start |-> start, end |-> end, data |-> [t \in start .. Min({end, fetchedAt}) - 1 |-> fetchedAt]]

(* The cache holds points of the time that the instance has. *)
Times == 0 .. MaxNow

Pieces == [start : Times, end : Times, data : UNION {[T -> Nat] : T \in SUBSET Times}]

ASSUME NoneIsNoList == None \notin Seq(Pieces)

NoQuery ==
    [pc |-> "idle", at |-> 0, start |-> 0, end |-> 0, misses |-> <<>>, fetched |-> <<>>,
     existing |-> None, series |-> <<>>, disturbed |-> FALSE]

(* The timestamps for which a list of intervals has, or should have, data. *)
Covered(list) == UNION {Within(d) : d \in Range(list)}

Cached(list) == IF list = None THEN {} ELSE Covered(list)

(* sort.Slice by Start.  Up to twelve elements it is an insertion sort: of *)
(* equal ones, the first stays first.                                      *)
InsertByStart(sorted, d) ==
    LET n == Max({0} \cup {i \in DOMAIN sorted : sorted[i].start <= d.start})
    IN InsertAt(sorted, n + 1, d)

ByStart(list) == FoldLeft(InsertByStart, <<>>, list)

-----------------------------------------------------------------------------
(* Data younger than this is in flux. *)
Boundary == now - (now % Round) - FluxInterval

(* Only the last cached interval is cut back to the boundary. *)
Usable(list) ==
    LET sorted == ByStart(list)
    IN IF sorted = <<>>
       THEN <<>>
       ELSE [sorted EXCEPT ![Len(sorted)].end = Min({@, Boundary})]

(* Mutant: moves on to where a cached interval starts. *)
PassToStart(scan, d, start, end) ==
    IF d.end <= start \/ d.start >= end
    THEN scan
    ELSE [at |-> Max({scan.at, d.start}),
          misses |-> IF scan.at < d.start
                     THEN Append(scan.misses, [start |-> scan.at, end |-> d.start])
                     ELSE scan.misses]

(* The loop of FindMissingTimeRanges moves on past a cached interval.  The *)
(* list is sorted: where the loop ends, it would pass over all the others. *)
Pass(scan, d, start, end) ==
    IF d.end <= start \/ d.start >= end
    THEN scan
    ELSE [at |-> Max({scan.at, Min({d.end, end})}),
          misses |-> IF scan.at < d.start
                     THEN Append(scan.misses, [start |-> scan.at, end |-> d.start])
                     ELSE scan.misses]

FindMissingTimeRanges(list, start, end) ==
    LET scan == FoldLeft(LAMBDA s, d : Pass(s, d, start, end),
                         [at |-> start, misses |-> <<>>], Usable(list))
    IN IF scan.at < end
       THEN Append(scan.misses, [start |-> scan.at, end |-> end])
       ELSE scan.misses

(* The points of both; of two with one timestamp the one that comes later  *)
(* in the list stays.                                                      *)
MergeSeries(cached, missed) ==
    [t \in DOMAIN cached \cup DOMAIN missed |->
        IF t \in DOMAIN missed THEN missed[t] ELSE cached[t]]

(* Mutant: intervals with a gap of one between them are merged. *)
MergeNextGap(merged, d) ==
    IF merged # <<>> /\ d.start <= Last(merged).end + 1
    THEN Append(Front(merged),
                [start |-> Last(merged).start,
                 end   |-> Max({Last(merged).end, d.end}),
                 data  |-> MergeSeries(Last(merged).data, d.data)])
    ELSE Append(merged, d)

(* An interval that overlaps or touches the one before is merged with it.  *)
MergeNext(merged, d) ==
    IF merged # <<>> /\ d.start <= Last(merged).end
    THEN Append(Front(merged),
                [start |-> Last(merged).start,
                 end   |-> Max({Last(merged).end, d.end}),
                 data  |-> MergeSeries(Last(merged).data, d.data)])
    ELSE Append(merged, d)

(* With nothing retrieved, only the new data is stored and returned. *)
MergeWithCachedSeriesData(existing, newData) ==
    IF existing = None
    THEN newData
    ELSE FoldLeft(MergeNext, <<>>, ByStart(existing \o newData))

Between(data, start, end) ==
    [t \in {u \in DOMAIN data : start <= u /\ u <= end} |-> data[t]]

(* Mutant: the point at start is left out. *)
GetSeriesFromAfterStart(list, start, end) ==
    FoldLeft(LAMBDA series, d : MergeSeries(series, Between(d.data, start + 1, end)), <<>>, list)

(* The points from start to end, both included. *)
GetSeriesFromCachedData(list, start, end) ==
    FoldLeft(LAMBDA series, d : MergeSeries(series, Between(d.data, start, end)), <<>>, list)

-----------------------------------------------------------------------------
CacheInit ==
    /\ now = Start
    /\ cache = None
    /\ req = [c \in Clients |-> NoQuery]
    /\ queries = 0
    /\ early = {}

Tick ==
    /\ now < MaxNow
    /\ now' = now + 1
    /\ UNCHANGED <<cache, req, queries, early>>

AfterMisses(misses) == IF misses = <<>> THEN "retrieve" ELSE "fetch"

(* A query for the range from start to end, which may be yet to come,      *)
(* begins.  The cache may not answer (reads).                              *)
Find(c, start, end, reads) ==
    /\ req[c] = NoQuery
    /\ queries < MaxQueries
    /\ start < end
    /\ ~ reads => Faulty
    /\ LET misses == FindMissingTimeRanges(IF reads /\ cache # None THEN cache ELSE <<>>,
                                           start, end)
       IN req' = [req EXCEPT ![c] = [NoQuery EXCEPT !.pc = AfterMisses(misses), !.at = now,
                                                    !.start = start, !.end = end,
                                                    !.misses = misses,
                                                    !.disturbed = ~ reads]]
    /\ queries' = queries + 1
    /\ UNCHANGED <<now, cache, early>>

(* execClickHouseQuery for the next missing range. *)
Fetch(c) ==
    /\ req[c].pc = "fetch"
    /\ LET miss == Head(req[c].misses)
           rest == Tail(req[c].misses)
       IN req' = [req EXCEPT ![c].pc = AfterMisses(rest),
                             ![c].misses = rest,
                             ![c].fetched = Append(@, Interval(miss.start, miss.end, now))]
    /\ early' = early \cup {t \in Within(Head(req[c].misses)) : t >= now}
    /\ UNCHANGED <<now, cache, queries>>

(* The error is the answer; what was fetched is dropped. *)
FetchFails(c) ==
    /\ Faulty
    /\ req[c].pc = "fetch"
    /\ req' = [req EXCEPT ![c] = NoQuery]
    /\ UNCHANGED <<now, cache, queries, early>>

(* MergeWithCachedSeriesData retrieves what is cached by now ... *)
Retrieve(c, reads) ==
    /\ req[c].pc = "retrieve"
    /\ ~ reads => Faulty
    /\ req' = [req EXCEPT ![c].pc = "store",
                          ![c].existing = IF reads THEN cache ELSE None,
                          ![c].disturbed = @ \/ ~ reads]
    /\ UNCHANGED <<now, cache, queries, early>>

(* The queries that have looked at the cache and will read it again do not *)
(* find what they relied on.                                               *)
Disturb(others) ==
    [c \in Clients |->
        IF c \in others /\ req[c].pc \in {"fetch", "retrieve"}
        THEN [req[c] EXCEPT !.disturbed = TRUE]
        ELSE req[c]]

(* ... stores the merged list, if the cache takes it, and the query is     *)
(* answered from that list.                                                *)
Store(c, stores) ==
    /\ req[c].pc = "store"
    /\ ~ stores => Faulty
    /\ LET merged == MergeWithCachedSeriesData(req[c].existing, req[c].fetched)
           lost == stores /\ ~ (Cached(cache) \subseteq Covered(merged))
       IN /\ cache' = IF stores THEN merged ELSE cache
          /\ req' = [(IF lost THEN Disturb(Clients \ {c}) ELSE req)
                        EXCEPT ![c] = [NoQuery EXCEPT
                            !.pc = "answered", !.at = req[c].at,
                            !.start = req[c].start, !.end = req[c].end,
                            !.series = GetSeriesFromCachedData(merged, req[c].start, req[c].end),
                            !.disturbed = req[c].disturbed]]
    /\ UNCHANGED <<now, queries, early>>

Answer(c) ==
    /\ req[c].pc = "answered"
    /\ req' = [req EXCEPT ![c] = NoQuery]
    /\ UNCHANGED <<now, cache, queries, early>>

(* The time to live of the key ends, or the cache makes room. *)
Expire ==
    /\ cache # None
    /\ cache' = None
    /\ req' = Disturb(Clients)
    /\ UNCHANGED <<now, queries, early>>

CacheNext ==
    \/ Tick
    \/ \E c \in Clients :
         \/ \E start, end \in 0 .. MaxNow, reads \in BOOLEAN : Find(c, start, end, reads)
         \/ Fetch(c)
         \/ FetchFails(c)
         \/ \E reads \in BOOLEAN : Retrieve(c, reads)
         \/ \E stores \in BOOLEAN : Store(c, stores)
         \/ Answer(c)
    \/ Expire

CacheSpec == CacheInit /\ [][CacheNext]_cacheVars

-----------------------------------------------------------------------------
(* Every cached interval has all of its points, but for those that a query *)
(* asked for before their time had come: what FindMissingTimeRanges takes  *)
(* for cached can be served, whatever queries interleave, lose each        *)
(* other's data, or meet an expired key.                                   *)
CacheComplete ==
    cache # None =>
        \A d \in Range(cache) : /\ DOMAIN d.data \subseteq Within(d)
                                /\ Within(d) \ early \subseteq DOMAIN d.data

(* An answer has every point of the range that was asked for, but for      *)
(* those that it or a query before it asked for before their time, unless  *)
(* the cache did not answer or lost something between look-up and merge.   *)
ServedCovers ==
    \A c \in Clients :
        req[c].pc = "answered" /\ ~ req[c].disturbed =>
            (req[c].start .. req[c].end - 1) \ early \subseteq DOMAIN req[c].series

(* The ranges to fetch cover everything that is not cached, and nothing    *)
(* that is cached and no longer in flux; the whole range if the cache did  *)
(* not answer.                                                             *)
MissesExact ==
    [][\A c \in Clients :
         req[c].pc = "idle" /\ req'[c].pc \in {"fetch", "retrieve"} =>
            LET asked == req'[c].start .. req'[c].end - 1
                missed == Covered(req'[c].misses)
                seen == IF req'[c].disturbed THEN {} ELSE Cached(cache)
            IN /\ asked \ seen \subseteq missed
               /\ missed \subseteq asked
               /\ \A t \in missed \cap seen : t >= Boundary]_cacheVars

(* The comment in FindMissingTimeRanges takes end for at most now: what    *)
(* left the flux interval before a query began is served.  A range that    *)
(* ends later is cached up to its end, and served with a gap when its time *)
(* has come.                                                               *)
PastServed ==
    \A c \in Clients :
        req[c].pc = "answered" /\ ~ req[c].disturbed =>
            {t \in req[c].start .. req[c].end - 1 : t < req[c].at - FluxInterval}
                \subseteq DOMAIN req[c].series

(* main.go says of the flux interval that it is "the interval to exclude   *)
(* data from being cached to avoid incorrect cache for data in motion": a  *)
(* point that has left the flux interval when a query begins is not served *)
(* as it was fetched while still in it.  The code does so.                 *)
SettledServed ==
    \A c \in Clients :
        req[c].pc = "answered" =>
            \A t \in DOMAIN req[c].series :
                t < req[c].at - FluxInterval => t < req[c].series[t] - FluxInterval
=============================================================================
