------------------------------- MODULE LiveTail -------------------------------
(***************************************************************************)
(* The live view of logs: EventSourceProvider holds a connection on which  *)
(* the query service sends new logs, LiveLogsContainer opens one when the  *)
(* page is entered and whenever another query is in the URL, closing that  *)
(* before it, and asks for what is newer than the first log of its list    *)
(* and in the range that is selected, which begins an interval before now. *)
(* Logs that arrive are collected and put before the list half a second    *)
(* after the last of them.                                                 *)
(*                                                                         *)
(* Logs are numbered by their timestamps and identifiers.  A query is the  *)
(* filter it has and an identifier that is new with every run.  Flush is   *)
(* the effects of a render; no event comes between a change and the render *)
(* that follows it.                                                        *)
(***************************************************************************)
EXTENDS Integers, Sequences, SequencesExt, FiniteSets, FiniteSetsExt

CONSTANTS
    MaxLog,       \* logs are numbered 1 .. MaxLog
    Filters,      \* the filters of queries
    Found,        \* of a filter: the logs it lets through
    TickLimit,    \* 100: the logs that are sent at a time
    ListSize,     \* MAX_LOGS_LIST_SIZE
    Prefetched,   \* lists that the explorer hands over
    None,
    MaxSteps      \* bound: what the user does, and connections that break

ASSUME LiveTailAssumption ==
    /\ MaxLog \in Nat /\ MaxSteps \in Nat
    /\ TickLimit \in Nat \ {0} /\ ListSize \in Nat \ {0}
    /\ Found \in [Filters -> SUBSET (1 .. MaxLog)]
    /\ Prefetched \subseteq Seq(1 .. MaxLog)
    /\ None \notin Filters

VARIABLES
    produced,       \* how many logs are stored
    start,          \* the newest log before the range that is selected
    url,            \* compositeQuery
    staged,         \* the identifier of stagedQuery, 0 when there is none
    moved,          \* the path is another than the query builder knows
    handedOver,     \* the list in the location's state, until its effect has run
    connections,    \* those that are not closed
    eventSourceRef, \* the number of the one that was opened last
    instance,       \* the number of the one that the context offers
    context,        \* what else it offers
    logs, batchedEvents,
    base,           \* history: the filter, and the newest log when it was first used
    skipped,        \* history: logs that were more than are sent at a time, or had
                    \* left the range when a connection was opened
    mishaps,        \* history: why logs are shown again
    steps

client == <<url, staged, moved, handedOver, eventSourceRef, instance, context, logs, batchedEvents>>
vars == <<produced, start, client, connections, base, skipped, mishaps, steps>>

-----------------------------------------------------------------------------
Query == [id : Nat \ {0}, filter : Filters]

Connection ==
    [number : Nat \ {0}, filter : Filters, open : BOOLEAN, cursor : 0 .. MaxLog,
     sent : Seq(1 .. MaxLog)]

Newest(S) == IF S = {} THEN 0 ELSE Max(S)

\* The identifier that a new connection has to follow: that of the first log.
firstLogId == IF logs = <<>> THEN 0 ELSE logs[1]

\* What a connection sends follows that log, and is in the range.
Begin == IF start > firstLogId THEN start ELSE firstLogId

Shown == ToSet(logs) \cup ToSet(batchedEvents)

(* Mutant: what arrives is put behind the list. *)
ListAppended(newLogs) ==
    LET all == logs \o newLogs
    IN  SubSeq(all, 1, IF Len(all) < ListSize THEN Len(all) ELSE ListSize)

\* updateLogs: the list with what is put before it.
updateLogs(newLogs) ==
    LET all == newLogs \o logs
    IN  SubSeq(all, 1, IF Len(all) < ListSize THEN Len(all) ELSE ListSize)

isConnectionOpen == context.open
isConnectionLoading == context.loading
isConnectionError == context.error
initialLoading == context.initial

Entered == [open |-> FALSE, loading |-> FALSE, error |-> FALSE, initial |-> TRUE]

(* Mutant: the source that is offered is the first one. *)
OfferFirst(open, loading, error, initial) ==
    /\ context' = [open |-> open, loading |-> loading, error |-> error, initial |-> initial]
    /\ instance' = IF instance = 0 THEN eventSourceRef' ELSE instance

\* The value of the context is computed anew when one of these changes.
Offer(open, loading, error, initial) ==
    /\ context' = [open |-> open, loading |-> loading, error |-> error, initial |-> initial]
    /\ instance' = IF context' # context THEN eventSourceRef' ELSE instance

-----------------------------------------------------------------------------
(* The effects of a render. *)

ConnectFires == (initialLoading /\ ~isConnectionLoading) \/ url.id # staged

FlushNeeded == ConnectFires \/ moved \/ handedOver # <<>>

(* Mutant: the connection before it stays open. *)
OpenedBesides(after) ==
    connections \cup {[number |-> eventSourceRef + 1, filter |-> url.filter,
                       open |-> FALSE, cursor |-> after, sent |-> <<>>]}

\* handleStartNewConnection: the connection that was opened last is closed.
Reconnected(after) ==
    {c \in connections : c.number # eventSourceRef} \cup
    {[number |-> eventSourceRef + 1, filter |-> url.filter, open |-> FALSE,
      cursor |-> after, sent |-> <<>>]}

Connect ==
    /\ connections' = Reconnected(Begin)
    /\ eventSourceRef' = eventSourceRef + 1
    /\ Offer(FALSE, TRUE, FALSE, initialLoading)
    /\ base' = IF staged # 0 /\ base.filter = url.filter THEN base
               ELSE [filter |-> url.filter, after |-> Newest(Shown \cup ToSet(handedOver))]
    /\ skipped' = skipped \cup {x \in Found[url.filter] : firstLogId < x /\ x <= start}
    /\ mishaps' = mishaps
         \cup (IF Newest(ToSet(batchedEvents)) > firstLogId THEN {"batched"} ELSE {})
         \cup (IF Newest(ToSet(logs) \cup ToSet(handedOver)) > firstLogId THEN {"prefetched"} ELSE {})

\* The effects of the page, then those of the query builder around it.
Flush ==
    /\ FlushNeeded
    /\ IF ConnectFires THEN Connect
       ELSE UNCHANGED <<connections, eventSourceRef, context, instance, base, skipped, mishaps>>
    /\ logs' = IF handedOver = <<>> THEN logs ELSE updateLogs(Reverse(handedOver))
    /\ batchedEvents' = IF handedOver = <<>> THEN batchedEvents ELSE <<>>
    /\ handedOver' = <<>>
    /\ staged' = IF moved /\ staged # 0 THEN 0 ELSE url.id
    /\ moved' = FALSE
    /\ UNCHANGED <<produced, start, url, steps>>

Init ==
    /\ produced \in 0 .. MaxLog /\ start \in 0 .. produced
    /\ url \in [id : {1}, filter : Filters]
    /\ moved \in BOOLEAN /\ staged = IF moved THEN 1 ELSE 0
    /\ handedOver \in {list \in Prefetched : ToSet(list) \subseteq 1 .. produced}
    /\ connections = {} /\ eventSourceRef = 0 /\ instance = 0
    /\ context = Entered
    /\ logs = <<>> /\ batchedEvents = <<>>
    /\ base = [filter |-> None, after |-> 0]
    /\ skipped = {} /\ mishaps = {} /\ steps = 0

-----------------------------------------------------------------------------
(* The query service. *)

Produce ==
    /\ produced < MaxLog
    /\ produced' = produced + 1
    /\ UNCHANGED <<start, client, connections, base, skipped, mishaps, steps>>

\* Time passes: a log leaves the range.
Pass ==
    /\ start < produced
    /\ start' = start + 1
    /\ UNCHANGED <<produced, client, connections, base, skipped, mishaps, steps>>

\* The newest of what is new.
Rows(c) ==
    LET new == {x \in Found[c.filter] : c.cursor < x /\ x <= produced}
    IN  {x \in new : Cardinality({y \in new : y > x}) < TickLimit}

OldestFirst(rows) == CHOOSE s \in SetToSeqs(rows) : IsSorted(s, <)

\* LiveTailLogs: every few seconds.
Tick(c) ==
    /\ c.open /\ Rows(c) # {}
    /\ connections' = (connections \ {c}) \cup
         {[c EXCEPT !.cursor = Max(Rows(c)),
                    !.sent = @ \o OldestFirst(Rows(c))]}
    /\ skipped' = skipped \cup
         {x \in Found[c.filter] \ Rows(c) : c.cursor < x /\ x < Max(Rows(c))}
    /\ UNCHANGED <<produced, start, client, base, mishaps, steps>>

-----------------------------------------------------------------------------
(* What the event source reports. *)

\* handleOpenConnection
Opened(c) ==
    /\ ~FlushNeeded /\ ~c.open
    /\ connections' = (connections \ {c}) \cup {[c EXCEPT !.open = TRUE]}
    /\ UNCHANGED eventSourceRef
    /\ Offer(TRUE, FALSE, isConnectionError, FALSE)
    /\ UNCHANGED <<produced, start, url, staged, moved, handedOver, logs, batchedEvents, base,
                   skipped, mishaps, steps>>

\* handleGetLiveLogs: only the source that the context offers is listened to.
Message(c) ==
    /\ ~FlushNeeded /\ c.sent # <<>>
    /\ connections' = (connections \ {c}) \cup {[c EXCEPT !.sent = Tail(@)]}
    /\ batchedEvents' = IF c.number = instance THEN Append(batchedEvents, Head(c.sent))
                        ELSE batchedEvents
    /\ UNCHANGED <<produced, start, url, staged, moved, handedOver, eventSourceRef, instance, context,
                   logs, base, skipped, mishaps, steps>>

\* handleErrorConnection: the service reports an error, or the connection is lost.
Broken(c) ==
    /\ ~FlushNeeded /\ steps < MaxSteps
    /\ connections' = {d \in connections : d.number # eventSourceRef}
    /\ UNCHANGED eventSourceRef
    /\ Offer(FALSE, FALSE, TRUE, FALSE)
    /\ steps' = steps + 1
    /\ UNCHANGED <<produced, start, url, staged, moved, handedOver, logs, batchedEvents, base,
                   skipped, mishaps>>

(* Mutant: what is put before the list is kept. *)
UpdateKeeping ==
    /\ ~FlushNeeded /\ batchedEvents # <<>>
    /\ logs' = updateLogs(Reverse(batchedEvents))
    /\ UNCHANGED <<produced, start, url, staged, moved, handedOver, eventSourceRef, instance, context,
                   batchedEvents, connections, base, skipped, mishaps, steps>>

debouncedUpdateLogs ==
    /\ ~FlushNeeded /\ batchedEvents # <<>>
    /\ logs' = updateLogs(Reverse(batchedEvents))
    /\ batchedEvents' = <<>>
    /\ UNCHANGED <<produced, start, url, staged, moved, handedOver, eventSourceRef, instance, context,
                   connections, base, skipped, mishaps, steps>>

-----------------------------------------------------------------------------
(* The user. *)

UserStep == ~FlushNeeded /\ steps < MaxSteps /\ steps' = steps + 1

\* redirectWithQueryBuilderData
Redirected(filter) == url' = [id |-> url.id + 1, filter |-> filter]

\* handleSearch
Search(filter) ==
    /\ UserStep
    /\ Redirected(filter)
    /\ UNCHANGED eventSourceRef
    /\ Offer(isConnectionOpen, isConnectionLoading, isConnectionError, FALSE)
    /\ UNCHANGED <<produced, start, staged, moved, handedOver, logs, batchedEvents, connections, base,
                   skipped, mishaps>>

\* onLiveButtonClick while there is a connection: handleCloseConnection.
Pause ==
    /\ UserStep
    /\ isConnectionOpen \/ isConnectionLoading
    /\ connections' = {c \in connections : c.number # eventSourceRef}
    /\ UNCHANGED eventSourceRef
    /\ Offer(FALSE, FALSE, FALSE, FALSE)
    /\ UNCHANGED <<produced, start, url, staged, moved, handedOver, logs, batchedEvents, base,
                   skipped, mishaps>>

\* onLiveButtonClick otherwise: the query is run again, as it was edited meanwhile.
Resume(filter) ==
    /\ UserStep
    /\ ~isConnectionOpen /\ ~isConnectionLoading
    /\ Redirected(filter)
    /\ UNCHANGED eventSourceRef
    /\ Offer(FALSE, FALSE, isConnectionError, FALSE)
    /\ UNCHANGED <<produced, start, staged, moved, handedOver, logs, batchedEvents, connections, base,
                   skipped, mishaps>>

\* The page is left, which closes the connection, and entered again, with another range
\* if one was selected meanwhile.
Enter(filter, list, fromExplorer) ==
    /\ UserStep
    /\ start' \in 0 .. produced
    /\ ToSet(list) \subseteq 1 .. produced
    /\ url' = [id |-> url.id + 1, filter |-> filter]
    /\ staged' = IF fromExplorer THEN url.id + 1 ELSE 0
    /\ moved' = fromExplorer /\ handedOver' = list
    /\ connections' = {c \in connections : c.number # eventSourceRef}
    /\ eventSourceRef' = eventSourceRef /\ instance' = 0
    /\ context' = Entered
    /\ logs' = <<>> /\ batchedEvents' = <<>>
    /\ base' = [filter |-> None, after |-> 0]
    /\ skipped' = {} /\ mishaps' = {}
    /\ UNCHANGED produced

Next ==
    \/ Flush \/ Produce \/ Pass \/ debouncedUpdateLogs \/ Pause
    \/ \E c \in connections : Tick(c) \/ Opened(c) \/ Message(c) \/ Broken(c)
    \/ \E filter \in Filters : Search(filter) \/ Resume(filter)
    \/ \E filter \in Filters, list \in Prefetched, fromExplorer \in BOOLEAN :
          Enter(filter, list, fromExplorer)

\* Effects and timers are run, the service answers and its ticker goes on, and what it
\* sends arrives.
Spec ==
    /\ Init /\ [][Next]_vars
    /\ WF_vars(Flush) /\ WF_vars(debouncedUpdateLogs)
    /\ WF_vars(\E c \in connections : Opened(c))
    /\ WF_vars(\E c \in connections : Tick(c))
    /\ WF_vars(\E c \in connections : Message(c))

-----------------------------------------------------------------------------
TypeOK ==
    /\ produced \in 0 .. MaxLog /\ start \in 0 .. produced
    /\ url \in Query /\ staged \in 0 .. url.id
    /\ moved \in BOOLEAN
    /\ ToSet(handedOver) \cup Shown \subseteq 1 .. produced
    /\ connections \subseteq Connection
    /\ instance \in 0 .. eventSourceRef
    /\ context \in [open : BOOLEAN, loading : BOOLEAN, error : BOOLEAN, initial : BOOLEAN]
    /\ Len(logs) <= ListSize
    /\ skipped \subseteq 1 .. MaxLog
    /\ mishaps \subseteq {"batched", "prefetched"}
    /\ steps \in 0 .. MaxSteps

\* However the page is entered, queries are run, and connections open and break, there
\* is one connection at most, for the query in the URL once effects have run; the page
\* says that it plays exactly when there is one, and listens to it when it is open.
OneConnection ==
    /\ \A c, d \in connections : c = d
    /\ \A c \in connections : c.number = eventSourceRef
    /\ (isConnectionOpen \/ isConnectionLoading) <=> connections # {}
    /\ \A c \in connections :
          /\ c.open <=> isConnectionOpen
          /\ c.open => instance = c.number
          /\ ~FlushNeeded => c.filter = url.filter

\* Logs are shown once, the newest first, whatever queries follow one another, unless a
\* connection was opened before what had arrived was shown, or the explorer handed over
\* a list, whose first log is its oldest and which is unknown to a connection that is
\* opened with it.
NewestFirst ==
    mishaps = {} =>
        LET all == Reverse(batchedEvents) \o logs
        IN  \A i \in 1 .. Len(all) - 1 : all[i] > all[i + 1]

\* A log that the query lets through, newer than what was first shown with it, is shown,
\* or on its way, or one of too many, although connections were closed in between; unless
\* it had left the range before one was opened again.
NothingLost ==
    \A c \in connections : \A x \in Found[c.filter] :
        base.after < x /\ x <= c.cursor =>
            \/ x \in Shown \cup ToSet(c.sent) \cup skipped
            \/ Len(logs) = ListSize /\ (mishaps # {} \/ x < logs[ListSize])

\* A page that plays shows every log in the end, unless it is paused or the connection
\* breaks.
Playing == isConnectionOpen \/ isConnectionLoading \/ initialLoading

CaughtUp ==
    /\ batchedEvents = <<>>
    /\ \A c \in connections : c.open /\ Rows(c) = {} /\ c.sent = <<>>

CatchesUp == []<>(Playing => CaughtUp)
=============================================================================
