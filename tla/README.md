# Verification of SigNoz (QKSignoz)

TLA+ models of the parts of SigNoz whose correctness depends on the order of
things. In the query service (`src/pkg/query-service`, Go): the life of an
alert, its delivery, the tasks that evaluate rules, the cache of query results,
and the rollout of collector configurations. In the browser application
(`src/frontend`, TypeScript): the query of a page and its URL, the pages of the
logs list, the variables of a dashboard, and the live view of logs. TLC checks
them on small instances; TLAPS proves the main safety properties for every value
of the constants.

Contents: [the system](#the-system) · [the modules](#the-modules) ·
[departures from what the code says](#departures-from-what-the-code-says) ·
[what is not modelled](#what-is-not-modelled) · [plan](#plan) ·
[running the checks](#running-the-checks)

## The system

SigNoz is an observability backend. Its query service (Go) answers the
frontend's queries from ClickHouse, keeps rules, dashboards, pipelines and users
in SQLite, evaluates alert rules, sends alerts to Alertmanager, and configures
the OpenTelemetry collectors over OpAMP. The frontend is a React application: its
state lives in providers and components, effects run after the render that saw
their inputs change, and what the query service answers arrives through
react-query or an event source.

| Component | State it keeps | Operations | What is hard | What makes it correct |
|---|---|---|---|---|
| **Alert rule evaluation** `rules/base_rule.go`, `threshold_rule.go`, `prom_rule.go`, `rule_task.go` | per rule: `Active` alerts with state and timestamps, `lastTimestampWithDatapoints`, `handledRestart`; in ClickHouse the rule state history | `Run` (ticks), `Eval`, `SendAlerts`, `RecordRuleStateHistory`, `CopyState` | slow evaluations that miss ticks, failed queries, a restart or an edit in the middle, a history that cannot be read, what Alertmanager believes meanwhile | firing alerts are kept alive and resolutions are told; slots are evaluated in order; `StartsAt` is the onset; history and alerts agree |
| **Alert notifier** `integrations/alertManager/notifier.go` | bounded queue, one-token channel, context | `Send`, `Run`, `nextBatch`, `sendAll`, `Stop` | `Send` in every interleaving with `Run`, a queue at its limit, posts that fail after they arrived | no lost wakeup, the newest alerts kept, in order and at most once, the queue drains |
| **Rule manager and store** `rules/manager.go`, `db.go` | table `rules`, `Manager.tasks`, `Manager.rules`, `Manager.mtx`, one goroutine per task | create, edit, patch, delete, load at start, `Stop` | concurrent requests, a check made without the mutex, database calls that fail half-way, waiting for a goroutine with the mutex held | one task per rule, none stopped twice or lost, tasks and table agree, requests end |
| **Query range cache** `querycache/query_range_cache.go`, `app/querier/v2/helper.go` | per key, a list of intervals with data | find missing ranges, fetch, merge, store, answer | two queries on a key without a lock, expiry between look-up and merge, gaps and boundaries, data still in flux | cached intervals are complete, answers have no gaps, no more and no less is fetched than is missing |
| **Agent configuration** `agentConf`, `app/opamp` | versions in SQLite; `agentsById`, `connections`; per agent the last report and configuration sent; subscribers by hash | `StartNewVersion`, `RecommendLatestConfigToAll`, `FindOrCreateAgent`, `UpdateStatus`, `RemoveConnection`, the coordinator | agents that connect during a rollout, come back before the old connection is closed, answer late; versions saved meanwhile | the registry's maps agree, a status is an agent's answer, connected agents end with the latest version |
| **Query builder page state** `providers/QueryBuilder.tsx`, `useShareBuilderUrl`, `NewWidget` | staged, current and superset query, path last seen; the composite query in the URL | open, reload, edit, run, export to a panel, change the kind of panel, its data source or the time range | several effects of one commit, each on what that commit saw, that write the URL and the state the others read; links and exports that keep a query's id | the page shows the query of its URL, edits are kept, names are distinct, the effects come to rest |
| **Logs explorer list** `container/LogsExplorerViews` | request, logs, page, last log; react-query's data and cache | next page, another query, another range | answers of earlier requests, failed pages, cached pages, two ways of paging | the list is what was asked for, without gaps, repeats or logs of another query |
| **Dashboard variables** `DashboardVariablesSelection`, `providers/Dashboard` | values, options, queue of those to be fetched | choose, fetch, change the range, leave, reload | values changed while options for earlier ones are on their way, failed fetches | options and values fit in the end, panels wait for them and not for ever |
| **Live view of logs** `providers/EventSource.tsx`, `container/LiveLogs` | event source, flags, list, batch; in the query service a cursor per connection | enter, search, pause, resume | connections opened and closed with logs under way, a debounced batch, a list handed over | one connection, every new log shown, once, newest first |
| Query progress tracker `app/clickhouseReader/query_progress` | per query, subscribers and the last progress | update, subscribe, finish | subscribers that come late or are slow | every subscriber gets the last progress and a closed channel, nobody blocks |
| Log pipelines `app/logparsingpipeline` | rows; the collector configuration generated from them | insert, build processors, recommend | order of processors in a pipeline the user also edits | stages of the collector's pipeline keep their place |
| Planned maintenance `rules/maintenance.go` | rows | is a window active or upcoming | daylight, month ends, recurrence | the window is what the schedule says |
| Querier and builders, ClickHouse reader, HTTP handlers, users, dashboards, integrations, licences, rest of the frontend, deployment | rows, or nothing of their own | | SQL and formatting, mostly | see [below](#what-is-not-modelled) |

How they interact. HTTP handlers call the rule **manager**, which makes a rule
object and a **task** for each rule; the task's goroutine calls `Eval` of the
**rule**, which queries through the querier, then `SendAlerts`, which calls
`Send` of the **notifier**; the notifier posts to Alertmanager. The rule writes
its history to ClickHouse and reads it back after a restart. The querier asks
the **cache** per query. Saving log pipelines makes a version in **agentConf**,
which calls back the OpAMP server, which sends to the agents; their answers
come through the coordinator back to the version's status. Components share
memory (maps, channels, mutexes) or a database; only Alertmanager and the
collectors are reached by messages.

In the browser, the **query builder** stages the query of the URL; the **logs
list** asks for pages of the staged query, the **live view** opens its connection
for the query in the URL, and both put a query that was edited back into the URL.
The panels of a dashboard ask for their data once no **variable** is in the queue.
The answers come from the query service: the rows of a page from its logs query
builder, live logs from `LiveTailLogs`, options from the dashboard's queries.

`PROJECT.json` lists every component, also those without a model, and under
`hazards` the places in the code that are hard to test, each with the properties
that cover it. Places that no property covers are listed under
[departures](#departures-from-what-the-code-says), with what was seen there.

## The modules

Every component has a specification `X.tla` (constants with a named ASSUME,
variables, one action per operation, properties at the end), an instance
`XMC.tla` with `.cfg` files, and proofs in `X_proofs.tla`; those of the notifier
and of the query cache, two parts of the query service that share nothing, are
in `QueryService_proofs.tla`, which is why the cache's specification is called
`CacheSpec` (and `CacheInit`, `CacheNext`, `cacheVars`).
Comments that begin with "Mutant:" mark variants of the definition after them,
as a plausible bug would have it; they are used to make sure that each property
can fail. `TypeOK` is stated in every module but `QueryRangeCache`, whose types
are the first part of its inductive invariant; where it is proved it is proved
for every value of the constants, and it is run in `alert_rule_slow` and
`agent_config`.

Conventions: a step is atomic when the code holds a lock around it or when
nothing else looks at what it touches; elsewhere it is split where the code can
be interrupted. Variables marked as history exist only for the properties.
Every bound is a constant whose comment says "bound". A run that turns off the
deadlock check does so because its bounds (versions, queries, notifications,
connections) run out, after which nothing has to happen.

### AlertRule

One rule and the task that evaluates it. `now` is the clock; `pc`, `evalTs` are
`RuleTask.Run`; `nextTick`, `ticked` are its `time.Ticker`, which fires at times of
its own into a channel that holds one tick; `active` is `BaseRule.Active`, keyed by what tells alerts of
one rule apart (the labels of the series, and whether it is the "no data"
alert); `saved` is, per fingerprint, the newest row of the state history; `am`
is the `EndsAt` that was last handed to the notifier for each alert, which is
what Alertmanager goes by.

| Action | Code |
|---|---|
| `Tick` | the initial wait of `Run` ends, or it takes a tick, however late; missed slots are skipped, and a tick within an interval of the slot is for the same slot again; a maintenance window skips the evaluation |
| `EvalFails` | `Eval` returns an error: the query failed, or duplicate labels |
| `Evaluate` | `ThresholdRule.Eval` and, at its end, `RecordRuleStateHistory` with every choice of which of two items with one fingerprint stays |
| `SendAlerts` | `BaseRule.SendAlerts` and `prepareNotifyFunc` |
| `Restart` | the process ends anywhere; a new rule without memory |
| `Edit` | `editTask`: `CopyState` if name and labels are the same |
| `Advance` | time passes, the ticker fires; the task is at most `MaxLag` late |

Which series alert is an input (`alerting`), so `ShouldAlert` and the query
are abstracted; so is the text of the alerts. `PromRule.Eval` is the same with
`AlertOnAbsent = FALSE`, but is not mapped: it is a copy of the code that may
drift apart. `HoldDuration` is 0 in the runs because no constructor sets
`holdDuration`; the proofs hold for any.

Runs. Time is up to 18 or 14 with an interval of 2, a retention of 8 or 3 and a
resend delay of 2 or 1: enough for an alert to fire, be resent, resolve, outlive
its retention and come back, with a restart at any point.

- `alert_rule_slow`: evaluations up to 3 units late (more than one interval, so
  ticks are lost, and a tick that waited is followed by another in the same
  interval) and one failure of the history reader. `KeptAlive` (when an
  evaluation has ended Alertmanager holds each firing alert for three more
  intervals), `NoStaleFiring` (no alert that Alertmanager was told lasts, and
  that is not firing), `SinceOnset` (an alert's start is the start of its
  present streak), `SlotsInOrder` (slots are evaluated in order, at a tick the
  latest, and none a third time). That a slot may be evaluated twice is a
  [departure](#departures-from-what-the-code-says). An alert that was sent in its
  first evaluation and resolves in the second has `ResolvedAt = LastSentAt`, so
  `needsSending` waits for the resend delay: `NoStaleFiring` says when it is told
  (`ToldLate`). That needs a retention of four intervals, as the instance has and as
  rules have whose interval is at most a quarter of 15 minutes; of a rule with a
  longer interval `Eval` can forget the alert before, and Alertmanager is never told.
- `alert_rule_history`: a working history and no-data alerts. `HistoryAgrees`:
  once the first evaluation after a restart has merged what was saved, the last
  row of each fingerprint is firing exactly when an alert with it is. It needs
  `MaxLag = 1` (less than an interval): rows written for a restart
  carry the clock, all others the slot, so a slow evaluation reads an old row as
  the newest (`base_rule.go:583`), and a slot evaluated twice writes two rows with
  one time; no failing reader, and series with labels: a
  query without grouping gives its series the fingerprint of the "no data" alert
  of a rule that has never seen data. Without any one of the three TLC finds a
  counterexample.

Proved (`AlertRule_proofs`), for every set of series and all timings:
`TypeCorrect`, `KeptAliveAlways`, `NoStaleFiringAlways`, `SinceOnsetAlways`,
`SlotsInOrderAlways`, and `HistoryAgreesAlways`. None of the last five is
inductive. `RuleInv` strengthens the first of them: `ClockInv` orders the clock, the slot, the
last completed evaluation and the next tick, by where the task is (a tick that waits
was sent after the slot was turned to, so the one after it belongs to a later slot); `AlertInv` says of each alert how its timestamps relate (a
firing alert was sent within the resend delay of the last evaluation, and what
was handed over is that time plus four intervals; a resolved one has a
resolution not after it); `ToldInv` says of each alert handed over that it has
ended, is firing, is about to be sent as resolved, or waits as `SentAgain` says.
`KeptAliveAlways` also says what follows by the clock: no firing alert lapses until
three intervals after the slot of the last evaluation that ended. `AlertInv` for `Evaluate`
is the core: `Upserted`, `Stepped` and `Dropped` by cases over the state of an
alert. `SinceOnset` needs `OnsetInv`, which ties the history variable, the start
of the present streak of each alert, to the alert that is kept: they agree as
long as the alert is not resolved, and a resolved one has no streak. None of these
uses `MaxLag`: they hold however late the task is. `HistoryAgreesAlways` has as
hypotheses what its run has: `Timely` (`MaxLag < Frequency`, no failing reader) and
`Grouped` (no series has the labels of a "no data" alert). Its invariant,
`HistoryInv`, says that the rows read back are the ones inserted last, because each
is newer than all before it (`InTime`), that no tick waits while an evaluation runs
(`InStep`), and that a rule without merged history has no
alerts; `ItemsTell` and `RestartTells` say what the rows of an evaluation tell.

### NotifierContract, Notifier

`NotifierContract` is what rules may count on: notifications leave the queue in
order, and each Alertmanager receives each at most once, in order, and only
after it left the queue; any may be lost. `Notifier` is the code: a
notification is its number in the order of sending; `queue`, `more` (the
one-token channel) and `cancelled` are the fields, `pc`, `batch`, `posting` and
`numSuccess` are `Run` and `sendAll`. `SendOne` lets each post succeed, fail, or
fail after it has arrived. `CheckQueue` (the last look of the loop and
`setMore`) is one step, since a `Send` in between leaves the token itself.

- `notifier`: a queue of 3, batches of 2, sends of 1, 2 or 4 (more than the
  queue holds), 5 in all, two Alertmanagers: the queue overflows with old and
  new alerts, one batch leaves a rest, a send meets every step of `Run`.
  `NoLostWakeup`, `NewestKept`, `KeepsContract` (refinement, `settled <- sent -
  Len(queue)`), and `QueueDrains` under `FairSpec`.

Fairness: weak for `Run` (a goroutine that can go on is scheduled) and for the
answer of each post (`sendAll` gives each request a timeout). Nothing is
assumed of senders or of `Stop`, and posts may fail for ever.

Proved (`QueryService_proofs`), for every capacity, batch size and number of
Alertmanagers: `NoLostWakeupAlways`, `NewestKeptAlways`, `ContractKept`. The
refinement rests on two facts: the queue holds the last `Len(queue)` numbers,
and the batch, while some post is out, is a run of consecutive numbers that have
left the queue, after all that the Alertmanagers still to answer have received.
Liveness is only checked.

### RuleManager

`stored` is the SQLite table, `tx` an open transaction (writes of others wait),
`made` the tasks ever made per rule with the state of their goroutine and
whether `done` is closed, `tasks` and `rules` the maps of the manager, `mtx`
who holds `Manager.mtx`, `req` per client where its request is. A request is a
sequence of steps, one per database call, mutex section or wait:
`Insert`/`Commit` (`CreateRuleTx` and its commit), `Read`, `Update`, `Delete`,
`Sync` (the look at `Manager.tasks` without the mutex), `AddTask`, `EditTask` …
`FinishEdit`, `DeleteTask` … `FinishDelete` (in between the mutex is held and
the goroutine is waited for). `StartEval`, `EndEval`, `Leave` are the goroutine.
`Restart` is a crash, or a start after `Stop`, at any point; its loading may fail.
The constant `Trouble` names what else may happen in a run (overlapping requests
on one rule, each kind of failing call, …).

- `rule_tasks`: two clients, two rules, three requests, with all of `Trouble`:
  `OneTaskPerRule`, `StoppedOnce`. Three requests are what it takes for two
  edits to race and a third to meet what they left.
- `rule_synced`: requests on one rule do not overlap, and of the calls only
  inserts fail: `Synced` (what runs is what is stored), `ReportedIsRunning`,
  `RequestsEnd`. Two requests are enough: every table is an initial state, and a
  quiet state in which `Synced` holds differs from an initial one only in tasks
  that have ended. Where the run below shows it false, this one shows what it
  takes to hold.
- `rule_disabled`: a departure, see below.

Fairness (`FairSpec`): weak for the next step of each request and for the end of
each evaluation. Requests wait for the mutex, a transaction or a goroutine. The
mutex is a Go mutex, which does not starve; with the number of requests bounded,
weak fairness suffices. An evaluation ends because its query has a timeout.

Proved (`RuleManager_proofs`), for any clients, rules, requests, failures and
`DisableRules`: `ManagerTypes`, `OneTaskAlways`, `StoppedOnceAlways`. The
inductive invariant `ManagerInv` adds to the types what a request that holds the
mutex knows: a request at `editStop` or `deleteStop` holds it (`HoldsMutex`); an
edit that waits has taken the task out and made the next one (`EditWaits`); a
delete that waits still has it in the map (`DeleteWaits`); a task in the map is
not closed but by a waiting delete or `Stop` (`NotStopped`, `StopHolds`).
`DisableRules = TRUE` is covered by the proofs only.

The other two invariants hold under what their run shows to be needed, stated as
hypotheses on `Trouble`. `ReportedIsRunningHolds` assumes `Apart`: requests on one
rule do not overlap, none is for an id never given out, and commits do not fail;
every other call may. Each step is then about a rule that is its request's alone
(`Only`, `ApartInv`). `SyncedHolds` assumes `Orderly`: besides, `DisableRules` is
off, every condition can be loaded, no rule is created disabled, deletes and the
reload do not fail, and an update does not fail after a patch of the condition (the
departures below). Its invariant, `Agreed`, says how far the row and the task of
each request are. Only checked: `RequestsEnd`.

### QueryRangeCache

One key and one series with a point at every timestamp whose time has come; of a
point only the time it was fetched matters. A query may end in the future, as "until
the end of today" does: what is fetched has the points there are, and is cached as an
interval up to the end that was asked for. `early` (a history) are the timestamps
fetched before their time. `cache` is the list of intervals under the key, `req` the
query of each client between `Find` (`FindMissingTimeRanges`), `Fetch` (one
ClickHouse query per missing range), `Retrieve` and `Store` (the two cache calls
of `MergeWithCachedSeriesData`) and `Answer`. The pure parts are operators, as
folds. The cache may fail to answer, fail to store, or lose the key (`Expire`).
`sort.Slice` is an insertion sort up to twelve elements, so intervals with the
same start keep their order, which is what the operator does; no run has more.
`disturbed` marks a query whose cache failed or lost data between its look-up
and its merge.

- `query_cache`: three queries of two clients over every range in 0 .. 4, from time 3
  on, clock granularity 2, flux interval 1. `CacheComplete` (a cached interval has
  every point but for `early`), `MissesExact` (missing ranges
  cover all that is not cached, and of what is cached only data in flux), and
  `ServedCovers` (an answer has every point but for `early`, unless disturbed). Three
  queries are what two need to race on what a first one left in the cache. What
  `early` excepts is a [departure](#departures-from-what-the-code-says).

Proved (`QueryService_proofs`), for any clients, times, flux interval, granularity
and number of queries, failures or not, and for lists of any length:
`CacheCompleteHolds`, `ServedCoversHolds`, `MissesExactHolds`.

First, what the loops compute. Each is a fold, which the community modules define
by recursion over the subsets of the list's domain. `Least` (every nonempty set of
naturals has a least element, from the well-foundedness of `<`) gives induction
without a predicate as parameter (`UpTo`); from it, for each loop, there is a
sequence `r` with `r[k]` what the loop has after `k` elements (`ByStartRun`,
`MergedRun`, `SeriesRun`, `ScanRun`). Over such a run:

- sorting gives a sorted list of the same intervals (`ByStartFacts`);
- merging a sorted list of complete intervals gives complete intervals that cover
  the same timestamps (`MergedFacts`): a merged interval starts no later than the next
  one of the list, so that one which starts by its end leaves no hole;
- the scan for missing ranges has, up to where it is, every point either found
  missing or in an interval it has passed, and no interval meets what it found
  missing (`ScanFacts`). The latter needs the list sorted: an interval still to
  come starts no earlier than the gap ends;
- cutting the last interval at the boundary keeps the list sorted and hides only
  points from the boundary on (`UsableFacts`).

Of the sort the proofs use only `ByStartFacts`, so they do not depend on how it
orders intervals with the same start, or on twelve.

Then the steps. The inductive invariant is `CacheInv`: what is cached, retrieved
and fetched has all of its points but for `early`; and of a query that is not
disturbed, every timestamp it was asked for is in a cached interval, still to be
fetched, or fetched (`Accounted`), later in what it retrieved or fetched, at last in
the answer. The predicates have the set of early timestamps as a parameter: it only
grows (`GrownUnderWay`). `ServedCovers` alone
says nothing of a query under way. Another's `Store` either keeps every point that
was cached or marks those that rely on them as `disturbed` (`StoreAnswers`,
`StillUnderWay`). `MissesExactHolds` is an action property: it follows from
`FindMissed`, and from no other step beginning a query. `None` is assumed to be no
list (`NoneIsNoList`).

### AgentConfig

`versions` is the table of configuration versions (`status` is
`deploy_status`); `saving` are versions whose elements are yet to be inserted;
`rollout` is `RecommendLatestConfigToAll`, of which one runs at a time;
`agentsById` and `connections` are the registry; `objects` the `Agent` objects,
one per id and the connection it was created for; `handling` the message under
way on each connection; `subscribers` the coordinator. The collectors are
external: `Connect`, `Apply` (and answer), `Leave`.

| Action | Code |
|---|---|
| `InsertVersion`, `InsertElements` | `insertConfig`, with the version visible before its elements |
| `StartRollout`, `Recommend`, `SendToAgent`, `ListenToConfigUpdate`, `EndRollout` | the loop: recommend before `agent.mux` is taken, send, subscribe; `agent.mux` is kept until the end (`defer` in a loop) |
| `SameForAgent`, `FailRollout` | its early returns |
| `FindOrCreateAgent`, `UpdateNewAgent`, `UpdateStatus`, `Respond` | `OnMessage`, split where `agent.mux` or `Agents.mux` is taken, and between sending and subscribing |
| `RemoveConnection` | the connection is noticed closed |

Abstractions: one feature (log pipelines); version 0 stands for "no version"
(-1 in the code); status reports are complete; database statements do not fail;
a recommendation reads the latest version and marks it in one step; the same
configuration twice in a row is received once; of two inserts racing for one
number the refused one leaves nothing (`UNIQUE(element_type, version)`). An
agent leaves only while there is a connection left to return on.

- `agent_config`: two agents, two connections, two versions, two contents: two
  agents in one rollout, or one that leaves and returns with its old connection
  not yet closed, and a second version, or a revert, at any moment. Only the
  contents with pipelines may fail to apply (`Fallible`), which saves a third of
  the states; the proofs have no such restriction.
  `RegistryConsistent`, `StatusWasAnswered` (DEPLOYED and FAILED are an agent's
  answer for that version), `FirstAnswerCounts` (the first answer is never
  handled between sending and subscribing; it decides the status), and
  `AgentsUpToDate` (when nothing is under way each known agent runs the latest
  version or has failed to, unless a rollout that ended early left it out).

Proved (`AgentConfig_proofs`), for any agents, connections, contents and
versions, and without further hypotheses: `TypeCorrect`, `RegistryAlways`,
`StatusAlways`, `FirstAnswerCountsHolds`, `AgentsUpToDateHolds`. With the types, the
second and third are inductive: the registry changes only in `FindOrCreateAgent` and
`RemoveConnection`, which change both maps; a status changes only when a
deployment starts or when an answer is put on record. The types
say that a handler that updates has an object and a message, and one
that listens a configuration.

The last two rest on `LinkInv`: whose connection it is (`Owned`), and that what a
rollout or a handler still holds of an agent is its object, unless that one's
connection has been closed (`Current`). `FirstInv` then follows a version from the
moment it is sent: whoever sent it to an object and has yet to subscribe keeps that
object from handling anything, so that a version on its way, or in an answer, is
settled by then (`SentSettled`, `QueuedSettled`, `AnswersSettled`). `DeliveryInv`
says that each agent the server knows was sent the latest version last, or is about
to be (`AllReached`), has reported or is about to (`AllReporting`), and that what it
was sent last is last in its queue or is what it has answered (`AllDelivered`).

### QueryPage

The query of a page of the browser application. `url` is the path, the
composite query and whether the panel is a list (`graphType`) in the location;
`shown` whether the page of the path is mounted
(pages are loaded lazily); `staged`, `current`, `superset` and `pathRef` the state
of `QueryBuilderProvider`. A builder query is its name, its operator, which lists
have no use for, and its filters, which stand for what lists and other panels share.

| Action | Code |
|---|---|
| `Flush` | the effects that follow one commit, all on the state of that commit: `ShareQuery` (`useShareBuilderUrl`, and the time selection that may write the URL last), `initQueryBuilderData`, `RepairQuery` (`replaceIncorrectObjectFields`), `KeepQuery`; in each `StagedOrReset`, the reset of a staged query of another path, and the mounting of `NewWidget`: `InitSuperset`, and, for a list, `LeaveUrl` |
| `Reload`, `Navigate` | the application is started, or another URL opened |
| `Export` | `handleExport` of the logs explorer: the edited query, with its id, becomes a panel, a list or another one |
| `addNewBuilderQuery`, `cloneQuery`, `removeQueryBuilderEntityByIndex`, `handleSetQueryData` | the edits, each of the current and of the superset query; a list shows its first query only, and of its edits the superset takes over the fields of a list (`updateSuperSetQueryBuilderData`) |
| `handleRunQuery`, `RedirectChanged` | what puts a query into the URL |
| `setGraphHandler` | another kind of panel: `handleQueryChange` of the superset, which makes every query of a list an A without operator |
| `handleChangeDataSource` | a list gets another data source, and one query without filters; of other panels it is an edit |
| `SelectTime` | a change of the time range: `initQueryBuilderData` with the query merged |

A user acts when the effects of the last action have run; a page may be loaded at
any time, or never, so other URLs are opened meanwhile. Kinds of panel are lists and
others: between two others `handleQueryChange` drops fields (grouping, limits), which
are not modelled. Metrics queries are not offered as lists. Left out too: PromQL and
ClickHouse queries and formulas, which are kept in the same way; a panel opened
from the editor of another one, which the application has no link for.
`LinksAssumption` says that two URLs of a page with one id have the same query,
which is how ids are made. The explorers show lists as well, but do not use the
superset query, so `list` is a field of the editor's URLs only.

Histories: `kept` is what the user last opened or
built; `overwritten` that a change of the time range undid some of it, or that a list
was mounted while nothing was staged; `strayed`
that the superset query was left with what the panel does not have; `unnamed` that
the URL was opened with queries of one name. Each is reset when another URL is opened.

- A list that is mounted runs `redirectWithQueryBuilderData(stagedQuery ||
  initialQueriesMap.metrics)` while it is first rendered (`NewWidget/index.tsx:331`).
  The query of the URL is staged on the first commit, and reset on the second when the
  path has changed: mounted between them the editor puts the default query into the
  URL, and the panel is lost. The time selection that is mounted with it writes the URL
  it saw, so that in the usual order of effects the query is there again. With a query
  staged nothing may be lost, and `EditsKept` says so.
- The superset strays (`strayed`) when the editor is mounted before the query of a panel that
  lacks fields is built on (see the departures), and when a list of several queries
  gets another data source: the list has one query then, the superset all of them.
- `query_page`: one explorer, the editor and a page without a builder, seven links
  (menus without a query, bookmarks and panels with one, two that lack fields, and a
  list), three queries at most, five things the user does. That is an edit, an export
  and three more in the editor, such as cloning in a list and making it another panel,
  or two pages left and returned to: the state
  depends on what was staged for one page and what is in the URL of another,
  which three steps set up. `StagedIsUrl`, `EditsKept`, `NamesDistinct`,
  `SupersetAligned` (without it a change of the panel's kind would bring back or
  lose queries), and `Settles` under weak fairness of the flush: React runs
  effects after each commit. Nothing is assumed of mounting.

Proved (`QueryPage_proofs`), for any pages, links, ids, operators, filters and
`MAX_QUERIES`: `StagedIsUrlAlways`, `EditsKeptAlways`, `NamesDistinctAlways`,
`SupersetAlignedAlways`. `StagedInv` says of every state that what is staged has
the data of the URL's query if it has its id (`AgreesWithUrl`), and of each URL of
the page with that id (`AgreesWithLinks`), for which the URL itself has to be the
link with its id (`UrlIsLink`). `BuiltInv` adds what is built: `Target` is what is
current, or what will be once the effects have run. That no flush changes `Target`
is the core (`FlushBuilds`); edits are kept because of it (`KeptInv`). A page that
is not shown has nothing built on it (`MountInv`), and what is staged when the editor of a
list is mounted is the query of its URL, or nothing (`EditorInv`). The kind of the panel makes the
same of `Target` and of the superset (`AlignedInv`, `Alike`): every edit keeps them
alike. Names are distinct (`NamesInv`) in the superset, where lists do not touch them,
and in what is built outside lists, because a free one is found (`NameIsNew`) as long as there are fewer
queries than names (`NamesLeft`, a pigeonhole argument). Only checked: `Settles`.

### LogsPages

The list of the logs explorer. `request`, `logs`, `page`, `lastLog`,
`minTimeRef` are the state and refs of `LogsExplorerViews`; `observed`,
`fetching`, `failed`, `data`, `cache` are react-query's (external, from how
`useGetExplorerQueryRange` uses it): only the answer for the key observed last
counts, earlier data stays until it arrives, and a key asked for before is
answered from the cache and fetched again. `Rows` is the query service: the limit
and offset of `logs/v4`, the page after a log, and the times that are sent. `Found`
is what there is when the first page of a list is asked for; in a relative range, an
interval up to now, the start of every page is computed anew, and `from` is the start
of the one asked for last, or of now: what is older has left the range.

| Action | Code |
|---|---|
| `Flush` | the effects of one render, in their order: the query is observed, new data is appended, the list starts anew for another query or range |
| `Succeed`, `Fail` | the answer |
| `handleEndReached` | the next page: `getRequestData`, `getPaginationQueryData` |
| `Stage`, `SelectRange`, `ChangeFormat` | the user |
| `Reconnect` | react-query fetches again, what is shown or has failed, when the network is back (its default; `index.tsx:17-33` does not change it) |
| `Pass` | time passes, and logs leave a relative range |

Answers come before the effects of what the user did, or after all of them; not
between an effect that empties the list and the render that follows it. Logs that
arrive after the first page, which lengthen an ascending list and shift the offsets
of one in another order, and the expiry of the cache are left out. Six situations in
which the code misses logs or repeats them are named as *mishaps* and excepted: a
first page cut at the last log of an earlier list ("cut"); data from the cache that
has the identity the effect saw last, or that is appended and then fetched again
("revisited"); data fetched again after a reconnect with other times, which is
appended a second time ("refetched"); a next page of a relative range from which logs
have gone that are not shown yet, in ascending order, or that its offset counts
("moved"); an offset computed with the smaller last page ("offset"); logs of one
millisecond on two pages ("millisecond"). Each is a hazard in `PROJECT.json`, and
without its exception TLC finds the gap or the repeat. `PagesComplete` excepts all
six; `OnlyStaged` excepts "revisited" and "refetched" for the number of logs, and
none for whose logs are shown.

- `logs_pages`: a query in each order, two with a limit, a relative range and a
  fixed one, pages of two, lists of none to six logs, four things the user does (a
  reconnect is one): three pages and another query in between, which may fail, or a
  range left and returned to, or a page fetched again. Three pages are the longest
  that a limit of five and pages of two can tell apart. Time passes at any step.
  `PagesComplete`, `OnlyStaged`, and `ComesToRest` under weak fairness of the
  effects and of the answer (requests end, if only with an error).

Proved (`LogsPages_proofs`), for any queries, orders, limits and results, and however
far relative ranges move: `OnlyStagedAlways`. `ListInv` says that what is held is for
the query and range it is kept under (`Holds`) and is what the service answers for
the times that were sent (`Told`), that data the effects have not seen is the answer
for the list (`NewData`), and that while a page may still be appended there is room
for it (`Room`): sizes are computed from the list of an earlier render. An answer is
told apart from the data that the effects have seen (`Unseen`), except what is fetched
again, which is the same (`Again`). Conditions on the cache (`FirstPages`, `Fresh`) are
for pages shown from it and fetched again.

`PagesCompleteHolds` needs `CompleteInv` besides: in a list without mishaps, what is
shown is a beginning of the result (`Beginning`); the page that is waited for starts
there (`Asked`) and the times sent with it leave out no row but the last ones, which
have left the range (`Sent`), so the service answers with the rows that follow
(`RowsFollow`); and a list that has reported its end is all there is but for what is
gone, or waits for more (`EndReached`, `Gone`). The steps show where the mishaps come
in: "cut", "millisecond" and "moved" are what `Sent` needs, "offset" what `Asked`
needs, "revisited" what `Unseen` needs, "refetched" what `Again` needs. `NoneIsNothing`
and `LogsPagesAssumption` say what the code takes for granted: no id is empty,
times are numbers, and nothing else is what is not there. Only checked:
`ComesToRest`.

### DashboardVariables

The variables of a dashboard. `variables` are the values, kept in the dashboard
and in local storage; `queue` is `variablesToGetUpdated`, for which all panels
wait; `optionsData`, `observed`, `fetching`, `failed` are those of each
`VariableItem`. `Flush` is the effects of a render (another key is fetched; another
range queues the variables set to ALL), `Succeed` is `getOptions` with
`onValueUpdate`, `Choose` and `ChooseAll` are `handleChange`, `Open` leaves the
dashboard and returns to it, or reloads the application.

A choice is a string, a number or a boolean (`toString` is how it is shown), and a
value an array or a single one. The menu of a multi-select gives what is shown, and
so does the toggle; the list of a single one gives the option itself. A text box
behaves as a typed list of whatever may be typed: it queues and fetches what
mentions it; only its debounce is left out. A query is taken to return the same for a
number and for the string shown for it, and for the same key each time.

Left out: another dashboard; changes made elsewhere; what is fetched again when the
network is back, which answers the same key once more; keys that are the same for
different values, because names and values are joined without a separator
(`VariableItem.tsx:130`).

Two things the code does limit what can be promised. A query without rows is answered with
`variableValues: null` (`reader.go:3561` leaves the slice nil), and `getOptions` skips
it (`VariableItem.tsx:151`): the variable keeps its old options and value and stays in
the queue, so that all panels wait until something else changes
(an [exception](#exceptions-and-what-they-hide) of the properties). And a single
number or boolean is not looked up when the options change (`:175`, `isString`), so
it can stay set although it is no longer offered.

Histories: `ahead` are variables set by the user while their options were still to
come, `restated` those queued because one of their parents was set to the value
it had. `PanelsWait` and `QueueDrains` except them: in both the code does what the
property excludes (hazards `DashboardVariableSelection.tsx:64` and `:65`).

- `dashboard_variables`: four variables in a diamond (a list; a query on it; a
  multi-select on both; one on the second), all set to the last of what is offered,
  two ranges, options that shrink, grow, are empty, are numbers or stay the same,
  three things the user does. One change sets off up
  to two more along the diamond, and its options may arrive in any order; a
  second and third overtake them. `OptionsCurrent`, `ValueOffered`, `QueueDrains`,
  `PanelsWait`; `ComesToRest` under weak fairness of effects and answers, and only
  because the variables of the instance have no cycle.

Proved (`DashboardVariables_proofs`), for any variables, cycles included, and
whatever queries return: `PanelsWaitHolds`, `OptionsCurrentHolds`,
`QueueDrainsHolds`, `ValueOfferedHolds`. `RestInv` says of every state that a
variable in the queue is being fetched, has failed, is restated, or has a key that
the next effects will fetch, and that options are those for the observed key once
nothing is fetched for it, unless its query returns nothing for that key; a value that was set by an answer
is among its options as they are shown, and is set anew when options come that it is
not among, unless it is one number or boolean (`OfferedInv`, in every state). Only checked: `ComesToRest`.

### LiveTail

The live view of logs. `connections` are the event sources that are not closed,
each with what the query service has sent on it and where its cursor is; `start`
is where the selected range begins, an interval before now;
`eventSourceRef`, `instance`, `context` are `EventSourceProvider` (the ref, and
the value of the context, which is computed anew only when a flag changes);
`logs`, `batchedEvents` the list and the batch of `LiveLogsContainer`; `url`,
`staged`, `moved` what it needs of the query builder. Logs are numbers in the
order of their timestamps and ids.

| Action | Code |
|---|---|
| `Flush` | the effects of the page (`handleStartNewConnection`, the list that the explorer hands over) and then of the query builder |
| `Produce`, `Pass`, `Tick` | a log is stored; one leaves the range; `LiveTailLogs` sends the newest hundred of what is new |
| `Opened`, `Message`, `Broken` | the event source |
| `debouncedUpdateLogs` | the batch is put before the list |
| `Search`, `Pause`, `Resume`, `Enter` | the user |

A connection follows the first log of the list, and begins no earlier than `start` when it
is opened (`reader.go:4796`): a page that was paused, or without a connection, for
longer than the interval loses the logs in between. `skipped` has them, as it has
those that were more than are sent at a time, and `NothingLost` excepts them one by
one. A range between two fixed times is one whose `start` stays.

No event comes between a change and the render that follows it. Left out: a new
token of the user, logs that are stored with an earlier timestamp, and a stream
that never leaves the half second of the debounce. Mishaps: a connection opened
while logs wait in the batch ("batched"), a list of the explorer whose first log
is its oldest ("prefetched").

- `live_tail`: three logs, two filters, two logs sent at a time, a list of two,
  and three things that the user does or connections that break: enter, break,
  resume, with logs stored, sent, read and leaving the range in between. The list and what is sent at
  a time overflow. `OneConnection`, `NewestFirst`, `NothingLost`, and `CatchesUp`
  under weak fairness of effects, of the debounce, and of a connection that
  opens, ticks and delivers: the service's ticker runs until the request ends,
  and what breaks is `Broken`. None on what the user does, or on `Produce`.

Proved (`LiveTail_proofs`), for any filters, logs and sizes: `OneConnectionHolds`,
`NewestFirstHolds`, `NothingLostHolds`. The first is from
`LiveTailInv`: the flags tell the truth about the connections (`Truthful`), and a
connection is for the staged query when that is the URL's (`ForStaged`); the last
part of `OneConnection` alone is not inductive, since the effects may find the
query staged. The other two are from `LogInv`: without a mishap the list, the batch
before it and what is on its way follow one another (`InOrder`); and, mishaps or not,
every log before one that is shown is accounted for (`KeptUpTo`), so that the next
connection, which follows the first log of the list, misses none (`KeptByCursor`).
Accounted for is what is shown, was one of too many, had left the range, or was pushed out of the list by
newer ones. What is promised begins where the user first sees the filter: after the
newest log stored then, or the newest of the list that the explorer hands over
(`base`). Only checked: `CatchesUp`.

### What the proofs do not cover

Liveness under fairness and ENABLED are out of this prover's reach, so the liveness
properties stay with TLC: `QueueDrains` of the notifier, `RequestsEnd`, `Settles`,
both `ComesToRest`, `CatchesUp`. Every other property of a passing run is stated by
a theorem. The library's induction theorems have an operator as parameter, which
the prover cannot instantiate; induction over the elements of a list (the loops of
the query cache) goes by the least element of a set instead.

Most theorems assume only the named ASSUMEs on the constants, which TLC evaluates
in every run. Three have hypotheses of their own, and each says what must not
happen for the property to hold of this code: `HistoryAgreesAlways` (`Timely`,
`Grouped`), `ReportedIsRunningHolds` (`Apart`) and `SyncedHolds` (`Orderly`). The
runs that check these properties have constants that satisfy them; each excludes
either a departure described below or a case that the section above names.

## Departures from what the code says

The first has a run, and an entry in `PROJECT.json`. The others are kept as
definitions: added to the configuration named, each gives a counterexample
within seconds.

1. **Disabled rule with a task** (`rule_disabled`). Two edits write the row in
   one order and turn to the task in the other (`manager.go:688`).
2. **Overall state after a restart** (`RowsCarryOverallState`,
   `AlertRule_history.cfg`). The rows of the first evaluation after a restart
   carry an overall state computed from the changed rows only
   (`base_rule.go:616`): one series still firing, another resolved, and the
   history says that the rule is inactive.
3. **"No data" after an edit or a restart** (`NoDataAfterAbsence`,
   `AlertRule_history.cfg`). When data was last seen is memory of the rule object
   that `CopyState` does not keep (`threshold_rule.go:330`): the first evaluation
   without data alerts at once.
4. **A failed patch is not undone** (`FailedPatchRestores`,
   `RuleManager_tasks.cfg`). The patched copy shares its condition with the
   stored rule that the task is restored from (`manager.go:760`).
5. **Data in flux is cached** (`SettledServed`, `QueryRangeCache.cfg`). The flux
   interval cuts the cached range back at look-up, not at store; what was fetched
   in flux counts as settled later (`query_range_cache.go:78`).
6. **What is yet to come is cached** (`PastServed`, `QueryRangeCache.cfg` with
   `Start = 2`, `MaxNow = 6`, `MaxQueries = 2`). The look-up is explained for "a range
   [start, now())" (`query_range_cache.go:69`), but nothing keeps a query from ending
   later. The interval is stored up to its end, and when that time has come, the
   points fetched as missing then are a gap in what is served.
7. **A slot is evaluated twice** (`SlotsOnce`, `AlertRule_slow.cfg`). `Run` assumes
   that "the ticks will trigger soon after each `evalTimestamp + N * g.frequency`"
   (`rule_task.go:122`). The ticker keeps one tick while an evaluation is slow; it
   is taken late, and the next finds `missed` = -1: the same `evalTimestamp`.
8. **A change of the time range undoes edits** (`TimeRetainsCurrent`,
   `QueryPage.cfg`). A comment says that it is "to merge the query and retain the
   current state" (`DateTimeSelectionV2/index.tsx:341`); the staged query is
   merged over the current one (`QueryBuilder.tsx:233`).
9. **The superset of the page before** (the history `strayed`).
   `NewWidget/index.tsx:551-556` says that the superset query is initialised "on
   mount here with the currentQuery", and never by a run. When the panel's query
   lacks fields, the query that is current on mount can be that of the page
   before; without the exception `SupersetAligned` fails in seven steps.

Seen while modelling, where no property looks:

- alerts: a history that cannot be read, or not written (only logged), after the
  alerts have moved (`base_rule.go:567`); rows of a restart that carry the clock
  and are newer than those of the evaluations that follow (`base_rule.go:583`,
  the reason for `MaxLag = 1` in `alert_rule_history`); `Send` after `Stop`, whose
  alerts nothing takes (`notifier.go:148`).
- rules: a rule that is created disabled runs until it is edited or the process starts
  again (`manager.go:443`, not in `rule_disabled`, whose edits overlap); `addTask` writes `Manager.rules` before it finds that the task exists
  (`manager.go:484`); `PatchRule` does not look at `DisableRules` (`:744`); a task
  that runs before the row's commit fails (`:448`), or is stopped before the row's
  deletion does (`:404`); a stored rule that `prepareTaskFunc` refuses (`:328`);
  maps read without the mutex (`:611`).
- query cache: a key that expires between look-up and merge leaves a gap in the
  answer (`query_range_cache.go:176`); a missing range that starts before the last cached interval is
  merged before it, and of two points with one timestamp the older stays
  (`query_range_cache.go:143`); the end of a range is included in an answer from
  the cache and excluded by the query (`query_range.go:111`).
- agents: a rollout ends for all agents at the first that already runs the
  recommendation (`agents.go:137`); `Coordinator.subscribers` is read and deleted
  from without its mutex (`coordinator.go:41-52`); `OnMessage` goes on with a nil
  agent when `FindOrCreateAgent` fails (`opamp_server.go:84-104`); `Redeploy` of
  drop rules updates the status of sampling rules (`agentConf/manager.go:273`).
- licences: `Stop` closes, and waits for, channels that nothing makes
  (`ee/query-service/license/manager.go:83`).
- frontend: an editor of a list that is mounted with nothing staged puts the default
  metrics query into the URL (`NewWidget/index.tsx:323`); query keys of variables that are the same for different values
  (`VariableItem.tsx:130`).

### Exceptions and what they hide

Several properties except situations that histories name. Where the code really
gets there, the exception is a known flaw: `overwritten`, `strayed` (QueryPage),
all six mishaps of LogsPages, `ahead`, `restated`, what returns nothing and single
numbers (DashboardVariables), both mishaps of LiveTail and its logs out of range, `disturbed` and `early`
(QueryRangeCache). Without the exception TLC
finds each in the instance of the run.

## What is not modelled

- SQL generation, result post-processing, units, templates, context links:
  pure functions of text or floating point numbers.
- Users, dashboards, saved views, preferences, integrations, channels: rows
  written by single statements.
- Telemetry, usage reports, migrations, feature flags: nothing depends on them.
- Licences, single sign-on, anomaly detection (`ee/`): external services, or
  numerical code.
- The collector simulator: it runs external code.
- The rest of the frontend, by far the largest part of the repository: pages,
  tables, charts, settings and onboarding, which render what a request returned
  and keep nothing that outlives an interaction. Of what does, the traces explorer
  uses the query builder as the logs explorer does; infinite lists other than that
  of logs page by offset without a cache of their own; the search bar's
  tokenizer (`QueryBuilderSearchV2`) and the check boxes of the quick filters are
  pure functions of the query and of what is typed.

## Plan

In order; the first nine are done.

1. `AlertRule`: state machine, clock, history, restarts. Done, with proofs.
2. `NotifierContract`, `Notifier`: contract and refinement. Done, with proofs.
3. `RuleManager`: requests, tasks, table. Done, with proofs.
4. `QueryRangeCache`: pure operators and concurrent queries. Done, with proofs.
5. `AgentConfig`: rollout and registry. Done, with proofs.
6. `QueryPage`: URL, staged and current query. Done, with proofs.
7. `LogsPages`: requests, answers and the list. Done, with proofs.
8. `DashboardVariables`: values, options and the queue. Done, with proofs.
9. `LiveTail`: connections, batches and the list. Done, with proofs.
10. `QueryProgress`: the tracker and its subscriptions; abstract specification:
    each subscriber sees a growing sequence that ends with the last progress and
    a closed channel. Theorems: no send on a closed channel; the refinement.
11. `AlertPipeline`: `AlertRule` composed with `Notifier`: what the notifier
    drops when full against `KeptAlive`, with an Alertmanager that expires
    alerts by itself.
12. `PromRule.Eval` and `PromRuleTask` mapped on their own, to find where the
    copies differ; `TestNotification`.
13. `LogsProcessors` (`buildLogsProcessors`), `Maintenance` and the selections of
    the quick filters as operators, checked against reference definitions.

Proofs to add: with those modules, their own. Of the modules that exist, what is
left is liveness, which stays with TLC.

## Running the checks

    tlc -workers 2 -config Notifier.cfg NotifierMC.tla
    tlapm QueryService_proofs.tla

`PROJECT.json` has each run with its module and configuration, and for each
property a variant of the code under which it must fail. On two cores a run
takes from seconds to about three minutes; `rule_tasks` and `agent_config`
are the largest with about two million states each.
