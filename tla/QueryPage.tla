------------------------------ MODULE QueryPage ------------------------------
(***************************************************************************)
(* The query of a page of the browser application: providers/QueryBuilder, *)
(* which keeps the query being built, the query that was staged and the    *)
(* superset query, and the composite query in the URL, from which pages    *)
(* are opened, which running a query rewrites, and which effects turn back *)
(* into state.  With it the parts of the pages that write the same URL or  *)
(* the same state: the share effect (useShareBuilderUrl), the time         *)
(* selection of the top bar and the panel editor (NewWidget).              *)
(*                                                                         *)
(* What a render commits, its effects see: Flush is one flush of effects,  *)
(* all of which read the state of that commit and none of which sees what  *)
(* the others write.  A builder query is its name, its operator, which a   *)
(* list panel has no use for, and its filters, which stand for what every  *)
(* kind of panel keeps; name n is the n-th letter, 0 is no name.           *)
(***************************************************************************)
EXTENDS Integers, Sequences

CONSTANTS
    Explorers,    \* pages with a query builder
    Editor,       \* the page of the panel editor
    Plain,        \* a page without a query builder
    MaxQueries,   \* MAX_QUERIES, which is also the number of names
    Operators,    \* what the operator of a query may be
    Noop, Count,  \* the operator in a list panel, and by default
    Filters,      \* what the filters of a query may be
    Unfiltered,   \* no filters
    Links,        \* URLs that pages are opened with: bookmarks, menus, panels
    Ids,          \* query ids
    DefaultId,    \* the id of the queries a page has by default
    None,         \* no query
    MaxSteps      \* bound: what the user does

ASSUME QueryPageAssumption ==
    /\ MaxQueries \in Nat \ {0}
    /\ {Noop, Count} \subseteq Operators /\ Unfiltered \in Filters
    /\ Editor \notin Explorers /\ Plain \notin Explorers \cup {Editor}
    /\ DefaultId \in Ids /\ None \notin Ids
    /\ MaxSteps \in Nat

VARIABLES
    url,          \* history.location: path, composite query, a list (graphType)
    shown,        \* whether the page of the path is mounted
    staged,       \* stagedQuery
    current,      \* currentQuery
    superset,     \* the builder queries of supersetQuery
    pathRef,      \* currentPathnameRef
    kept,         \* history: the builder queries the user built or opened
    overwritten,  \* history: a change of the time range, or a list, undid some
    strayed,      \* history: the superset query has queries the panel has not
    unnamed,      \* history: opened with queries of one name
    steps         \* what the user has done

stateVars == <<staged, current, superset>>
history == <<kept, overwritten, strayed, unnamed>>
vars == <<url, shown, staged, current, superset, pathRef, history, steps>>

-----------------------------------------------------------------------------
BuilderQuery == [name : 0 .. MaxQueries, operator : Operators, filters : Filters]

BuilderQueries == UNION {[1 .. n -> BuilderQuery] : n \in 1 .. MaxQueries}

Query == [id : Ids, items : BuilderQueries]

UrlQuery == [id : Ids, items : BuilderQueries, valid : BOOLEAN]

\* A list is a panel of the editor, which is opened with its query.
Locations ==
    {l \in [path : Explorers \cup {Editor, Plain}, list : BOOLEAN,
            query : UrlQuery \cup {None}] :
        l.list => l.path = Editor /\ l.query # None}

Distinct(items) ==
    /\ \A i \in DOMAIN items : items[i].name # 0
    /\ \A i, j \in DOMAIN items : items[i].name = items[j].name => i = j

\* Two URLs of one page with one query id have one query; ids do not run out.  The
\* queries of a list may have lost their names.
ASSUME LinksAssumption ==
    /\ Links \subseteq Locations /\ None \notin UrlQuery
    /\ \A l \in Links : l.query # None /\ ~l.list => Distinct(l.query.items)
    /\ \A l, m \in Links :
          /\ l.path = m.path /\ l.path # Editor
          /\ l.query # None /\ m.query # None
          /\ l.query.id = m.query.id
          => l.query = m.query
    /\ \A i, j, k \in Ids : \E fresh \in Ids :
          /\ fresh \notin {DefaultId, i, j, k}
          /\ \A l \in Links : l.query # None => l.query.id # fresh

Names(items) == {items[i].name : i \in DOMAIN items}

\* The first name that is not taken, none when all are.
createNewBuilderItemName(taken) ==
    IF 1 .. MaxQueries \subseteq taken THEN 0
    ELSE CHOOSE n \in 1 .. MaxQueries : n \notin taken /\ 1 .. n - 1 \subseteq taken

NewItem(items, item) == [item EXCEPT !.name = createNewBuilderItemName(Names(items))]

\* The list with one more item, unless it is full.
WithNew(items, item) ==
    IF Len(items) >= MaxQueries THEN items ELSE Append(items, NewItem(items, item))

Without(items, i) ==
    IF i \in DOMAIN items
    THEN [j \in 1 .. Len(items) - 1 |-> IF j < i THEN items[j] ELSE items[j + 1]]
    ELSE items

WithItem(items, i, item) == [j \in DOMAIN items |-> IF j = i THEN item ELSE items[j]]

\* merge of lodash: items of the second list replace those of the first, by index.
Merge(items, others) ==
    [j \in 1 .. (IF Len(items) > Len(others) THEN Len(items) ELSE Len(others)) |->
        IF j \in DOMAIN others THEN others[j] ELSE items[j]]

\* What a kind of panel takes over of a query: a list takes the filters and starts
\* from the initial values for the rest, its name included.
PanelItem(list, item) ==
    IF list THEN [name |-> 1, operator |-> Noop, filters |-> item.filters]
    ELSE [item EXCEPT !.operator = IF @ = Noop THEN Count ELSE @]

handleQueryChange(list, items) == [j \in DOMAIN items |-> PanelItem(list, items[j])]

DefaultItem == [name |-> 1, operator |-> Count, filters |-> Unfiltered]

DefaultItems == <<DefaultItem>>

\* An id nothing has: uuid.
UsedIds == {DefaultId, current.id}
           \cup {l.query.id : l \in {k \in Links \cup {url} : k.query # None}}
           \cup (IF staged = None THEN {} ELSE {staged.id})

FreshId == CHOOSE i \in Ids : i \notin UsedIds

\* The composite query that redirectWithQueryBuilderData puts into the URL.
OrDefault(items) == IF items = <<>> THEN DefaultItems ELSE items

Generated(items) == [id |-> FreshId, items |-> OrDefault(items), valid |-> TRUE]

Content(q) == [id |-> q.id, items |-> q.items]

-----------------------------------------------------------------------------
\* The conditions of the effects, on what was committed.
HasBuilder == url.path \in Explorers \cup {Editor}

\* useShareBuilderUrl: the page is shown without a query.
ShareFires(mounted) == mounted /\ HasBuilder /\ url.query = None

StagedId == IF staged = None THEN None ELSE staged.id

(* Mutant: the data is compared as well. *)
InitFiresOnData ==
    url.query # None /\ (url.query.id # StagedId \/ url.query.items # current.items)

\* The query of the URL is not the staged one.
InitFires == url.query # None /\ url.query.id # StagedId

\* The staged query is that of another page.
ResetFires == staged # None /\ pathRef # url.path

EffectsFire == ShareFires(shown = "yes") \/ InitFires \/ ResetFires

\* What is built is about to be replaced.
Replaced == url.query = None \/ InitFires \/ ResetFires

Settled == HasBuilder /\ shown = "yes" /\ ~EffectsFire

\* What is built on at a URL, once the effects have run.
Opened(u) ==
    IF u.query = None THEN DefaultItems
    ELSE IF u.query.valid THEN u.query.items ELSE OrDefault(u.query.items)

\* What the builder starts with at a URL.
InitialQuery(u) ==
    IF u.query = None THEN [id |-> DefaultId, items |-> DefaultItems] ELSE Content(u.query)

Init ==
    /\ url \in Links
    /\ shown = "no"
    /\ staged = None
    /\ current = InitialQuery(url)
    /\ superset = current.items
    /\ pathRef = None
    /\ kept = Opened(url)
    /\ overwritten = FALSE /\ strayed = FALSE
    /\ unnamed = ~Distinct(Opened(url))
    /\ steps = 0

-----------------------------------------------------------------------------
\* One flush of effects.  A page is mounted by the commit of its path, or later
\* when it has to be loaded; the panel editor is never mounted before the second.
MayMount == shown = "ready" \/ (shown = "no" /\ url.path # Editor)

redirectWithQueryBuilderData(items, list) ==
    url' = [url EXCEPT !.query = Generated(items), !.list = list]

redirectTo(items) == redirectWithQueryBuilderData(items, url.list)

StagedItems == IF staged = None THEN DefaultItems ELSE staged.items

\* No effect of the provider writes the URL.  The editor of a list, while it is first
\* rendered, puts what is staged into it, or the default query if nothing is; the
\* time selection that is mounted with it may restore the URL it saw.
LeaveUrl(mounting, timeLast) ==
    LET replaces == mounting /\ url.list /\ ~timeLast
    IN  /\ IF replaces THEN redirectTo(StagedItems) ELSE UNCHANGED url
        /\ overwritten' = (overwritten \/ (replaces /\ staged = None))

\* NewWidget starts with the superset of the query it was rendered with.
InitSuperset(mounting, otherwise) ==
    superset' = IF mounting /\ url.path = Editor THEN current.items ELSE otherwise

(* Mutant: another page takes over what was staged. *)
StagedOrPassedOn(q) ==
    /\ staged' = q
    /\ pathRef' = IF ResetFires THEN url.path ELSE pathRef

(* Mutant: the page that was left is not forgotten. *)
StagedOrResetAgain(q) ==
    /\ staged' = IF ResetFires THEN None ELSE q
    /\ UNCHANGED pathRef

\* The staged query of another page is dropped, whatever else is written to it.
StagedOrReset(q) ==
    /\ staged' = IF ResetFires THEN None ELSE q
    /\ pathRef' = IF ResetFires THEN url.path ELSE pathRef

\* No query in the URL: the page's default one.  The time selection, which writes
\* its range into the URL it saw when it is mounted, may do so afterwards.
ShareQuery(mounting, timeLast) ==
    /\ ShareFires(mounting \/ shown = "yes")
    /\ current' = [id |-> DefaultId, items |-> DefaultItems]
    /\ InitSuperset(mounting, DefaultItems)
    /\ StagedOrReset(None)
    /\ IF timeLast THEN UNCHANGED url ELSE redirectTo(DefaultItems)
    /\ UNCHANGED overwritten

\* The query in the URL is staged, and built on.
initQueryBuilderData(mounting, timeLast) ==
    /\ InitFires /\ url.query.valid
    /\ current' = Content(url.query)
    /\ InitSuperset(mounting, superset)
    /\ StagedOrReset(Content(url.query))
    /\ LeaveUrl(mounting, timeLast)

\* The query in the URL lacks some fields: they are added.  The provider's effect is
\* the last to write the URL.
RepairQuery(mounting) ==
    /\ InitFires /\ ~url.query.valid
    /\ redirectTo(url.query.items)
    /\ InitSuperset(mounting, superset)
    /\ StagedOrReset(staged)
    /\ UNCHANGED <<current, overwritten>>

KeepQuery(mounting, timeLast) ==
    /\ ~ShareFires(mounting \/ shown = "yes") /\ ~InitFires
    /\ InitSuperset(mounting, superset)
    /\ StagedOrReset(staged)
    /\ LeaveUrl(mounting, timeLast)
    /\ UNCHANGED current

Flush(mounting, timeLast) ==
    /\ EffectsFire \/ mounting \/ shown = "no"
    /\ mounting => MayMount
    /\ timeLast => mounting
    /\ shown' = IF mounting \/ shown = "yes" THEN "yes" ELSE "ready"
    /\ \/ ShareQuery(mounting, timeLast)
       \/ initQueryBuilderData(mounting, timeLast)
       \/ RepairQuery(mounting)
       \/ KeepQuery(mounting, timeLast)
    /\ strayed' = (strayed \/ (mounting /\ url.path = Editor /\ current.items # Opened(url)))
    /\ UNCHANGED <<kept, unnamed, steps>>

-----------------------------------------------------------------------------
\* What the user does.  Flushes that follow from one another are over before a user
\* can act again; loading a page is not, so that other URLs can be opened meanwhile.
UserStep ==
    /\ shown # "no" /\ ~EffectsFire
    /\ steps < MaxSteps /\ steps' = steps + 1

\* The builder of a page that is shown.
Building == UserStep /\ Settled

\* What the user has at a URL that is opened.
Opens(u) ==
    /\ url' = u
    /\ kept' = Opened(u)
    /\ overwritten' = FALSE /\ strayed' = FALSE
    /\ unnamed' = ~Distinct(Opened(u))

\* The application is started again, at its URL or another one.
Reload(link) ==
    /\ UserStep
    /\ Opens(link)
    /\ shown' = "no"
    /\ staged' = None
    /\ current' = InitialQuery(link)
    /\ superset' = InitialQuery(link).items
    /\ pathRef' = None

\* Another URL is opened; a panel is never opened from the editor of another.
Navigate(link) ==
    /\ UserStep
    /\ link # url /\ ~(url.path = Editor /\ link.path = Editor)
    /\ Opens(link)
    /\ shown' = IF link.path = url.path THEN shown ELSE "no"
    /\ UNCHANGED <<stateVars, pathRef>>

\* handleExport: the query as it is built becomes a panel of a dashboard, of the kind
\* that the explorer shows it in.
Export(list) ==
    /\ Building /\ url.path \in Explorers
    /\ Opens([path |-> Editor, list |-> list,
              query |-> [id |-> current.id, items |-> current.items, valid |-> TRUE]])
    /\ shown' = "no"
    /\ UNCHANGED <<stateVars, pathRef>>

\* An edit of what is built, of the current and of the superset query.
Edited(items, supersetItems) ==
    /\ Building
    /\ current' = [current EXCEPT !.items = items]
    /\ superset' = supersetItems
    /\ kept' = items
    /\ UNCHANGED <<url, shown, staged, pathRef, overwritten, strayed, unnamed>>

\* The queries that can be edited: a list shows its first one.
Shown(i) == i \in DOMAIN current.items /\ (url.list => i = 1)

\* A list has no button for it.
addNewBuilderQuery ==
    /\ ~url.list
    /\ Edited(WithNew(current.items, DefaultItem), WithNew(superset, DefaultItem))

cloneQuery(i) ==
    /\ Shown(i)
    /\ Edited(WithNew(current.items, current.items[i]),
              WithNew(superset, current.items[i]))

(* Mutant: the superset query keeps what is removed. *)
RemoveFromCurrent(i) ==
    /\ Len(current.items) > 1 /\ Shown(i)
    /\ Edited(Without(current.items, i), superset)

removeQueryBuilderEntityByIndex(i) ==
    /\ Len(current.items) > 1 /\ Shown(i)
    /\ Edited(Without(current.items, i), Without(superset, i))

(* Mutant: the superset query takes over all that a list has of a query. *)
SupersetTakesAll(item, newItem) == newItem

\* Of an edited query the superset query takes over what the kind of panel has of it.
SupersetItem(item, newItem) ==
    IF url.list THEN [item EXCEPT !.filters = newItem.filters] ELSE newItem

updateSuperSetQueryBuilderData(items, i, newItem) ==
    [j \in DOMAIN items |-> IF j = i THEN SupersetItem(items[j], newItem) ELSE items[j]]

\* A list offers the filters only.
handleSetQueryData(i, o, f) ==
    /\ Shown(i)
    /\ LET item == [current.items[i] EXCEPT !.operator = IF url.list THEN @ ELSE o,
                                            !.filters = f]
       IN Edited(WithItem(current.items, i, item),
                 updateSuperSetQueryBuilderData(superset, i, item))

\* The query goes into the URL, from where the effects stage it.
Redirect(items) ==
    /\ Building
    /\ redirectTo(items)
    /\ kept' = OrDefault(items)
    /\ UNCHANGED <<shown, stateVars, pathRef, overwritten, strayed, unnamed>>

handleRunQuery == Redirect(current.items)

\* Filters and tables put a query into the URL in which they changed something.
RedirectChanged(i, f) ==
    /\ url.path \in Explorers /\ i \in DOMAIN current.items
    /\ Redirect(WithItem(current.items, i, [current.items[i] EXCEPT !.filters = f]))

\* The editor's panel becomes a list, or another kind of panel.
setGraphHandler(list) ==
    /\ url.path = Editor
    /\ Building
    /\ redirectWithQueryBuilderData(handleQueryChange(list, superset), list)
    /\ kept' = OrDefault(handleQueryChange(list, superset))
    /\ UNCHANGED <<shown, stateVars, pathRef, overwritten, strayed, unnamed>>

\* A list of other data starts with one query without filters.  The superset query
\* loses the filters of its first query, and keeps the others.
handleChangeDataSource ==
    /\ url.list
    /\ Building
    /\ LET cleared == [current.items[1] EXCEPT !.filters = Unfiltered]
           list == handleQueryChange(TRUE, DefaultItems)
       IN  /\ redirectTo(list)
           /\ current' = [current EXCEPT !.items = WithItem(@, 1, cleared)]
           /\ superset' = updateSuperSetQueryBuilderData(superset, 1, cleared)
           /\ kept' = list
    /\ strayed' = (strayed \/ Len(superset) > 1)
    /\ UNCHANGED <<shown, staged, pathRef, overwritten, unnamed>>

\* onSelectHandler: a new time range.  The URL keeps its query.
SelectTime ==
    /\ Building /\ staged # None
    /\ current' = [id |-> staged.id, items |-> Merge(current.items, staged.items)]
    /\ overwritten' = (overwritten \/ current'.items # current.items)
    /\ UNCHANGED <<url, shown, staged, superset, pathRef, kept, strayed, unnamed>>

Next ==
    \/ \E mounting, timeLast \in BOOLEAN : Flush(mounting, timeLast)
    \/ \E link \in Links : Navigate(link)
    \/ \E link \in Links \cup {url} : Reload(link)
    \/ \E list \in BOOLEAN : Export(list) \/ setGraphHandler(list)
    \/ addNewBuilderQuery
    \/ \E i \in 1 .. MaxQueries : cloneQuery(i) \/ removeQueryBuilderEntityByIndex(i)
    \/ \E i \in 1 .. MaxQueries, o \in Operators \ {Noop}, f \in Filters :
          handleSetQueryData(i, o, f)
    \/ \E i \in 1 .. MaxQueries, f \in Filters : RedirectChanged(i, f)
    \/ handleRunQuery
    \/ handleChangeDataSource
    \/ SelectTime

\* Effects that have something to do are run; pages need not ever be loaded.
Spec ==
    /\ Init /\ [][Next]_vars
    /\ WF_vars(EffectsFire /\ \E mounting, timeLast \in BOOLEAN : Flush(mounting, timeLast))

-----------------------------------------------------------------------------
TypeOK ==
    /\ url \in Locations
    /\ shown \in {"no", "ready", "yes"}
    /\ staged \in Query \cup {None}
    /\ current \in Query
    /\ superset \in BuilderQueries \cup {<<>>}
    /\ pathRef \in Explorers \cup {Editor, Plain, None}
    /\ kept \in BuilderQueries
    /\ overwritten \in BOOLEAN /\ strayed \in BOOLEAN /\ unnamed \in BOOLEAN
    /\ steps \in 0 .. MaxSteps

\* Once the effects have run, a page with a builder shows the data of the query that
\* is in its URL, whatever other page was left, with whichever query and ids, and
\* although the parts of the page write the URL from what they saw of it before.
StagedIsUrl ==
    Settled => url.query # None /\ url.query.valid /\ staged = Content(url.query)

\* What is built is what the user opened or built: effects, renders, running the
\* query, and the mounting of pages never undo an edit, other than a change of
\* the time range and the mounting of a list while no query is staged.
EditsKept == ~Replaced /\ ~overwritten => current.items = kept

\* Queries of one builder have names, and no two the same one: results and formulas
\* refer to queries by their names.  In a list they are all the first letter; the
\* names come back with another kind of panel, from the superset query, whatever was
\* cloned, removed and edited in the list.
NamesDistinct ==
    ~Replaced /\ ~url.list /\ ~overwritten /\ ~strayed /\ ~unnamed =>
        Distinct(current.items)

\* In the panel editor the kind of the panel makes of the superset query what it makes
\* of what is built, item by item: a change of the kind, which starts from the
\* superset, then loses and brings back no query or filter, although running a query
\* never writes the superset.  It strays when the editor is mounted while the query
\* of the panel is not built on yet, because it lacks fields, and when a list of
\* several queries gets another data source.
SupersetAligned ==
    url.path = Editor /\ Settled /\ ~overwritten /\ ~strayed =>
        handleQueryChange(url.list, current.items) = handleQueryChange(url.list, superset)

\* The effects come to rest: none sets off another for ever.
Settles == <>[]~EffectsFire

\* "Merge the query and retain the current state" on a change of the time range.  The
\* fields that were edited are not retained.
TimeRetainsCurrent == [][SelectTime => current'.items = current.items]_vars
=============================================================================
