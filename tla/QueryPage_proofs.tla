--------------------------- MODULE QueryPage_proofs ---------------------------
(***************************************************************************)
(* The query of a page is the query of its URL, for any pages, links,      *)
(* operators and ids.  StagedIsUrl  speaks of states in which the effects  *)
(* have run; what holds in every state is that a staged query agrees with  *)
(* the URL when it has the id of the URL's query (AgreesWithUrl), and with *)
(* every URL of the page it was staged for that has this id                *)
(* (AgreesWithLinks): opening one changes the URL and stages nothing.  The *)
(* second needs that the query of the URL itself is that of the link with  *)
(* its id, if there is one (UrlIsLink), and all that new ids are new.      *)
(*                                                                         *)
(* The second half is about what is built: Target is what is current, or   *)
(* what will be once the effects have run.  Edits are kept, the superset   *)
(* follows and names are distinct because no flush changes Target, but for *)
(* the mounting of a list while nothing is staged; EditorInv says what may *)
(* be staged then.  Names that a list has lost are those of the superset,  *)
(* of which NamesInv says that they are distinct.                          *)
(***************************************************************************)
EXTENDS QueryPage, FiniteSetTheorems, WellFoundedInduction, TLAPS

Shapes ==
    /\ url = [path |-> url.path, list |-> url.list, query |-> url.query]
    /\ url.list => url.path = Editor
    /\ url.query # None => url.query.id \in Ids
    /\ current = [id |-> current.id, items |-> current.items]
    /\ current.id \in Ids
    /\ staged # None => staged.id \in Ids

Agrees(q) == q # None /\ q.id = staged.id => staged = Content(q) /\ q.valid

OnItsPage == staged # None /\ pathRef = url.path

AgreesWithUrl == OnItsPage => Agrees(url.query)

AgreesWithLinks ==
    OnItsPage /\ url.path # Editor =>
        \A l \in Links : l.path = url.path => Agrees(l.query)

UrlIsLink ==
    url.path # Editor /\ url.query # None =>
        \A l \in Links :
            l.path = url.path /\ l.query # None /\ l.query.id = url.query.id =>
                l.query = url.query

StagedInv == Shapes /\ AgreesWithUrl /\ AgreesWithLinks /\ UrlIsLink

-----------------------------------------------------------------------------
\* A new id is none of those in use.
LEMMA FreshIsNew ==
    ASSUME Shapes
    PROVE  /\ FreshId \in Ids
           /\ staged # None => FreshId # staged.id
           /\ url.query # None => FreshId # url.query.id
           /\ \A l \in Links : l.query # None => l.query.id # FreshId
<1> DEFINE i == current.id
           j == IF url.query = None THEN DefaultId ELSE url.query.id
           k == IF staged = None THEN DefaultId ELSE staged.id
<1>1. i \in Ids /\ j \in Ids /\ k \in Ids
  BY QueryPageAssumption DEF Shapes
<1> HIDE DEF i, j, k
<1>2. PICK f \in Ids : /\ f \notin {DefaultId, i, j, k}
                       /\ \A l \in Links : l.query # None => l.query.id # f
  BY <1>1, LinksAssumption
<1>3. f \notin UsedIds
  <2> USE DEF i, j, k
  <2>1. f \notin {DefaultId, current.id}
    BY <1>2
  <2>2. f \notin {l.query.id : l \in {m \in Links \cup {url} : m.query # None}}
    BY <1>2
  <2>3. f \notin (IF staged = None THEN {} ELSE {staged.id})
    BY <1>2
  <2> QED BY <2>1, <2>2, <2>3 DEF UsedIds
<1>4. FreshId \in Ids /\ FreshId \notin UsedIds
  BY <1>3 DEF FreshId
<1>5. staged # None => staged.id \in UsedIds
  BY DEF UsedIds
<1>6. \A l \in Links : l.query # None => l.query.id \in UsedIds
  BY DEF UsedIds
<1>7. url.query # None => url.query.id \in UsedIds
  BY DEF UsedIds
<1> QED BY <1>4, <1>5, <1>6, <1>7

\* Putting a query with a new id into the URL keeps what is staged true.
LEMMA RedirectKeeps ==
    ASSUME StagedInv, NEW items, NEW list, list => url.path = Editor,
           redirectWithQueryBuilderData(items, list)
    PROVE  /\ url' = [path |-> url.path, list |-> list, query |-> Generated(items)]
           /\ url'.query.id \in Ids
           /\ staged # None => url'.query.id # staged.id
           /\ url.query # None => url'.query.id # url.query.id
           /\ UrlIsLink'
<1>1. url' = [path |-> url.path, list |-> list, query |-> Generated(items)]
  BY DEF redirectWithQueryBuilderData, StagedInv, Shapes
<1>2. url'.query.id = FreshId
  BY <1>1 DEF Generated
<1>3. UrlIsLink'
  BY <1>2, FreshIsNew DEF StagedInv, UrlIsLink
<1> QED BY <1>1, <1>2, <1>3, FreshIsNew DEF StagedInv

LEMMA RedirectToKeeps ==
    ASSUME StagedInv, NEW items, redirectTo(items)
    PROVE  /\ url' = [path |-> url.path, list |-> url.list, query |-> Generated(items)]
           /\ url'.query.id \in Ids
           /\ staged # None => url'.query.id # staged.id
           /\ url.query # None => url'.query.id # url.query.id
           /\ UrlIsLink'
BY RedirectKeeps DEF redirectTo, StagedInv, Shapes

\* The same, of a step that stages nothing and keeps the current query's id.
LEMMA RedirectStep ==
    ASSUME StagedInv, NEW items, NEW list, list => url.path = Editor,
           redirectWithQueryBuilderData(items, list),
           staged' = staged, pathRef' = pathRef,
           current' = [id |-> current.id, items |-> current'.items]
    PROVE  StagedInv'
<1>1. /\ url' = [path |-> url.path, list |-> list, query |-> Generated(items)]
      /\ url'.query.id \in Ids
      /\ staged # None => url'.query.id # staged.id
      /\ UrlIsLink'
  BY RedirectKeeps
<1>2. url'.path = url.path
  BY <1>1
<1>3. Shapes'
  BY <1>1 DEF StagedInv, Shapes
<1>4. AgreesWithUrl'
  BY <1>1 DEF AgreesWithUrl, OnItsPage, Agrees
<1>5. AgreesWithLinks'
  BY <1>2 DEF StagedInv, AgreesWithLinks, OnItsPage, Agrees
<1> QED BY <1>1, <1>3, <1>4, <1>5 DEF StagedInv

LEMMA RedirectToStep ==
    ASSUME StagedInv, NEW items, redirectTo(items),
           staged' = staged, pathRef' = pathRef, current' = current
    PROVE  StagedInv'
BY RedirectStep DEF redirectTo, StagedInv, Shapes

\* Nothing staged.
LEMMA NothingStaged ==
    ASSUME staged' = None, Shapes', UrlIsLink'
    PROVE  StagedInv'
BY DEF StagedInv, AgreesWithUrl, AgreesWithLinks, OnItsPage

LEMMA LinkShape ==
    ASSUME NEW l \in Links
    PROVE  /\ l = [path |-> l.path, list |-> l.list, query |-> l.query]
           /\ l.list \in BOOLEAN /\ (l.list => l.path = Editor)
           /\ l.query # None => l.query.id \in Ids
<1>1. l \in Locations
  BY LinksAssumption
<1> QED BY <1>1 DEF Locations, UrlQuery

-----------------------------------------------------------------------------
LEMMA InitStaged == Init => StagedInv
<1> SUFFICES ASSUME Init PROVE StagedInv
  OBVIOUS
<1>1. url \in Links /\ staged = None
  BY DEF Init
<1>2. Shapes
  <2>1. /\ url = [path |-> url.path, list |-> url.list, query |-> url.query]
        /\ url.list => url.path = Editor
        /\ url.query # None => url.query.id \in Ids
    BY <1>1, LinkShape
  <2>2. current = InitialQuery(url)
    BY DEF Init
  <2> QED
    BY <1>1, <2>1, <2>2, QueryPageAssumption DEF InitialQuery, Content, Shapes
<1>3. UrlIsLink
  BY <1>1, LinksAssumption DEF UrlIsLink
<1> QED BY <1>1, <1>2, <1>3 DEF StagedInv, AgreesWithUrl, AgreesWithLinks, OnItsPage

\* A flush of effects stages the query of the URL, or none.
LEMMA FlushKeeps ==
    ASSUME StagedInv, NEW mounting, NEW timeLast, Flush(mounting, timeLast)
    PROVE  StagedInv'
<1>1. CASE ShareQuery(mounting, timeLast)
  <2>1. staged' = None
    BY <1>1 DEF ShareQuery, StagedOrReset
  <2>2. current' = [id |-> DefaultId, items |-> DefaultItems]
    BY <1>1 DEF ShareQuery
  <2>3. CASE timeLast
    <3>1. url' = url
      BY <1>1, <2>3 DEF ShareQuery
    <3>2. Shapes' /\ UrlIsLink'
      BY <2>1, <2>2, <3>1, QueryPageAssumption DEF StagedInv, Shapes, UrlIsLink
    <3> QED BY <2>1, <3>2, NothingStaged
  <2>4. CASE ~timeLast
    <3>1. redirectTo(DefaultItems)
      BY <1>1, <2>4 DEF ShareQuery
    <3>2. /\ url' = [path |-> url.path, list |-> url.list,
                    query |-> Generated(DefaultItems)]
          /\ url'.query.id \in Ids
          /\ UrlIsLink'
      BY <3>1, RedirectToKeeps
    <3>3. Shapes'
      BY <2>1, <2>2, <3>2, QueryPageAssumption DEF StagedInv, Shapes
    <3> QED BY <2>1, <3>2, <3>3, NothingStaged
  <2> QED BY <2>3, <2>4
<1>2. CASE initQueryBuilderData(mounting, timeLast)
  <2>1. /\ url.query # None /\ url.query.valid
        /\ LeaveUrl(mounting, timeLast)
        /\ current' = Content(url.query)
        /\ StagedOrReset(Content(url.query))
    BY <1>2 DEF initQueryBuilderData, InitFires
  <2>2. staged' = None \/ staged' = Content(url.query)
    BY <2>1 DEF StagedOrReset
  <2>3. current'.id \in Ids /\ current' = [id |-> current'.id, items |-> current'.items]
    BY <2>1 DEF StagedInv, Shapes, Content
  <2>4. staged' # None => staged'.id = url.query.id
    BY <2>2 DEF Content
  <2>5. CASE url' = url
    <3>1. Shapes' /\ UrlIsLink'
      BY <2>1, <2>3, <2>4, <2>5 DEF StagedInv, Shapes, UrlIsLink
    <3>2. CASE staged' = None
      BY <3>1, <3>2, NothingStaged
    <3>3. CASE staged' = Content(url.query)
      <4>1. AgreesWithUrl'
        BY <2>1, <2>5, <3>3 DEF AgreesWithUrl, Agrees, Content
      <4>2. AgreesWithLinks'
        <5> SUFFICES ASSUME url.path # Editor,
                            NEW l \in Links, l.path = url.path,
                            l.query # None, l.query.id = staged'.id
                     PROVE  staged' = Content(l.query) /\ l.query.valid
          BY <2>5 DEF AgreesWithLinks, Agrees, OnItsPage, Content
        <5>1. l.query = url.query
          BY <2>1, <3>3 DEF StagedInv, UrlIsLink, Content
        <5> QED BY <2>1, <3>3, <5>1
      <4> QED BY <3>1, <4>1, <4>2 DEF StagedInv
    <3> QED BY <2>2, <3>2, <3>3
  <2>6. CASE mounting /\ url.list /\ redirectTo(StagedItems)
    <3>1. /\ url' = [path |-> url.path, list |-> url.list, query |-> Generated(StagedItems)]
          /\ url'.query.id \in Ids /\ url'.query.id # url.query.id
          /\ UrlIsLink'
      BY <2>1, <2>6, RedirectToKeeps
    <3>2. url'.path = Editor
      BY <2>6, <3>1 DEF StagedInv, Shapes
    <3>3. Shapes'
      BY <2>1, <2>3, <2>4, <3>1 DEF StagedInv, Shapes
    <3>4. AgreesWithUrl'
      BY <2>4, <3>1 DEF AgreesWithUrl, OnItsPage, Agrees
    <3> QED BY <3>1, <3>2, <3>3, <3>4 DEF StagedInv, AgreesWithLinks
  <2> QED BY <2>1, <2>5, <2>6 DEF LeaveUrl
<1>3. CASE RepairQuery(mounting)
  <2>1. /\ redirectTo(url.query.items)
        /\ current' = current
        /\ StagedOrReset(staged)
    BY <1>3 DEF RepairQuery
  <2>2. CASE ResetFires
    <3>1. staged' = None
      BY <2>1, <2>2 DEF StagedOrReset
    <3>2. /\ url' = [path |-> url.path, list |-> url.list,
                    query |-> Generated(url.query.items)]
          /\ url'.query.id \in Ids
          /\ UrlIsLink'
      BY <2>1, RedirectToKeeps
    <3>3. Shapes'
      BY <2>1, <3>1, <3>2 DEF StagedInv, Shapes
    <3> QED BY <3>1, <3>2, <3>3, NothingStaged
  <2>3. CASE ~ResetFires
    BY <2>1, <2>3, RedirectToStep DEF StagedOrReset
  <2> QED BY <2>2, <2>3
<1>4. CASE KeepQuery(mounting, timeLast)
  <2>1. LeaveUrl(mounting, timeLast) /\ current' = current /\ StagedOrReset(staged)
    BY <1>4 DEF KeepQuery
  <2>2. CASE url' = url
    <3>1. CASE ResetFires
      <4>1. staged' = None
        BY <2>1, <3>1 DEF StagedOrReset
      <4>2. Shapes' /\ UrlIsLink'
        BY <2>1, <2>2, <4>1 DEF StagedInv, Shapes, UrlIsLink
      <4> QED BY <4>1, <4>2, NothingStaged
    <3>2. CASE ~ResetFires
      BY <2>1, <2>2, <3>2 DEF StagedOrReset, StagedInv, Shapes, AgreesWithUrl,
                              AgreesWithLinks, UrlIsLink, Agrees, OnItsPage
    <3> QED BY <3>1, <3>2
  <2>3. CASE mounting /\ url.list /\ redirectTo(StagedItems)
    <3>1. /\ url' = [path |-> url.path, list |-> url.list, query |-> Generated(StagedItems)]
          /\ url'.query.id \in Ids
          /\ staged # None => url'.query.id # staged.id
          /\ UrlIsLink'
      BY <2>3, RedirectToKeeps
    <3>2. staged' = None \/ staged' = staged
      BY <2>1 DEF StagedOrReset
    <3>3. url'.path = Editor
      BY <2>3, <3>1 DEF StagedInv, Shapes
    <3>4. Shapes'
      BY <2>1, <3>1, <3>2 DEF StagedInv, Shapes
    <3>5. AgreesWithUrl'
      BY <3>1, <3>2 DEF AgreesWithUrl, OnItsPage, Agrees
    <3> QED BY <3>1, <3>3, <3>4, <3>5 DEF StagedInv, AgreesWithLinks
  <2> QED BY <2>1, <2>2, <2>3 DEF LeaveUrl
<1> QED BY <1>1, <1>2, <1>3, <1>4 DEF Flush

-----------------------------------------------------------------------------
\* Another URL of the page staged for has the staged query, if it has its id.
LEMMA NavigateKeeps ==
    ASSUME StagedInv, NEW link \in Links, Navigate(link)
    PROVE  StagedInv'
<1>1. /\ url' = link
      /\ ~(url.path = Editor /\ link.path = Editor)
      /\ UNCHANGED <<staged, current, pathRef>>
      /\ ~ResetFires
  BY DEF Navigate, Opens, stateVars, UserStep, EffectsFire
<1>2. Shapes'
  <2>1. /\ link = [path |-> link.path, list |-> link.list, query |-> link.query]
        /\ link.list => link.path = Editor
        /\ link.query # None => link.query.id \in Ids
    BY LinkShape
  <2> QED BY <1>1, <2>1 DEF StagedInv, Shapes
<1>3. UrlIsLink'
  BY <1>1, LinksAssumption DEF UrlIsLink
<1>4. OnItsPage' => OnItsPage /\ link.path = url.path /\ url.path # Editor
  BY <1>1 DEF OnItsPage, ResetFires
<1>5. AgreesWithUrl'
  BY <1>1, <1>4 DEF StagedInv, AgreesWithLinks, AgreesWithUrl, Agrees
<1>6. AgreesWithLinks'
  BY <1>1, <1>4 DEF StagedInv, AgreesWithLinks, Agrees
<1> QED BY <1>2, <1>3, <1>5, <1>6 DEF StagedInv

LEMMA ReloadKeeps ==
    ASSUME StagedInv, NEW link \in Links \cup {url}, Reload(link)
    PROVE  StagedInv'
<1>1. url' = link /\ staged' = None /\ current' = InitialQuery(link)
  BY DEF Reload, Opens
<1>2. Shapes'
  <2>1. /\ link = [path |-> link.path, list |-> link.list, query |-> link.query]
        /\ link.list => link.path = Editor
        /\ link.query # None => link.query.id \in Ids
    BY LinkShape DEF StagedInv, Shapes
  <2> QED
    BY <1>1, <2>1, QueryPageAssumption DEF Shapes, InitialQuery, Content
<1>3. UrlIsLink'
  BY <1>1, LinksAssumption DEF StagedInv, UrlIsLink
<1> QED BY <1>1, <1>2, <1>3, NothingStaged

\* A panel opened from an explorer is another page, for which nothing is staged yet.
LEMMA ExportKeeps ==
    ASSUME StagedInv, NEW list, Export(list)
    PROVE  StagedInv'
<1>1. /\ url.path \in Explorers /\ ~ResetFires
      /\ url' = [path |-> Editor, list |-> list,
                 query |-> [id |-> current.id, items |-> current.items, valid |-> TRUE]]
      /\ UNCHANGED <<staged, current, pathRef>>
  BY DEF Export, Opens, Building, UserStep, EffectsFire, stateVars
<1>2. url'.path = Editor /\ url.path # Editor
  BY <1>1, QueryPageAssumption
<1>3. Shapes'
  BY <1>1 DEF StagedInv, Shapes
<1>4. ~OnItsPage'
  BY <1>1, <1>2 DEF ResetFires, OnItsPage
<1> QED BY <1>2, <1>3, <1>4 DEF StagedInv, AgreesWithUrl, AgreesWithLinks, UrlIsLink

LEMMA EditKeeps ==
    ASSUME StagedInv, NEW items, NEW others, Edited(items, others)
    PROVE  StagedInv'
<1>1. /\ UNCHANGED <<url, staged, pathRef>>
      /\ current' = [current EXCEPT !.items = items]
  BY DEF Edited
<1>2. Shapes'
  BY <1>1 DEF StagedInv, Shapes
<1> QED
  BY <1>1, <1>2 DEF StagedInv, AgreesWithUrl, AgreesWithLinks, UrlIsLink, Agrees, OnItsPage

LEMMA TimeKeeps ==
    ASSUME StagedInv, SelectTime
    PROVE  StagedInv'
<1>1. /\ UNCHANGED <<url, staged, pathRef>> /\ staged # None
      /\ current' = [id |-> staged.id, items |-> Merge(current.items, staged.items)]
  BY DEF SelectTime
<1>2. Shapes'
  BY <1>1 DEF StagedInv, Shapes
<1> QED
  BY <1>1, <1>2 DEF StagedInv, AgreesWithUrl, AgreesWithLinks, UrlIsLink, Agrees, OnItsPage

LEMMA NextStaged == StagedInv /\ [Next]_vars => StagedInv'
<1> SUFFICES ASSUME StagedInv, [Next]_vars PROVE StagedInv'
  OBVIOUS
<1>1. CASE \E mounting, timeLast \in BOOLEAN : Flush(mounting, timeLast)
  BY <1>1, FlushKeeps
<1>2. CASE \E link \in Links : Navigate(link)
  BY <1>2, NavigateKeeps
<1>3. CASE \E link \in Links \cup {url} : Reload(link)
  BY <1>3, ReloadKeeps
<1>4. ASSUME NEW list \in BOOLEAN, Export(list)
      PROVE  StagedInv'
  BY <1>4, ExportKeeps
<1>5. CASE addNewBuilderQuery
  BY <1>5, EditKeeps DEF addNewBuilderQuery
<1>6. ASSUME NEW i \in 1 .. MaxQueries,
             cloneQuery(i) \/ removeQueryBuilderEntityByIndex(i)
      PROVE  StagedInv'
  BY <1>6, EditKeeps DEF cloneQuery, removeQueryBuilderEntityByIndex
<1>7. ASSUME NEW i \in 1 .. MaxQueries, NEW o \in Operators \ {Noop}, NEW f \in Filters,
             handleSetQueryData(i, o, f)
      PROVE  StagedInv'
  BY <1>7, EditKeeps DEF handleSetQueryData
<1>8. ASSUME NEW items, Redirect(items)
      PROVE  StagedInv'
  BY <1>8, RedirectToStep DEF Redirect, stateVars
<1>9. CASE handleRunQuery
  BY <1>8, <1>9 DEF handleRunQuery
<1>10. ASSUME NEW i \in 1 .. MaxQueries, NEW f \in Filters, RedirectChanged(i, f)
       PROVE  StagedInv'
  BY <1>8, <1>10 DEF RedirectChanged
<1>11. ASSUME NEW list \in BOOLEAN, setGraphHandler(list)
       PROVE  StagedInv'
  <2>1. /\ redirectWithQueryBuilderData(handleQueryChange(list, superset), list)
        /\ url.path = Editor /\ UNCHANGED <<staged, pathRef, current>>
    BY <1>11 DEF setGraphHandler, stateVars
  <2>2. current' = [id |-> current.id, items |-> current'.items]
    BY <2>1 DEF StagedInv, Shapes
  <2> QED BY <2>1, <2>2, RedirectStep
<1>12. CASE SelectTime
  BY <1>12, TimeKeeps
<1>13. CASE handleChangeDataSource
  <2>1. /\ redirectTo(handleQueryChange(TRUE, DefaultItems))
        /\ UNCHANGED <<staged, pathRef>>
        /\ current' = [current EXCEPT !.items = current'.items]
    BY <1>13 DEF handleChangeDataSource, StagedInv, Shapes
  <2>2. current' = [id |-> current.id, items |-> current'.items]
    BY <2>1 DEF StagedInv, Shapes
  <2> QED BY <2>1, <2>2, RedirectStep DEF redirectTo, StagedInv, Shapes
<1>14. CASE UNCHANGED vars
  BY <1>14 DEF vars, stateVars, StagedInv, Shapes, AgreesWithUrl, AgreesWithLinks,
               UrlIsLink, Agrees, OnItsPage
<1> QED
  BY <1>1, <1>2, <1>3, <1>4, <1>5, <1>6, <1>7, <1>9, <1>10, <1>11, <1>12, <1>13, <1>14
     DEF Next

-----------------------------------------------------------------------------
\* Once the effects have run the URL has a query, and what is staged has its id.
LEMMA SettledAgrees == StagedInv => StagedIsUrl
<1> SUFFICES ASSUME StagedInv, Settled
             PROVE  url.query # None /\ url.query.valid /\ staged = Content(url.query)
  BY DEF StagedIsUrl
<1>1. url.query # None
  BY DEF Settled, EffectsFire, ShareFires
<1>2. url.query.id \in Ids /\ url.query.id = StagedId
  BY <1>1 DEF Settled, EffectsFire, InitFires, StagedInv, Shapes
<1>3. staged # None /\ staged.id = url.query.id
  BY <1>2, QueryPageAssumption DEF StagedId
<1>4. pathRef = url.path
  BY <1>3 DEF Settled, EffectsFire, ResetFires
<1> QED BY <1>1, <1>3, <1>4 DEF StagedInv, AgreesWithUrl, OnItsPage, Agrees

\* A page whose effects have run shows the query of its URL, whatever was opened,
\* built, run or left before.
THEOREM StagedIsUrlAlways == Spec => []StagedIsUrl
<1>1. Init => StagedInv
  BY InitStaged
<1>2. StagedInv /\ [Next]_vars => StagedInv'
  BY NextStaged
<1>3. StagedInv => StagedIsUrl
  BY SettledAgrees
<1> QED BY <1>1, <1>2, <1>3, PTL DEF Spec

-----------------------------------------------------------------------------
\* Lists of builder queries.
LEMMA ItemsAreSeq ==
    /\ \A x \in BuilderQueries :
          x \in Seq(BuilderQuery) /\ Len(x) \in 1 .. MaxQueries /\ x # <<>>
    /\ \A x \in Seq(BuilderQuery) : Len(x) \in 1 .. MaxQueries => x \in BuilderQueries
<1>1. ASSUME NEW x \in BuilderQueries
      PROVE  x \in Seq(BuilderQuery) /\ Len(x) \in 1 .. MaxQueries /\ x # <<>>
  <2>1. PICK n \in 1 .. MaxQueries : x \in [1 .. n -> BuilderQuery]
    BY DEF BuilderQueries
  <2>2. n \in Nat /\ n # 0
    BY QueryPageAssumption
  <2>3. x \in Seq(BuilderQuery) /\ Len(x) = n
    BY <2>1, <2>2
  <2> QED BY <2>2, <2>3
<1>2. ASSUME NEW x \in Seq(BuilderQuery), Len(x) \in 1 .. MaxQueries
      PROVE  x \in BuilderQueries
  <2>1. x \in [1 .. Len(x) -> BuilderQuery]
    OBVIOUS
  <2> QED BY <1>2, <2>1 DEF BuilderQueries
<1> QED BY <1>1, <1>2

\* A name that is not taken is found when there is one.
LEMMA NameIsNew ==
    ASSUME NEW taken
    PROVE  /\ createNewBuilderItemName(taken) \in 0 .. MaxQueries
           /\ createNewBuilderItemName(taken) # 0 =>
                 createNewBuilderItemName(taken) \notin taken
           /\ ~(1 .. MaxQueries \subseteq taken) => createNewBuilderItemName(taken) # 0
<1> DEFINE free == {n \in 1 .. MaxQueries : n \notin taken}
<1>1. MaxQueries \in Nat
  BY QueryPageAssumption
<1>2. CASE 1 .. MaxQueries \subseteq taken
  BY <1>1, <1>2 DEF createNewBuilderItemName
<1>3. CASE ~(1 .. MaxQueries \subseteq taken)
  <2>1. free \subseteq Nat /\ free # {}
    BY <1>1, <1>3
  <2>2. PICK n \in free : \A m \in free : ~(<<m, n>> \in OpToRel(<, Nat))
    <3> HIDE DEF free
    <3> QED BY <2>1, WFMin, NatLessThanWellFounded
  <2>3. \A m \in free : ~(m < n)
    BY <2>1, <2>2 DEF OpToRel
  <2>4. 1 .. n - 1 \subseteq taken
    <3> SUFFICES ASSUME NEW m \in 1 .. n - 1, m \notin taken PROVE FALSE
      OBVIOUS
    <3>1. n \in Nat /\ n <= MaxQueries /\ m \in Nat /\ 1 <= m /\ m <= n - 1
      BY <1>1, <2>1
    <3>2. m \in 1 .. MaxQueries /\ m < n
      BY <1>1, <3>1
    <3> QED BY <2>3, <3>2
  <2>5. \E k \in 1 .. MaxQueries : k \notin taken /\ 1 .. k - 1 \subseteq taken
    BY <2>4
  <2>6. /\ createNewBuilderItemName(taken) \in 1 .. MaxQueries
        /\ createNewBuilderItemName(taken) \notin taken
    BY <1>3, <2>5 DEF createNewBuilderItemName
  <2> QED BY <1>1, <2>6
<1> QED BY <1>2, <1>3

\* Fewer queries than there are names do not take all names.
LEMMA NamesLeft ==
    ASSUME NEW items \in BuilderQueries, Len(items) < MaxQueries
    PROVE  ~(1 .. MaxQueries \subseteq Names(items))
<1> SUFFICES ASSUME 1 .. MaxQueries \subseteq Names(items) PROVE FALSE
  OBVIOUS
<1>1. items \in Seq(BuilderQuery) /\ Len(items) \in Nat /\ MaxQueries \in Nat
  BY ItemsAreSeq, QueryPageAssumption
<1> DEFINE f == [i \in 1 .. Len(items) |-> items[i].name]
<1>2. f \in Surjection(1 .. Len(items), Names(items))
  <2>1. DOMAIN items = 1 .. Len(items)
    BY <1>1
  <2>2. /\ f \in [1 .. Len(items) -> Names(items)]
        /\ \A t \in Names(items) : \E i \in 1 .. Len(items) : f[i] = t
    BY <2>1 DEF Names
  <2> HIDE DEF f
  <2> QED BY <2>2 DEF Surjection
<1>3. IsFiniteSet(1 .. Len(items)) /\ Cardinality(1 .. Len(items)) = Len(items)
  <2>1. 1 \in Int /\ Len(items) \in Int
    BY <1>1
  <2>2. /\ IsFiniteSet(1 .. Len(items))
        /\ Cardinality(1 .. Len(items)) =
              IF 1 > Len(items) THEN 0 ELSE Len(items) - 1 + 1
    BY <2>1, FS_Interval
  <2> QED BY <1>1, <2>2
<1>4. IsFiniteSet(Names(items)) /\ Cardinality(Names(items)) <= Len(items)
  BY <1>2, <1>3, FS_Surjection
<1>5. Cardinality(1 .. MaxQueries) = MaxQueries
  BY <1>1, FS_Interval
<1>6. /\ IsFiniteSet(1 .. MaxQueries)
      /\ Cardinality(1 .. MaxQueries) <= Cardinality(Names(items))
  BY <1>4, FS_Subset
<1>7. Cardinality(Names(items)) \in Nat
  BY <1>4, FS_CardinalityType
<1> QED BY <1>1, <1>4, <1>5, <1>6, <1>7

\* The superset query may be empty: removing a query removes it there by its index.
Lists == {x \in Seq(BuilderQuery) : Len(x) <= MaxQueries}

LEMMA ListsAre == \A x : x \in BuilderQueries <=> x \in Lists /\ x # <<>>
<1>1. ASSUME NEW x \in BuilderQueries PROVE x \in Lists /\ x # <<>>
  BY ItemsAreSeq, QueryPageAssumption DEF Lists
<1>2. ASSUME NEW x \in Lists, x # <<>> PROVE x \in BuilderQueries
  <2>1. x \in Seq(BuilderQuery) /\ Len(x) \in 1 .. MaxQueries
    BY <1>2, QueryPageAssumption DEF Lists
  <2> QED BY <2>1, ItemsAreSeq
<1> QED BY <1>1, <1>2

LEMMA NewItemIs ==
    ASSUME NEW x \in Lists, NEW a \in BuilderQuery
    PROVE  /\ NewItem(x, a) \in BuilderQuery
           /\ NewItem(x, a).name = createNewBuilderItemName(Names(x))
           /\ NewItem(x, a).filters = a.filters
BY NameIsNew DEF NewItem, BuilderQuery

LEMMA WithNewIs ==
    ASSUME NEW x \in Lists, NEW a \in BuilderQuery
    PROVE  /\ WithNew(x, a) \in Lists
           /\ x # <<>> => WithNew(x, a) # <<>>
           /\ x # <<>> /\ Distinct(x) => Distinct(WithNew(x, a))
<1>1. x \in Seq(BuilderQuery) /\ Len(x) \in Nat /\ Len(x) <= MaxQueries
  BY DEF Lists
<1>2. MaxQueries \in Nat
  BY QueryPageAssumption
<1>3. NewItem(x, a) \in BuilderQuery
  BY NewItemIs
<1>4. CASE Len(x) >= MaxQueries
  BY <1>4 DEF WithNew
<1>5. CASE ~(Len(x) >= MaxQueries)
  <2> DEFINE y == Append(x, NewItem(x, a))
             last == Len(x) + 1
  <2>1. WithNew(x, a) = y
    BY <1>5 DEF WithNew
  <2>2. /\ y \in Seq(BuilderQuery) /\ Len(y) = last /\ DOMAIN y = 1 .. last
        /\ \A i \in 1 .. Len(x) : y[i] = x[i]
        /\ y[last] = NewItem(x, a)
    BY <1>1, <1>3
  <2>3. y \in Lists /\ y # <<>>
    BY <1>1, <1>2, <1>5, <2>2 DEF Lists
  <2>4. ASSUME x # <<>>, Distinct(x) PROVE Distinct(y)
    <3>1. ~(1 .. MaxQueries \subseteq Names(x))
      BY <1>1, <1>2, <1>5, <2>4, ListsAre, NamesLeft
    <3>2. NewItem(x, a).name # 0 /\ NewItem(x, a).name \notin Names(x)
      BY <3>1, NameIsNew, NewItemIs
    <3>3. DOMAIN x = 1 .. Len(x)
      BY <1>1
    <3>4. \A i \in 1 .. Len(x) : y[i].name # 0 /\ y[i].name # NewItem(x, a).name
      BY <2>2, <2>4, <3>2, <3>3 DEF Distinct, Names
    <3>5. \A i \in DOMAIN y : i \in 1 .. Len(x) \/ i = last
      BY <1>1, <2>2
    <3>6. \A i \in DOMAIN y : y[i].name # 0
      BY <2>2, <3>2, <3>4, <3>5
    <3>7. ASSUME NEW i \in DOMAIN y, NEW j \in DOMAIN y, y[i].name = y[j].name
          PROVE  i = j
      <4> HIDE DEF y
      <4>1. CASE i \in 1 .. Len(x) /\ j \in 1 .. Len(x)
        BY <2>2, <2>4, <3>3, <3>7, <4>1 DEF Distinct
      <4>2. CASE ~(i \in 1 .. Len(x) /\ j \in 1 .. Len(x))
        BY <2>2, <3>4, <3>5, <3>7, <4>2
      <4> QED BY <4>1, <4>2
    <3> QED BY <3>6, <3>7 DEF Distinct
  <2> QED BY <2>1, <2>3, <2>4
<1> QED BY <1>4, <1>5

LEMMA WithoutIs ==
    ASSUME NEW x \in Lists, NEW i
    PROVE  /\ Without(x, i) \in Lists
           /\ Len(x) > 1 => Without(x, i) # <<>>
           /\ Distinct(x) => Distinct(Without(x, i))
<1>1. x \in Seq(BuilderQuery) /\ Len(x) \in Nat /\ Len(x) <= MaxQueries
  BY DEF Lists
<1>2. CASE i \notin DOMAIN x
  BY <1>1, <1>2 DEF Without
<1>3. CASE i \in DOMAIN x
  <2> DEFINE y == Without(x, i)
             From(j) == IF j < i THEN j ELSE j + 1
  <2>1. i \in 1 .. Len(x) /\ Len(x) - 1 \in Nat /\ DOMAIN x = 1 .. Len(x)
    BY <1>1, <1>3
  <2>2. \A j \in 1 .. Len(x) - 1 : From(j) \in 1 .. Len(x)
    BY <1>1, <2>1
  <2>3. y = [j \in 1 .. Len(x) - 1 |-> x[From(j)]]
    BY <1>3 DEF Without
  <2>4. \A j \in 1 .. Len(x) : x[j] \in BuilderQuery
    BY <1>1
  <2>5. y \in [1 .. Len(x) - 1 -> BuilderQuery]
    BY <2>2, <2>3, <2>4
  <2>6. y \in Seq(BuilderQuery) /\ Len(y) = Len(x) - 1 /\ DOMAIN y = 1 .. Len(x) - 1
    <3> HIDE DEF y
    <3>1. \A m \in Nat : y \in [1 .. m -> BuilderQuery] =>
              y \in Seq(BuilderQuery) /\ Len(y) = m /\ DOMAIN y = 1 .. m
      OBVIOUS
    <3> QED BY <2>1, <2>5, <3>1
  <2>7. y \in Lists /\ (Len(x) > 1 => y # <<>>)
    BY <1>1, <2>6, QueryPageAssumption DEF Lists
  <2>8. \A j, k \in 1 .. Len(x) - 1 : From(j) = From(k) => j = k
    BY <2>1
  <2>9. Distinct(x) => Distinct(y)
    <3> HIDE DEF From
    <3> QED BY <2>1, <2>2, <2>3, <2>6, <2>8 DEF Distinct
  <2> QED BY <2>7, <2>9
<1> QED BY <1>2, <1>3

LEMMA WithItemIs ==
    ASSUME NEW x \in Lists, NEW i, NEW item \in BuilderQuery
    PROVE  /\ WithItem(x, i, item) \in Lists
           /\ x # <<>> => WithItem(x, i, item) # <<>>
           /\ Distinct(x) /\ item.name = x[i].name => Distinct(WithItem(x, i, item))
<1>1. x \in Seq(BuilderQuery) /\ Len(x) \in Nat /\ Len(x) <= MaxQueries
  BY DEF Lists
<1> DEFINE y == WithItem(x, i, item)
<1>2. DOMAIN x = 1 .. Len(x) /\ \A j \in 1 .. Len(x) : x[j] \in BuilderQuery
  BY <1>1
<1>3. y = [j \in 1 .. Len(x) |-> IF j = i THEN item ELSE x[j]]
  BY <1>2 DEF WithItem
<1>4. y \in [1 .. Len(x) -> BuilderQuery]
  BY <1>2, <1>3
<1>5. y \in Seq(BuilderQuery) /\ Len(y) = Len(x)
  BY <1>1, <1>4
<1>6. item.name = x[i].name => \A j \in 1 .. Len(x) : y[j].name = x[j].name
  BY <1>3
<1> QED BY <1>1, <1>2, <1>3, <1>5, <1>6 DEF Lists, Distinct

LEMMA MergeIs ==
    ASSUME NEW x \in BuilderQueries, NEW y \in BuilderQueries
    PROVE  Merge(x, y) \in BuilderQueries
<1>1. /\ x \in Seq(BuilderQuery) /\ Len(x) \in 1 .. MaxQueries
      /\ y \in Seq(BuilderQuery) /\ Len(y) \in 1 .. MaxQueries
  BY ItemsAreSeq
<1> DEFINE n == IF Len(x) > Len(y) THEN Len(x) ELSE Len(y)
<1>2. n \in 1 .. MaxQueries
  BY <1>1
<1>3. /\ DOMAIN y = 1 .. Len(y)
      /\ \A j \in 1 .. Len(x) : x[j] \in BuilderQuery
      /\ \A j \in 1 .. Len(y) : y[j] \in BuilderQuery
  BY <1>1
<1>4. \A j \in 1 .. n : j \in 1 .. Len(y) \/ j \in 1 .. Len(x)
  BY <1>1
<1>5. Merge(x, y) = [j \in 1 .. n |-> IF j \in 1 .. Len(y) THEN y[j] ELSE x[j]]
  BY <1>3 DEF Merge
<1>6. Merge(x, y) \in [1 .. n -> BuilderQuery]
  <2> HIDE DEF n
  <2> QED BY <1>3, <1>4, <1>5
<1> QED BY <1>2, <1>6 DEF BuilderQueries

\* What the superset query takes over of an edited query.
LEMMA SupersetItemIs ==
    ASSUME NEW item \in BuilderQuery, NEW new \in BuilderQuery
    PROVE  /\ SupersetItem(item, new) \in BuilderQuery
           /\ url.list => /\ SupersetItem(item, new).name = item.name
                          /\ SupersetItem(item, new).filters = new.filters
           /\ ~url.list => SupersetItem(item, new) = new
BY DEF SupersetItem, BuilderQuery

LEMMA SupersetUpdateIs ==
    ASSUME NEW x \in Lists, NEW i, NEW item \in BuilderQuery
    PROVE  LET y == updateSuperSetQueryBuilderData(x, i, item)
           IN  /\ y \in Lists /\ Len(y) = Len(x)
               /\ \A j \in 1 .. Len(x) :
                     y[j] = IF j = i THEN SupersetItem(x[j], item) ELSE x[j]
               /\ Distinct(x) /\ (url.list \/ item.name = x[i].name) => Distinct(y)
<1> DEFINE y == updateSuperSetQueryBuilderData(x, i, item)
<1>1. /\ x \in Seq(BuilderQuery) /\ Len(x) \in Nat /\ Len(x) <= MaxQueries
      /\ DOMAIN x = 1 .. Len(x) /\ \A j \in 1 .. Len(x) : x[j] \in BuilderQuery
  BY DEF Lists
<1>2. y = [j \in 1 .. Len(x) |-> IF j = i THEN SupersetItem(x[j], item) ELSE x[j]]
  BY <1>1 DEF updateSuperSetQueryBuilderData
<1>3. \A j \in 1 .. Len(x) :
         /\ SupersetItem(x[j], item) \in BuilderQuery
         /\ url.list \/ item.name = x[j].name => SupersetItem(x[j], item).name = x[j].name
  BY <1>1, SupersetItemIs
<1>4. y \in [1 .. Len(x) -> BuilderQuery]
  BY <1>1, <1>2, <1>3
<1> HIDE DEF y
<1>5. y \in Seq(BuilderQuery) /\ Len(y) = Len(x) /\ DOMAIN y = 1 .. Len(x)
  <2>1. \A n \in Nat : y \in [1 .. n -> BuilderQuery] =>
            y \in Seq(BuilderQuery) /\ Len(y) = n /\ DOMAIN y = 1 .. n
    OBVIOUS
  <2> QED BY <1>1, <1>4, <2>1
<1>6. url.list \/ item.name = x[i].name => \A j \in 1 .. Len(x) : y[j].name = x[j].name
  BY <1>2, <1>3
<1>7. Distinct(x) /\ (url.list \/ item.name = x[i].name) => Distinct(y)
  BY <1>1, <1>5, <1>6 DEF Distinct
<1> QED BY <1>1, <1>2, <1>5, <1>7 DEF Lists, y

\* What a kind of panel makes of a query, which it leaves as it is a second time.
LEMMA PanelItemIs ==
    ASSUME NEW list \in BOOLEAN, NEW item \in BuilderQuery
    PROVE  /\ PanelItem(list, item) \in BuilderQuery
           /\ PanelItem(list, PanelItem(list, item)) = PanelItem(list, item)
           /\ ~list => PanelItem(list, item).name = item.name
           /\ list => PanelItem(list, item)
                        = [name |-> 1, operator |-> Noop, filters |-> item.filters]
<1>1. Noop \in Operators /\ Count \in Operators /\ 1 \in 0 .. MaxQueries
  BY QueryPageAssumption
<1>2. CASE list
  BY <1>1, <1>2 DEF PanelItem, BuilderQuery
<1>3. CASE ~list
  BY <1>1, <1>3 DEF PanelItem, BuilderQuery
<1> QED BY <1>2, <1>3

\* Lists of the same length with the same items are the same.
LEMMA SameLists ==
    ASSUME NEW x \in Lists, NEW y \in Lists, Len(x) = Len(y),
           \A j \in 1 .. Len(x) : x[j] = y[j]
    PROVE  x = y
<1>1. /\ x \in Seq(BuilderQuery) /\ y \in Seq(BuilderQuery)
      /\ Len(x) \in Nat
  BY DEF Lists
<1>2. x = [j \in 1 .. Len(x) |-> x[j]] /\ y = [j \in 1 .. Len(x) |-> y[j]]
  BY <1>1
<1> QED BY <1>2

LEMMA QueryChangeItems ==
    ASSUME NEW x \in Lists, NEW list \in BOOLEAN
    PROVE  LET y == handleQueryChange(list, x)
           IN  /\ y \in Lists /\ Len(y) = Len(x)
               /\ \A j \in 1 .. Len(x) : y[j] = PanelItem(list, x[j])
<1> DEFINE y == handleQueryChange(list, x)
<1>1. /\ x \in Seq(BuilderQuery) /\ Len(x) \in Nat /\ Len(x) <= MaxQueries
      /\ DOMAIN x = 1 .. Len(x) /\ \A j \in 1 .. Len(x) : x[j] \in BuilderQuery
  BY DEF Lists
<1>2. y = [j \in 1 .. Len(x) |-> PanelItem(list, x[j])]
  BY <1>1 DEF handleQueryChange
<1>3. \A j \in 1 .. Len(x) : PanelItem(list, x[j]) \in BuilderQuery
  BY <1>1, PanelItemIs
<1>4. y \in [1 .. Len(x) -> BuilderQuery]
  BY <1>2, <1>3
<1> HIDE DEF y
<1>5. y \in Seq(BuilderQuery) /\ Len(y) = Len(x)
  <2>1. \A n \in Nat : y \in [1 .. n -> BuilderQuery] =>
            y \in Seq(BuilderQuery) /\ Len(y) = n
    OBVIOUS
  <2> QED BY <1>1, <1>4, <2>1
<1> QED BY <1>1, <1>2, <1>5 DEF Lists, y

\* The kind of the panel makes the same of both lists.
Alike(list, x, y) ==
    /\ Len(x) = Len(y)
    /\ \A j \in 1 .. Len(x) : PanelItem(list, x[j]) = PanelItem(list, y[j])

LEMMA AlikeIs ==
    ASSUME NEW x \in Lists, NEW y \in Lists, NEW list \in BOOLEAN, Alike(list, x, y)
    PROVE  handleQueryChange(list, x) = handleQueryChange(list, y)
<1> DEFINE c == handleQueryChange(list, x)
           d == handleQueryChange(list, y)
<1>1. /\ c \in Lists /\ Len(c) = Len(x)
      /\ \A j \in 1 .. Len(x) : c[j] = PanelItem(list, x[j])
  BY QueryChangeItems
<1>2. /\ d \in Lists /\ Len(d) = Len(y)
      /\ \A j \in 1 .. Len(y) : d[j] = PanelItem(list, y[j])
  BY QueryChangeItems
<1> HIDE DEF c, d
<1>3. Len(c) = Len(d) /\ \A j \in 1 .. Len(c) : c[j] = d[j]
  BY <1>1, <1>2 DEF Alike
<1>4. c = d
  BY <1>1, <1>2, <1>3, SameLists
<1> QED BY <1>4 DEF c, d

\* A list is alike to what the panel makes of it, and has the names, if it keeps any.
LEMMA QueryChangeIs ==
    ASSUME NEW x \in Lists, NEW list \in BOOLEAN
    PROVE  LET y == handleQueryChange(list, x)
           IN  /\ y \in Lists
               /\ x # <<>> => y # <<>>
               /\ Alike(list, y, x)
               /\ ~list /\ Distinct(x) => Distinct(y)
<1> DEFINE y == handleQueryChange(list, x)
<1>1. /\ y \in Lists /\ Len(y) = Len(x)
      /\ \A j \in 1 .. Len(x) : y[j] = PanelItem(list, x[j])
  BY QueryChangeItems
<1> HIDE DEF y
<1>2. /\ x \in Seq(BuilderQuery) /\ y \in Seq(BuilderQuery) /\ Len(x) \in Nat
      /\ DOMAIN x = 1 .. Len(x) /\ DOMAIN y = 1 .. Len(x)
      /\ \A j \in 1 .. Len(x) : x[j] \in BuilderQuery
  BY <1>1 DEF Lists
<1>3. x # <<>> => y # <<>>
  BY <1>1, <1>2
<1>4. \A j \in 1 .. Len(x) :
         /\ PanelItem(list, y[j]) = PanelItem(list, x[j])
         /\ ~list => y[j].name = x[j].name
  BY <1>1, <1>2, PanelItemIs
<1>5. Alike(list, y, x)
  BY <1>1, <1>4 DEF Alike
<1>6. ~list /\ Distinct(x) => Distinct(y)
  BY <1>2, <1>4 DEF Distinct
<1> QED BY <1>1, <1>3, <1>5, <1>6 DEF y

\* Lists that are alike in a panel that is not a list have the same names.
LEMMA AlikeNames ==
    ASSUME NEW x \in Lists, NEW y \in Lists, NEW list \in BOOLEAN,
           Alike(list, x, y), ~list
    PROVE  /\ \A j \in 1 .. Len(x) : x[j].name = y[j].name
           /\ Names(x) = Names(y)
<1>1. /\ DOMAIN x = 1 .. Len(x) /\ DOMAIN y = 1 .. Len(x)
      /\ \A j \in 1 .. Len(x) : x[j] \in BuilderQuery /\ y[j] \in BuilderQuery
  BY DEF Lists, Alike
<1>2. \A j \in 1 .. Len(x) :
         /\ PanelItem(list, x[j]).name = x[j].name
         /\ PanelItem(list, y[j]).name = y[j].name
  BY <1>1, PanelItemIs
<1>3. \A j \in 1 .. Len(x) : x[j].name = y[j].name
  BY <1>2 DEF Alike
<1> QED BY <1>1, <1>3 DEF Names

\* Edits of both keep lists alike.
LEMMA NewAlike ==
    ASSUME NEW x \in Lists, NEW y \in Lists, NEW list \in BOOLEAN,
           NEW a \in BuilderQuery, Alike(list, x, y)
    PROVE  Alike(list, WithNew(x, a), WithNew(y, a))
<1>1. /\ x \in Seq(BuilderQuery) /\ y \in Seq(BuilderQuery)
      /\ Len(x) \in Nat /\ Len(x) = Len(y)
  BY DEF Lists, Alike
<1>2. CASE Len(x) >= MaxQueries
  BY <1>1, <1>2 DEF WithNew
<1>3. CASE ~(Len(x) >= MaxQueries)
  <2> DEFINE m == NewItem(x, a)
             n == NewItem(y, a)
             c == Append(x, m)
             d == Append(y, n)
  <2>1. WithNew(x, a) = c /\ WithNew(y, a) = d
    BY <1>1, <1>3 DEF WithNew
  <2>2. m \in BuilderQuery /\ n \in BuilderQuery
    BY NewItemIs
  <2>3. PanelItem(list, m) = PanelItem(list, n)
    <3>1. CASE list
      <4>1. m.filters = n.filters
        BY NewItemIs
      <4> HIDE DEF m, n
      <4> QED BY <3>1, <4>1 DEF PanelItem
    <3>2. CASE ~list
      <4>1. Names(x) = Names(y)
        BY <3>2, AlikeNames
      <4> QED BY <4>1 DEF NewItem
    <3> QED BY <3>1, <3>2
  <2> HIDE DEF m, n
  <2>4. /\ Len(c) = Len(x) + 1 /\ Len(d) = Len(x) + 1
        /\ \A j \in 1 .. Len(x) : c[j] = x[j] /\ d[j] = y[j]
        /\ c[Len(x) + 1] = m /\ d[Len(x) + 1] = n
    BY <1>1, <2>2
  <2>5. \A j \in 1 .. Len(x) + 1 : j \in 1 .. Len(x) \/ j = Len(x) + 1
    BY <1>1
  <2> HIDE DEF c, d
  <2>6. Alike(list, c, d)
    BY <2>3, <2>4, <2>5 DEF Alike
  <2> QED BY <2>1, <2>6
<1> QED BY <1>2, <1>3

LEMMA WithoutAlike ==
    ASSUME NEW x \in Lists, NEW y \in Lists, NEW list \in BOOLEAN, NEW i,
           Alike(list, x, y)
    PROVE  Alike(list, Without(x, i), Without(y, i))
<1> DEFINE From(j) == IF j < i THEN j ELSE j + 1
           c == Without(x, i)
           d == Without(y, i)
<1>1. /\ Len(x) \in Nat /\ Len(x) = Len(y)
      /\ DOMAIN x = 1 .. Len(x) /\ DOMAIN y = 1 .. Len(x)
  BY DEF Lists, Alike
<1>2. CASE i \notin DOMAIN x
  BY <1>1, <1>2 DEF Without
<1>3. CASE i \in DOMAIN x
  <2>1. i \in 1 .. Len(x) /\ Len(x) - 1 \in Nat
    BY <1>1, <1>3
  <2>2. \A j \in 1 .. Len(x) - 1 : From(j) \in 1 .. Len(x)
    BY <1>1, <2>1
  <2>3. /\ c = [j \in 1 .. Len(x) - 1 |-> x[From(j)]]
        /\ d = [j \in 1 .. Len(x) - 1 |-> y[From(j)]]
    BY <1>1, <1>3 DEF Without
  <2>4. c \in Lists /\ d \in Lists
    BY WithoutIs
  <2> HIDE DEF From, c, d
  <2>5. Len(c) = Len(x) - 1 /\ Len(d) = Len(x) - 1
    <3>1. DOMAIN c = 1 .. Len(c) /\ DOMAIN d = 1 .. Len(d) /\ Len(c) \in Nat /\ Len(d) \in Nat
      BY <2>4 DEF Lists
    <3>2. 1 .. Len(c) = 1 .. Len(x) - 1 /\ 1 .. Len(d) = 1 .. Len(x) - 1
      BY <2>3, <3>1
    <3>3. \A m, n \in Nat : 1 .. m = 1 .. n => m = n
      OBVIOUS
    <3> QED BY <2>1, <3>1, <3>2, <3>3
  <2>6. \A j \in 1 .. Len(x) - 1 : PanelItem(list, c[j]) = PanelItem(list, d[j])
    BY <2>2, <2>3 DEF Alike
  <2>7. Alike(list, c, d)
    BY <2>5, <2>6 DEF Alike
  <2> QED BY <2>7 DEF c, d
<1> QED BY <1>2, <1>3

LEMMA ItemAlike ==
    ASSUME NEW x \in Lists, NEW y \in Lists, NEW i, NEW item \in BuilderQuery,
           url.list \in BOOLEAN, Alike(url.list, x, y)
    PROVE  Alike(url.list, WithItem(x, i, item), updateSuperSetQueryBuilderData(y, i, item))
<1> DEFINE c == WithItem(x, i, item)
           d == updateSuperSetQueryBuilderData(y, i, item)
<1>1. /\ x \in Seq(BuilderQuery) /\ Len(x) \in Nat /\ Len(x) = Len(y)
      /\ DOMAIN x = 1 .. Len(x) /\ \A j \in 1 .. Len(x) : y[j] \in BuilderQuery
  BY DEF Lists, Alike
<1>2. c = [j \in 1 .. Len(x) |-> IF j = i THEN item ELSE x[j]]
  BY <1>1 DEF WithItem
<1>3. Len(c) = Len(x)
  <2>1. c \in [1 .. Len(x) -> BuilderQuery]
    BY <1>1, <1>2
  <2> HIDE DEF c
  <2> QED BY <1>1, <2>1
<1>4. /\ Len(d) = Len(y)
      /\ \A j \in 1 .. Len(y) : d[j] = IF j = i THEN SupersetItem(y[j], item) ELSE y[j]
  BY SupersetUpdateIs
<1> HIDE DEF c, d
<1>5. ASSUME NEW j \in 1 .. Len(x)
      PROVE  PanelItem(url.list, item) = PanelItem(url.list, SupersetItem(y[j], item))
  <2>1. y[j] \in BuilderQuery
    BY <1>1
  <2>2. /\ SupersetItem(y[j], item) \in BuilderQuery
        /\ url.list => SupersetItem(y[j], item).filters = item.filters
        /\ ~url.list => SupersetItem(y[j], item) = item
    BY <2>1, SupersetItemIs
  <2>3. CASE url.list
    BY <2>2, <2>3 DEF PanelItem
  <2>4. CASE ~url.list
    BY <2>2, <2>4
  <2> QED BY <2>3, <2>4
<1>6. \A j \in 1 .. Len(x) : PanelItem(url.list, c[j]) = PanelItem(url.list, d[j])
  BY <1>1, <1>2, <1>4, <1>5 DEF Alike
<1>7. Alike(url.list, c, d)
  BY <1>1, <1>3, <1>4, <1>6 DEF Alike
<1> QED BY <1>7 DEF c, d

-----------------------------------------------------------------------------
\* What is built on, or will be once the effects have run.  An edit is kept because
\* no flush of effects changes it: KeptInv says so in every state, settled or not.
\* MountInv is for a page that is not shown, on which nothing can be built; EditorInv
\* for the panel editor, in which nothing is staged yet, or the query of its URL.
Target == IF Replaced THEN Opened(url) ELSE current.items

Typed ==
    /\ url \in Locations
    /\ current \in Query
    /\ staged \in Query \cup {None}
    /\ superset \in Lists

KeptInv == ~overwritten => Target = kept

MountInv == OnItsPage /\ (shown # "yes" \/ ~HasBuilder) => current.items = staged.items

EditorInv ==
    url.path = Editor /\ shown # "yes" /\ staged # None =>
        /\ shown = "no" => ResetFires
        /\ shown # "no" => url.query # None /\ staged = Content(url.query)

AlignedInv ==
    url.path = Editor /\ shown = "yes" /\ ~overwritten /\ ~strayed =>
        Alike(url.list, Target, superset)

NamesInv ==
    ~overwritten /\ ~strayed /\ ~unnamed =>
        /\ ~url.list \/ shown # "yes" => Distinct(Target)
        /\ url.path = Editor /\ shown = "yes" => Distinct(superset)

BuiltInv ==
    StagedInv /\ Typed /\ KeptInv /\ MountInv /\ EditorInv /\ AlignedInv /\ NamesInv

LEMMA DefaultIs ==
    /\ DefaultItem \in BuilderQuery
    /\ DefaultItems \in BuilderQueries
    /\ Distinct(DefaultItems)
    /\ [id |-> DefaultId, items |-> DefaultItems] \in Query
<1>1. DefaultItem \in BuilderQuery /\ DefaultItem.name = 1
  BY QueryPageAssumption DEF BuilderQuery, DefaultItem
<1>2. DefaultItems = <<DefaultItem>>
  BY DEF DefaultItems
<1>3. /\ DefaultItems \in Seq(BuilderQuery) /\ Len(DefaultItems) = 1
      /\ DefaultItems[1] = DefaultItem
  BY <1>1, <1>2
<1>4. DOMAIN DefaultItems = 1 .. 1
  BY <1>3
<1>5. DefaultItems \in BuilderQueries
  <2>1. Len(DefaultItems) \in 1 .. MaxQueries
    BY <1>3, QueryPageAssumption
  <2> QED BY <1>3, <2>1, ItemsAreSeq
<1>6. Distinct(DefaultItems)
  BY <1>1, <1>3, <1>4 DEF Distinct
<1> QED BY <1>1, <1>5, <1>6, QueryPageAssumption DEF Query

LEMMA OrDefaultIs ==
    /\ \A x \in Lists : OrDefault(x) \in BuilderQueries
    /\ \A x \in BuilderQueries : OrDefault(x) = x
    /\ \A x : Distinct(x) => Distinct(OrDefault(x))
BY DefaultIs, ListsAre DEF OrDefault

LEMMA GeneratedIs ==
    ASSUME Shapes, NEW x \in Lists
    PROVE  /\ Generated(x) \in UrlQuery /\ Generated(x) # None
           /\ Generated(x).items = OrDefault(x) /\ Generated(x).valid
           /\ Generated(x).id = FreshId
<1>1. FreshId \in Ids
  BY FreshIsNew
<1>2. OrDefault(x) \in BuilderQueries
  BY OrDefaultIs
<1>3. Generated(x) = [id |-> FreshId, items |-> OrDefault(x), valid |-> TRUE]
  BY DEF Generated
<1>4. Generated(x) \in UrlQuery
  BY <1>1, <1>2, <1>3 DEF UrlQuery
<1>5. Generated(x) # None
  BY <1>4, LinksAssumption
<1>6. Generated(x).items = OrDefault(x) /\ Generated(x).id = FreshId
  BY <1>3
<1>7. Generated(x).valid
  BY <1>3
<1> QED BY <1>4, <1>5, <1>6, <1>7

\* The types of what a URL holds.
LEMMA UrlTyped ==
    ASSUME NEW u \in Locations
    PROVE  /\ u = [path |-> u.path, list |-> u.list, query |-> u.query]
           /\ u.path \in Explorers \cup {Editor, Plain} /\ u.list \in BOOLEAN
           /\ u.list => u.path = Editor /\ u.query # None
           /\ u.query # None => /\ u.query \in UrlQuery
                                /\ u.query.id \in Ids
                                /\ u.query.items \in BuilderQueries
                                /\ u.query.valid \in BOOLEAN
                                /\ Content(u.query) \in Query
                                /\ u.query = [id |-> u.query.id, items |-> u.query.items,
                                              valid |-> u.query.valid]
           /\ Opened(u) \in BuilderQueries
           /\ u.query # None => Opened(u) = u.query.items
           /\ u.query = None => Opened(u) = DefaultItems
<1>1. /\ u = [path |-> u.path, list |-> u.list, query |-> u.query]
      /\ u.path \in Explorers \cup {Editor, Plain} /\ u.list \in BOOLEAN
      /\ u.list => u.path = Editor /\ u.query # None
      /\ u.query # None => u.query \in UrlQuery
  BY DEF Locations
<1>2. ASSUME u.query # None
      PROVE  /\ u.query.id \in Ids /\ u.query.items \in BuilderQueries
             /\ u.query.valid \in BOOLEAN
             /\ Content(u.query) \in Query
             /\ u.query = [id |-> u.query.id, items |-> u.query.items,
                           valid |-> u.query.valid]
             /\ Opened(u) = u.query.items
  <2>1. /\ u.query.id \in Ids /\ u.query.items \in BuilderQueries
        /\ u.query.valid \in BOOLEAN
        /\ u.query = [id |-> u.query.id, items |-> u.query.items,
                      valid |-> u.query.valid]
    BY <1>1, <1>2 DEF UrlQuery
  <2>2. OrDefault(u.query.items) = u.query.items
    BY <2>1, OrDefaultIs
  <2> QED BY <1>2, <2>1, <2>2 DEF Opened, Content, Query
<1>3. u.query = None => Opened(u) = DefaultItems
  BY DEF Opened
<1> QED BY <1>1, <1>2, <1>3, DefaultIs

LEMMA CurrentTyped ==
    ASSUME Typed
    PROVE  /\ current.id \in Ids /\ current.items \in BuilderQueries
           /\ current = [id |-> current.id, items |-> current.items]
           /\ current.items \in Lists /\ current.items # <<>>
           /\ staged # None => staged.id \in Ids /\ staged.items \in BuilderQueries
BY ListsAre DEF Typed, Query

\* Where something is built, nothing is about to be replaced.
LEMMA SettledIs ==
    ASSUME Settled
    PROVE  /\ url.query # None /\ shown = "yes" /\ HasBuilder
           /\ ~InitFires /\ ~ResetFires /\ ~Replaced
           /\ Target = current.items
BY DEF Settled, EffectsFire, ShareFires, Replaced, Target

\* A URL whose query is not the staged one is built on once the effects have run.
LEMMA OpenedNext ==
    ASSUME url'.query = None \/ (url'.query.id # StagedId')
    PROVE  Replaced' /\ Target' = Opened(url)'
BY DEF Replaced, InitFires, Target

\* A query put into the URL is built on.
LEMMA RedirectOpens ==
    ASSUME StagedInv, Typed, NEW x \in Lists, NEW list \in BOOLEAN,
           list => url.path = Editor,
           redirectWithQueryBuilderData(x, list),
           \/ staged' = staged
           \/ staged' = None
           \/ url.query # None /\ staged' # None /\ staged'.id = url.query.id
    PROVE  /\ url' = [path |-> url.path, list |-> list, query |-> Generated(x)]
           /\ url' \in Locations
           /\ Replaced' /\ Target' = OrDefault(x)
           /\ url'.query # None /\ url'.query.items = OrDefault(x)
<1>1. url' = [path |-> url.path, list |-> list, query |-> Generated(x)]
  BY DEF redirectWithQueryBuilderData, StagedInv, Shapes
<1>2. /\ Generated(x) \in UrlQuery /\ Generated(x) # None
      /\ Generated(x).items = OrDefault(x) /\ Generated(x).valid
      /\ Generated(x).id = FreshId
  BY GeneratedIs DEF StagedInv
<1>3. url' \in Locations
  BY <1>1, <1>2, UrlTyped DEF Typed, Locations
<1>4. /\ FreshId \in Ids /\ (staged # None => FreshId # staged.id)
      /\ url.query # None => FreshId # url.query.id
  BY FreshIsNew DEF StagedInv
<1>5. url'.query.id # StagedId'
  BY <1>1, <1>2, <1>4, QueryPageAssumption DEF StagedId
<1>6. Opened(url)' = OrDefault(x)
  BY <1>1, <1>2 DEF Opened
<1> QED BY <1>1, <1>2, <1>3, <1>5, <1>6, OpenedNext

LEMMA RedirectToOpens ==
    ASSUME StagedInv, Typed, NEW x \in Lists, redirectTo(x),
           \/ staged' = staged
           \/ staged' = None
           \/ url.query # None /\ staged' # None /\ staged'.id = url.query.id
    PROVE  /\ url' = [path |-> url.path, list |-> url.list, query |-> Generated(x)]
           /\ url' \in Locations
           /\ Replaced' /\ Target' = OrDefault(x)
           /\ url'.query # None /\ url'.query.items = OrDefault(x)
<1>1. url.list \in BOOLEAN /\ (url.list => url.path = Editor)
  BY UrlTyped DEF Typed
<1> QED BY <1>1, RedirectOpens DEF redirectTo

-----------------------------------------------------------------------------
\* What a flush of effects leaves: what is built on, if not what is current.
FlushLeaves(mounting, otherwise) ==
    /\ Typed'
    /\ overwritten => overwritten'
    /\ ~overwritten' => Target' = Target
    /\ MountInv'
    /\ url'.path = url.path /\ url'.list = url.list
    /\ InitSuperset(mounting, otherwise)

\* The superset that a flush writes, which StagedOrReset does not see.
LEMMA SupersetTyped ==
    ASSUME Typed, NEW mounting \in BOOLEAN, NEW otherwise \in Lists,
           InitSuperset(mounting, otherwise)
    PROVE  superset' \in Lists
BY CurrentTyped DEF InitSuperset

LEMMA ShareLeaves ==
    ASSUME BuiltInv, NEW mounting \in BOOLEAN, NEW timeLast \in BOOLEAN,
           ShareQuery(mounting, timeLast)
    PROVE  FlushLeaves(mounting, DefaultItems) /\ Target = DefaultItems
<1> USE DEF BuiltInv
<1>1. /\ url.query = None /\ staged' = None /\ overwritten' = overwritten
      /\ current' = [id |-> DefaultId, items |-> DefaultItems]
      /\ InitSuperset(mounting, DefaultItems)
  BY DEF ShareQuery, ShareFires, StagedOrReset
<1>2. DefaultItems \in BuilderQueries /\ DefaultItems \in Lists /\ current' \in Query
      /\ current'.items = DefaultItems
  BY <1>1, DefaultIs, ListsAre
<1>3. superset' \in Lists
  BY <1>1, <1>2, SupersetTyped
<1>4. Target = DefaultItems
  BY <1>1 DEF Replaced, Target, Opened
<1>5. MountInv'
  BY <1>1 DEF MountInv, OnItsPage
<1>6. CASE timeLast
  <2>1. url' = url
    BY <1>6 DEF ShareQuery
  <2>2. Target' = DefaultItems
    BY <1>1, <2>1 DEF Replaced, Target, Opened
  <2> QED BY <1>1, <1>2, <1>3, <1>4, <1>5, <2>1, <2>2 DEF FlushLeaves, Typed
<1>7. CASE ~timeLast
  <2>1. redirectTo(DefaultItems)
    BY <1>7 DEF ShareQuery
  <2>2. /\ url' = [path |-> url.path, list |-> url.list, query |-> Generated(DefaultItems)]
        /\ url' \in Locations /\ Target' = OrDefault(DefaultItems)
    BY <1>1, <1>2, <2>1, RedirectToOpens
  <2>3. OrDefault(DefaultItems) = DefaultItems
    BY <1>2, OrDefaultIs
  <2> QED BY <1>1, <1>2, <1>3, <1>4, <1>5, <2>2, <2>3 DEF FlushLeaves, Typed
<1> QED BY <1>6, <1>7

\* The rest of MountInv: nothing but what is staged may have changed.
LEMMA MountStays ==
    ASSUME MountInv, StagedOrReset(staged), current' = current,
           url'.path = url.path, shown' # "yes" => shown # "yes"
    PROVE  MountInv'
<1>1. CASE ResetFires
  BY <1>1 DEF StagedOrReset, MountInv, OnItsPage
<1>2. CASE ~ResetFires
  BY <1>2 DEF StagedOrReset, MountInv, OnItsPage, HasBuilder
<1> QED BY <1>1, <1>2

\* The editor of a list puts what is built on into the URL, or the default query.
LEMMA ListMounts ==
    ASSUME BuiltInv, MayMount, url.list, redirectTo(StagedItems),
           ~overwritten' => staged # None,
           \/ staged' = staged
           \/ staged' = None
           \/ url.query # None /\ staged' # None /\ staged'.id = url.query.id
    PROVE  /\ url' \in Locations /\ url'.path = url.path /\ url'.list = url.list
           /\ ~overwritten' => Target' = Target
<1> USE DEF BuiltInv
<1>1. url.path = Editor /\ url.query # None
  BY UrlTyped DEF Typed
<1>2. StagedItems \in BuilderQueries /\ StagedItems \in Lists
  BY CurrentTyped, DefaultIs, ListsAre DEF StagedItems
<1>3. /\ url' = [path |-> url.path, list |-> url.list, query |-> Generated(StagedItems)]
      /\ url' \in Locations /\ Target' = OrDefault(StagedItems)
  BY <1>2, RedirectToOpens
<1>4. ASSUME staged # None
      PROVE  Target = StagedItems
  <2>1. shown # "yes" /\ shown # "no"
    BY <1>1 DEF MayMount
  <2>2. staged = Content(url.query)
    BY <1>1, <1>4, <2>1 DEF EditorInv
  <2>3. Opened(url) = url.query.items
    BY <1>1, UrlTyped DEF Typed
  <2>4. StagedItems = Opened(url) /\ StagedItems = staged.items
    BY <1>4, <2>2, <2>3 DEF StagedItems, Content
  <2>5. CASE Replaced
    BY <2>4, <2>5 DEF Target
  <2>6. CASE ~Replaced
    <3>1. OnItsPage
      BY <1>4, <2>6 DEF Replaced, ResetFires, OnItsPage
    <3>2. current.items = staged.items
      BY <2>1, <3>1 DEF MountInv
    <3> QED BY <2>4, <2>6, <3>2 DEF Target
  <2> QED BY <2>5, <2>6
<1>5. OrDefault(StagedItems) = StagedItems
  BY <1>2, OrDefaultIs
<1> QED BY <1>3, <1>4, <1>5

\* The provider leaves the URL, but for the mounting of a list.
LEMMA LeaveUrlIs ==
    ASSUME NEW mounting \in BOOLEAN, NEW timeLast \in BOOLEAN, LeaveUrl(mounting, timeLast)
    PROVE  \/ url' = url /\ (overwritten => overwritten')
           \/ /\ mounting /\ url.list /\ redirectTo(StagedItems)
              /\ overwritten => overwritten'
              /\ ~overwritten' => staged # None
<1>1. overwritten => overwritten'
  BY DEF LeaveUrl
<1>2. CASE mounting /\ url.list /\ ~timeLast
  <2>1. redirectTo(StagedItems)
    BY <1>2 DEF LeaveUrl
  <2>2. ~overwritten' => staged # None
    BY <1>2 DEF LeaveUrl
  <2> QED BY <1>1, <1>2, <2>1, <2>2
<1>3. CASE ~(mounting /\ url.list /\ ~timeLast)
  <2>1. url' = url
    BY <1>3 DEF LeaveUrl
  <2> QED BY <1>1, <2>1
<1> QED BY <1>2, <1>3

LEMMA InitLeaves ==
    ASSUME BuiltInv, NEW mounting \in BOOLEAN, NEW timeLast \in BOOLEAN,
           initQueryBuilderData(mounting, timeLast), mounting => MayMount
    PROVE  FlushLeaves(mounting, superset)
<1> USE DEF BuiltInv
<1>1. /\ url.query # None /\ InitFires /\ LeaveUrl(mounting, timeLast)
      /\ current' = Content(url.query)
      /\ InitSuperset(mounting, superset)
      /\ StagedOrReset(Content(url.query))
  BY DEF initQueryBuilderData, InitFires
<1>2. /\ Content(url.query) \in Query /\ url.query.items \in BuilderQueries
      /\ Opened(url) = url.query.items /\ url.query.id \in Ids
      /\ current'.items = url.query.items
  BY <1>1, UrlTyped DEF Typed, Content
<1>3. superset' \in Lists
  BY <1>1, SupersetTyped DEF Typed
<1>4. Replaced /\ Target = Opened(url)
  BY <1>1 DEF Replaced, Target
<1>5. staged' = None \/ staged' = current'
  BY <1>1 DEF StagedOrReset
<1>6. MountInv'
  BY <1>5 DEF MountInv, OnItsPage
<1>7. current' \in Query /\ staged' \in Query \cup {None}
  BY <1>1, <1>2, <1>5
<1>8. CASE url' = url /\ (overwritten => overwritten')
  <2>1. Opened(url)' = Opened(url)
    BY <1>8 DEF Opened
  <2>2. Target' = Target
    BY <1>2, <1>4, <2>1 DEF Target
  <2> QED BY <1>1, <1>3, <1>6, <1>7, <1>8, <2>2 DEF FlushLeaves, Typed
<1>9. CASE /\ mounting /\ url.list /\ redirectTo(StagedItems)
           /\ overwritten => overwritten'
           /\ ~overwritten' => staged # None
  <2>1. staged' = None \/ staged'.id = url.query.id
    BY <1>1, <1>5 DEF Content
  <2>2. /\ url' \in Locations /\ url'.path = url.path /\ url'.list = url.list
        /\ ~overwritten' => Target' = Target
    BY <1>1, <1>9, <2>1, ListMounts
  <2> QED BY <1>1, <1>3, <1>6, <1>7, <1>9, <2>2 DEF FlushLeaves, Typed
<1> QED BY <1>1, <1>8, <1>9, LeaveUrlIs

LEMMA RepairLeaves ==
    ASSUME BuiltInv, NEW mounting \in BOOLEAN, RepairQuery(mounting),
           shown' # "yes" => shown # "yes"
    PROVE  FlushLeaves(mounting, superset)
<1> USE DEF BuiltInv
<1>1. /\ url.query # None /\ InitFires
      /\ redirectTo(url.query.items)
      /\ current' = current /\ overwritten' = overwritten
      /\ InitSuperset(mounting, superset)
      /\ StagedOrReset(staged)
  BY DEF RepairQuery, InitFires
<1>2. /\ url.query.items \in BuilderQueries /\ url.query.items \in Lists
      /\ Opened(url) = url.query.items
  BY <1>1, UrlTyped, ListsAre DEF Typed
<1>3. superset' \in Lists
  BY <1>1, SupersetTyped DEF Typed
<1>4. Target = url.query.items
  BY <1>1, <1>2 DEF Replaced, Target
<1>5. staged' = staged \/ staged' = None
  BY <1>1 DEF StagedOrReset
<1>6. OrDefault(url.query.items) = url.query.items
  BY <1>2, OrDefaultIs
<1>7. /\ url' = [path |-> url.path, list |-> url.list, query |-> Generated(url.query.items)]
      /\ url' \in Locations /\ Target' = url.query.items
  BY <1>1, <1>2, <1>5, <1>6, RedirectToOpens
<1>8. MountInv'
  BY <1>1, <1>7, MountStays
<1>9. Typed'
  BY <1>1, <1>3, <1>5, <1>7 DEF Typed
<1> QED BY <1>1, <1>4, <1>7, <1>8, <1>9 DEF FlushLeaves

LEMMA KeepLeaves ==
    ASSUME BuiltInv, NEW mounting \in BOOLEAN, NEW timeLast \in BOOLEAN,
           KeepQuery(mounting, timeLast), mounting => MayMount,
           shown' # "yes" => shown # "yes"
    PROVE  FlushLeaves(mounting, superset)
<1> USE DEF BuiltInv
<1>1. /\ LeaveUrl(mounting, timeLast) /\ current' = current /\ ~InitFires
      /\ InitSuperset(mounting, superset)
      /\ StagedOrReset(staged)
  BY DEF KeepQuery
<1>2. superset' \in Lists
  BY <1>1, SupersetTyped DEF Typed
<1>3. staged' = staged \/ staged' = None
  BY <1>1 DEF StagedOrReset
<1>4. CASE url' = url /\ (overwritten => overwritten')
  <2>1. MountInv'
    BY <1>1, <1>4, MountStays
  <2>2. Opened(url)' = Opened(url)
    BY <1>4 DEF Opened
  <2>3. Typed'
    BY <1>1, <1>2, <1>3, <1>4 DEF Typed
  <2>4. CASE ResetFires
    <3>1. Target = Opened(url)
      BY <2>4 DEF Replaced, Target
    <3>2. staged' = None
      BY <1>1, <2>4 DEF StagedOrReset
    <3>3. url.query = None \/ url.query.id # None
      BY UrlTyped, QueryPageAssumption DEF Typed
    <3>4. Target' = Opened(url)
      BY <1>4, <2>2, <3>2, <3>3, OpenedNext DEF StagedId
    <3> QED BY <1>1, <1>4, <2>1, <2>3, <3>1, <3>4 DEF FlushLeaves
  <2>5. CASE ~ResetFires
    <3>1. staged' = staged /\ pathRef' = pathRef
      BY <1>1, <2>5 DEF StagedOrReset
    <3>2. Replaced' = Replaced
      BY <1>4, <3>1 DEF Replaced, InitFires, ResetFires, StagedId
    <3>3. Target' = Target
      BY <1>1, <2>2, <3>2 DEF Target
    <3> QED BY <1>1, <1>4, <2>1, <2>3, <3>3 DEF FlushLeaves
  <2> QED BY <2>4, <2>5
<1>5. CASE /\ mounting /\ url.list /\ redirectTo(StagedItems)
           /\ overwritten => overwritten'
           /\ ~overwritten' => staged # None
  <2>1. /\ url' \in Locations /\ url'.path = url.path /\ url'.list = url.list
        /\ ~overwritten' => Target' = Target
    BY <1>3, <1>5, ListMounts
  <2>2. MountInv'
    BY <1>1, <2>1, MountStays
  <2>3. Typed'
    BY <1>1, <1>2, <1>3, <2>1 DEF Typed
  <2> QED BY <1>1, <1>5, <2>1, <2>2, <2>3 DEF FlushLeaves
<1> QED BY <1>1, <1>4, <1>5, LeaveUrlIs

\* The first flush in the editor forgets what another page has staged.
LEMMA FlushEditor ==
    ASSUME BuiltInv, NEW mounting \in BOOLEAN, NEW timeLast \in BOOLEAN,
           Flush(mounting, timeLast), url'.path = url.path
    PROVE  EditorInv'
<1> USE DEF BuiltInv
<1> SUFFICES ASSUME url.path = Editor, shown' # "yes", staged' # None
             PROVE  shown' # "no" /\ url'.query # None /\ staged' = Content(url'.query)
  BY DEF EditorInv
<1>1. ~mounting /\ shown # "yes" /\ shown' = "ready"
  BY DEF Flush
<1>2. ~ShareQuery(mounting, timeLast)
  BY <1>1 DEF ShareQuery, ShareFires
<1>3. \/ staged = None \/ ResetFires
      \/ staged = Content(url.query) /\ url.query # None
  <2>1. CASE shown = "no"
    BY <1>1, <2>1 DEF EditorInv
  <2>2. CASE shown # "no"
    BY <1>1, <2>2 DEF EditorInv
  <2> QED BY <2>1, <2>2
<1>4. ~ResetFires
  BY <1>2 DEF Flush, initQueryBuilderData, RepairQuery, KeepQuery, StagedOrReset
<1>5. CASE initQueryBuilderData(mounting, timeLast)
  BY <1>1, <1>4, <1>5 DEF initQueryBuilderData, StagedOrReset, LeaveUrl, InitFires
<1>6. CASE RepairQuery(mounting)
  <2>1. InitFires /\ staged' = staged
    BY <1>4, <1>6 DEF RepairQuery, StagedOrReset
  <2>2. staged = Content(url.query)
    BY <1>3, <1>4, <2>1
  <2> QED BY <2>1, <2>2 DEF InitFires, StagedId, Content
<1>7. CASE KeepQuery(mounting, timeLast)
  <2>1. url' = url /\ staged' = staged
    BY <1>1, <1>4, <1>7 DEF KeepQuery, StagedOrReset, LeaveUrl
  <2> QED BY <1>1, <1>3, <1>4, <2>1
<1> QED BY <1>2, <1>5, <1>6, <1>7 DEF Flush

LEMMA AlikeSelf == \A list, x : Alike(list, x, x)
BY DEF Alike

\* Mounting the editor takes what is built on as the superset, or strays.
LEMMA FlushBuilds ==
    ASSUME BuiltInv, NEW mounting \in BOOLEAN, NEW timeLast \in BOOLEAN,
           Flush(mounting, timeLast)
    PROVE  BuiltInv'
<1>1. StagedInv'
  BY FlushKeeps DEF BuiltInv
<1>2. /\ shown' = IF mounting \/ shown = "yes" THEN "yes" ELSE "ready"
      /\ strayed' = (strayed \/ (mounting /\ url.path = Editor
                                 /\ current.items # Opened(url)))
      /\ UNCHANGED <<kept, unnamed>>
      /\ mounting => MayMount
  BY DEF Flush
<1>3. (shown' # "yes" => shown # "yes") /\ (strayed => strayed')
  BY <1>2
<1>4. \/ FlushLeaves(mounting, superset)
      \/ FlushLeaves(mounting, DefaultItems) /\ Target = DefaultItems
  <2>1. CASE ShareQuery(mounting, timeLast)
    BY <2>1, ShareLeaves
  <2>2. CASE initQueryBuilderData(mounting, timeLast)
    BY <1>2, <2>2, InitLeaves
  <2>3. CASE RepairQuery(mounting)
    BY <1>3, <2>3, RepairLeaves
  <2>4. CASE KeepQuery(mounting, timeLast)
    BY <1>2, <1>3, <2>4, KeepLeaves
  <2> QED BY <2>1, <2>2, <2>3, <2>4 DEF Flush
<1>5. /\ Typed' /\ MountInv'
      /\ overwritten => overwritten'
      /\ ~overwritten' => Target' = Target
      /\ url'.path = url.path /\ url'.list = url.list
  BY <1>4 DEF FlushLeaves
<1>6. EditorInv'
  BY <1>5, FlushEditor
<1>7. KeptInv'
  BY <1>2, <1>5 DEF BuiltInv, KeptInv
<1>8. ASSUME mounting, url.path = Editor, ~strayed'
      PROVE  superset' = Target
  <2>1. superset' = current.items
    BY <1>4, <1>8 DEF FlushLeaves, InitSuperset
  <2>2. current.items = Opened(url)
    BY <1>2, <1>8
  <2> QED BY <2>1, <2>2 DEF Target
<1>9. ASSUME ~mounting
      PROVE  superset' = superset \/ superset' = Target
  BY <1>4, <1>9 DEF FlushLeaves, InitSuperset
<1>10. AlignedInv'
  <2> SUFFICES ASSUME url.path = Editor, shown' = "yes", ~overwritten', ~strayed'
               PROVE  Alike(url.list, Target, superset')
    BY <1>5 DEF AlignedInv
  <2>1. CASE mounting
    BY <1>8, <2>1, AlikeSelf
  <2>2. CASE ~mounting
    BY <1>2, <1>5, <1>9, <2>2, AlikeSelf DEF BuiltInv, AlignedInv
  <2> QED BY <2>1, <2>2
<1>11. NamesInv'
  <2> SUFFICES ASSUME ~overwritten', ~strayed', ~unnamed
               PROVE  /\ ~url.list \/ shown' # "yes" => Distinct(Target)
                      /\ url.path = Editor /\ shown' = "yes" => Distinct(superset')
    BY <1>2, <1>5 DEF NamesInv
  <2>1. /\ ~url.list \/ shown # "yes" => Distinct(Target)
        /\ url.path = Editor /\ shown = "yes" => Distinct(superset)
    BY <1>3, <1>5 DEF BuiltInv, NamesInv
  <2>2. ~url.list \/ shown' # "yes" => Distinct(Target)
    BY <1>3, <2>1
  <2>3. ASSUME url.path = Editor, shown' = "yes"
        PROVE  Distinct(superset')
    <3>1. CASE mounting
      <4>1. shown # "yes"
        BY <1>2, <3>1 DEF MayMount
      <4> QED BY <1>8, <2>1, <2>3, <3>1, <4>1
    <3>2. CASE ~mounting
      <4>1. shown = "yes"
        BY <1>2, <2>3, <3>2
      <4>2. CASE superset' = superset
        BY <2>1, <2>3, <4>1, <4>2
      <4>3. CASE superset' # superset
        <5>1. Target = DefaultItems /\ superset' = DefaultItems
          BY <1>4, <3>2, <4>3 DEF FlushLeaves, InitSuperset
        <5> QED BY <5>1, DefaultIs
      <4> QED BY <4>2, <4>3
    <3> QED BY <3>1, <3>2
  <2> QED BY <2>2, <2>3
<1> QED BY <1>1, <1>5, <1>6, <1>7, <1>10, <1>11 DEF BuiltInv

-----------------------------------------------------------------------------
\* Another URL is built on once the effects have run, unless its query is staged for
\* the page already; then it is current as well: the page is not shown.
LEMMA NavigateBuilds ==
    ASSUME BuiltInv, NEW link \in Links, Navigate(link)
    PROVE  BuiltInv'
<1> USE DEF BuiltInv
<1>1. StagedInv'
  BY NavigateKeeps
<1>2. /\ url' = link /\ link # url
      /\ ~(url.path = Editor /\ link.path = Editor)
      /\ shown' = IF link.path = url.path THEN shown ELSE "no"
      /\ kept' = Opened(link) /\ unnamed' = ~Distinct(Opened(link))
      /\ UNCHANGED <<staged, current, superset, pathRef>>
      /\ ~ResetFires /\ ~InitFires /\ ~ShareFires(shown = "yes")
  BY DEF Navigate, Opens, stateVars, UserStep, EffectsFire
<1>3. link \in Locations
  BY LinksAssumption
<1>4. Typed'
  BY <1>2, <1>3 DEF Typed
<1>5. link.path = Editor => url.path # Editor /\ shown' = "no"
  BY <1>2
<1>6. AlignedInv'
  BY <1>2, <1>5 DEF AlignedInv
<1>7. EditorInv'
  BY <1>2, <1>5 DEF EditorInv, ResetFires
<1>8. OnItsPage' => OnItsPage /\ link.path = url.path /\ HasBuilder' = HasBuilder
  BY <1>2 DEF OnItsPage, ResetFires, HasBuilder
<1>9. MountInv'
  BY <1>2, <1>8 DEF MountInv
<1>10. Opened(url)' = Opened(link)
  BY <1>2 DEF Opened
<1>11. Replaced' \/ current.items = Opened(link)
  <2> SUFFICES ASSUME ~Replaced' PROVE current.items = Opened(link)
    OBVIOUS
  <2>1. /\ link.query # None /\ link.query.id = StagedId
        /\ ~(staged # None /\ pathRef # link.path)
    BY <1>2 DEF Replaced, InitFires, ResetFires, StagedId
  <2>2. /\ Opened(link) = link.query.items /\ link.query.id # None
        /\ link.query = [id |-> link.query.id, items |-> link.query.items,
                         valid |-> link.query.valid]
        /\ link.query.valid \in BOOLEAN
        /\ link = [path |-> link.path, list |-> link.list, query |-> link.query]
        /\ link.list \in BOOLEAN /\ (link.list => link.path = Editor)
    BY <1>3, <2>1, UrlTyped, QueryPageAssumption
  <2>3. staged # None /\ staged.id = link.query.id
    BY <2>1, <2>2 DEF StagedId
  <2>4. OnItsPage /\ link.path = url.path /\ url.path # Editor
    BY <1>2, <2>1, <2>3 DEF OnItsPage, ResetFires
  <2>5. staged = Content(link.query) /\ link.query.valid
    BY <2>1, <2>3, <2>4 DEF StagedInv, AgreesWithLinks, Agrees
  <2>6. url.query = None
    <3> SUFFICES ASSUME url.query # None PROVE FALSE
      OBVIOUS
    <3>1. url.query.id = staged.id
      BY <1>2, <2>3 DEF InitFires, StagedId
    <3>2. staged = Content(url.query) /\ url.query.valid
      BY <2>4, <3>1 DEF StagedInv, AgreesWithUrl, Agrees
    <3>3. /\ url.query = [id |-> url.query.id, items |-> url.query.items,
                          valid |-> url.query.valid]
          /\ url.query.valid \in BOOLEAN
          /\ url = [path |-> url.path, list |-> url.list, query |-> url.query]
          /\ url.list \in BOOLEAN /\ (url.list => url.path = Editor)
      BY UrlTyped DEF Typed
    <3>4. url.query.items = link.query.items
      BY <2>5, <3>2 DEF Content
    <3>5. url.query = link.query
      BY <2>2, <2>3, <2>5, <3>1, <3>2, <3>3, <3>4
    <3>6. url.list = FALSE /\ link.list = FALSE
      BY <2>2, <2>4, <3>3
    <3> QED BY <1>2, <2>2, <2>4, <3>3, <3>5, <3>6
  <2>7. shown # "yes" \/ ~HasBuilder
    BY <1>2, <2>6 DEF ShareFires
  <2> QED BY <2>2, <2>4, <2>5, <2>7 DEF MountInv, Content
<1>12. Target' = Opened(link)
  BY <1>2, <1>10, <1>11 DEF Target
<1>13. KeptInv'
  BY <1>2, <1>12 DEF KeptInv
<1>14. NamesInv'
  BY <1>2, <1>5, <1>12 DEF NamesInv
<1> QED BY <1>1, <1>4, <1>6, <1>7, <1>9, <1>13, <1>14

\* What the builder starts with is what the URL has.
LEMMA ReloadBuilds ==
    ASSUME BuiltInv, NEW link \in Links \cup {url}, Reload(link)
    PROVE  BuiltInv'
<1> USE DEF BuiltInv
<1>1. StagedInv'
  BY ReloadKeeps
<1>2. /\ url' = link /\ shown' = "no" /\ staged' = None
      /\ current' = InitialQuery(link) /\ superset' = InitialQuery(link).items
      /\ kept' = Opened(link) /\ unnamed' = ~Distinct(Opened(link))
  BY DEF Reload, Opens
<1>3. link \in Locations
  BY LinksAssumption DEF Typed
<1>4. InitialQuery(link) \in Query /\ InitialQuery(link).items \in Lists
  BY <1>3, UrlTyped, DefaultIs, ListsAre DEF InitialQuery, Content
<1>5. Typed'
  BY <1>2, <1>3, <1>4 DEF Typed
<1>6. MountInv' /\ AlignedInv' /\ EditorInv'
  BY <1>2 DEF MountInv, OnItsPage, AlignedInv, EditorInv
<1>7. url'.query = None \/ url'.query.id # None
  BY <1>2, <1>3, UrlTyped, QueryPageAssumption
<1>8. Target' = Opened(url)' /\ Opened(url)' = Opened(link)
  BY <1>2, <1>7, OpenedNext DEF StagedId, Opened
<1>9. KeptInv' /\ NamesInv'
  BY <1>2, <1>8 DEF KeptInv, NamesInv
<1> QED BY <1>1, <1>5, <1>6, <1>9

\* A panel is another page: what is staged is dropped there, and its query taken.
LEMMA ExportBuilds ==
    ASSUME BuiltInv, NEW list \in BOOLEAN, Export(list)
    PROVE  BuiltInv'
<1> USE DEF BuiltInv
<1> DEFINE q == [id |-> current.id, items |-> current.items, valid |-> TRUE]
           u == [path |-> Editor, list |-> list, query |-> q]
<1>1. StagedInv'
  BY ExportKeeps
<1>2. /\ url.path \in Explorers /\ ~ResetFires
      /\ url' = u /\ shown' = "no"
      /\ kept' = Opened(u) /\ unnamed' = ~Distinct(Opened(u))
      /\ UNCHANGED <<staged, current, superset, pathRef>>
  BY DEF Export, Opens, Building, UserStep, EffectsFire, stateVars
<1>3. q \in UrlQuery /\ q # None
  <2>1. current.id \in Ids /\ current.items \in BuilderQueries
    BY CurrentTyped
  <2>2. q \in UrlQuery
    BY <2>1 DEF UrlQuery
  <2> QED BY <2>2, LinksAssumption
<1>4. url' \in Locations
  BY <1>2, <1>3 DEF Locations
<1>5. Typed'
  BY <1>2, <1>4 DEF Typed
<1>6. url'.path = Editor /\ url.path # Editor
  BY <1>2, QueryPageAssumption
<1>7. staged = None \/ pathRef = url.path
  BY <1>2 DEF ResetFires
<1>8. MountInv' /\ AlignedInv' /\ EditorInv'
  BY <1>2, <1>6, <1>7 DEF MountInv, OnItsPage, AlignedInv, EditorInv, ResetFires
<1>9. Replaced'
  <2>1. CASE staged = None
    BY <1>2, <2>1, CurrentTyped, QueryPageAssumption DEF Replaced, InitFires, StagedId
  <2>2. CASE staged # None
    BY <1>2, <1>6, <1>7, <2>2 DEF Replaced, ResetFires
  <2> QED BY <2>1, <2>2
<1>10. Target' = Opened(u)
  BY <1>2, <1>9 DEF Opened, Target
<1> HIDE DEF u
<1>11. KeptInv' /\ NamesInv'
  BY <1>2, <1>10 DEF KeptInv, NamesInv
<1> QED BY <1>1, <1>5, <1>8, <1>11

\* A step of the builder that leaves the URL and what is staged.
LEMMA BuildingStep ==
    ASSUME BuiltInv, Building, UNCHANGED <<url, shown, staged, pathRef>>
    PROVE  /\ shown = "yes" /\ HasBuilder /\ url.query # None /\ ~Replaced'
           /\ Target = current.items /\ Target' = current'.items
           /\ MountInv' /\ EditorInv'
<1>1. /\ url.query # None /\ shown = "yes" /\ HasBuilder
      /\ ~InitFires /\ ~ResetFires /\ ~Replaced /\ Target = current.items
  BY SettledIs DEF Building
<1>2. Replaced' = Replaced
  BY DEF Replaced, InitFires, ResetFires, StagedId
<1>3. Target' = current'.items
  BY <1>1, <1>2 DEF Target
<1>4. MountInv' /\ EditorInv'
  BY <1>1 DEF MountInv, HasBuilder, EditorInv
<1> QED BY <1>1, <1>2, <1>3, <1>4

\* An edit that keeps names apart and the superset with what is built.
LEMMA EditBuilds ==
    ASSUME BuiltInv, NEW items, NEW others, Edited(items, others),
           items \in BuilderQueries, others \in Lists,
           ~url.list /\ Distinct(current.items) => Distinct(items),
           Alike(url.list, current.items, superset) =>
              /\ Alike(url.list, items, others)
              /\ Distinct(superset) => Distinct(others)
    PROVE  BuiltInv'
<1> USE DEF BuiltInv
<1>1. StagedInv'
  BY EditKeeps
<1>2. /\ Building
      /\ current' = [current EXCEPT !.items = items]
      /\ superset' = others /\ kept' = items
      /\ UNCHANGED <<url, shown, staged, pathRef, overwritten, strayed, unnamed>>
  BY DEF Edited
<1>3. current' \in Query /\ current'.items = items
  BY <1>2, CurrentTyped DEF Query
<1>4. /\ shown = "yes" /\ Target = current.items
      /\ Target' = items /\ MountInv' /\ EditorInv'
  BY <1>2, <1>3, BuildingStep
<1>5. Typed'
  BY <1>2, <1>3 DEF Typed
<1>6. KeptInv'
  BY <1>2, <1>4 DEF KeptInv
<1>7. AlignedInv'
  BY <1>2, <1>4 DEF AlignedInv
<1>8. NamesInv'
  <2> SUFFICES ASSUME ~overwritten, ~strayed, ~unnamed
               PROVE  /\ ~url.list => Distinct(items)
                      /\ url.path = Editor => Distinct(others)
    BY <1>2, <1>4 DEF NamesInv
  <2>1. ~url.list => Distinct(items)
    BY <1>4 DEF NamesInv
  <2>2. ASSUME url.path = Editor PROVE Distinct(others)
    <3>1. Alike(url.list, current.items, superset)
      BY <1>4, <2>2 DEF AlignedInv
    <3>2. Distinct(superset)
      BY <1>4, <2>2 DEF NamesInv
    <3> QED BY <3>1, <3>2
  <2> QED BY <2>1, <2>2
<1> QED BY <1>1, <1>4, <1>5, <1>6, <1>7, <1>8

LEMMA AddBuilds ==
    ASSUME BuiltInv, NEW a \in BuilderQuery,
           Edited(WithNew(current.items, a), WithNew(superset, a))
    PROVE  BuiltInv'
<1>1. /\ current.items \in Lists /\ current.items # <<>> /\ superset \in Lists
      /\ url.list \in BOOLEAN
  BY CurrentTyped, UrlTyped DEF BuiltInv, Typed
<1>2. /\ WithNew(current.items, a) \in BuilderQueries /\ WithNew(superset, a) \in Lists
      /\ Distinct(current.items) => Distinct(WithNew(current.items, a))
      /\ superset # <<>> /\ Distinct(superset) => Distinct(WithNew(superset, a))
  BY <1>1, WithNewIs, ListsAre
<1>3. ASSUME Alike(url.list, current.items, superset)
      PROVE  /\ Alike(url.list, WithNew(current.items, a), WithNew(superset, a))
             /\ superset # <<>>
  <2>1. Alike(url.list, WithNew(current.items, a), WithNew(superset, a))
    BY <1>1, <1>3, NewAlike
  <2>2. Len(superset) = Len(current.items)
    BY <1>3 DEF Alike
  <2>3. superset # <<>>
    BY <1>1, <2>2 DEF Lists
  <2> QED BY <2>1, <2>3
<1> QED BY <1>2, <1>3, EditBuilds

LEMMA CloneBuilds ==
    ASSUME BuiltInv, NEW i \in 1 .. MaxQueries, cloneQuery(i)
    PROVE  BuiltInv'
<1>1. /\ i \in DOMAIN current.items
      /\ Edited(WithNew(current.items, current.items[i]),
                WithNew(superset, current.items[i]))
  BY DEF cloneQuery, Shown
<1>2. current.items \in Lists
  BY CurrentTyped DEF BuiltInv
<1>3. current.items[i] \in BuilderQuery
  BY <1>1, <1>2 DEF Lists
<1> QED BY <1>1, <1>3, AddBuilds

LEMMA RemoveBuilds ==
    ASSUME BuiltInv, NEW i \in 1 .. MaxQueries, removeQueryBuilderEntityByIndex(i)
    PROVE  BuiltInv'
<1>1. /\ Len(current.items) > 1
      /\ Edited(Without(current.items, i), Without(superset, i))
  BY DEF removeQueryBuilderEntityByIndex
<1>2. current.items \in Lists /\ superset \in Lists /\ url.list \in BOOLEAN
  BY CurrentTyped, UrlTyped DEF BuiltInv, Typed
<1>3. /\ Without(current.items, i) \in BuilderQueries /\ Without(superset, i) \in Lists
      /\ Distinct(current.items) => Distinct(Without(current.items, i))
      /\ Distinct(superset) => Distinct(Without(superset, i))
  BY <1>1, <1>2, WithoutIs, ListsAre
<1>4. Alike(url.list, current.items, superset) =>
         Alike(url.list, Without(current.items, i), Without(superset, i))
  BY <1>2, WithoutAlike
<1> QED BY <1>1, <1>3, <1>4, EditBuilds

LEMMA SetBuilds ==
    ASSUME BuiltInv, NEW i \in 1 .. MaxQueries, NEW o \in Operators, NEW f \in Filters,
           handleSetQueryData(i, o, f)
    PROVE  BuiltInv'
<1> DEFINE item == [current.items[i] EXCEPT !.operator = IF url.list THEN @ ELSE o,
                                            !.filters = f]
<1>1. /\ i \in DOMAIN current.items
      /\ Edited(WithItem(current.items, i, item),
                updateSuperSetQueryBuilderData(superset, i, item))
  BY DEF handleSetQueryData, Shown
<1>2. /\ current.items \in Lists /\ current.items # <<>> /\ superset \in Lists
      /\ url.list \in BOOLEAN
  BY CurrentTyped, UrlTyped DEF BuiltInv, Typed
<1>3. current.items[i] \in BuilderQuery
  BY <1>1, <1>2 DEF Lists
<1>4. item \in BuilderQuery /\ item.name = current.items[i].name
  BY <1>3 DEF BuilderQuery
<1> HIDE DEF item
<1>5. /\ WithItem(current.items, i, item) \in BuilderQueries
      /\ Distinct(current.items) => Distinct(WithItem(current.items, i, item))
  BY <1>2, <1>4, WithItemIs, ListsAre
<1>6. /\ updateSuperSetQueryBuilderData(superset, i, item) \in Lists
      /\ Distinct(superset) /\ (url.list \/ item.name = superset[i].name) =>
            Distinct(updateSuperSetQueryBuilderData(superset, i, item))
  BY <1>2, <1>4, SupersetUpdateIs
<1>7. ASSUME Alike(url.list, current.items, superset)
      PROVE  /\ Alike(url.list, WithItem(current.items, i, item),
                      updateSuperSetQueryBuilderData(superset, i, item))
             /\ url.list \/ item.name = superset[i].name
  <2>1. Alike(url.list, WithItem(current.items, i, item),
              updateSuperSetQueryBuilderData(superset, i, item))
    BY <1>2, <1>4, <1>7, ItemAlike
  <2>2. i \in 1 .. Len(current.items)
    BY <1>1, <1>2 DEF Lists
  <2>3. ~url.list => current.items[i].name = superset[i].name
    BY <1>2, <1>7, <2>2, AlikeNames
  <2> QED BY <1>4, <2>1, <2>3
<1> QED BY <1>1, <1>5, <1>6, <1>7, EditBuilds

-----------------------------------------------------------------------------
\* A query put into the URL is what the user built last.
LEMMA RedirectBuilds ==
    ASSUME BuiltInv, NEW x \in Lists, NEW list \in BOOLEAN, list => url.path = Editor,
           redirectWithQueryBuilderData(x, list), Building,
           UNCHANGED <<shown, staged, pathRef, overwritten, unnamed>>,
           kept' = OrDefault(x),
           current' \in Query, current' = [id |-> current.id, items |-> current'.items],
           superset' \in Lists, strayed => strayed',
           url.path = Editor /\ ~overwritten /\ ~strayed' =>
              Alike(list, OrDefault(x), superset'),
           ~overwritten /\ ~strayed' /\ ~unnamed =>
              /\ ~list => Distinct(x)
              /\ url.path = Editor => Distinct(superset')
    PROVE  BuiltInv'
<1> USE DEF BuiltInv
<1>1. /\ url' = [path |-> url.path, list |-> list, query |-> Generated(x)]
      /\ url' \in Locations
      /\ Replaced' /\ Target' = OrDefault(x)
  BY RedirectOpens
<1>2. StagedInv'
  BY RedirectStep
<1>3. Typed'
  BY <1>1 DEF Typed
<1>4. KeptInv'
  BY <1>1 DEF KeptInv
<1>5. shown = "yes" /\ HasBuilder
  BY SettledIs DEF Building
<1>6. url'.path = url.path /\ url'.list = list
  BY <1>1
<1>7. MountInv' /\ EditorInv'
  BY <1>5, <1>6 DEF MountInv, HasBuilder, EditorInv
<1>8. AlignedInv'
  BY <1>1, <1>6 DEF AlignedInv
<1>9. NamesInv'
  BY <1>1, <1>5, <1>6, OrDefaultIs DEF NamesInv
<1> QED BY <1>2, <1>3, <1>4, <1>7, <1>8, <1>9

LEMMA RunBuilds ==
    ASSUME BuiltInv, handleRunQuery
    PROVE  BuiltInv'
<1> USE DEF BuiltInv
<1>1. /\ Building /\ kept' = OrDefault(current.items)
      /\ redirectWithQueryBuilderData(current.items, url.list)
      /\ UNCHANGED <<shown, staged, current, superset, pathRef,
                     overwritten, strayed, unnamed>>
  BY DEF handleRunQuery, Redirect, redirectTo, stateVars
<1>2. /\ current.items \in Lists /\ OrDefault(current.items) = current.items
      /\ current' = [id |-> current.id, items |-> current'.items]
      /\ current' \in Query /\ superset' \in Lists
      /\ url.list \in BOOLEAN /\ (url.list => url.path = Editor)
  BY <1>1, CurrentTyped, OrDefaultIs, UrlTyped DEF Typed
<1>3. Target = current.items /\ shown = "yes"
  BY <1>1, SettledIs DEF Building
<1>4. url.path = Editor /\ ~overwritten /\ ~strayed' =>
         Alike(url.list, OrDefault(current.items), superset')
  BY <1>1, <1>2, <1>3 DEF AlignedInv
<1>5. ~overwritten /\ ~strayed' /\ ~unnamed =>
         /\ ~url.list => Distinct(current.items)
         /\ url.path = Editor => Distinct(superset')
  BY <1>1, <1>3 DEF NamesInv
<1> QED BY <1>1, <1>2, <1>4, <1>5, RedirectBuilds

LEMMA ChangedBuilds ==
    ASSUME BuiltInv, NEW i \in 1 .. MaxQueries, NEW f \in Filters, RedirectChanged(i, f)
    PROVE  BuiltInv'
<1> USE DEF BuiltInv
<1> DEFINE item == [current.items[i] EXCEPT !.filters = f]
           x == WithItem(current.items, i, item)
<1>1. /\ url.path \in Explorers /\ i \in DOMAIN current.items
      /\ Building /\ kept' = OrDefault(x)
      /\ redirectWithQueryBuilderData(x, url.list)
      /\ UNCHANGED <<shown, staged, current, superset, pathRef,
                     overwritten, strayed, unnamed>>
  BY DEF RedirectChanged, Redirect, redirectTo, stateVars
<1>2. current.items \in Lists
  BY CurrentTyped
<1>3. current.items[i] \in BuilderQuery
  BY <1>1, <1>2 DEF Lists
<1>4. item \in BuilderQuery /\ item.name = current.items[i].name
  BY <1>3 DEF BuilderQuery
<1> HIDE DEF item
<1>5. x \in Lists /\ (Distinct(current.items) => Distinct(x))
  BY <1>2, <1>4, WithItemIs
<1> HIDE DEF x
<1>6. /\ url.path # Editor /\ url.list \in BOOLEAN /\ (url.list => url.path = Editor)
      /\ current' = [id |-> current.id, items |-> current'.items]
      /\ current' \in Query /\ superset' \in Lists
  BY <1>1, CurrentTyped, UrlTyped, QueryPageAssumption DEF Typed
<1>7. Target = current.items
  BY <1>1, SettledIs DEF Building
<1>8. ~overwritten /\ ~strayed' /\ ~unnamed => (~url.list => Distinct(x))
  BY <1>1, <1>5, <1>7 DEF NamesInv
<1> QED BY <1>1, <1>5, <1>6, <1>8, RedirectBuilds

\* The superset, as the new kind of panel makes it, is put into the URL.
LEMMA PanelBuilds ==
    ASSUME BuiltInv, NEW list \in BOOLEAN, setGraphHandler(list)
    PROVE  BuiltInv'
<1> USE DEF BuiltInv
<1> DEFINE x == handleQueryChange(list, superset)
<1>1. /\ url.path = Editor /\ Building /\ kept' = OrDefault(x)
      /\ redirectWithQueryBuilderData(x, list)
      /\ UNCHANGED <<shown, staged, current, superset, pathRef,
                     overwritten, strayed, unnamed>>
  BY DEF setGraphHandler, stateVars
<1>2. /\ superset \in Lists /\ current' \in Query
      /\ current' = [id |-> current.id, items |-> current'.items]
  BY <1>1, CurrentTyped DEF Typed
<1>3. /\ x \in Lists /\ (superset # <<>> => x # <<>>)
      /\ Alike(list, x, superset)
      /\ ~list /\ Distinct(superset) => Distinct(x)
  BY <1>2, QueryChangeIs
<1>4. Target = current.items /\ shown = "yes"
  BY <1>1, SettledIs DEF Building
<1>5. ASSUME ~overwritten, ~strayed
      PROVE  Alike(list, OrDefault(x), superset)
  <2>1. Len(superset) = Len(current.items)
    BY <1>1, <1>4, <1>5 DEF AlignedInv, Alike
  <2>2. current.items \in Lists /\ current.items # <<>>
    BY CurrentTyped
  <2>3. superset # <<>>
    BY <1>2, <2>1, <2>2 DEF Lists
  <2>4. OrDefault(x) = x
    BY <1>3, <2>3 DEF OrDefault
  <2> QED BY <1>3, <2>4
<1> HIDE DEF x
<1>6. ~overwritten /\ ~strayed /\ ~unnamed =>
         (~list => Distinct(x)) /\ Distinct(superset)
  BY <1>1, <1>3, <1>4 DEF NamesInv
<1> QED BY <1>1, <1>2, <1>3, <1>5, <1>6, RedirectBuilds

\* Of a list of one query the superset query starts again with the list.
LEMMA DataSourceBuilds ==
    ASSUME BuiltInv, handleChangeDataSource
    PROVE  BuiltInv'
<1> USE DEF BuiltInv
<1> DEFINE cleared == [current.items[1] EXCEPT !.filters = Unfiltered]
           x == handleQueryChange(TRUE, DefaultItems)
           y == updateSuperSetQueryBuilderData(superset, 1, cleared)
<1>1. /\ url.list /\ Building /\ kept' = x
      /\ redirectWithQueryBuilderData(x, url.list)
      /\ current' = [current EXCEPT !.items = WithItem(current.items, 1, cleared)]
      /\ superset' = y
      /\ UNCHANGED <<shown, staged, pathRef, overwritten, unnamed>>
  BY DEF handleChangeDataSource, redirectTo
<1>2. (strayed => strayed') /\ (~strayed' => ~(Len(superset) > 1))
  BY DEF handleChangeDataSource
<1>3. /\ url.list = TRUE /\ url.path = Editor /\ superset \in Lists
      /\ current.items \in Lists /\ current.items # <<>>
  BY <1>1, CurrentTyped, UrlTyped DEF Typed
<1>4. current.items[1] \in BuilderQuery
  <2>1. current.items \in Seq(BuilderQuery)
    BY <1>3 DEF Lists
  <2> QED BY <1>3, <2>1
<1>5. cleared \in BuilderQuery /\ cleared.filters = Unfiltered
  BY <1>4, QueryPageAssumption DEF BuilderQuery
<1> HIDE DEF cleared
<1>6. WithItem(current.items, 1, cleared) \in BuilderQueries
  BY <1>3, <1>5, WithItemIs, ListsAre
<1>7. current' \in Query /\ current' = [id |-> current.id, items |-> current'.items]
  BY <1>1, <1>6, CurrentTyped DEF Query
<1>8. /\ DefaultItems \in Lists /\ Len(DefaultItems) = 1 /\ DefaultItems[1] = DefaultItem
      /\ DefaultItem \in BuilderQuery /\ DefaultItem.filters = Unfiltered
      /\ DefaultItems # <<>>
  BY DefaultIs, ListsAre DEF DefaultItems, DefaultItem
<1>9. x \in Lists /\ Len(x) = 1 /\ x[1] = PanelItem(TRUE, DefaultItem)
  <2>1. \A j \in 1 .. Len(DefaultItems) : x[j] = PanelItem(TRUE, DefaultItems[j])
    BY <1>8, QueryChangeItems
  <2>2. x \in Lists /\ Len(x) = Len(DefaultItems)
    BY <1>8, QueryChangeItems
  <2>3. 1 \in 1 .. Len(DefaultItems)
    BY <1>8
  <2>4. x[1] = PanelItem(TRUE, DefaultItems[1])
    BY <2>1, <2>3
  <2> HIDE DEF x
  <2> QED BY <1>8, <2>2, <2>4
<1>10. OrDefault(x) = x
  <2>1. x # <<>>
    BY <1>8, QueryChangeIs
  <2> QED BY <2>1 DEF OrDefault
<1>11. /\ y \in Lists /\ Len(y) = Len(superset)
       /\ \A j \in 1 .. Len(superset) :
             y[j] = IF j = 1 THEN SupersetItem(superset[j], cleared) ELSE superset[j]
       /\ Distinct(superset) => Distinct(y)
  BY <1>3, <1>5, SupersetUpdateIs
<1> HIDE DEF x, y
<1>12. Target = current.items /\ shown = "yes"
  BY <1>1, SettledIs DEF Building
<1>13. ASSUME ~overwritten, ~strayed'
       PROVE  Alike(url.list, OrDefault(x), superset')
  <2>1. Len(superset) = Len(current.items)
    <3>1. ~strayed
      BY <1>2, <1>13
    <3>2. Alike(url.list, current.items, superset)
      BY <1>3, <1>12, <1>13, <3>1 DEF AlignedInv
    <3> QED BY <3>2 DEF Alike
  <2>2. Len(superset) = 1
    <3>1. ~(Len(superset) > 1)
      BY <1>2, <1>13
    <3>2. Len(superset) \in Nat /\ Len(superset) # 0
      BY <1>3, <2>1 DEF Lists
    <3>3. \A n \in Nat : n # 0 /\ ~(n > 1) => n = 1
      OBVIOUS
    <3> QED BY <3>1, <3>2, <3>3
  <2>3. superset[1] \in BuilderQuery
    <3>1. superset \in Seq(BuilderQuery)
      BY <1>3 DEF Lists
    <3> QED BY <2>2, <3>1
  <2>4. y[1] = SupersetItem(superset[1], cleared)
    BY <1>11, <2>2
  <2>5. y[1] \in BuilderQuery /\ y[1].filters = Unfiltered
    BY <1>3, <1>5, <2>3, <2>4, SupersetItemIs
  <2>6. PanelItem(TRUE, y[1]) = PanelItem(TRUE, DefaultItem)
    BY <1>8, <2>5 DEF PanelItem
  <2>7. PanelItem(TRUE, x[1]) = PanelItem(TRUE, DefaultItem)
    BY <1>8, <1>9, PanelItemIs
  <2>8. \A j \in 1 .. Len(x) : j = 1
    BY <1>9
  <2>9. Alike(TRUE, x, y)
    BY <1>9, <1>11, <2>2, <2>6, <2>7, <2>8 DEF Alike
  <2> QED BY <1>1, <1>3, <1>10, <2>9
<1>14. ~overwritten /\ ~strayed' /\ ~unnamed => Distinct(superset')
  BY <1>1, <1>2, <1>3, <1>11, <1>12 DEF NamesInv
<1>15. url.list \in BOOLEAN /\ superset' \in Lists /\ kept' = OrDefault(x)
  BY <1>1, <1>3, <1>10, <1>11
<1> QED
  BY <1>1, <1>2, <1>3, <1>7, <1>9, <1>13, <1>14, <1>15, RedirectBuilds

\* A change of the time range undoes something, or nothing.
LEMMA TimeBuilds ==
    ASSUME BuiltInv, SelectTime
    PROVE  BuiltInv'
<1> USE DEF BuiltInv
<1>1. StagedInv'
  BY TimeKeeps
<1>2. /\ Building /\ staged # None
      /\ current' = [id |-> staged.id, items |-> Merge(current.items, staged.items)]
      /\ UNCHANGED <<url, shown, staged, superset, pathRef, kept, strayed, unnamed>>
  BY DEF SelectTime
<1>3. ~overwritten' => ~overwritten /\ current'.items = current.items
  BY DEF SelectTime
<1>4. Merge(current.items, staged.items) \in BuilderQueries /\ staged.id \in Ids
  BY <1>2, CurrentTyped, MergeIs
<1>5. current' \in Query
  BY <1>2, <1>4 DEF Query
<1>6. /\ Target = current.items /\ Target' = current'.items /\ MountInv' /\ EditorInv'
  BY <1>2, BuildingStep
<1>7. Typed'
  BY <1>2, <1>5 DEF Typed
<1>8. KeptInv' /\ AlignedInv' /\ NamesInv'
  <2>1. CASE overwritten'
    BY <2>1 DEF KeptInv, AlignedInv, NamesInv
  <2>2. CASE ~overwritten'
    BY <1>2, <1>3, <1>6, <2>2 DEF KeptInv, AlignedInv, NamesInv
  <2> QED BY <2>1, <2>2
<1> QED BY <1>1, <1>6, <1>7, <1>8

-----------------------------------------------------------------------------
LEMMA InitBuilds == Init => BuiltInv
<1> SUFFICES ASSUME Init PROVE BuiltInv
  OBVIOUS
<1>1. StagedInv
  BY InitStaged
<1>2. /\ url \in Links /\ shown = "no" /\ staged = None /\ current = InitialQuery(url)
      /\ superset = current.items /\ kept = Opened(url)
      /\ unnamed = ~Distinct(Opened(url))
  BY DEF Init
<1>3. url \in Locations
  BY <1>2, LinksAssumption
<1>4. InitialQuery(url) \in Query /\ InitialQuery(url).items \in Lists
  BY <1>3, UrlTyped, DefaultIs, ListsAre DEF InitialQuery, Content
<1>5. Typed
  BY <1>2, <1>3, <1>4 DEF Typed
<1>6. MountInv /\ AlignedInv /\ EditorInv
  BY <1>2 DEF MountInv, OnItsPage, AlignedInv, EditorInv
<1>7. Replaced
  <2>1. url.query # None => url.query.id # None
    BY <1>3, UrlTyped, QueryPageAssumption
  <2> QED BY <1>2, <2>1 DEF Replaced, InitFires, StagedId
<1>8. KeptInv /\ NamesInv
  BY <1>2, <1>7 DEF KeptInv, NamesInv, Target
<1> QED BY <1>1, <1>5, <1>6, <1>8 DEF BuiltInv

LEMMA NextBuilds == BuiltInv /\ [Next]_vars => BuiltInv'
<1> SUFFICES ASSUME BuiltInv, [Next]_vars PROVE BuiltInv'
  OBVIOUS
<1>1. CASE \E mounting, timeLast \in BOOLEAN : Flush(mounting, timeLast)
  BY <1>1, FlushBuilds
<1>2. CASE \E link \in Links : Navigate(link)
  BY <1>2, NavigateBuilds
<1>3. CASE \E link \in Links \cup {url} : Reload(link)
  BY <1>3, ReloadBuilds
<1>4. CASE \E list \in BOOLEAN : Export(list) \/ setGraphHandler(list)
  BY <1>4, ExportBuilds, PanelBuilds
<1>5. CASE addNewBuilderQuery
  BY <1>5, AddBuilds, DefaultIs DEF addNewBuilderQuery
<1>6. CASE \E i \in 1 .. MaxQueries : cloneQuery(i) \/ removeQueryBuilderEntityByIndex(i)
  BY <1>6, CloneBuilds, RemoveBuilds
<1>7. CASE \E i \in 1 .. MaxQueries, o \in Operators \ {Noop}, f \in Filters :
              handleSetQueryData(i, o, f)
  BY <1>7, SetBuilds
<1>8. CASE \E i \in 1 .. MaxQueries, f \in Filters : RedirectChanged(i, f)
  BY <1>8, ChangedBuilds
<1>9. CASE handleRunQuery
  BY <1>9, RunBuilds
<1>10. CASE handleChangeDataSource
  BY <1>10, DataSourceBuilds
<1>11. CASE SelectTime
  BY <1>11, TimeBuilds
<1>12. CASE UNCHANGED vars
  <2> USE <1>12 DEF vars, stateVars, history
  <2>1. StagedInv'
    BY NextStaged DEF BuiltInv
  <2>2. HasBuilder' = HasBuilder /\ OnItsPage' = OnItsPage /\ StagedId' = StagedId
    BY DEF HasBuilder, OnItsPage, StagedId
  <2>3. ResetFires' = ResetFires /\ Replaced' = Replaced
    BY <2>2 DEF Replaced, InitFires, ResetFires
  <2>4. Target' = Target
    BY <2>3 DEF Target, Opened
  <2>5. Typed' /\ KeptInv' /\ MountInv'
    BY <2>2, <2>4 DEF BuiltInv, Typed, KeptInv, MountInv
  <2>6. EditorInv' /\ AlignedInv' /\ NamesInv'
    BY <2>3, <2>4 DEF BuiltInv, EditorInv, AlignedInv, NamesInv
  <2> QED BY <2>1, <2>5, <2>6 DEF BuiltInv
<1> QED
  BY <1>1, <1>2, <1>3, <1>4, <1>5, <1>6, <1>7, <1>8, <1>9, <1>10, <1>11, <1>12 DEF Next

\* Edits survive renders, effects, runs and the mounting of pages, for any number of
\* queries and steps, unless a time range or a list mounted with nothing staged undid
\* some.
THEOREM EditsKeptAlways == Spec => []EditsKept
<1>1. BuiltInv => EditsKept
  BY DEF BuiltInv, KeptInv, EditsKept, Target
<1> QED BY <1>1, InitBuilds, NextBuilds, PTL DEF Spec

\* The queries of a builder that is not a list have names of their own: a name that is
\* not taken is found as long as the builder is not full, and those that a list loses
\* are kept by the superset query.
THEOREM NamesDistinctAlways == Spec => []NamesDistinct
<1>1. BuiltInv => NamesDistinct
  BY DEF BuiltInv, NamesInv, NamesDistinct, Target
<1> QED BY <1>1, InitBuilds, NextBuilds, PTL DEF Spec

\* The superset of the panel editor follows what is built, item by item, in every kind
\* of panel.
THEOREM SupersetAlignedAlways == Spec => []SupersetAligned
<1>1. BuiltInv => SupersetAligned
  <2> SUFFICES ASSUME BuiltInv, url.path = Editor, Settled, ~overwritten, ~strayed
               PROVE  handleQueryChange(url.list, current.items)
                         = handleQueryChange(url.list, superset)
    BY DEF SupersetAligned
  <2>1. shown = "yes" /\ Target = current.items
    BY SettledIs
  <2>2. Alike(url.list, current.items, superset)
    BY <2>1 DEF BuiltInv, AlignedInv
  <2>3. current.items \in Lists /\ superset \in Lists /\ url.list \in BOOLEAN
    BY CurrentTyped, UrlTyped DEF BuiltInv, Typed
  <2> QED BY <2>2, <2>3, AlikeIs
<1> QED BY <1>1, InitBuilds, NextBuilds, PTL DEF Spec
=============================================================================
