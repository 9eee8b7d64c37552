---------------------- MODULE DashboardVariables_proofs ----------------------
(* Proofs, for any variables, queries and options: the panels wait for a      *)
(* variable whose options are those for other values of its parents; options  *)
(* end up as those for the values of the parents; the panels wait for no      *)
(* variable for ever, but for one that could not be fetched, whose query      *)
(* returns nothing, or that was restated; and values are among the options.   *)
EXTENDS DashboardVariables, TLAPS

Domains == DOMAIN variables = Variables /\ DOMAIN answered = Variables

\* The values that the query of w mentions.
Mentioned(w) == getQueryKey(w).values

PanelsInv == Domains /\ PanelsWait

LEMMA InitInv == Init => PanelsInv
  <1> SUFFICES ASSUME Init PROVE PanelsInv
    OBVIOUS
  <1>1. DOMAIN variables = Variables
    BY DashboardVariablesAssumption DEF Init
  <1>2. DOMAIN answered = Variables /\ \A v \in Variables : answered[v] = None
    BY DEF Init
  <1>3. PanelsWait
    BY <1>2, DashboardVariablesAssumption DEF PanelsWait
  <1>4. QED
    BY <1>1, <1>2, <1>3 DEF PanelsInv, Domains

(* Only the variables whose query mentions v see that v has another value. *)
LEMMA MentionedStays ==
    ASSUME DOMAIN variables = Variables, NEW v \in Variables, NEW variable,
           variables' = [variables EXCEPT ![v] = variable],
           NEW w \in Fetched, w \notin Dependents(v)
    PROVE  Mentioned(w)' = Mentioned(w)
  <1>1. w \in Variables /\ Parents[w] \subseteq Variables /\ v \notin Parents[w]
    BY DashboardVariablesAssumption DEF Dependents
  <1>2. \A p \in Parents[w] : variables'[p] = variables[p]
    BY <1>1
  <1>3. QED
    BY <1>2 DEF Mentioned, getQueryKey

(* What onValueUpdate(v, _) does for the others: those that mention v are queued, and *)
(* no other leaves the queue.                                                         *)
LEMMA UpdateFacts ==
    ASSUME DOMAIN variables = Variables, NEW v \in Variables, NEW variable,
           onValueUpdate(v, variable)
    PROVE  /\ DOMAIN variables' = Variables
           /\ Dependents(v) \subseteq queue'
           /\ queue \ {v} \subseteq queue'
           /\ \A w \in Fetched \ Dependents(v) : Mentioned(w)' = Mentioned(w)
  <1>1. variables' = [variables EXCEPT ![v] = variable]
    BY DEF onValueUpdate
  <1>2. \A w \in Fetched \ Dependents(v) : Mentioned(w)' = Mentioned(w)
    BY <1>1, MentionedStays
  <1>3. queue' = (queue \ {v}) \cup Dependents(v)
    BY DEF onValueUpdate
  <1>4. QED
    BY <1>1, <1>2, <1>3

(* PanelsWait in terms of the values that are mentioned. *)
LEMMA Waiting ==
    PanelsWait <=> \A w \in Fetched \ ahead :
                      answered[w] # None /\ answered[w].values # Mentioned(w) => w \in queue
  BY DEF PanelsWait, Mentioned

(* Steps after which the values are the same and nothing has left the queue. *)
LEMMA SameValues ==
    ASSUME PanelsInv, UNCHANGED <<variables, answered, ahead>>, queue \subseteq queue'
    PROVE  PanelsInv'
  BY DEF PanelsInv, Domains, PanelsWait, getQueryKey

LEMMA SucceedInv ==
    ASSUME PanelsInv, NEW v \in Variables, Succeed(v)
    PROVE  PanelsInv'
  <1>0. CASE Returned(v) = <<>>
    <2>1. UNCHANGED <<variables, answered, ahead, queue>>
      BY <1>0 DEF Succeed, getOptions
    <2>2. QED
      BY <2>1, SameValues
  <1> SUFFICES ASSUME Returned(v) # <<>> PROVE PanelsInv'
    BY <1>0
  <1>1. /\ answered' = [answered EXCEPT ![v] = observed[v]] /\ ahead' = ahead \ {v}
        /\ DOMAIN variables = Variables /\ DOMAIN answered = Variables
    BY DEF Succeed, PanelsInv, Domains
  <1>2. v \in Fetched => observed[v].values = Mentioned(v)
    BY DEF Succeed, FlushNeeded, KeyChanged, Mentioned
  <1>3. /\ DOMAIN variables' = Variables
        /\ queue \ {v} \subseteq queue'
        /\ \A w \in Fetched : w \in queue' \/ Mentioned(w)' = Mentioned(w)
    <2> DEFINE options == Returned(v)
    <2>1. getOptions(v, options)
      BY DEF Succeed
    <2>2. CASE onValueUpdate(v, DefaultValue(v, options))
      BY <1>1, <2>2, UpdateFacts
    <2>3. CASE variables' = variables /\ (queue' = queue \ {v} \/ queue' = queue)
      BY <1>1, <2>3 DEF Mentioned, getQueryKey
    <2>4. QED
      BY <2>1, <2>2, <2>3 DEF getOptions
  <1>4. DOMAIN answered' = Variables
    BY <1>1
  <1>5. ASSUME NEW w \in Fetched, w \notin ahead', answered'[w] # None,
               answered'[w].values # Mentioned(w)'
        PROVE  w \in queue'
    <2>1. CASE w = v
      <3>1. answered'[v] = observed[v]
        BY <1>1
      <3>2. QED
        BY <1>2, <1>3, <1>5, <2>1, <3>1
    <2>2. CASE w # v
      <3>1. w \notin ahead /\ answered'[w] = answered[w]
        BY <1>1, <1>5, <2>2, DashboardVariablesAssumption
      <3>2. CASE Mentioned(w)' = Mentioned(w)
        <4>1. w \in queue
          BY <1>5, <3>1, <3>2, Waiting DEF PanelsInv
        <4>2. QED
          BY <1>3, <2>2, <4>1
      <3>3. QED
        BY <1>3, <3>2
    <2>3. QED
      BY <2>1, <2>2
  <1>6. PanelsWait'
    BY <1>5 DEF PanelsWait, Mentioned
  <1>7. QED
    BY <1>3, <1>4, <1>6 DEF PanelsInv, Domains

(* The user sets a variable: when it is in the queue it leaves it, ahead of its options. *)
LEMMA ChosenInv ==
    ASSUME PanelsInv, NEW v \in Variables, NEW variable, onValueUpdate(v, variable),
           ahead' = (ahead \ Dependents(v)) \cup (queue \cap {v}),
           answered' = answered
    PROVE  PanelsInv'
  <1>1. DOMAIN variables = Variables /\ DOMAIN answered = Variables
    BY DEF PanelsInv, Domains
  <1>2. /\ DOMAIN variables' = Variables
        /\ Dependents(v) \subseteq queue'
        /\ queue \ {v} \subseteq queue'
        /\ \A w \in Fetched \ Dependents(v) : Mentioned(w)' = Mentioned(w)
    BY <1>1, UpdateFacts
  <1>3. ASSUME NEW w \in Fetched, w \notin ahead', answered'[w] # None,
               answered'[w].values # Mentioned(w)'
        PROVE  w \in queue'
    <2>1. CASE w \in Dependents(v)
      BY <1>2, <2>1
    <2>2. CASE w \notin Dependents(v)
      <3>1. w \notin ahead /\ Mentioned(w)' = Mentioned(w)
        BY <1>2, <1>3, <2>2
      <3>2. w \in queue
        BY <1>3, <3>1, Waiting DEF PanelsInv
      <3>3. w # v
        BY <1>3, <3>2
      <3>4. QED
        BY <1>2, <3>2, <3>3
    <2>3. QED
      BY <2>1, <2>2
  <1>4. PanelsWait'
    BY <1>3 DEF PanelsWait, Mentioned
  <1>5. QED
    BY <1>1, <1>2, <1>4 DEF PanelsInv, Domains

LEMMA OpenInv ==
    ASSUME PanelsInv, NEW reload \in BOOLEAN, Open(reload)
    PROVE  PanelsInv'
  <1>1. variables' = variables /\ answered' = [v \in Variables |-> None]
    BY DEF Open
  <1>2. PanelsWait'
    BY <1>1, DashboardVariablesAssumption DEF PanelsWait
  <1>3. QED
    BY <1>1, <1>2 DEF PanelsInv, Domains

LEMMA StepInv == PanelsInv /\ [Next]_vars => PanelsInv'
  <1> SUFFICES ASSUME PanelsInv, [Next]_vars PROVE PanelsInv'
    OBVIOUS
  <1>1. CASE Flush
    BY <1>1, SameValues DEF Flush
  <1>2. ASSUME NEW v \in Variables, Succeed(v) PROVE PanelsInv'
    BY <1>2, SucceedInv
  <1>3. ASSUME NEW v \in Variables, Fail(v) PROVE PanelsInv'
    BY <1>3, SameValues DEF Fail
  <1>4. ASSUME NEW v \in Variables, ChooseAll(v) PROVE PanelsInv'
    BY <1>4, ChosenInv DEF ChooseAll, client
  <1>5. ASSUME NEW v \in Variables, NEW value \in Selection, NEW isArray \in BOOLEAN,
               Choose(v, value, isArray)
        PROVE  PanelsInv'
    BY <1>5, ChosenInv DEF Choose, client
  <1>6. ASSUME NEW t \in TimeRanges, SelectTime(t) PROVE PanelsInv'
    BY <1>6, SameValues DEF SelectTime, client
  <1>7. ASSUME NEW reload \in BOOLEAN, Open(reload) PROVE PanelsInv'
    BY <1>7, OpenInv
  <1>8. CASE UNCHANGED vars
    BY <1>8, SameValues DEF vars, client
  <1>9. QED
    BY <1>1, <1>2, <1>3, <1>4, <1>5, <1>6, <1>7, <1>8 DEF Next

(* Whatever the variables, their queries and the answers are: while the options of a  *)
(* variable are those for other values of its parents it is in the queue, and the     *)
(* panels wait, unless the user has set it before they were fetched.                  *)
THEOREM PanelsWaitHolds == Spec => []PanelsWait
  <1>1. Spec => []PanelsInv
    BY InitInv, StepInv, PTL DEF Spec
  <1>2. QED
    BY <1>1, PTL DEF PanelsInv

-----------------------------------------------------------------------------
(* A variable in the queue, and one whose options are not those for its key, is still *)
(* to be fetched, or could not be.                                                    *)

KeysInv ==
    /\ time \in TimeRanges
    /\ DOMAIN optionsData = Variables
    /\ timeSeen # None => \A w \in Fetched : observed[w].time = timeSeen

OptionsInv ==
    timeSeen # None => \A w \in Fetched :
        \/ w \in fetching \cup failed
        \/ Returned(w) = <<>>
        \/ optionsData[w] = Returned(w)

QueueInv ==
    \A w \in queue :
        /\ w \in Fetched
        /\ \/ w \in fetching \cup failed \cup restated
           \/ KeyChanged(w)
           \/ Returned(w) = <<>>

RestInv == Domains /\ KeysInv /\ OptionsInv /\ QueueInv

LEMMA RestInit == Init => RestInv
  <1> SUFFICES ASSUME Init PROVE RestInv
    OBVIOUS
  <1>1. Domains
    BY InitInv DEF PanelsInv
  <1>2. KeysInv /\ OptionsInv /\ QueueInv
    BY DEF Init, MountedOptions, KeysInv, OptionsInv, QueueInv
  <1>3. QED
    BY <1>1, <1>2 DEF RestInv

(* Effects that have run leave every key as it is observed. *)
LEMMA KeysSeen ==
    ASSUME RestInv, ~FlushNeeded
    PROVE  /\ timeSeen = time /\ timeSeen # None
           /\ \A w \in Fetched : ~KeyChanged(w) /\ observed[w] = getQueryKey(w)
  <1>1. timeSeen = time /\ timeSeen # None
    BY DashboardVariablesAssumption DEF FlushNeeded, RestInv, KeysInv
  <1>2. \A w \in Fetched : ~KeyChanged(w)
    BY DashboardVariablesAssumption DEF FlushNeeded
  <1>3. QED
    BY <1>1, <1>2 DEF KeyChanged

LEMMA FlushRest ==
    ASSUME RestInv, Flush
    PROVE  RestInv'
  <1>1. /\ queue' = queue \cup (IF timeSeen = time THEN {}
                                ELSE {v \in Fetched : variables[v].allSelected})
        /\ timeSeen' = time
        /\ observed' = [v \in Variables |-> IF v \in Fetched THEN getQueryKey(v) ELSE None]
        /\ fetching' = fetching \cup {v \in Variables : KeyChanged(v)}
        /\ failed' = {v \in failed : ~KeyChanged(v)}
        /\ UNCHANGED <<variables, optionsData, time, answered, restated>>
    BY DEF Flush
  <1>2. \A w \in Fetched : w \in Variables /\ observed'[w] = getQueryKey(w)
    BY <1>1, DashboardVariablesAssumption
  <1>3. KeysInv'
    BY <1>1, <1>2 DEF RestInv, KeysInv, getQueryKey
  <1>4. ASSUME NEW w \in Fetched, KeyChanged(w)
        PROVE  w \in fetching'
    BY <1>1, <1>2, <1>4
  <1>5. ASSUME NEW w \in Fetched, ~KeyChanged(w)
        PROVE  timeSeen # None /\ timeSeen = time /\ observed'[w] = observed[w]
    <2>1. timeSeen # None /\ observed[w] = getQueryKey(w)
      BY <1>5 DEF KeyChanged
    <2>2. QED
      BY <1>2, <2>1 DEF RestInv, KeysInv, getQueryKey
  <1>6. OptionsInv'
    <2> SUFFICES ASSUME NEW w \in Fetched
                 PROVE  \/ w \in fetching' \cup failed'
                        \/ Returned(w)' = <<>>
                        \/ optionsData'[w] = Returned(w)'
      BY DEF OptionsInv
    <2>1. CASE KeyChanged(w)
      BY <1>4, <2>1
    <2>2. CASE ~KeyChanged(w)
      BY <1>1, <1>5, <2>2 DEF RestInv, OptionsInv, Returned
    <2>3. QED
      BY <2>1, <2>2
  <1>7. QueueInv'
    <2> SUFFICES ASSUME NEW w \in queue'
                 PROVE  /\ w \in Fetched
                        /\ \/ w \in fetching' \cup failed' \cup restated'
                           \/ Returned(w)' = <<>>
      BY DEF QueueInv
    <2>1. w \in Fetched
      BY <1>1 DEF RestInv, QueueInv
    <2>2. CASE KeyChanged(w)
      BY <1>4, <2>1, <2>2
    <2>3. CASE ~KeyChanged(w)
      BY <1>1, <1>5, <2>1, <2>3 DEF RestInv, QueueInv, Returned
    <2>4. QED
      BY <2>1, <2>2, <2>3
  <1>8. QED
    BY <1>1, <1>3, <1>6, <1>7 DEF RestInv, Domains

(* A value is set when effects have run: those that mention it have another key, or   *)
(* the same, which is what restated says.                                             *)
LEMMA UpdateQueue ==
    ASSUME RestInv, ~FlushNeeded, NEW v \in Variables, NEW variable,
           onValueUpdate(v, variable),
           UNCHANGED <<time, timeSeen, observed, failed>>, fetching \ {v} \subseteq fetching'
    PROVE  QueueInv'
  <1> SUFFICES ASSUME NEW w \in queue'
               PROVE  /\ w \in Fetched
                      /\ \/ w \in fetching' \cup failed \cup restated'
                         \/ KeyChanged(w)'
                         \/ Returned(w)' = <<>>
    BY DEF QueueInv
  <1>1. /\ variables' = [variables EXCEPT ![v] = variable]
        /\ queue' = (queue \ {v}) \cup Dependents(v)
        /\ restated' = (restated \ {v}) \cup
              {u \in Dependents(v) :
                  Shown(variable.selectedValue) = Shown(variables[v].selectedValue)}
    BY DEF onValueUpdate
  <1>2. CASE w \in Dependents(v)
    <2>1. w \in Fetched /\ v \in Parents[w]
      BY <1>2 DEF Dependents
    <2>2. CASE Shown(variable.selectedValue) = Shown(variables[v].selectedValue)
      BY <1>1, <1>2, <2>1, <2>2
    <2>3. CASE Shown(variable.selectedValue) # Shown(variables[v].selectedValue)
      <3>1. observed[w] = getQueryKey(w)
        BY <2>1, KeysSeen
      <3>2. observed[w].values[v] = Shown(variables[v].selectedValue)
        BY <2>1, <3>1 DEF getQueryKey
      <3>3. variables'[v] = variable
        BY <1>1 DEF RestInv, Domains
      <3>4. getQueryKey(w)'.values[v] = Shown(variable.selectedValue)
        BY <2>1, <3>3 DEF getQueryKey, Shown
      <3>5. observed'[w] # getQueryKey(w)'
        BY <2>3, <3>2, <3>4
      <3>6. QED
        BY <2>1, <3>5 DEF KeyChanged
    <2>4. QED
      BY <2>2, <2>3
  <1>3. CASE w \notin Dependents(v)
    <2>1. w \in queue /\ w # v
      BY <1>1, <1>3
    <2>2. w \in Fetched /\ ~KeyChanged(w)
      BY <2>1, KeysSeen DEF RestInv, QueueInv
    <2>3. w \in fetching \cup failed \cup restated \/ Returned(w) = <<>>
      BY <2>1, <2>2 DEF RestInv, QueueInv
    <2>4. QED
      BY <1>1, <2>1, <2>2, <2>3 DEF Returned
  <1>4. QED
    BY <1>2, <1>3

LEMMA NothingRest ==
    ASSUME RestInv, NEW v \in Variables, Succeed(v), Returned(v) = <<>>
    PROVE  RestInv'
  <1>1. /\ fetching' = fetching \ {v}
        /\ UNCHANGED <<variables, queue, optionsData, restated, answered, time, timeSeen,
                       observed, failed>>
    BY DEF Succeed, getOptions
  <1>2. \A w \in Fetched : Returned(w)' = Returned(w) /\ KeyChanged(w)' = KeyChanged(w)
    BY <1>1 DEF Returned, KeyChanged, getQueryKey
  <1>3. OptionsInv'
    BY <1>1, <1>2 DEF RestInv, OptionsInv
  <1>4. QueueInv'
    BY <1>1, <1>2 DEF RestInv, QueueInv
  <1>5. Domains' /\ KeysInv'
    BY <1>1 DEF RestInv, Domains, KeysInv
  <1>6. QED
    BY <1>3, <1>4, <1>5 DEF RestInv

LEMMA SucceedRest ==
    ASSUME RestInv, NEW v \in Variables, Succeed(v), Returned(v) # <<>>
    PROVE  RestInv'
  <1> DEFINE options == Returned(v)
  <1>1. /\ ~FlushNeeded /\ v \in fetching
        /\ getOptions(v, options)
        /\ fetching' = fetching \ {v}
        /\ answered' = [answered EXCEPT ![v] = observed[v]]
        /\ UNCHANGED <<time, timeSeen, observed, failed>>
    BY DEF Succeed
  <1>0. options # <<>>
    BY DEF options
  <1> HIDE DEF options
  <1>2. DOMAIN optionsData = Variables /\ DOMAIN answered = Variables
    BY DEF RestInv, KeysInv, Domains
  <1>3. DOMAIN optionsData' = Variables /\ optionsData'[v] = options
    BY <1>0, <1>1, <1>2 DEF getOptions
  <1>4. \A w \in Variables \ {v} : optionsData'[w] = optionsData[w]
    BY <1>1, <1>2 DEF getOptions
  <1>5. DOMAIN variables' = Variables
    BY <1>1 DEF getOptions, onValueUpdate, RestInv, Domains
  <1>6. Domains' /\ KeysInv'
    BY <1>1, <1>2, <1>3, <1>5 DEF RestInv, KeysInv, Domains
  <1>7. OptionsInv'
    <2> SUFFICES ASSUME timeSeen # None, NEW w \in Fetched
                 PROVE  \/ w \in fetching' \cup failed
                        \/ Returned(w) = <<>>
                        \/ optionsData'[w] = Returned(w)
      BY <1>1 DEF OptionsInv, Returned
    <2>1. CASE w = v
      BY <1>3, <2>1 DEF options
    <2>2. CASE w # v
      BY <1>1, <1>4, <2>2, DashboardVariablesAssumption DEF RestInv, OptionsInv
    <2>3. QED
      BY <2>1, <2>2
  <1>8. QueueInv'
    <2>1. CASE onValueUpdate(v, DefaultValue(v, options))
      BY <1>1, <2>1, UpdateQueue
    <2>2. CASE /\ variables' = variables
               /\ queue' \subseteq queue \ {v} /\ restated \ {v} \subseteq restated'
      BY <1>1, <2>2 DEF RestInv, QueueInv, KeyChanged, getQueryKey, Returned
    <2>3. QED
      BY <1>0, <1>1, <2>1, <2>2 DEF getOptions
  <1>9. QED
    BY <1>6, <1>7, <1>8 DEF RestInv

LEMMA ChosenRest ==
    ASSUME RestInv, UserStep, NEW v \in Variables, NEW variable,
           onValueUpdate(v, variable), UNCHANGED <<time, client>>
    PROVE  RestInv'
  <1>1. QueueInv'
    BY UpdateQueue DEF UserStep, client
  <1>2. Domains' /\ KeysInv' /\ OptionsInv'
    BY DEF onValueUpdate, client, RestInv, Domains, KeysInv, OptionsInv, Returned
  <1>3. QED
    BY <1>1, <1>2 DEF RestInv

LEMMA TimeRest ==
    ASSUME RestInv, NEW t \in TimeRanges, SelectTime(t)
    PROVE  RestInv'
  <1>1. ~FlushNeeded /\ time' = t /\ UNCHANGED <<variables, queue, client, restated>>
    BY DEF SelectTime, UserStep
  <1>2. \A w \in queue :
            w \in Fetched /\ (w \in fetching \cup failed \cup restated \/ Returned(w) = <<>>)
    BY <1>1, KeysSeen DEF RestInv, QueueInv
  <1>3. QED
    BY <1>1, <1>2 DEF client, RestInv, Domains, KeysInv, OptionsInv, QueueInv, Returned

LEMMA OpenRest ==
    ASSUME RestInv, NEW reload \in BOOLEAN, Open(reload)
    PROVE  RestInv'
  <1>1. /\ timeSeen' = None /\ queue' \subseteq queue
        /\ optionsData' = MountedOptions
        /\ answered' = [v \in Variables |-> None]
        /\ UNCHANGED <<variables, time>>
    BY DEF Open
  <1>2. QueueInv'
    BY <1>1 DEF RestInv, QueueInv, KeyChanged
  <1>3. QED
    BY <1>1, <1>2 DEF MountedOptions, RestInv, Domains, KeysInv, OptionsInv

LEMMA RestStep == RestInv /\ [Next]_vars => RestInv'
  <1> SUFFICES ASSUME RestInv, [Next]_vars PROVE RestInv'
    OBVIOUS
  <1>1. CASE Flush
    BY <1>1, FlushRest
  <1>2. ASSUME NEW v \in Variables, Succeed(v) PROVE RestInv'
    BY <1>2, NothingRest, SucceedRest
  <1>3. ASSUME NEW v \in Variables, Fail(v) PROVE RestInv'
    BY <1>3 DEF Fail, RestInv, Domains, KeysInv, OptionsInv, QueueInv, KeyChanged, getQueryKey,
                Returned
  <1>4. ASSUME NEW v \in Variables, ChooseAll(v) PROVE RestInv'
    BY <1>4, ChosenRest DEF ChooseAll
  <1>5. ASSUME NEW v \in Variables, NEW value \in Selection, NEW isArray \in BOOLEAN,
               Choose(v, value, isArray)
        PROVE  RestInv'
    BY <1>5, ChosenRest DEF Choose
  <1>6. ASSUME NEW t \in TimeRanges, SelectTime(t) PROVE RestInv'
    BY <1>6, TimeRest
  <1>7. ASSUME NEW reload \in BOOLEAN, Open(reload) PROVE RestInv'
    BY <1>7, OpenRest
  <1>8. CASE UNCHANGED vars
    BY <1>8 DEF vars, client, RestInv, Domains, KeysInv, OptionsInv, QueueInv, KeyChanged,
                getQueryKey, Returned
  <1>9. QED
    BY <1>1, <1>2, <1>3, <1>4, <1>5, <1>6, <1>7, <1>8 DEF Next

LEMMA Rests == Spec => []RestInv
  BY RestInit, RestStep, PTL DEF Spec

LEMMA ReturnedOffers ==
    ASSUME RestInv, Idle, NEW v \in Fetched
    PROVE  timeSeen # None /\ Returned(v) = Offers(v)
  <1>1. timeSeen # None /\ observed[v] = getQueryKey(v)
    BY KeysSeen DEF Idle
  <1>2. getQueryKey(v).time = time
    BY DEF getQueryKey
  <1>3. QED
    BY <1>1, <1>2 DEF Returned, Offers

(* When nothing is being fetched, the options of a variable are what its query returns *)
(* for the values of its parents and the time range, unless that is nothing, or could  *)
(* not be fetched.                                                                     *)
THEOREM OptionsCurrentHolds == Spec => []OptionsCurrent
  <1>1. RestInv => OptionsCurrent
    <2> SUFFICES ASSUME RestInv, Idle, NEW v \in Fetched \ failed
                 PROVE  Offers(v) # <<>> => optionsData[v] = Offers(v)
      BY DEF OptionsCurrent
    <2>1. timeSeen # None /\ Returned(v) = Offers(v)
      BY ReturnedOffers
    <2>2. QED
      BY <2>1 DEF RestInv, OptionsInv, Idle
  <1>2. QED
    BY <1>1, Rests, PTL

(* And the panels wait for none, but for those that could not be fetched, whose query *)
(* returns nothing, or that were queued when a variable was set to the value it had.  *)
THEOREM QueueDrainsHolds == Spec => []QueueDrains
  <1>1. RestInv => QueueDrains
    <2> SUFFICES ASSUME RestInv, Idle, NEW v \in queue
                 PROVE  v \in failed \cup restated \cup {w \in Fetched : Offers(w) = <<>>}
      BY DEF QueueDrains
    <2>1. v \in Fetched /\ ~KeyChanged(v)
      BY KeysSeen DEF Idle, RestInv, QueueInv
    <2>2. Returned(v) = Offers(v)
      BY <2>1, ReturnedOffers
    <2>3. QED
      BY <2>1, <2>2 DEF RestInv, QueueInv, Idle
  <1>2. QED
    BY <1>1, Rests, PTL

-----------------------------------------------------------------------------
(* The value of a variable is among its options as long as it has any: a value is set *)
(* from them, and when they change a value that is not among them is set anew, unless *)
(* it is one number or boolean.                                                       *)

TypesInv ==
    /\ variables \in [Variables -> Variable]
    /\ optionsData \in [Variables -> Value]
    /\ time \in TimeRanges
    /\ fetching \subseteq Fetched
    /\ \A w \in fetching :
          observed[w] \in [values : [Parents[w] -> Lists(Strings)], time : TimeRanges]

\* What ValueNotInList looks up.
LookedUp(variable) == variable.isArray \/ Elements(variable.selectedValue) \subseteq Strings

FitsIn(variable, options) ==
    /\ LookedUp(variable) =>
          Elements(Shown(variable.selectedValue)) \subseteq Elements(Shown(options))
    /\ variable.allSelected => variable.selectedValue = options

OfferedInv ==
    \A w \in Fetched : optionsData[w] # <<>> => FitsIn(variables[w], optionsData[w])

LEMMA ShownElements ==
    ASSUME NEW s \in Value, NEW r \in Value, Elements(s) \subseteq Elements(r)
    PROVE  Elements(Shown(s)) \subseteq Elements(Shown(r))
  <1>1. \A q \in Value : Elements(Shown(q)) = {toString[c] : c \in Elements(q)}
    BY DEF Elements, Shown
  <1>2. QED
    BY <1>1

LEMMA ShownTyped ==
    ASSUME NEW s \in Value
    PROVE  Shown(s) \in Lists(Strings)
  <1>1. PICK n \in 0 .. MaxOptions : s \in [1 .. n -> Choices]
    BY DEF Value, Lists
  <1>2. Shown(s) \in [1 .. n -> Strings]
    BY <1>1, DashboardVariablesAssumption DEF Shown
  <1>3. QED
    BY <1>2 DEF Lists

LEMMA KeyTyped ==
    ASSUME TypesInv, NEW w \in Fetched
    PROVE  getQueryKey(w) \in [values : [Parents[w] -> Lists(Strings)], time : TimeRanges]
  <1>1. w \in Variables /\ Parents[w] \subseteq Variables
    BY DashboardVariablesAssumption
  <1>2. \A p \in Parents[w] : Shown(variables[p].selectedValue) \in Lists(Strings)
    BY <1>1, ShownTyped DEF TypesInv, Variable
  <1>3. QED
    BY <1>2 DEF getQueryKey, TypesInv

LEMMA EmptyValue == <<>> \in Value
  <1>1. 0 \in 0 .. MaxOptions /\ <<>> \in [1 .. 0 -> Choices]
    BY DashboardVariablesAssumption
  <1>2. QED
    BY <1>1 DEF Value, Lists

(* The value that a variable is set to by its options is among them. *)
LEMMA DefaultOffered ==
    ASSUME NEW v \in Variables, NEW options \in Value, options # <<>>
    PROVE  DefaultValue(v, options) \in Variable /\ FitsIn(DefaultValue(v, options), options)
  <1>1. CASE v \in MultiSelect
    <2>1. DefaultValue(v, options) =
            [selectedValue |-> options, isArray |-> TRUE, allSelected |-> TRUE]
      BY <1>1 DEF DefaultValue
    <2>2. QED
      BY <2>1 DEF Variable, FitsIn
  <1>2. CASE v \notin MultiSelect
    <2>1. PICK n \in 0 .. MaxOptions : options \in [1 .. n -> Choices]
      BY DEF Value, Lists
    <2>2. DefaultValue(v, options) =
            [selectedValue |-> <<options[1]>>, isArray |-> FALSE, allSelected |-> FALSE]
      BY <1>2 DEF DefaultValue
    <2>3. MaxOptions \in Nat /\ n >= 1 /\ options[1] \in Choices /\ 1 \in DOMAIN options
      BY <2>1, DashboardVariablesAssumption
    <2>4. <<options[1]>> \in [1 .. 1 -> Choices] /\ 1 \in 0 .. MaxOptions
      BY <2>1, <2>3
    <2>5. <<options[1]>> \in Value
      BY <2>4 DEF Value, Lists
    <2>6. Elements(<<options[1]>>) \subseteq Elements(options)
      BY <2>3 DEF Elements
    <2>7. Elements(Shown(<<options[1]>>)) \subseteq Elements(Shown(options))
      BY <2>5, <2>6, ShownElements
    <2>8. QED
      BY <2>2, <2>5, <2>7 DEF Variable, FitsIn
  <1>3. QED
    BY <1>1, <1>2

LEMMA SetOffered ==
    ASSUME TypesInv, OfferedInv, NEW v \in Variables, NEW variable \in Variable,
           onValueUpdate(v, variable),
           \A w \in Variables \ {v} : optionsData'[w] = optionsData[w],
           FitsIn(variable, optionsData'[v])
    PROVE  variables' \in [Variables -> Variable] /\ OfferedInv'
  <1>1. variables' = [variables EXCEPT ![v] = variable]
    BY DEF onValueUpdate
  <1>2. /\ variables' \in [Variables -> Variable] /\ variables'[v] = variable
        /\ \A w \in Variables \ {v} : variables'[w] = variables[w]
    BY <1>1 DEF TypesInv
  <1>3. QED
    BY <1>2, DashboardVariablesAssumption DEF OfferedInv

LEMMA SucceedOffered ==
    ASSUME TypesInv, OfferedInv, NEW v \in Variables, Succeed(v)
    PROVE  TypesInv' /\ OfferedInv'
  <1> DEFINE options == Returned(v)
  <1>1. /\ getOptions(v, options) /\ v \in fetching
        /\ fetching' = fetching \ {v}
        /\ UNCHANGED <<time, observed>>
    BY DEF Succeed
  <1>2. options \in Value
    BY <1>1, DashboardVariablesAssumption DEF TypesInv, Returned
  <1> HIDE DEF options
  <1>3. /\ time' \in TimeRanges /\ fetching' \subseteq Fetched
        /\ \A w \in fetching' :
              observed'[w] \in [values : [Parents[w] -> Lists(Strings)], time : TimeRanges]
    BY <1>1 DEF TypesInv
  <1>4. CASE options = <<>> \/ options = optionsData[v]
    BY <1>1, <1>3, <1>4 DEF getOptions, OfferedInv, TypesInv
  <1>5. CASE options # <<>> /\ options # optionsData[v]
    <2>1. optionsData' = [optionsData EXCEPT ![v] = options]
      BY <1>1, <1>5 DEF getOptions
    <2>2. /\ optionsData' \in [Variables -> Value] /\ optionsData'[v] = options
          /\ \A w \in Variables \ {v} : optionsData'[w] = optionsData[w]
      BY <1>2, <2>1 DEF TypesInv
    <2>3. CASE v \in queue \/ ValueNotInList(v, options) \/ variables[v].allSelected
      <3>1. onValueUpdate(v, DefaultValue(v, options))
        BY <1>1, <1>5, <2>3 DEF getOptions
      <3>2. variables' \in [Variables -> Variable] /\ OfferedInv'
        <4>1. DefaultValue(v, options) \in Variable /\ FitsIn(DefaultValue(v, options), options)
          BY <1>2, <1>5, DefaultOffered
        <4>2. QED
          BY <2>2, <3>1, <4>1, SetOffered
      <3>3. QED
        BY <1>3, <2>2, <3>2 DEF TypesInv
    <2>4. CASE ~(v \in queue \/ ValueNotInList(v, options) \/ variables[v].allSelected)
      <3>1. variables' = variables
        BY <1>1, <1>5, <2>4 DEF getOptions
      <3>2. /\ LookedUp(variables[v]) =>
                  Elements(variables[v].selectedValue) \subseteq Elements(options)
            /\ ~variables[v].allSelected /\ variables[v].selectedValue \in Value
        BY <2>4 DEF ValueNotInList, LookedUp, TypesInv, Variable
      <3>5. FitsIn(variables[v], options)
        BY <1>2, <3>2, ShownElements DEF FitsIn
      <3>3. OfferedInv'
        BY <2>2, <3>1, <3>5, DashboardVariablesAssumption DEF OfferedInv
      <3>4. QED
        BY <1>3, <2>2, <3>1, <3>3 DEF TypesInv
    <2>5. QED
      BY <2>3, <2>4
  <1>6. QED
    BY <1>4, <1>5

LEMMA FlushOffered ==
    ASSUME TypesInv, OfferedInv, Flush
    PROVE  TypesInv' /\ OfferedInv'
  <1>1. /\ observed' = [v \in Variables |-> IF v \in Fetched THEN getQueryKey(v) ELSE None]
        /\ fetching' = fetching \cup {v \in Variables : KeyChanged(v)}
        /\ UNCHANGED <<variables, optionsData, time>>
    BY DEF Flush
  <1>2. fetching' \subseteq Fetched
    BY <1>1 DEF TypesInv, KeyChanged
  <1>3. \A w \in fetching' :
           observed'[w] \in [values : [Parents[w] -> Lists(Strings)], time : TimeRanges]
    BY <1>1, <1>2, KeyTyped, DashboardVariablesAssumption
  <1>4. QED
    BY <1>1, <1>2, <1>3 DEF TypesInv, OfferedInv

LEMMA ChosenOffered ==
    ASSUME TypesInv, OfferedInv, NEW v \in Variables, NEW variable \in Variable,
           onValueUpdate(v, variable), UNCHANGED <<time, client>>,
           FitsIn(variable, optionsData[v])
    PROVE  TypesInv' /\ OfferedInv'
  <1>1. variables' \in [Variables -> Variable] /\ OfferedInv'
    BY SetOffered DEF client
  <1>2. QED
    BY <1>1 DEF TypesInv, client

LEMMA OpenOffered ==
    ASSUME TypesInv, OfferedInv, NEW reload \in BOOLEAN, Open(reload)
    PROVE  TypesInv' /\ OfferedInv'
  <1>1. optionsData' = MountedOptions /\ fetching' = {} /\ UNCHANGED <<variables, time>>
    BY DEF Open
  <1>2. MountedOptions \in [Variables -> Value] /\ \A w \in Fetched : MountedOptions[w] = <<>>
    BY EmptyValue, DashboardVariablesAssumption DEF MountedOptions
  <1>3. QED
    BY <1>1, <1>2 DEF TypesInv, OfferedInv

LEMMA OfferedInit == Init => TypesInv /\ OfferedInv
  <1> SUFFICES ASSUME Init PROVE TypesInv /\ OfferedInv
    OBVIOUS
  <1>1. /\ optionsData = MountedOptions /\ fetching = {}
        /\ variables \in InitialVariables /\ time \in TimeRanges
    BY DEF Init
  <1>2. MountedOptions \in [Variables -> Value] /\ \A w \in Fetched : MountedOptions[w] = <<>>
    BY EmptyValue, DashboardVariablesAssumption DEF MountedOptions
  <1>3. QED
    BY <1>1, <1>2, DashboardVariablesAssumption DEF TypesInv, OfferedInv

LEMMA OfferedStep == TypesInv /\ OfferedInv /\ [Next]_vars => TypesInv' /\ OfferedInv'
  <1> SUFFICES ASSUME TypesInv, OfferedInv, [Next]_vars PROVE TypesInv' /\ OfferedInv'
    OBVIOUS
  <1>1. CASE Flush
    BY <1>1, FlushOffered
  <1>2. ASSUME NEW v \in Variables, Succeed(v) PROVE TypesInv' /\ OfferedInv'
    BY <1>2, SucceedOffered
  <1>3. ASSUME NEW v \in Variables, Fail(v) PROVE TypesInv' /\ OfferedInv'
    BY <1>3 DEF Fail, TypesInv, OfferedInv
  <1>4. ASSUME NEW v \in Variables, ChooseAll(v) PROVE TypesInv' /\ OfferedInv'
    <2> DEFINE all == [selectedValue |-> optionsData[v], isArray |-> TRUE, allSelected |-> TRUE]
    <2>1. all \in Variable /\ FitsIn(all, optionsData[v])
      BY DEF TypesInv, Variable, FitsIn
    <2>2. QED
      BY <1>4, <2>1, ChosenOffered DEF ChooseAll
  <1>5. ASSUME NEW v \in Variables, NEW value \in Selection, NEW isArray \in BOOLEAN,
               Choose(v, value, isArray)
        PROVE  TypesInv' /\ OfferedInv'
    <2> DEFINE some == [selectedValue |-> value, isArray |-> isArray, allSelected |-> FALSE]
    <2>1. some \in Variable
      BY DEF Selection, Variable
    <2>2. FitsIn(some, optionsData[v])
      BY <1>5 DEF Choose, FitsIn
    <2>3. QED
      BY <1>5, <2>1, <2>2, ChosenOffered DEF Choose
  <1>6. ASSUME NEW t \in TimeRanges, SelectTime(t) PROVE TypesInv' /\ OfferedInv'
    BY <1>6 DEF SelectTime, client, TypesInv, OfferedInv
  <1>7. ASSUME NEW reload \in BOOLEAN, Open(reload) PROVE TypesInv' /\ OfferedInv'
    BY <1>7, OpenOffered
  <1>8. CASE UNCHANGED vars
    BY <1>8 DEF vars, client, TypesInv, OfferedInv
  <1>9. QED
    BY <1>1, <1>2, <1>3, <1>4, <1>5, <1>6, <1>7, <1>8 DEF Next

(* The value of a variable is among the options it has, and one that is set to all of *)
(* them has all of them, however options change; but for one number or boolean.       *)
THEOREM ValueOfferedHolds == Spec => []ValueOffered
  <1>1. Spec => [](TypesInv /\ OfferedInv)
    BY OfferedInit, OfferedStep, PTL DEF Spec
  <1>2. TypesInv /\ OfferedInv => ValueOffered
    BY DEF OfferedInv, ValueOffered, FitsIn, LookedUp
  <1>3. QED
    BY <1>1, <1>2, PTL
=============================================================================
