-------------------------- MODULE DashboardVariables --------------------------
(***************************************************************************)
(* The variables of a dashboard (DashboardVariablesSelection): the options *)
(* of a query variable are fetched for the values of the variables that    *)
(* its query mentions and for the time range.  When the value of a         *)
(* variable changes, those that mention it are put into a queue, and the   *)
(* panels of the dashboard wait until the queue is empty; a variable       *)
(* leaves it when its options have been fetched, and is given a value      *)
(* among them when it was in the queue or its value is not offered.        *)
(*                                                                         *)
(* A value is a sequence of choices, with a mark whether the code has it   *)
(* as an array or as one string, number or boolean; the empty sequence is  *)
(* the undefined value.  Flush is the effects of a render; answers do not  *)
(* come between a change and the render that follows it.                   *)
(***************************************************************************)
EXTENDS Integers, Sequences, FiniteSets

CONSTANTS
    Variables,          \* names of variables
    Fetched,            \* those of type QUERY
    MultiSelect,        \* those that are multi-select
    Parents,            \* of a variable: those its query mentions
    customOptions,      \* of the others: the list that is typed in
    Offered(_, _, _),   \* what a query returns, sorted: of a variable, the values of
                        \* its parents and a time range
    Choices,            \* what options may be: strings, numbers, booleans
    toString,           \* of each choice; a string's is the string itself
    TimeRanges,
    InitialVariables,   \* what dashboards are opened with
    None,
    MaxOptions,         \* bound: the length of a list of options
    MaxSteps            \* bound: what the user does

Lists(S) == UNION {[1 .. n -> S] : n \in 0 .. MaxOptions}

Value == Lists(Choices)

Strings == {c \in Choices : toString[c] = c}

Variable == [selectedValue : Value, isArray : BOOLEAN, allSelected : BOOLEAN]

ASSUME DashboardVariablesAssumption ==
    /\ Fetched \subseteq Variables /\ MultiSelect \subseteq Variables
    /\ Parents \in [Variables -> SUBSET Variables]
    /\ \A v \in Variables \ Fetched : Parents[v] = {}
    /\ customOptions \in [Variables \ Fetched -> Value]
    /\ InitialVariables \subseteq [Variables -> Variable]
    /\ toString \in [Choices -> Strings]
    /\ \A v \in Fetched : \A values \in [Parents[v] -> Lists(Strings)], t \in TimeRanges :
          Offered(v, values, t) \in Value
    /\ None \notin TimeRanges
    /\ MaxOptions \in Nat /\ MaxSteps \in Nat

VARIABLES
    variables,     \* selectedDashboard.data.variables
    queue,         \* variablesToGetUpdated
    optionsData,   \* of each variable
    time,          \* minTime and maxTime
    timeSeen,      \* the range for which the time effect ran last
    observed,      \* the query key of each variable
    fetching,      \* the variables that are being fetched
    failed,        \* the variables that could not be
    ahead,         \* history: set by the user before their options were fetched
    restated,      \* history: queued although no value changed
    answered,      \* history: of each variable, the key its options are for
    steps          \* what the user has done

client == <<optionsData, timeSeen, observed, fetching, failed, answered>>
vars == <<variables, queue, time, client, ahead, restated, steps>>

-----------------------------------------------------------------------------
Elements(s) == {s[i] : i \in DOMAIN s}

\* A list as it is shown, and as it is part of the key of a query.
Shown(s) == [i \in DOMAIN s |-> toString[s[i]]]

\* What a user can select: each option once, as it is or as the string that is shown.
Selection ==
    {value \in Value :
        \A i, j \in DOMAIN value : toString[value[i]] = toString[value[j]] => i = j}

(* Mutant: the time range is not part of it. *)
KeyWithoutTime(v) ==
    [values |-> [p \in Parents[v] |-> Shown(variables[p].selectedValue)],
     time |-> CHOOSE t \in TimeRanges : TRUE]

getQueryKey(v) ==
    [values |-> [p \in Parents[v] |-> Shown(variables[p].selectedValue)], time |-> time]

(* Mutant: those whose options were fetched are not queued again. *)
DependentsUnanswered(v) == {w \in Fetched : v \in Parents[w] /\ answered[w] = None}

Dependents(v) == {w \in Fetched : v \in Parents[w]}

\* What a variable is set to that was in the queue, or whose value is not offered.
DefaultValue(v, options) ==
    IF v \in MultiSelect
    THEN [selectedValue |-> options, isArray |-> TRUE, allSelected |-> TRUE]
    ELSE [selectedValue |-> <<options[1]>>, isArray |-> FALSE, allSelected |-> FALSE]

\* useQuery fetches when its item is mounted, and when the key is another one.
KeyChanged(v) == v \in Fetched /\ (timeSeen = None \/ observed[v] # getQueryKey(v))

FlushNeeded == timeSeen # time \/ \E v \in Variables : KeyChanged(v)

-----------------------------------------------------------------------------
\* What a mounted item has: the list that is typed in, or no options yet.
MountedOptions ==
    [v \in Variables |-> IF v \in Fetched THEN <<>> ELSE customOptions[v]]

Init ==
    /\ variables \in InitialVariables
    /\ queue = {}
    /\ optionsData = MountedOptions
    /\ time \in TimeRanges /\ timeSeen = None
    /\ observed = [v \in Variables |-> None]
    /\ fetching = {} /\ failed = {}
    /\ answered = [v \in Variables |-> None]
    /\ ahead = {} /\ restated = {}
    /\ steps = 0

(* Mutant: the time effect is run at every render. *)
FlushEveryRender ==
    /\ FlushNeeded
    /\ queue' = queue \cup {v \in Fetched : variables[v].allSelected}
    /\ observed' = [v \in Variables |-> IF v \in Fetched THEN getQueryKey(v) ELSE None]
    /\ fetching' = fetching \cup {v \in Variables : KeyChanged(v)}
    /\ failed' = {v \in failed : ~KeyChanged(v)}
    /\ UNCHANGED <<variables, optionsData, time, timeSeen, answered, ahead, restated, steps>>

\* The effects of a render: another range queues what is set to all options, and
\* another key is fetched.
Flush ==
    /\ FlushNeeded
    /\ queue' = queue \cup (IF timeSeen = time THEN {}
                            ELSE {v \in Fetched : variables[v].allSelected})
    /\ timeSeen' = time
    /\ observed' = [v \in Variables |-> IF v \in Fetched THEN getQueryKey(v) ELSE None]
    /\ fetching' = fetching \cup {v \in Variables : KeyChanged(v)}
    /\ failed' = {v \in failed : ~KeyChanged(v)}
    /\ UNCHANGED <<variables, optionsData, time, answered, ahead, restated, steps>>

-----------------------------------------------------------------------------
(* Mutant: the variable stays in the queue. *)
QueueKeeping(v, variable) ==
    /\ variables' = [variables EXCEPT ![v] = variable]
    /\ queue' = queue \cup Dependents(v)
    /\ restated' = (restated \ {v}) \cup
                   {w \in Dependents(v) :
                       Shown(variable.selectedValue) = Shown(variables[v].selectedValue)}

\* A value is set: what depends on it is queued, the variable is not any more.
onValueUpdate(v, variable) ==
    /\ variables' = [variables EXCEPT ![v] = variable]
    /\ queue' = (queue \ {v}) \cup Dependents(v)
    /\ restated' = (restated \ {v}) \cup
                   {w \in Dependents(v) :
                       Shown(variable.selectedValue) = Shown(variables[v].selectedValue)}

\* Of an array every element is looked up, of other values only a string.
ValueNotInList(v, options) ==
    /\ variables[v].isArray \/ Elements(variables[v].selectedValue) \subseteq Strings
    /\ ~(Elements(variables[v].selectedValue) \subseteq Elements(options))

(* Mutant: only what is in the queue gets another value. *)
OptionsForQueued(v, options) ==
    \/ /\ options = <<>>
       /\ UNCHANGED <<variables, queue, optionsData, restated>>
    \/ /\ options # <<>> /\ options = optionsData[v]
       /\ queue' = queue \ {v} /\ restated' = restated \ {v}
       /\ UNCHANGED <<variables, optionsData>>
    \/ /\ options # <<>> /\ options # optionsData[v]
       /\ optionsData' = [optionsData EXCEPT ![v] = options]
       /\ IF v \in queue
          THEN onValueUpdate(v, DefaultValue(v, options))
          ELSE UNCHANGED <<variables, queue, restated>>

\* When a query returns no rows, the service sends null and not an empty list: options,
\* value and queue stay as they are.
getOptions(v, options) ==
    \/ /\ options = <<>>
       /\ UNCHANGED <<variables, queue, optionsData, restated>>
    \/ /\ options # <<>> /\ options = optionsData[v]
       /\ queue' = queue \ {v} /\ restated' = restated \ {v}
       /\ UNCHANGED <<variables, optionsData>>
    \/ /\ options # <<>> /\ options # optionsData[v]
       /\ optionsData' = [optionsData EXCEPT ![v] = options]
       /\ IF v \in queue \/ ValueNotInList(v, options) \/ variables[v].allSelected
          THEN onValueUpdate(v, DefaultValue(v, options))
          ELSE UNCHANGED <<variables, queue, restated>>

\* What the query of v returns for the key that is observed.
Returned(v) == Offered(v, observed[v].values, observed[v].time)

\* The answer arrives.
Succeed(v) ==
    /\ ~FlushNeeded /\ v \in fetching
    /\ getOptions(v, Returned(v))
    /\ fetching' = fetching \ {v}
    /\ answered' = IF Returned(v) = <<>> THEN answered ELSE [answered EXCEPT ![v] = observed[v]]
    /\ ahead' = IF Returned(v) = <<>> THEN ahead ELSE ahead \ {v}
    /\ UNCHANGED <<time, timeSeen, observed, failed, steps>>

Fail(v) ==
    /\ ~FlushNeeded /\ v \in fetching
    /\ fetching' = fetching \ {v}
    /\ failed' = failed \cup {v}
    /\ UNCHANGED <<variables, queue, time, optionsData, timeSeen, observed, answered,
                   ahead, restated, steps>>

-----------------------------------------------------------------------------
UserStep == steps < MaxSteps /\ steps' = steps + 1 /\ ~FlushNeeded

\* handleChange: some of the options, in the order in which they were selected, or
\* none, when a single value is cleared.
Choose(v, value, isArray) ==
    /\ IF isArray THEN v \in MultiSelect /\ value # <<>> ELSE Len(value) <= 1
    /\ UserStep
    /\ Elements(Shown(value)) \subseteq Elements(Shown(optionsData[v]))
    /\ value = <<>> => v \notin MultiSelect \/ variables[v].allSelected
    /\ LET variable == [selectedValue |-> value, isArray |-> isArray, allSelected |-> FALSE]
       IN variables[v] # variable /\ onValueUpdate(v, variable)
    /\ ahead' = (ahead \ Dependents(v)) \cup (queue \cap {v})
    /\ UNCHANGED <<time, client>>

ChooseAll(v) ==
    /\ UserStep
    /\ v \in MultiSelect /\ optionsData[v] # <<>>
    /\ onValueUpdate(v, [selectedValue |-> optionsData[v], isArray |-> TRUE,
                         allSelected |-> TRUE])
    /\ ahead' = (ahead \ Dependents(v)) \cup (queue \cap {v})
    /\ UNCHANGED <<time, client>>

SelectTime(t) ==
    /\ UserStep /\ t # time
    /\ time' = t
    /\ UNCHANGED <<variables, queue, client, ahead, restated>>

\* The dashboard is left and opened again, or the application is loaded again: the
\* values are in local storage, the queue lives as long as the application.
Open(reload) ==
    /\ UserStep
    /\ optionsData' = MountedOptions
    /\ timeSeen' = None
    /\ observed' = [v \in Variables |-> None]
    /\ fetching' = {} /\ failed' = {}
    /\ answered' = [v \in Variables |-> None]
    /\ queue' = IF reload THEN {} ELSE queue
    /\ ahead' = {}
    /\ restated' = IF reload THEN {} ELSE restated
    /\ UNCHANGED <<variables, time>>

Next ==
    \/ Flush
    \/ \E v \in Variables : Succeed(v) \/ Fail(v) \/ ChooseAll(v)
    \/ \E v \in Variables, value \in Selection, isArray \in BOOLEAN : Choose(v, value, isArray)
    \/ \E t \in TimeRanges : SelectTime(t)
    \/ \E reload \in BOOLEAN : Open(reload)

\* Effects are run, and requests end.
Spec ==
    /\ Init /\ [][Next]_vars
    /\ WF_vars(Flush)
    /\ \A v \in Variables : WF_vars(Succeed(v) \/ Fail(v))

-----------------------------------------------------------------------------
TypeOK ==
    /\ variables \in [Variables -> Variable]
    /\ queue \subseteq Fetched
    /\ optionsData \in [Variables -> Value]
    /\ time \in TimeRanges /\ timeSeen \in TimeRanges \cup {None}
    /\ DOMAIN observed = Variables /\ DOMAIN answered = Variables
    /\ fetching \subseteq Fetched /\ failed \subseteq Fetched
    /\ fetching \cap failed = {}
    /\ ahead \subseteq Fetched /\ restated \subseteq queue
    /\ steps \in 0 .. MaxSteps

Idle == ~FlushNeeded /\ fetching = {}

\* What the query of v returns for the values there are.
Offers(v) == Offered(v, getQueryKey(v).values, time)

\* However values, ranges and answers follow one another, in the end the options of a
\* variable are what its query returns for the values of its parents and the range,
\* unless that is nothing, or could not be fetched.
OptionsCurrent ==
    Idle => \A v \in Fetched \ failed :
        Offers(v) # <<>> => optionsData[v] = Offers(v)

\* The value of a variable is then among its options, as they are shown, and one that
\* is set to all of them has all of them, although options change behind a value that
\* was chosen; unless it is one number or boolean, which is not looked up.
ValueOffered ==
    Idle => \A v \in Fetched \ failed : optionsData[v] # <<>> =>
        /\ variables[v].isArray \/ Elements(variables[v].selectedValue) \subseteq Strings =>
              Elements(Shown(variables[v].selectedValue))
                  \subseteq Elements(Shown(optionsData[v]))
        /\ variables[v].allSelected => variables[v].selectedValue = optionsData[v]

\* And then the panels no longer wait for a variable, but for one that could not be
\* fetched, whose query returned nothing, or that was queued when a variable was set to
\* the value it had: its key stays the same then, and nothing is fetched for it.
QueueDrains ==
    Idle => queue \subseteq failed \cup restated \cup {v \in Fetched : Offers(v) = <<>>}

\* The panels wait while the options of a variable are those for other values of its
\* parents, unless the user sets it before they are fetched.
PanelsWait ==
    \A v \in Fetched \ ahead :
        answered[v] # None /\ answered[v].values # getQueryKey(v).values => v \in queue

\* One change does not set off others for ever.
ComesToRest == <>[]Idle
=============================================================================
