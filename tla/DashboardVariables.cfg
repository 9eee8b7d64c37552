SPECIFICATION Spec
CONSTANTS
    env = env
    cluster = cluster
    host = host
    pod = pod
    day = day
    week = week
    None = None
    Variables = {env, cluster, host, pod}
    Fetched = {cluster, host, pod}
    MultiSelect = {host}
    Parents <- MCParents
    customOptions <- MCCustom
    Offered <- MCOffered
    Choices = {1, 2, 3, 4}
    toString <- MCToString
    MaxOptions = 2
    TimeRanges = {day, week}
    InitialVariables <- MCInitial
    MaxSteps = 3
CHECK_DEADLOCK FALSE
INVARIANTS
    OptionsCurrent
    ValueOffered
    QueueDrains
    PanelsWait
PROPERTIES
    ComesToRest
