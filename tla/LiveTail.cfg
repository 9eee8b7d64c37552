SPECIFICATION Spec
CONSTANTS
    everything = everything
    part = part
    None = None
    MaxLog = 3
    Filters = {everything, part}
    Found <- MCFound
    TickLimit = 2
    ListSize = 2
    Prefetched <- MCPrefetched
    MaxSteps = 3
CHECK_DEADLOCK FALSE
INVARIANTS
    OneConnection
    NewestFirst
    NothingLost
PROPERTIES
    CatchesUp
