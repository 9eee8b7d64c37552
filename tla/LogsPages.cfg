SPECIFICATION Spec
CONSTANTS
    newest = newest
    oldest = oldest
    slowest = slowest
    today = today
    week = week
    None = None
    Queries = {newest, oldest, slowest}
    Ranges = {today, week}
    Relative = {today}
    Order <- MCOrder
    Limit <- MCLimit
    Found <- MCFound
    PageSize = 2
    TicksPerMs = 2
    MaxSteps = 4
CHECK_DEADLOCK FALSE
INVARIANTS
    PagesComplete
    OnlyStaged
PROPERTIES
    ComesToRest
