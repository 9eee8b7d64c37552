SPECIFICATION Spec
CONSTANTS
    traces = traces
    editor = editor
    dashboards = dashboards
    sum = sum
    noop = noop
    count = count
    all = all
    some = some
    None = None
    Explorers = {traces}
    Editor = editor
    Plain = dashboards
    MaxQueries = 3
    Operators = {sum, noop, count}
    Noop = noop
    Count = count
    Filters = {all, some}
    Unfiltered = all
    Links <- MCLinks
    Ids = {1, 2, 3, 4, 5, 6, 7, 8, 9, 10, 11}
    DefaultId = 1
    MaxSteps = 5
CHECK_DEADLOCK FALSE
INVARIANTS
    StagedIsUrl
    EditsKept
    NamesDistinct
    SupersetAligned
PROPERTIES
    Settles
