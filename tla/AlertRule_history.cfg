SPECIFICATION Spec
CONSTANTS
    s1 = s1
    s2 = s2
    Series = {s1, s2}
    AlertOnAbsent = TRUE
    AbsentFor = 1
    HoldDuration = 0
    Retention = 3
    ResendDelay = 1
    Frequency = 2
    Start = 4
    MaxTime = 14
    MaxLag = 1
    MaxReaderFaults = 0
SYMMETRY SymmetricSeries
INVARIANTS
    HistoryAgrees
