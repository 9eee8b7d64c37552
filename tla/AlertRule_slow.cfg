SPECIFICATION Spec
CONSTANTS
    s1 = s1
    s2 = s2
    Series = {s1}
    AlertOnAbsent = FALSE
    AbsentFor = 1
    HoldDuration = 0
    Retention = 8
    ResendDelay = 2
    Frequency = 2
    Start = 4
    MaxTime = 18
    MaxLag = 3
    MaxReaderFaults = 1
INVARIANTS
    TypeOK
    KeptAlive
    NoStaleFiring
    SinceOnset
PROPERTIES
    SlotsInOrder
