SPECIFICATION FairSpec
CONSTANTS
    am1 = am1
    am2 = am2
    Alertmanagers = {am1, am2}
    QueueCapacity = 3
    MaxBatchSize = 2
    SendSizes = {1, 2, 4}
    MaxSent = 5
CHECK_DEADLOCK FALSE
INVARIANTS
    NoLostWakeup
    NewestKept
PROPERTIES
    KeepsContract
    QueueDrains
