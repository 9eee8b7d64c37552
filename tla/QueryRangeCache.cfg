SPECIFICATION CacheSpec
CONSTANTS
    alice = alice
    bob = bob
    None = None
    Clients = {alice, bob}
    FluxInterval = 1
    Round = 2
    Faulty = TRUE
    Start = 3
    MaxNow = 4
    MaxQueries = 3
SYMMETRY SymmetricClients
CHECK_DEADLOCK FALSE
INVARIANTS
    CacheComplete
    ServedCovers
PROPERTIES
    MissesExact
