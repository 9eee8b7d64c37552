SPECIFICATION FairSpec
CONSTANTS
    alice = alice
    bob = bob
    cpu = cpu
    disk = disk
    broken = broken
    None = None
    Clients = {alice, bob}
    Conditions = {cpu, disk}
    Loadable = {cpu, disk}
    MaxRules = 2
    MaxRequests = 2
    DisableRules = FALSE
    Trouble = {"patch condition", "insert fails"}
INVARIANTS
    Synced
    ReportedIsRunning
PROPERTIES
    RequestsEnd
