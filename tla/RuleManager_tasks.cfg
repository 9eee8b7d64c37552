SPECIFICATION Spec
CONSTANTS
    alice = alice
    bob = bob
    cpu = cpu
    disk = disk
    broken = broken
    None = None
    Clients = {alice, bob}
    Conditions = {cpu, broken}
    Loadable = {cpu}
    MaxRules = 2
    MaxRequests = 3
    DisableRules = FALSE
    Trouble = {"overlap", "unknown id", "patch condition", "create disabled", "insert fails", "commit fails", "update fails", "delete fails", "load fails"}
SYMMETRY SymmetricClients
INVARIANTS
    OneTaskPerRule
    StoppedOnce
