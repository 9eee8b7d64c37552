SPECIFICATION Spec
CONSTANTS
    alice = alice
    bob = bob
    cpu = cpu
    disk = disk
    broken = broken
    None = None
    Clients = {alice, bob}
    Conditions = {cpu}
    Loadable = {cpu}
    MaxRules = 1
    MaxRequests = 2
    DisableRules = FALSE
    Trouble = {"overlap"}
INVARIANTS
    DisabledHasNoTask
