SPECIFICATION Spec
CONSTANTS
    a1 = a1
    a2 = a2
    c1 = c1
    c2 = c2
    base = base
    edited = edited
    None = None
    Agents = {a1, a2}
    Conns = {c1, c2}
    Contents = {base, edited}
    Base = base
    Fallible = {edited}
    MaxVersion = 2
SYMMETRY Symmetric
CHECK_DEADLOCK FALSE
INVARIANTS
    TypeOK
    RegistryConsistent
    StatusWasAnswered
    AgentsUpToDate
PROPERTIES
    FirstAnswerCounts
