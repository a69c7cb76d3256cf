SPECIFICATION Spec
CONSTANTS
    Roles = {q, d}
    Quick = {q}
    Nobody = Nobody
    Names = {w1, w2, w3}
    MaxWorkers = 2
    Limit = 0
    MaxTasks = 4
    MaxFaults = 1
INVARIANTS
    WithinCap
    ClaimedOnce
PROPERTIES
    Lifecycle
    QuickServed
