SPECIFICATION Spec
CONSTANTS
    Devices = {d1, d2}
    None = None
    DeadAfter = 4
    Timeout = 5
    Prompt = 1
    MaxFaults = 1
INVARIANTS
    Healthy
PROPERTIES
    OneTerminal
    NoLockout
