SPECIFICATION Spec
CONSTANTS
    Messages = {m1, m2, m3, m4}
    Caps = {1, 2}
    MaxFaults = 1
INVARIANTS
    WithinCap
    OnceEach
    NoOvertaking
PROPERTIES
    Settled
