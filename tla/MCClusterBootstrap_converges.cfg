SPECIFICATION FairSpec
CONSTANTS
    a = a
    b = b
    w = w
    NoMachine = NoMachine
    ControlPlane = {a, b}
    Workers = {w}
    MaxEdits = 2
INVARIANTS
    TrustsStoredBundle
    HealthyIsUsable
PROPERTIES
    RecordedConverges
