SPECIFICATION FairSpec
CONSTANTS
    a = a
    b = b
    o1 = o1
    Procs = {a, b}
    Kinds = 2
    Objects = {o1}
    Configs <- OneOfEach
    MaxEdits = 1
INVARIANTS
    ServerHasItsParts
PROPERTIES
    MigratedStays
    ComesUp
CHECK_DEADLOCK FALSE
