SPECIFICATION Spec
CONSTANTS
    Words = 2
    IdentifyWords = 1
    MaxCount = 4
    Sectors = {0, 1, 2, 3}
    Bad = {3}
    Counts = {0, 1, 3}
    Kinds <- MCKinds
INVARIANTS
    TypeOK
    ReadsRight
    WritesLand
    IdentifyTells
    BusInvariant
PROPERTIES
    ImplementsDisk
    CallsReturn
CHECK_DEADLOCK FALSE
