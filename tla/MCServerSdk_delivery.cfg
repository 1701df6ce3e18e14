CONSTANTS
    None = None
    Rows = {1, 2, 3}
    Slots = {s1}
    CacheTtl = 2
    Rate = 1
    Burst = 1
    MaxTrouble = 1
    Cap = 2
    BatchMax = 2
    Budget = 1
    FlushOnPurchase = TRUE
SPECIFICATION Spec
INVARIANTS
    RevocationTakesEffect
    AckedIsQueued
    ShutdownDrains
PROPERTIES
    RowsSettle
CHECK_DEADLOCK FALSE
