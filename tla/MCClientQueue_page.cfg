CONSTANTS
    None = None
    Events = {e1, e2}
    Money = {e2}
    Cap = 1
    BatchMax = 2
    Ttl = 1
    Window = 1
    Backends = {"indexeddb", "localstorage", "memory"}
    MaxTime = 2
    MaxKills = 2
    MaxFailures = 2
SPECIFICATION Spec
INVARIANTS
    DuplicatesAbsorbed
PROPERTIES
    ImplementsHandoff
    QueueDrains
CHECK_DEADLOCK FALSE
