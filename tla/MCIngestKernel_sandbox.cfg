SPECIFICATION Spec
CONSTANTS
    n1 = n1
    n2 = n2
    o1 = o1
    j1 = j1
    j2 = j2
    r1 = r1
    r2 = r2
    Nodes = {n1, n2}
    Operators = {o1}
    Readers = {r1, r2}
    NodeOf <- MCNodeOf
    Jobs = {j1, j2}
    JobOf <- MCJobOf
    Requests <- MCRequests
    InitialRow <- MCRow
    InitialKey = "old"
    Deliveries <- MCSandboxDeliveries
    DigitRuns = {}
    Ttl = 1
    MaxLatency = 1
    MaxClock = 2
    MaxSets = 0
    MaxFaults = 1
INVARIANTS
    CountedOnce
CHECK_DEADLOCK FALSE
