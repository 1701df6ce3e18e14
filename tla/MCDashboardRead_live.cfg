CONSTANTS
    r1 = r1  r2 = r2  r3 = r3
    j1 = j1  j2 = j2
    e1 = e1  e2 = e2  e3 = e3
    day = day  exc = exc  cat = cat
    n1 = n1  n2 = n2
    Sweeps = {s1}
    Pages = {q1}
    Records = {r1, r2}
    Windowed = {r1, r2}
    Jobs = {j1}
    Events = {e1, e2}
    Names = {n1}
    Buckets = {day, cat}
    PlanOf <- PlanOfDayCat
    JobOf <- PairJobOf
    EventOf <- PairEventOf
    Touches <- DayCatTouches
    Floors <- EmptyOrCounted
    MaxCrashes = 0
    MaxSweepFails = 0
    MaxRecordFails = 0
    MaxLosses = 0
    MaxFailures = 0
SPECIFICATION FairDashboardSpec
INVARIANTS
    PageWithinCounts
PROPERTIES
    CatchesUp
