CONSTANTS
    r1 = r1  r2 = r2  r3 = r3
    j1 = j1  j2 = j2
    e1 = e1  e2 = e2  e3 = e3
    day = day  exc = exc  cat = cat
    n1 = n1  n2 = n2
    Sweeps = {s1, s2}
    Records = {r1, r2, r3}
    Windowed = {r1, r2}
    Jobs = {j1, j2}
    Events = {e1, e2, e3}
    Names = {n1}
    Buckets = {day, exc}
    PlanOf <- PlanOfDayExc
    JobOf <- SplitJobOf
    EventOf <- ThreeEventOf
    Touches <- DayExcTouches
    Floors <- EmptyOrCounted
    MaxCrashes = 1
    MaxSweepFails = 1
    MaxRecordFails = 1
    MaxLosses = 1
    MaxFailures = 1
SPECIFICATION Spec
INVARIANTS
    PublishedWithinCounted
    AtMostOnce
    NothingForgottenWithoutFailure
PROPERTIES
    ImplementsPublishedCount
