CONSTANTS
    r1 = r1  r2 = r2
    Records = {r1, r2}
    Accepted = {r1}
    Torn = Torn
    MayFail = {"crash", "flush", "short", "ship"}
    MaxFaults = 1
SPECIFICATION FairSpec
INVARIANTS
    CountedIsDurable
    RowMeansReadable
    OnTimeSurvives
PROPERTIES
    SealedIsShipped
