CONSTANTS
    r1 = r1  r2 = r2
    Records = {r1, r2}
    Accepted = {r1, r2}
    Torn = Torn
    MayFail = {"crash"}
    MaxFaults = 1
SPECIFICATION Spec
INVARIANTS
    CountedIsReadable
