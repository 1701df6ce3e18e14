CONSTANTS
    s1 = s1  s1b = s1b  s2 = s2
    t0 = t0  t1 = t1  t2 = t2  u1 = u1  u2 = u2  a1 = a1  e1 = e1  eu = eu
    None = None
    Records = {s1, s1b}
    Arrivals = {{s1, s1b}}
    Companions = {}
    Eligible = {s1, s1b}
    Transactions = {t0, t1}
    Users = {u1, u2}
    Attempts = {a1}
    Events = {e1}
    Values = {eu}
    TxOf <- PairTxOf
    UserOf <- PairUserOf
    AttemptOf <- PairAttemptOf
    EventOf <- SameEvent
    ValueOf <- SameValue
    PriceOf <- PairPriceOf
    Parked = {}
    ValueCap = 1
    DolphinMin = 5
    WhaleMin = 100
    Before = {t0}
    Stored <- MovedStored
    Sweeps = {}
    MaxFailures = 1
    TopPercents = {50}
SPECIFICATION Spec
INVARIANTS
    CommittedIsCounted
CHECK_DEADLOCK FALSE
