CONSTANTS
    r0 = r0  r1 = r1  r2 = r2  u1 = u1
    gold = gold  gems = gems  silver = silver  other = other
    None = None
    Records = {r1, r2}
    Users = {u1}
    Currencies = {gold, gems, silver, other}
    Other = other
    Allowed = {gold, gems, silver, other}
    Cap = 1
    UserOf <- MCUserOf
    CurrencyOf <- MCCurrencyOf
    FlowOf <- SameFlowOf
    AmountOf <- MCAmountOf
    Segmented = {r2}
    Depth = {r1, r2}
    AsOf <- MCAsOf
    Arrived <- MCArrived
    IdOf <- MCIdOf
    Sweeps = {s1}
    Viewed = {other}
    Registries <- MCRegistries
    StoredBalances <- MCStored
    MaxTrouble = 1
SPECIFICATION Spec
INVARIANTS
    FlowsAddUp
    LatestBalanceWins
    PageWithinFlows
PROPERTIES
    NewerBalanceStays
CHECK_DEADLOCK FALSE
