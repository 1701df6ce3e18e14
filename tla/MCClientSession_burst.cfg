CONSTANTS
    NoSession = NoSession
    Calls = {c1, c2}
    MaxSessions = 3
    MaxPageKills = 0
    MaxStorageFailures = 0
SPECIFICATION TrackerSpec
INVARIANTS
    TimesOutAfterActivity
CHECK_DEADLOCK FALSE
