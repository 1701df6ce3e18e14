CONSTANTS
    NoSession = NoSession
    Calls = {c1, c2, c3}
    MaxSessions = 3
    MaxPageKills = 2
    MaxStorageFailures = 1
SPECIFICATION TrackerSpec
INVARIANTS
    EndsOnce
    RecordCoversSession
    LostOnlyByOverlap
PROPERTIES
    SessionsEnd
CHECK_DEADLOCK FALSE
