CONSTANTS
    Tasks = {t1, t2}
    NoTask = NoTask
    MaxSessions = 2
    MaxGen = 2
    MaxCalls = 2
    MaxFaults = 1
SPECIFICATION Spec
INVARIANTS TypeOK NoSelfReuse NewestPair OwnTokens
PROPERTIES StaysSignedIn RequestsEnd
CHECK_DEADLOCK FALSE
