CONSTANTS
    Slots = {s1, s2}
    Faulty = {s1}
    MaxConnections = 2
    MaxFailures = 1
    BatchSizes = {2}
    MaxAccepted = 3
    MaxBatches = 3
    MaxReloads = 1
SPECIFICATION SessionsSpec
INVARIANTS FailuresBounded ReloadApplies RepliesMove
PROPERTIES SessionsEnd
CHECK_DEADLOCK FALSE
