SPECIFICATION SafetySpec
CONSTANTS
    URI <- RaceURI
    Refs <- RaceRefs
    Hydrated <- RaceRefs
    Kind <- RaceKind
    Incomplete = {}
    Remote <- RaceRemote
    CID = {"c1", "c2"}
    Scripts <- RaceScripts
    Schedulers = {"retry", "deferred"}
    MaxAttempts = 2
    Limit = 5
    MaxAge = 2
    MaxDepth = 2
    MaxFetch = 1
    MaxLog = 6
    FaultyDB = TRUE
    MaxFaults = 1
    MaxResets = 1
INVARIANTS CausalLinks RowsMatchLog NoLostWakeup OnlyRetryLeaks ThreadsHold
CHECK_DEADLOCK FALSE
