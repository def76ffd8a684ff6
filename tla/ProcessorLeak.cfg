SPECIFICATION Spec
CONSTANTS
    URI <- StarveURI
    Refs <- StarveRefs
    Hydrated <- StarveRefs
    Kind <- StarveKind
    Incomplete = {}
    Remote <- NoRemote
    CID = {"c1"}
    Scripts <- StarveScripts
    Schedulers = {"retry", "deferred", "expiry"}
    MaxAttempts = 2
    Limit = 1
    MaxAge = 2
    MaxDepth = 2
    MaxFetch = 1
    MaxLog = 6
    FaultyDB = FALSE
    MaxFaults = 0
    MaxResets = 0
CHECK_DEADLOCK FALSE
INVARIANT NoPlaceholderPublished
