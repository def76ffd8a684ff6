SPECIFICATION RoomSpec
CONSTANTS
    Identities = {"room", "f1"}
    RoomFeed = "room"
    Conns = {1, 2}
    ChanCap = 1
    Names = {1}
    Workers = {w1, w2}
    MaxRequests = 3
    MaxOrders = 1
    Feeds = {"x", "y"}
    MaxStale = 1
    MaxTime = 2
    MaxPublished = 1
    MaxFaults = 1
SYMMETRY WorkerSymmetry
INVARIANTS
    StreamsCatchUp
    PresenceFollows
    CredentialsHold
    
CHECK_DEADLOCK FALSE
