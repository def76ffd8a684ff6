SPECIFICATION FaultsSpec
CONSTANTS
    Kinds = {"reply", "follow", "unfollow", "private"}
    Requests = {"q1", "q2"}
    MaxMsgs = 2
    MaxFaults = 1
    MaxOrders = 1
    BlobIds = {1, 2}
    Fetchers = {1}
    Records = {2}
    Uploads = {3}
    Streams = {1}
    Tries = 1
    ChanCap = 1
    MaxCrashes = 1
    NoBlob = 0
    Free = 0
    Nodes = {"d", "a"}
    Feeds = {"f"}
    MaxLinks = 2
    Publishers = {"p1"}
    MaxPublish = 1
    MaxContent = 1
    MaxFrames = 2
    Members = {"x", "y"}
    Bot = "bot"
    AnnounceCap = 2
    MaxPerWindow = 1
    MaxAnnounces = 3
INVARIANTS
    PublishedOnce
    NothingPassedOver
    CorrelatedFirst
    BlobsAreServed
    
CHECK_DEADLOCK FALSE
