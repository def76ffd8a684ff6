SPECIFICATION StoresSpec
CONSTANTS
    Feeds = {"a", "b"}
    Own = {"a"}
    Writers = {"w1", "w2"}
    MaxSeq = 2
    RetryLimit = 2
    MaxCalls = 2
    MaxFaults = 1
    Keys = {"m1", "m2", "m3"}
    MaxAdds = 2
    URIs = {1, 2, 3}
    States = {"p", "f"}
    Attempts = 0
    Limits = {1}
    DefaultLimit = 1
    MaxLimit = 2
    MaxClock = 2
    Peers = {"p"}
    MaxOwn = 2
    MaxForeign = 1
    Bits = 8
    Posts = {"p1", "p2"}
    MaxMappings = 2
    MaxImages = 2
    MaxHops = 3
    MaxMessages = 2
    None = None
CHECK_DEADLOCK FALSE
INVARIANTS KeysAndHistory  WrittenIsRead  
PROPERTIES LogsAppendOnly
