SPECIFICATION TransportSpec
CONSTANTS
    AppKeys = {"x", "y"}
    Keys = {"k1", "k2"}
    BodyLengths = {0, 1, 3}
    MaxSegment = 2
    MaxPackets = 2
    MaxFrames = 1
    MaxCalls = 1
CHECK_DEADLOCK FALSE
INVARIANTS KeysAgree TrafficInOrder
PROPERTIES PlainIsPipe CallsReturn
