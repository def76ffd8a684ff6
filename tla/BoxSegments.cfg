SPECIFICATION TransportSpec
CONSTANTS
    AppKeys = {"x"}
    Keys = {"k1"}
    BodyLengths = {1}
    MaxSegment = 2
    MaxPackets = 1
    MaxFrames = 1
    MaxCalls = 1
CHECK_DEADLOCK FALSE
INVARIANT SegmentsOpen
