SPECIFICATION LiveSpec
CONSTANTS
    Callers = {"k1", "k2"}
    DID = {"a", "b"}
    Hash <- MCHash
    Workers = 2
    Capacity = 1
    MaxSends = 2
    MaxFaults = 2
    MaxSent = 1
CHECK_DEADLOCK FALSE
INVARIANTS OrderPerDID CloseDrains NothingCutOff
PROPERTIES EveryRecordSettles EveryPublishAnswered TunnelEnds
