SPECIFICATION Spec
CONSTANTS
    Kinds = {"post", "private"}
    Requests = {}
    MaxMsgs = 1
    MaxFaults = 0
    MaxOrders = 1
PROPERTY FailuresPersisted
CHECK_DEADLOCK FALSE
