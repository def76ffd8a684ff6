SPECIFICATION NetSpec
CONSTANTS
    Nodes = {"d", "a"}
    Feeds = {"f"}
    Author <- MCAuthor
    MaxLinks = 1
    Overlap = FALSE
    Dialler <- MCDialler
    Acceptor <- MCAcceptor
    Publishers = {"p1", "p2"}
    MaxPublish = 2
    MaxFaults = 0
    MaxContent = 1
    MaxFrames = 6
    Addrs = {"h1", "h2"}
    Callers = {"c1", "c2"}
    MaxRestarts = 1
    MaxLosses = 1
    Accounts = {"a1", "a2"}
    MaxChanges = 2
CHECK_DEADLOCK FALSE
INVARIANTS ReplicasArePrefixes NoteNeverAhead
PROPERTIES   RoomFollowsAccounts
