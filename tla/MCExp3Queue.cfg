SPECIFICATION FairSpec
CONSTANTS
    p1 = p1
    n1 = n1
    n2 = n2
    n3 = n3
    n4 = n4
    NoConn = NoConn
    Conns <- AllConns
    Kind <- QueueKind
    Units <- QueueUnits
    Ended <- NoneBefore
    Started <- InOrder
    Outlasts <- POutlasts
    Prompt <- NoClients
    Brisk <- Shorts
    MaxFd = 5
    MAX_NON_PERSISTENT = 2
    BUFFER_SIZE = 1
    INACTIVE_TIMEOUT = 1
    NO_EVENT_TIMEOUT = 2
    Signals = FALSE
    MaxFailures = 0
CHECK_DEADLOCK FALSE
INVARIANT PlacesDisjoint
PROPERTY ServesInOrder
PROPERTY WaitersAreServed
PROPERTY StopsWhenNoneIsLeft
