SPECIFICATION FairSpec
CONSTANTS
    a = a
    b = b
    c = c
    NoConn = NoConn
    Conns <- ThreeConns
    Units <- ThreeUnits
    Ended <- NoneBefore
    Started <- NoneBefore
    Outlasts <- NoneBefore
    MaxFd = 2
    BUFFER_SIZE = 2
    PACKET_SIZE = 2
    Signals = TRUE
    MaxFailures = 1
    MaxCount = 3
CHECK_DEADLOCK FALSE
INVARIANT PairsWithinReads
INVARIANT BytesHaveASide
INVARIANT NeverUndercounts
PROPERTY StopsOnlyWhenEmpty
PROPERTY EndsWhenAllHaveLeft
PROPERTY SignalStops
