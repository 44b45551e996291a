SPECIFICATION FairSpec
CONSTANTS
    NoConn = NoConn
    Conns <- ThreeConns
    Units <- Packets
    Ended <- NoneBefore
    Started <- StartOrder
    Outlasts <- NoneBefore
    MaxFd = 2
    PROGRAMS <- BothServers
    TCP_CONN = 3
    LINE = 2
    BUFFER_SIZE = 3
    MAX_OUT_OF_ORDER = 2
    MAX_CONNECTIONS = 3
    MAX_EVENTS = 2
CHECK_DEADLOCK FALSE
INVARIANT TypeOK
INVARIANT ReportsOvertaken
INVARIANT LogFollowsStream
INVARIANT NothingStranded
PROPERTY ArrivedIsRead
