SPECIFICATION Spec
CONSTANTS
    p1 = p1
    n1 = n1
    n2 = n2
    NoConn = NoConn
    Conns <- OpenConns
    Kind <- OpenKind
    Units <- CountUnits
    Ended <- NoneBefore
    Started <- NoneBefore
    Outlasts <- NoneBefore
    Prompt <- NoClients
    Brisk <- NoClients
    MaxFd = 3
    MAX_NON_PERSISTENT = 1
    BUFFER_SIZE = 1
    INACTIVE_TIMEOUT = 1
    NO_EVENT_TIMEOUT = 2
    Signals = FALSE
    MaxFailures = 1
    PACKET_SIZE = 1
    SUMMARY_INTERVAL = 1
    MAX_ROWS = 1
    WORD = 16
    MaxClock = 0
CHECK_DEADLOCK FALSE
INVARIANT StatsTypeOK
INVARIANT PairsAreSplit
