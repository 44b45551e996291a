SPECIFICATION Spec
CONSTANTS
    p1 = p1
    n1 = n1
    n2 = n2
    n3 = n3
    NoConn = NoConn
    Conns <- TestConns
    Kind <- TestKind
    Units <- TestUnits
    Ended <- OneByOne
    Started <- AfterP
    Outlasts <- POutlasts
    Prompt <- TestConns
    Brisk <- NoClients
    MaxFd = 3
    MAX_NON_PERSISTENT = 1
    BUFFER_SIZE = 2
    INACTIVE_TIMEOUT = 1
    NO_EVENT_TIMEOUT = 2
    Signals = FALSE
    MaxFailures = 0
    PACKET_SIZE = 2
    SUMMARY_INTERVAL = 2
    MAX_ROWS = 2
    WORD = 16
    MaxClock = 3
CHECK_DEADLOCK FALSE
INVARIANT DurationWithinRun
