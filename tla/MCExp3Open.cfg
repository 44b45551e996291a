SPECIFICATION FairSpec
CONSTANTS
    p1 = p1
    n1 = n1
    n2 = n2
    NoConn = NoConn
    Conns <- OpenConns
    Kind <- OpenKind
    Units <- OpenUnits
    Ended <- NoneBefore
    Started <- NoneBefore
    Outlasts <- NoneBefore
    Prompt <- NoClients
    Brisk <- NoClients
    MaxFd = 3
    MAX_NON_PERSISTENT = 1
    BUFFER_SIZE = 1
    INACTIVE_TIMEOUT = 1
    NO_EVENT_TIMEOUT = 2
    Signals = TRUE
    MaxFailures = 1
CHECK_DEADLOCK FALSE
INVARIANT NoForgottenConnection
INVARIANT NeverOvercounts
PROPERTY StopsWhenQuiet
