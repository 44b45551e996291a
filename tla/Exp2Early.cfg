SPECIFICATION Spec
CONSTANTS
    PACKETS = 2
    NoConn = NoConn
    MaxFd = 2
    BUFFER_SIZE = 2
    PACKET_SIZE = 1
    Signals = FALSE
    MaxFailures = 0
    MaxCount = 3
CHECK_DEADLOCK FALSE
INVARIANT BothStayConnected
