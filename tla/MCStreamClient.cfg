SPECIFICATION FairSpec
CONSTANTS
    PROGRAMS <- AllPrograms
    BUFFER_SIZE = 3
    SNDBUF = 4
    MSGS_PER_CONN = 3
    NUM_MESSAGES = 5
    CHECK_EVERY = 3
    MaxMsgs = 7
    MaxCloses = 2
CHECK_DEADLOCK FALSE
INVARIANT TypeOK
INVARIANT StreamIsWhole
INVARIANT ReportAddsUp
INVARIANT OverrunIsBounded
PROPERTY EndsOrIsHeldUp
