SPECIFICATION FairSpec
CONSTANTS
    PROGRAMS <- AllPrograms
    TCP_CONN = 3
    PACKETS = 2
    MAY_REFUSE = {2}
    MAY_RESET = {1}
    MaxSpurious = 1
CHECK_DEADLOCK FALSE
INVARIANT TypeOK
INVARIANT NoLostWakeup
INVARIANT StrictConnectionOrder
INVARIANT RoundsAgree
INVARIANT FairShares
PROPERTY TakesTurns
PROPERTY EndsOrStandsBehindLeaver
