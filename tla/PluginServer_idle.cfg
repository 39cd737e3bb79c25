CONSTANTS
    c1 = c1
    c2 = c2
    c3 = c3
    Conns <- TwoConns
    MaxFds = 12
    BacklogLen = 2
    MaxAccepts = 3
SPECIFICATION FairSpec
PROPERTY IdleClosed
CHECK_DEADLOCK FALSE
