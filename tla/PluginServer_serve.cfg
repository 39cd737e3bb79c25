CONSTANTS
    c1 = c1
    c2 = c2
    c3 = c3
    Conns <- ThreeConns
    MaxFds = 11
    BacklogLen = 2
    MaxAccepts = 4
SPECIFICATION FairSpec
INVARIANTS ServerTypeOK NothingLeaked
PROPERTIES QueueServed 
CHECK_DEADLOCK FALSE
