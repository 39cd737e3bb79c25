CONSTANTS
    c1 = c1
    c2 = c2
    Conns <- TwoConns
    MaxFds = 24
    FdSetSize = 20
    BacklogLen = 2
SPECIFICATION FairSpec
INVARIANTS TypeOK FdOwnership QueuesAgree
PROPERTIES CloseOnlyOwn  HangUpReaped  OnlyFinitelyManyAccepts
CHECK_DEADLOCK FALSE
