CONSTANTS
    c1 = c1
    c2 = c2
    svrVersion = 1000
    FileLen = 5
    Clients <- OneClient
    Requests <- VersionOnly
    Patient = {}
    Window = 2
    MaxReqs = 2
    FileFlaky = FALSE
    HighMark = 10
    HeapBlocks = 5
SPECIFICATION Spec
INVARIANT EveryRequestAnswered
CHECK_DEADLOCK FALSE
