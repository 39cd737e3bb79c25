CONSTANTS
    c1 = c1
    c2 = c2
    svrVersion = 1000
    FileLen = 5
    Clients <- TwoClients
    Requests <- VersionOnly
    Patient <- TwoClients
    Window = 1
    MaxReqs = 3
    FileFlaky = FALSE
    HighMark = 6
    HeapBlocks = 3
SPECIFICATION FairSpec
PROPERTY Promise
CHECK_DEADLOCK FALSE
