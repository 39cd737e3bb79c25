CONSTANTS
    c1 = c1
    c2 = c2
    svrVersion = 1000
    FileLen = 4194260
    Clients <- TwoClients
    Requests <- Mixed
    Patient <- OneClient
    Window = 2
    MaxReqs = 2
    FileFlaky = TRUE
    HighMark = 5
    HeapBlocks = 3
SPECIFICATION Spec
INVARIANTS SessionTypeOK   ReplyFramed RightAnswer
 
CHECK_DEADLOCK FALSE
