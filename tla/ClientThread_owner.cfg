SPECIFICATION FairSpec
CONSTANTS
    Params = {p1, p2}
    NoParam = NoParam
CHECK_DEADLOCK FALSE
INVARIANTS
    ThreadTypeOK
    HandlesAgree
    ParamOfItsStart
    
PROPERTY
    WaitEnds
