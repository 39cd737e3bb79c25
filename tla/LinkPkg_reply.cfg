CONSTANTS
    Absent <- MCAbsent
    Documents <- MCDocuments
    Requests = {"current", "stale", "report", "link", "foreign"}
    MaxSent = 2
    HeapBlocks = 3
SPECIFICATION Spec
INVARIANTS  HalfBuiltTellable 
     OldRightAnswer
CHECK_DEADLOCK FALSE
