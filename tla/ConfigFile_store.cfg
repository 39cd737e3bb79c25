CONSTANTS
    Caps <- SmallLetters
    High <- HighBytes
    Sections <- MCSections
    Keys <- MCKeys
    SetValues <- MCValues
    Lines <- MCLines
    MaxLines = 4
    OtherLines <- MCOtherLines
    Texts <- MCTexts
    BufSize = 8
    MaxLen = 16
SPECIFICATION Spec
INVARIANTS FindsTheItem KeepsTheRest 
PROPERTY Promise
