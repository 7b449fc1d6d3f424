SPECIFICATION Spec
CONSTANTS
    MaxLines = 2
    ChanSize = 1
    TailCount = 1
    SockCap = 1
    Blank <- FirstLine
INVARIANT
    CloseIsAnnounced
