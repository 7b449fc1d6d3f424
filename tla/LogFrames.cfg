SPECIFICATION Spec
CONSTANTS
    Payloads <- AllPayloads
    MaxFrames = 3
    BufSize = 16
INVARIANTS
    TailLinesArePlain
    FollowKeepsText
    AggregateIsSplit
CHECK_DEADLOCK FALSE
