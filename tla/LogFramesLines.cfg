SPECIFICATION Spec
CONSTANTS
    Payloads <- HardPayloads
    MaxFrames = 2
    BufSize = 16
INVARIANT
    SendsLogLines
CHECK_DEADLOCK FALSE
