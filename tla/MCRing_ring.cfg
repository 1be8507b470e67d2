SPECIFICATION Spec
CONSTANTS
    Chan <- OneChan
    Latency = 1
    MinLen = 2
    WordMod = 16
    StaleAfter = 3
    MaxFrames = 2
    Environments <- MCEnvironments
INVARIANTS
    TypeOK
    NeverEarly
PROPERTIES
    DueIsKept
    TailIsPlayed
    IsJitterBuffer
