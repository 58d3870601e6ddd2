SPECIFICATION Spec
CONSTANTS
    DetectionDelay = 1
    LongPush = 3
    VeryLongPush = 2
    LedPeriod = 2
    Blank = 1
    Latency = 1
INVARIANTS
    TypeOK
    HeldIsReported
    FormatIsHeld
PROPERTIES
    SignOfLife
