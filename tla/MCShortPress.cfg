SPECIFICATION Spec
CONSTANTS
    DetectionDelay = 2
    LongPush = 5
    VeryLongPush = 4
    LedPeriod = 20
    Blank = 1
    Latency = 2
INVARIANT
    HeldLongEnough
