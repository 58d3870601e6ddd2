SPECIFICATION Spec
CONSTANTS
    DetectionDelay = 2
    LongPush = 5
    VeryLongPush = 4
    LedPeriod = 2
    Blank = 2
    Latency = 1
INVARIANT
    AsleepIsDark
