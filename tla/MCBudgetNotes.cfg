SPECIFICATION BudgetSpec
CONSTANTS
    NumSensors = 5
    MaxLate = 0
    TimerPeriod = 10
    Periods <- NotedPeriods
    Shortest <- ShortestNRF51
    Waits <- AtOnce
    Conversions <- AtOnce
    SampleSize <- Bytes
    SectorSize = 4096
    MailboxSize = 40
    EraseTicks = 12
    Recorded = 409000
INVARIANTS
    NoOverflow
