SPECIFICATION Spec
CONSTANTS
    NumSensors = 1
    MaxLate = 600
    TimerPeriod = 10
    Periods <- UsualPeriods
    Shortest <- Slow
    Waits <- Brightness
    Conversions <- Brightness
PROPERTIES
    NoDrift
    EarlyOnlyWhenLate
