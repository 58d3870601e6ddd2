SPECIFICATION Spec
CONSTANTS
    Freq = 4
    Wrap = 16
    Period = 8
    Latency = 7
    Steps = {1, 2, 3, 5, 7}
    Dates <- MCDates
    MaxReadings = 6
    MaxTicks = 48
\* The bound on the ticks stops the model.
CHECK_DEADLOCK FALSE
INVARIANTS
    DateIsRead
