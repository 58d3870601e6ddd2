SPECIFICATION Spec
CONSTANTS
    NumSensors = 1
    MaxLogs = 1
    Capacity = 2
    PerPacket = 1
    TxSlots = 1
    Starts = {0}
    Clients = {"SDK", "plain"}
    Sessions = {"notify"}
    StoredSizes = {2}
CHECK_DEADLOCK FALSE
INVARIANTS
    EndOfDataIsEnd
