SPECIFICATION Spec
CONSTANTS
    NumSensors = 1
    MaxLogs = 2
    Capacity = 2
    PerPacket = 1
    TxSlots = 1
    Starts = {0}
    Clients = {"SDK", "plain"}
    Sessions = {"log"}
    StoredSizes = {1}
\* A device that has failed a checked call stops (and starts anew).
CHECK_DEADLOCK FALSE
INVARIANTS
    TypeOK
PROPERTIES
    ReadsAreFaithful
    ReadEnds
