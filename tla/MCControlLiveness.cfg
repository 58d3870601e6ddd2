SPECIFICATION Spec
CONSTANTS
    NumSensors = 2
    Available = {1}
    MaxNumOfLog = 2
    Capacity = 2
    Margin = 1
    MailboxSize = 2
    ClientSettings <- MCClientSettings
    Erased = Erased
    Ruined = Ruined
PROPERTIES
    StopCompletes
