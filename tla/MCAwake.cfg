SPECIFICATION Spec
CONSTANTS
    NumSensors = 2
    Available = {1, 2}
    MaxNumOfLog = 2
    Capacity = 2
    Margin = 1
    MailboxSize = 1
    ClientSettings <- MCClientSettings
    Erased = Erased
    Ruined = Ruined
INVARIANTS
    AwakeUnlessAsleep
