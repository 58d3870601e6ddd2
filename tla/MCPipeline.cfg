SPECIFICATION Spec
CONSTANTS
    NumSensors = 2
    MailboxSize = 4
    QueueSize = 3
INVARIANTS
    TypeOK
    OwnRecording
    StoppedIsDrained
    FlagMeansTask
PROPERTIES
    MailboxServed
