SPECIFICATION FairSpec
CONSTANTS
    HeartbeatTimeout = 3
    InactivityTimeout = 5
    Waits = {0, 2}
    Modes = {"silent", "live"}
    DiskFaults = TRUE
    MaxMessages = 3
    QueueLimit = 2
INVARIANTS
    Inv
    SpeechRestored
    AllReleased
    SilenceBounded
    IdleBounded
    RequestPrompt
PROPERTIES
    HeartbeatHonest
    SessionEnds
