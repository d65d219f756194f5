SPECIFICATION Spec
CONSTANTS
    HeartbeatTimeout = 3
    InactivityTimeout = 5
    Waits = {0}
    Modes = {"silent", "live"}
    DiskFaults = TRUE
    MaxMessages = 2
    QueueLimit = 1
INVARIANTS
    LogLevelRestored
