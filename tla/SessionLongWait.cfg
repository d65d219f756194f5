SPECIFICATION Spec
CONSTANTS
    HeartbeatTimeout = 3
    InactivityTimeout = 5
    Waits = {0, 4}
    Modes = {"silent", "live"}
    DiskFaults = FALSE
    MaxMessages = 2
    QueueLimit = 1
PROPERTIES
    WaitCannotTrip
