SPECIFICATION FairSpec
CONSTANTS
    Tools <- MCTools
    Capabilities <- MCCapabilities
    CapabilityOf <- MCCapabilityOf
    Announcements <- MCAnnouncements
    Agents = {a1}
    Heartbeats = {hb}
    Main = main
    MaxSessions = 2
PROPERTIES
    LossNoticed
    ExitFollows
