SPECIFICATION Spec
CONSTANTS
    Tools <- MCTools
    Capabilities <- MCCapabilities
    CapabilityOf <- MCCapabilityOf
    Announcements <- MCAnnouncements
    Agents = {a1, a2}
    Heartbeats = {hb}
    Main = main
    MaxSessions = 2
PROPERTIES
    NeverSwitched
