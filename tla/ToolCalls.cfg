SPECIFICATION FairSpec
CONSTANTS
    LoopbackHosts <- MCLoopbackHosts
    LowerCase <- MCLowerCase
    c1 = c1
    c2 = c2
    Callers = {c1, c2}
    Asks <- MCAsks
    Setups <- MCSetups
    Announcements <- MCAnnouncements
    Namespaces <- MCNamespaces
    MaxDials = 2
INVARIANTS
    Inv
    DialHonest
    NothingUnannounced
    RemedyIsRight
PROPERTIES
    LoadIsLayered
    CallEnds
