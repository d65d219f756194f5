SPECIFICATION FairSpec
CONSTANTS
    Texts = {"w"}
    Windows = {"a"}
    Timeouts = {0, 1}
    GestureTimeout = 1
    Settle = 1
    MaxEntries = 3
    MaxIds = 2
    MaxCalls = 2
INVARIANTS
    Inv
    ReadsTile
    WaitExact
    PressOrder
PROPERTIES
    CallAnswered
