SPECIFICATION FairSpec
CONSTANTS
    MaxStarts = 3
INVARIANTS
    Inv
    StoppedIsStopped
    OneSession
    NoSessionMissed
    DialogCurrent
PROPERTIES
    ImplementsService
    StopReturns
