SPECIFICATION FairSpec
CONSTANTS
    Callers = {c1, c2}
    Budget = 2
    WaitSlack = 1
    PlainTimes = {0, 1, 4}
    WaitTimes = {1}
    MaxCalls = 3
INVARIANTS
    Inv
PROPERTIES
    NothingAfterTimeout
    WaitNotCutFirst
    CallReturns
