SPECIFICATION FairSpec
CONSTANTS
    Capacity = 1
    MaxWrites = 2
    ExitCodes <- MCExitCodes
INVARIANTS
    ThrowReapsChild
    NoOutputLost
    TimeoutKillsGroup
    TimeoutIsOwn
PROPERTIES
    ExecuteReturns
CHECK_DEADLOCK FALSE
