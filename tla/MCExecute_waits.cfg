SPECIFICATION Spec
CONSTANTS
    Capacity = 1
    MaxWrites = 1
    ExitCodes <- MCExitCodes
INVARIANT ReturnWaitsForChild
CHECK_DEADLOCK FALSE
