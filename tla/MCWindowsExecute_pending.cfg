SPECIFICATION Spec
CONSTANTS
    Capacity = 1
    MaxWrites = 2
    Characters = {"a"}
    MaxLength = 3
    MaxArguments = 2
INVARIANTS AllPipesPend
CHECK_DEADLOCK FALSE
