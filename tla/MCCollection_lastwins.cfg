SPECIFICATION Spec
CONSTANTS
    NumNames = 3
    NumResolvers = 3
    Names <- OverlapNames
    Patterned <- OverlapPatterned
    Matches <- OverlapMatches
    Program <- OverlapProgram
    Asked <- OverlapAsked
    Supplied <- OverlapSupplied
    Queries <- OverlapQueries
PROPERTIES
    LastAddedWins
CHECK_DEADLOCK FALSE
