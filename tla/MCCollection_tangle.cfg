SPECIFICATION FairSpec
CONSTANTS
    NumNames = 5
    NumResolvers = 5
    Names <- TangleNames
    Patterned <- TanglePatterned
    Matches <- TangleMatches
    Program <- TangleProgram
    Asked <- TangleAsked
    Supplied <- TangleSupplied
    Queries <- TangleQueries
INVARIANTS
    TypeOK
    ResolvedOnce
    IndexesAgree
    AnswerIsComplete
    NoInvalidIterator
    HeldValuesStay
PROPERTIES
    SeenFactsStay
    RefinesLazyFacts
    CallsReturn
CHECK_DEADLOCK FALSE
