SPECIFICATION FairSpec
CONSTANTS
    NumChunks = 3
    MaxRedefinitions = 1
    RequireLists <- GraphLists
INVARIANTS
    TypeOK
PROPERTIES
    AnswerHasEveryChunk
    EvaluationEnds
