SPECIFICATION FairSpec
CONSTANTS
    NumFacts = 4
    NumFiles = 4
    NumResolutions = 9
    MaxResolutions = 2
    MaxFlushes = 1
    BuiltIn <- FilesBuiltIn
    FromEnvironment <- FilesEnvironment
    FileFact <- FilesFileFact
    Statements <- FilesStatements
    FactOf <- FilesFactOf
    NameOf <- FilesNameOf
    Aggregates <- FilesAggregates
    HasWeight <- FilesHasWeight
    Confines <- FilesConfines
    Asks <- FilesAsks
CHECK_DEADLOCK FALSE
INVARIANTS
    TypeOK
    FilesDefineOnce
    AnswersAgree
    IteratorsStayValid
    EnvironmentWins
PROPERTIES
    HeavierAskedFirst
    CallsReturn
