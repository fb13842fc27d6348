SPECIFICATION Spec
CONSTANTS
    Hosts <- MCHosts
    Spelling <- MCSpelling
    CommandLines <- MCCommandLines
    RawQueries <- MCRawQueries
    Layouts <- MCLayouts
    Environments <- MCEnvironments
    Customs <- MCCustoms
    LowerCase <- MCLowerCase
INVARIANTS StrongestSourceWins ExitTellsLoss AnswersAreFound ListingIsWhole
CHECK_DEADLOCK FALSE
