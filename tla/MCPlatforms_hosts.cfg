SPECIFICATION Spec
CONSTANTS
    Hosts <- MCHosts
    Queries <- MCQueries
    MaxQueries = 2
    Word <- MCWord
    Word32 <- MCWord32
INVARIANTS OrderDoesNotMatter OldAndNewAgree SizesAreShownRight NamesAreAnnounced
CHECK_DEADLOCK FALSE
