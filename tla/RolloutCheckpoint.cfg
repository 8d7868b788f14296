SPECIFICATION FairSpec
CONSTANTS
    Rows <- FourRows
    MaxCrashes = 2
    MaxErrors = 2
    Configs <- All
INVARIANTS
    MissingBounded
    UnsavedBounded
PROPERTIES
    ResultsKept
    RerunsComplete
