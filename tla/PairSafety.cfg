SPECIFICATION Spec
CONSTANTS
    Sizes = {2}
    MaxPosition = 4
    PartialClose = TRUE
    MaxCrashes = 2
    MaxReductions = 0
INVARIANTS
    TypeOK
    SentAtMostOnce
    UnresolvedOrderBlocks
    ClaimIsTrue
PROPERTIES
    VariationalFirst
