SPECIFICATION FairSpec
CONSTANTS
    Sizes = {2}
    MaxPosition = 4
    PartialClose = FALSE
    MaxCrashes = 1
    MaxReductions = 1
INVARIANTS
    NeverReversed
PROPERTIES
    PendingIsDecided
