SPECIFICATION FairSpec
CONSTANTS
    Sizes = {2}
    MaxPosition = 4
    PartialClose = TRUE
    MaxCrashes = 1
    MaxReductions = 0
PROPERTIES
    UnsentPartialLegIsResumed
