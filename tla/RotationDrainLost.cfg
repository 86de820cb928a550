SPECIFICATION FairSpec
CONSTANTS
    ConfirmInitialFlat = TRUE
    Continuous = TRUE
    Manual = TRUE
    Faults = {"supervisor dies"}
    MaxFaults = 1
    MaxRuns = 3
    MaxTrades = 0
    MaxMoves = 1
PROPERTY DrainEnds
CHECK_DEADLOCK FALSE
