SPECIFICATION Spec
CONSTANTS
    ConfirmInitialFlat = TRUE
    Continuous = TRUE
    Manual = FALSE
    Faults = {"runtime dies"}
    MaxFaults = 1
    MaxRuns = 3
    MaxTrades = 1
    MaxMoves = 2
INVARIANT NoEntryBesideOrphan
CHECK_DEADLOCK FALSE
