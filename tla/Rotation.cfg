SPECIFICATION MCSpec
CONSTANTS
    ConfirmInitialFlat = TRUE
    Continuous = TRUE
    Manual = TRUE
    Faults = {"supervisor dies", "runtime dies", "start fails", "heartbeat stalls"}
    MaxFaults = 1
    MaxRuns = 3
    MaxTrades = 1
    MaxMoves = 2
INVARIANTS TypeOK OneRuntime ReceiptHolds WtiEntersBesideFlatEth
PROPERTIES HandOverIsFlat ColdDrainEnds
CHECK_DEADLOCK FALSE
