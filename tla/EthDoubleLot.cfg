SPECIFICATION InventorySpec
CONSTANTS
    LotCap = 2
    HedgeRetries = 1
    Faults <- MCLate
    MaxMishaps = 0
    MaxIntents = 1
INVARIANT TradingMatchesVenues
CHECK_DEADLOCK FALSE
