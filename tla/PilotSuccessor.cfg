SPECIFICATION FairPilot
CONSTANTS
    MaxTier = 1
    Edges = {0, 3}
    Rearm = 1
    MaxRounds = 2
    MaxActions = 3
    MaxDeaths = 0
PROPERTY RoundsAreEntered
CHECK_DEADLOCK FALSE
