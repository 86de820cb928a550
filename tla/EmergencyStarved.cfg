SPECIFICATION FairAccount
CONSTANTS
    ChecksToOpen = 3
    MaxLots = 2
    MaxOrder = 1
    MaxChanges = 1
PROPERTY EmergencyIsExited
CHECK_DEADLOCK FALSE
