SPECIFICATION BridgeSpec
CONSTANTS
    Readers = {"eth"}
    Lanes = 1
    MaxCommands = 1
    MaxSockets = 1
INVARIANT NoOrderIsTrue
CHECK_DEADLOCK FALSE
