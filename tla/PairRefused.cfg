SPECIFICATION Spec
CONSTANTS
    Sizes = {2}
    MaxPosition = 2
    PartialClose = FALSE
    MaxCrashes = 0
    MaxReductions = 0
INVARIANTS
    NoOrderConfirmedIsTerminal
