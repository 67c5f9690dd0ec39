SPECIFICATION Spec
CONSTANTS
    MaxCounter = 1
    MaxAttempts = 2
    Validity = 1
    Margin = 2
    Lag = 1
    Fresh = 0
    MaxReclaims = 0
    MaxFaults = 1
    Reinstalls = FALSE
CHECK_DEADLOCK FALSE
INVARIANT
    DepositedOnce
