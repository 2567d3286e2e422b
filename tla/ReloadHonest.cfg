SPECIFICATION ConnSpec
CONSTANTS
    Outputs <- OutputsMC
    MaxInputs = 1
    MaxPings = 1
INVARIANT ReloadHonest
CHECK_DEADLOCK FALSE
