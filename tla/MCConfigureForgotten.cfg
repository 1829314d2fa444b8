SPECIFICATION BridgeSpec
CONSTANTS
    Calls = {c1, c2}
    EnvToken = FALSE
    MaxFaults = 0
CHECK_DEADLOCK FALSE
INVARIANT
    ConfigureLasts
